CONSTANTS
    d1 = d1
    Devices = {d1}
    IfUnused = 3
    AfterUse = 1
    AllocTime = 2
    MaxFaults = 2
SPECIFICATION FairSpec
INVARIANTS
    TypeOK
    UnknownDeviceIsSafe
    NoBareNodeHandedOut
PROPERTIES
    LossOnlyWhenUnlisted
    Reclaimed
