CONSTANTS
    d1 = d1
    Devices = {d1}
    IfUnused = 2
    AfterUse = 1
    AllocTime = 1
    MaxFaults = 0
SPECIFICATION Spec
INVARIANT HeldHasResources
