CONSTANTS
    QualifiedNames = {"s1", "s2"}
    m1 = m1
    m2 = m2
    Machines = {m1, m2}
    ThisMachine = m1
    AnyMachine = AnyMachine
    nil = nil
    Configs <- MCConfigs
    Hardware <- MCHardware
    Names = {"s1", "s2"}
    Limit = 2
    MaxEdits = 1
SPECIFICATION Spec
INVARIANTS
    VerifyIsExact
    LookupAgrees
    
    NoDeviceTwice
