CONSTANTS
    a1 = a1
    a2 = a2
    c1 = c1
    c2 = c2
    c3 = c3
    nil = nil
    Apqns <- MCApqns
    Configs <- MCConfigs
    Without <- MCWithout
    Defs <- MCDefs
    Limit = 1
    MaxEvents = 1
    MaxRestarts = 0
SPECIFICATION FairSpec
CHECK_DEADLOCK FALSE
PROPERTY StopTerminates
