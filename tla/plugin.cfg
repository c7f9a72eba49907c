CONSTANTS
    a1 = a1
    a2 = a2
    c1 = c1
    c2 = c2
    c3 = c3
    nil = nil
    Apqns <- MCApqns
    Configs <- MCConfigs
    Without <- MCWithout
    Defs <- MCDefs
    Limit = 1
    MaxEvents = 2
    MaxRestarts = 1
SPECIFICATION FairSpec
CHECK_DEADLOCK FALSE
INVARIANTS
    TypeOK
    StopIsFinal
    NotificationNotLost
PROPERTY Converges
