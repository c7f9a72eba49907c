CONSTANTS
    n1 = n1
    n2 = n2
    s1 = s1
    s2 = s2
    nil = nil
    Nodes = {n1, n2}
    Reports <- MCReports
    MaxConns = 2
    Lifetime = 3
    MaxPushes = 2
    MaxLosses = 1
    MaxChanges = 2
SPECIFICATION FairSpec
INVARIANTS
    TypeOK
    RunningNodeKept
PROPERTIES
    TotalIsSum
    Converges
