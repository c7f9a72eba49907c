CONSTANTS
    s1 = s1
    s2 = s2
    d1 = d1
    nil = nil
    Sets = {s1, s2}
    Devs = {d1}
    PollTime = 1
    MaxMoves = 2
    MaxRequests = 2
    MaxFails = 1
SPECIFICATION FairSpec
INVARIANTS
    TypeOK
    RunningIsCounted
PROPERTIES
    UseSettles
    RequestsAreReal
