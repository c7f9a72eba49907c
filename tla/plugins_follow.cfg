CONSTANTS
    m1 = m1
    QualifiedNames = {"s1", "s2"}
    Machines = {m1}
    ThisMachine = m1
    AnyMachine = AnyMachine
    nil = nil
    Missing = Missing
    Contents <- MCContents
    Valid <- MCValid
    Hardware <- MCHardware
    Readers = {"s1", "s2"}
    MaxEdits = 3
    EditsDuringUpdate = FALSE
SPECIFICATION ManagerFairSpec
INVARIANTS
    ManagerTypeOK
    ReaderInStep
    ManagerInStep
    DisjointInStep
PROPERTIES
    FollowsFile
    PluginsFollow
    RunningServeCurrent
