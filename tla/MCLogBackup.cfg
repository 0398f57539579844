SPECIFICATION FairSpec
CONSTANTS
    Seed = Seed
    R1 = R1
    NoStorage = NoStorage
    Storages = {S1, S2}
    Restores <- MCRestores
    Scenarios <- MCScenarios
INVARIANTS
    CredentialsMatchStream
    SeededBeforeStream
    NameFreeOfOldCluster
    NoOrphanTask
PROPERTIES
    StreamStopsBeforeCluster
    StreamNeverMovesInPlace
    DeletionCompletes
    StreamFollowsSpec
CHECK_DEADLOCK FALSE
