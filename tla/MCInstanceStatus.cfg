SPECIFICATION FairSpec
CONSTANTS
    Core = {tikv, tidb}
    Extra = {tiflash}
    Seeded = TRUE
    CanFail = TRUE
INVARIANTS
    ReadyMeansRestored
PROPERTIES
    UpdatesStayUpdates
    CalmIsReady
