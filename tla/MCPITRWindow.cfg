SPECIFICATION FairSpec
CONSTANTS
    Backups = {b1, b2}
    Restores = {r1}
    TicksPerSecond = 2
    MaxTime = 3
INVARIANTS
    WindowIsHonoured
    RestoreIsCovered
PROPERTIES
    WindowOnlyGrows
    ChosenOnce
    ImplementsRestorablePoints
    RestoreIsDecided
