SPECIFICATION Spec
CONSTANTS
    Backups = {b1}
    Restores = {r1}
    TicksPerSecond = 2
    MaxTime = 3
INVARIANTS
    WholeWindowIsHonoured
