SPECIFICATION Spec
CONSTANTS
    Generated = {p1, p2}
    Backups = {b1}
    Foreign = {f}
    Restores = {r1, r2}
    MayAlter = TRUE
SYMMETRY Alike
INVARIANTS
    ConnectionWorks
    QuietBackupsRemember
PROPERTIES
    NewestRestoreWins
    UserPasswordStays
