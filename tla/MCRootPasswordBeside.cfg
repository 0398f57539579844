SPECIFICATION Spec
CONSTANTS
    Generated = {p1, p2}
    Backups = {b1}
    Foreign = {f}
    Restores = {r1}
    MayAlter = FALSE
SYMMETRY Alike
INVARIANTS
    BackupsRemember
