SPECIFICATION Spec
CONSTANTS
    Generated = {p1, p2}
    Backups = {b1}
    Foreign = {}
    Restores = {r1}
    MayAlter = TRUE
SYMMETRY Alike
INVARIANTS
    RestoresSwitchPassword
