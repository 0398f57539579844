SPECIFICATION Spec
CONSTANTS
    Tidbs = {t1, t2}
INVARIANTS
    SigningBringsWait
