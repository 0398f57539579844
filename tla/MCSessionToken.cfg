SPECIFICATION FairSpec
CONSTANTS
    Tidbs = {t1, t2}
INVARIANTS
    NoVolumeAddedInPlace
    MountedSecretExists
    NeverRejected
PROPERTIES
    GatesStay
    EverySessionCanMove
