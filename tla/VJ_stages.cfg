SPECIFICATION Spec
CONSTANTS
    Threads = {t1, t2}
    MaxAuto = 1
    MaxRetries = 2
    MaxCrashes = 1
SYMMETRY Symmetry
INVARIANTS
    OneAtWork
    StagesSettled
    ManifestComplete
