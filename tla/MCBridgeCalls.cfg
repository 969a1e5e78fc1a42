\* Two threads, and every method of NewClient.
SPECIFICATION Spec
CONSTANTS
    Threads = {t1, t2}
    Called <- AllMethods
SYMMETRY ThreadSymmetry
INVARIANTS
    TypeOK
    ReturnedIsDone
    NothingDangling
    DeathExplained
CHECK_DEADLOCK FALSE
