SPECIFICATION FairSpec
CONSTANTS
    p1 = p1
    p2 = p2
    p3 = p3
    NoProcess = NoProcess
    Processes = {p1, p2, p3}
    Released = "package"
    OnDisk = {"absent", "old"}
INVARIANTS
    TypeOK
    PartialExplained
PROPERTIES
    CrashExplained
    OverwrittenByLatecomer
    ImportEnds
CHECK_DEADLOCK FALSE
