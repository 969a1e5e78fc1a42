SPECIFICATION Spec
CONSTANTS
    j1 = j1
    j2 = j2
    NoJob = NoJob
    Jobs = {j1, j2}
    Kinds = {"video", "audio", "sticker", "mp3"}
    Sources = {"bytes", "path", "url"}
    Ticks = {1}
    Versions = {1, 2}
    Noise = {0}
    PipeSize = 1
SYMMETRY JobSymmetry
INVARIANTS
    TypeOK
    OutputIsOwn
    ReturnsClean
    LeftoversExplained
    ProbedIsUploaded
CHECK_DEADLOCK FALSE
