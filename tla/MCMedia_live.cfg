SPECIFICATION FairSpec
CONSTANTS
    j1 = j1
    j2 = j2
    NoJob = NoJob
    Jobs = {j1, j2}
    Kinds = {"sticker", "video"}
    Sources = {"path"}
    Ticks = {1}
    Versions = {1}
    Noise = {0, 1, 2}
    PipeSize = 1
CHECK_DEADLOCK FALSE
PROPERTY JobEnds
