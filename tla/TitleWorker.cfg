\* Two Traces in the worker's queue, which takes one or both.
SPECIFICATION FairSpec
CONSTANTS
    Native = {a, b}
    Collected = {}
    Manual = {manual}
    Found1 = None
    Normalizations <- MCUntitled
    MaxTrace = 2
    MaxRevision = 2
    MaxTime = 1
    MaxDelete = 1
    BatchSize = 2
    None = None
PROPERTIES EveryTraceTried
