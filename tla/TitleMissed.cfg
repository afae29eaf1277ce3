\* Messages arrive after the worker has found none.
SPECIFICATION Spec
CONSTANTS
    Native = {a}
    Collected = {one, two}
    Manual = {manual}
    Found1 = one
    Normalizations <- MCUntitled
    MaxTrace = 1
    MaxRevision = 2
    MaxTime = 2
    MaxDelete = 0
    BatchSize = 2
    None = None
INVARIANTS NothingMissed
