\* A Trace is deleted while the model is asked for its title.
SPECIFICATION Spec
CONSTANTS
    Native = {a, b}
    Collected = {one, two}
    Manual = {manual}
    Found1 = one
    Normalizations <- MCUntitled
    MaxTrace = 1
    MaxRevision = 2
    MaxTime = 2
    MaxDelete = 1
    BatchSize = 2
    None = None
INVARIANTS GeneratedFromOwn
