\* A Trace is displayed with a title no search finds.
SPECIFICATION Spec
CONSTANTS
    Native = {a}
    Collected = {one, two}
    Manual = {manual}
    Found1 = one
    Normalizations <- MCNormalizations
    MaxTrace = 1
    MaxRevision = 2
    MaxTime = 2
    MaxDelete = 0
    BatchSize = 2
    None = None
INVARIANTS TitlesSearchable
