\* One Trace, deleted and imported again, two Revisions, two collected titles, every order.
SPECIFICATION Spec
CONSTANTS
    Native = {a}
    Collected = {one, two}
    Manual = {manual}
    Found1 = one
    Normalizations <- MCNormalizations
    MaxTrace = 1
    MaxRevision = 2
    MaxTime = 2
    MaxDelete = 1
    BatchSize = 2
    None = None
INVARIANTS StoredTitlesIndexed
PROPERTIES CollectedTitleKept
