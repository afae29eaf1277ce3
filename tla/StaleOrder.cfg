\* A Trace is deleted and another imported: the row ids come back.
SPECIFICATION Spec
CONSTANTS
    Reader = {alice}
    MaxTrace = 1
    MaxRevision = 1
    MaxRun = 1
    MaxEvent = 2
    MaxDelete = 1
    PageSize = 1
    Capacity = 2
    None = None
INVARIANT CacheNeverStale
