\* The same between two pages of a load, with the cache emptied in between.
SPECIFICATION Spec
CONSTANTS
    Reader = {alice}
    MaxTrace = 1
    MaxRevision = 1
    MaxRun = 1
    MaxEvent = 4
    MaxDelete = 1
    PageSize = 1
    Capacity = 2
    None = None
INVARIANT NeverClaimsWhole
