\* Two readers of up to two Traces, of two events each, share a cache of two orders.
SPECIFICATION Spec
CONSTANTS
    Reader = {alice, bob}
    MaxTrace = 2
    MaxRevision = 2
    MaxRun = 2
    MaxEvent = 2
    MaxDelete = 1
    PageSize = 1
    Capacity = 2
    None = None
INVARIANTS CacheFresh PagesFound WholeTranscript CacheConsistent
