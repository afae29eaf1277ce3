\* Two uploads, a status and a worker with two connections; three rows, pages of one,
\* batches of two; a log of four records, pages of one.
SPECIFICATION MCSpec
CONSTANTS
    u1 = u1
    u2 = u2
    r1 = r1
    o1 = o1
    Upload = {u1, u2}
    Reader = {r1}
    Other = {o1}
    Pool = 2
    MaxImport = 3
    MaxStart = 2
    MaxId = 3
    MaxTime = 2
    Content <- MCContent
    Limit = 1
    BatchSize = 2
    Selective = 2
    Lists = {"trace", "imports", "search", "indexed"}
    LogCapacity = 4
    MaxSeq = 7
    MaxProcess = 2
    PageLimit = 1
    None = None
INVARIANTS PagesOrdered PagesWhole LogPagesWhole IncompleteWereInterrupted
PROPERTIES PagesEnd RequestsEnd
CHECK_DEADLOCK FALSE
