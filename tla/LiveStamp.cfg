\* A session that is written while it is copied; the run must find what is left behind.
SPECIFICATION Spec
CONSTANTS
    LastSource = 1
    Stamped <- MCFiles
    TraceOf <- MCTwo
    MaxContent = 2
    Foreign = {}
    Uploader = {u1}
    MaxArchive = 1
    MaxStop = 0
    None = None
INVARIANT NothingLeftBehind
