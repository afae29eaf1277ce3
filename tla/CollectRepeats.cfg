\* Two sessions of one Trace that do not change; the run must find the repetition.
SPECIFICATION Spec
CONSTANTS
    LastSource = 2
    Stamped <- MCFiles
    TraceOf <- MCSame
    MaxContent = 1
    Foreign = {}
    Uploader = {u1}
    MaxArchive = 2
    MaxStop = 0
    None = None
INVARIANT OnlyNewOrChanged
