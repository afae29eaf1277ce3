\* Two sessions of one Trace, two uploads at a time, a ZIP of another machine.
SPECIFICATION Spec
CONSTANTS
    LastSource = 2
    Stamped <- MCFiles
    TraceOf <- MCSame
    MaxContent = 1
    Foreign <- MCForeign
    Uploader = {u1, u2}
    MaxArchive = 2
    MaxStop = 0
    None = None
SYMMETRY Uploads
INVARIANTS AcknowledgedIsStored OneRevisionEach LeftOutIsStored
