\* A session file that is written twice; an interrupted collection, lost uploads.
SPECIFICATION FairSpec
CONSTANTS
    LastSource = 1
    Stamped <- MCFiles
    TraceOf <- MCTwo
    MaxContent = 2
    Foreign = {}
    Uploader = {u1}
    MaxArchive = 2
    MaxStop = 1
    None = None
INVARIANTS OnlyNewOrChanged
PROPERTIES EverythingArrives
