\* Archives as in Sources.cfg: the server takes ZIPs the uploader's own limits refuse.
SPECIFICATION MCSpec
CONSTANTS
    Session <- MCSession
    MaxClock = 2
    ChunkSize = 2
    Thread = {t1, t2, t3}
    PageSize = 2
    Slots = 2
    Transcripts <- MCTranscripts
    Inputs <- MCInputs
    SourcePath = {pa, pb, pc}
    Slashes <- MCSlashes
    Start <- MCStart
    Bytes <- MCBytes
    SizeOf <- MCSizeOf
    ManifestSize <- MCManifestSize
    DescriptorSize <- MCDescriptorSize
    ZIPSize <- MCZIPSize
    SplitSize = 1
    WriteDepth = 5
    DefaultLimits <- MCDefaultLimits
    ServerLimits <- MCServerLimits
    MaxChange = 1
    Files <- MCFiles
    MaxClimb = 10
    Sessions <- MCSessions
    t1 = t1
    t2 = t2
    t3 = t3
    pa = pa
    pb = pb
    pc = pc
    b1 = b1
    b2 = b2
    b3 = b3
    None = None
INVARIANT LargestTraceImportable
CHECK_DEADLOCK FALSE
