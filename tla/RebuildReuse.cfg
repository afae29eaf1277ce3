\* A rebuild that takes the reused rows of a deleted Trace for those it read.
SPECIFICATION Spec
CONSTANTS
    Native <- MCNative
    Files <- MCFiles
    OwnerOf <- MCOwnerOf
    MaxTrace = 2
    MaxRevision = 3
    MaxVersion = 2
    None = None
INVARIANTS KeptInOwnTrace
