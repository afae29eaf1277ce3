\* Three Traces in two rows, four Revisions in three, one normalizer upgrade.
SPECIFICATION Spec
CONSTANTS
    Native <- MCNative
    Files <- MCFiles
    OwnerOf <- MCOwnerOf
    MaxTrace = 2
    MaxRevision = 3
    MaxVersion = 2
    None = None
INVARIANTS MadeFromOwnFiles OwnUnlessMisled
