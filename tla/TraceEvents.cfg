\* Four Revisions of two Traces and one normalizer upgrade.
SPECIFICATION Spec
CONSTANTS
    OldRev = old
    NewRev = new
    TieRev = tie
    OtherRev = other
    Trace <- MCTrace
    Revision = {old, new, tie, other}
    Key <- MCKey
    Rank = {1, 2, 3}
    OwnerOf <- MCOwnerOf
    UpdatedAt <- MCUpdatedAt
    MaxVersion = 2
    Parse <- MCParse
    BatchSize = 2
    None = None
INVARIANTS IInv EventsDetermined RebuildCovers LinksOpen
PROPERTIES StaleImportKeeps FailedParseKeeps
