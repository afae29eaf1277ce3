\* A deletion while the rebuild holds a batch ends the rebuild.
SPECIFICATION Spec
CONSTANTS
    OldRev = old
    NewRev = new
    TieRev = tie
    OtherRev = other
    Trace <- MCTrace
    Revision = {new, other}
    Key <- MCKey
    Rank = {1, 2, 3}
    OwnerOf <- MCOwnerOf
    UpdatedAt <- MCUpdatedAt
    MaxVersion = 2
    Parse <- MCParse
    BatchSize = 2
    None = None
INVARIANT RebuildReachesAll
