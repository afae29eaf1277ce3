\* Two upgrades, each of which renames a key: the first link is lost.
SPECIFICATION Spec
CONSTANTS
    OldRev = old
    NewRev = new
    TieRev = tie
    OtherRev = other
    Trace <- MCTrace
    Revision = {new, tie}
    Key <- MCKey
    Rank = {1, 2, 3}
    OwnerOf <- MCOwnerOf
    UpdatedAt <- MCUpdatedAt
    MaxVersion = 3
    Parse <- MCParse
    BatchSize = 2
    None = None
INVARIANT LinksOpen
