SPECIFICATION Spec
CONSTANTS
    Id <- MCId
    Parent <- MCParent
    MaxNodes = 4
INVARIANTS
    Linked
    NothingLost
