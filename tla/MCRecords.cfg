SPECIFICATION Spec
CONSTANTS
    c1 = c1
    None = None
    Id <- MCId
    Client <- MCClient
    PageSizes = {0, 1}
    DEFAULT_PAGE_SIZE = 2
INVARIANTS
    WalkComplete
PROPERTIES
    DeletedStayHidden
