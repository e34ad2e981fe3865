SPECIFICATION FairSpec
CONSTANTS
    app = app
    db = db
    redis = redis
    l1 = l1
    l2 = l2
    g1 = g1
    none = none
    None = none
    Starter <- MCStarter
    Priority <- MCPriority
    Listener <- MCTwoListeners
    Registrar <- MCOneRegistrar
INVARIANTS
    NotifiedInOrder
    TypeOK
    Ledger
    QueueOrder
    CompleteMeansAll
PROPERTIES
    ImplementsOrder
    EveryStarterStarts
    RegistrarSettles
