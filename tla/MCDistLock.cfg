SPECIFICATION FairSpec
CONSTANTS
    c1 = c1
    c2 = c2
    None = None
    Client <- MCTwoClients
    Expire <- MCExpire
    Second = 4
    MaxTtl = 12
INVARIANTS
    TypeOK
    UserOwnsKey
    MutualExclusion
PROPERTIES
    ExtendNeverShortens
    CrashedLetsGo
