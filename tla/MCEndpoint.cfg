SPECIFICATION Spec
CONSTANTS
    e1 = e1
    e2 = e2
    None = None
    Endpoint <- MCEndpoints
    Name = {"Get"}
    Kinds = {"get", "list", "create", "update", "delete"}
    Checkers = {"pass", "reject", "admin", "custom"}
    Types = {"html", "api"}
    Customs = {"fail"}
    Path = {"/own"}
    Sessions <- MCSessions
    MaxCalls = 6
SYMMETRY Symmetry
INVARIANTS
    TypeOK
    NoEffectWithoutRight
    AnswerTellsEffect
    ServedComplete
    OneRoute
