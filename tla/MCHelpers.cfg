SPECIFICATION HelpersSpec
CONSTANTS
    None = None
    Nil = Nil
    Empty = Empty
    Caller = {c1, c2}
    Val = {v1, v2, Empty}
    Time = 3
    Call = {1, 2, 3}
INVARIANTS
    EmptyWasMissing
    RefreshedStays
    OwnVerdict
    SuccessWasSaid
PROPERTIES
    StringsSurvive
