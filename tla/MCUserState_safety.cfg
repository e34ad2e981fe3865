SPECIFICATION Spec
CONSTANTS
    Request = {r1, r2, r3}
    u1 = u1
    u2 = u2
    User <- MCUser
    Junk = Junk
    NonString = NonString
    Maps <- MCMaps
    Clears <- MCClears
    MaxOps = 3
    None = None
    Nothing = Nothing
    Unknown = Unknown
INVARIANTS
    TypeOK
    SeenAsExpected
SYMMETRY Symmetry
