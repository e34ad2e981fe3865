SPECIFICATION Spec
CONSTANTS
    r1 = r1
    r2 = r2
    r3 = r3
    Default = Default
    Other = Other
    id = id
    required = required
    ranged = ranged
    Bad = Bad
    None = None
    Request <- MCTwo
    Name <- MCNames
    DEFAULT <- Default
    IdSet <- id
    NumField = 2
    Rules <- MCRules
    IdRules <- required
    TagChoices <- MCBad
SYMMETRY Symmetry
INVARIANTS
    IncorrectRulesPanic
