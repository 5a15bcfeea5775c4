SPECIFICATION AuthSpec
CONSTANTS
    s1 = s1
    s2 = s2
    AuthSlot = {s1, s2}
    MaxDepth = 9
    MaxTurned = 1
    NoList = NoList
    NoRequest = NoRequest
SYMMETRY Symmetry
INVARIANTS
    FinishMeansAllPassed
    SubmittedInOrder
PROPERTIES
    BackwardsOnlyFromBelow
    ImplementsOrder
