SPECIFICATION CodeFairSpec
CONSTANTS
    c1 = c1
    c2 = c2
    Timer <- MCTimer
    Seconds = 3
    MaxRequests = 3
    MaxBlocks = 2
INVARIANTS FlagHasTick RestEnables LoginButMatchesFields
PROPERTY CountdownEnds
