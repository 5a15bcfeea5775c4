SPECIFICATION TouchFairSpec
CONSTANTS
    nextBut = nextBut
    sureBut = sureBut
    barBut = barBut
    Button <- MCButton
    Throttled <- MCThrottled
    timeInterval <- MCInterval
    MaxNow = 7
INVARIANTS Spacing
PROPERTY Recovers
CHECK_DEADLOCK FALSE
