SPECIFICATION Spec
CONSTANTS
    r1 = r1
    r2 = r2
    Slot <- MCSlot
    Screen <- MCScreen
    Home <- MCHome
    Back <- MCBack
    class <- MCclass
    Pushes <- MCPushes
    Answers <- MCAnswers
    Messages <- MCMessages
    GoesHome <- MCGoesHome
    SecondFinger = TRUE
    MaxDepth = 9
SYMMETRY Symmetry
INVARIANTS PicturesMatchStack NoScreenTwiceInARow DisplacedOnlyAtRoot
