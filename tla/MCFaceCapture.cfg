SPECIFICATION FairSpec
CONSTANTS
    c1 = c1
    c2 = c2
    None = None
    Capture <- MCCapture
    MaxQueue = 1
INVARIANTS OneFacePerCapture RaisesOnlyForBadImage
PROPERTIES SentFaceIsShown ResultCloses
