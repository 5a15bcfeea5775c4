SPECIFICATION Spec
CONSTANTS
    t1 = t1
    t2 = t2
    t3 = t3
    s1 = s1
    s2 = s2
    s3 = s3
    NoToken = NoToken
    Token <- MCToken
    Slot <- MCSlot
SYMMETRY Symmetry
INVARIANTS LoginScreenMeansSignedOut DiskLagsOnlyRemoval SignedOutTabsKeepAToken
PROPERTIES LiveSessionDroppedOnlyByStaleAnswer SignedOutTabsOnlyByUpload ImplementsLife
