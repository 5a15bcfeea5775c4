SPECIFICATION Spec
CONSTANTS
    c1 = c1
    c2 = c2
    Cell = {c1, c2}
    NoCell = NoCell
    Watched <- MCWatched
    a1 = a1
    a2 = a2
    a3 = a3
    a4 = a4
    a5 = a5
    p1 = p1
    p2 = p2
    p3 = p3
    p4 = p4
    Asset = {a1, a2, a3, a4, a5}
    Picture = {p1, p2, p3, p4}
    content <- MCContent
    MaxImagesCount = 5
    MaxComplaints = 2
SYMMETRY Symmetry
INVARIANTS
    RaisesOnlySignedOut
    OwnAddress
    AssetsMatchPictures
    DeletionNeverEnds
