SPECIFICATION Spec
CONSTANTS
    h1 = h1
    h2 = h2
    r1 = r1
    r2 = r2
    HomeSlot = {h1, h2}
    RecSlot = {r1, r2}
    Fact <- MCFact
    MaxAge = 1
    NoModel = NoModel
    NoReq = NoReq
    NoCall = NoCall
    LendState = {3, 4}
SYMMETRY Symmetry
INVARIANTS
    SelfAgrees
    DetailOfItsKind
    RepaymentAsAnnounced
PROPERTIES
    OlderOnlyIfOvertaken
