SPECIFICATION Spec
CONSTANTS
    k1 = k1
    k2 = k2
    r1 = r1
    r2 = r2
    r3 = r3
    NoCard = NoCard
    creditLeftamtStr = 2
    Amount <- MCAmount
    Card <- MCCard
    Slot <- MCSlot
SYMMETRY Symmetry
INVARIANTS ButtonNeedsPlan LoanNamesAmountAndCard PlanWithinLimit
