SPECIFICATION Spec
CONSTANTS
    b1 = b1
    b2 = b2
    b3 = b3
    k1 = k1
    k2 = k2
    r1 = r1
    r2 = r2
    NoCard = NoCard
    Bill <- MCBill
    Due <- MCDue
    Card <- MCCard
    Slot <- MCSlot
SYMMETRY Symmetry
INVARIANTS RequestPaysWhatItNames SelectionMatchesField SumToTheCent
PROPERTY AmountSettledUnderSheet
