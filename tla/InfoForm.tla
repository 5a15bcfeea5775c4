------------------------------ MODULE InfoForm ------------------------------
(***************************************************************************)
(* The applicant's form (ApplicationInformationViewController): a table    *)
(* whose cells are reused, two rows of which hold a field for an address.  *)
(* The text of that field lives in the cell, and the controller points at  *)
(* the fields of the cells that served those rows last. Everything else is *)
(* kept by the controller.                                                 *)
(***************************************************************************)
CONSTANTS
    Cell,    \* bound: the table's cells
    NoCell,  \* no cell
    Watched  \* bound: the entries that are followed; the others are there
             \* from the start, and stay

\* NoCell is none of the cells.
ASSUME CellAssumption == NoCell \notin Cell

VARIABLES
    entry,                 \* the entries the controller keeps
    cellAt,                \* the cell that serves a row, or NoCell
    bottomTextFiled,       \* the text of each cell's address field
    houseAddressTextFile,  \* the field the controller takes for the home's
    workAddressTextFile,   \* and for the employer's
    custAddr, workAddr,    \* custInfoModel: the addresses to be sent
    infoNext,              \* nextBut.enabled
    served                 \* history: the address rows each cell ever served

infoVars == <<entry, cellAt, bottomTextFiled, houseAddressTextFile, workAddressTextFile,
              custAddr, workAddr, infoNext, served>>

\* The rows that are told apart: the two with an address, and the others.
AddressRow == {"house", "work"}
Row == AddressRow \cup {"other"}

\* The entries, by who gives them: a picker, which always gives one; the
\* alert of a contact, whose two fields may be left empty; an edit in the row.
Picked == {"custEducation", "custMarrsign", "custAreacode", "workAreacode",
           "custCorpkind", "custIncome"}
Contact == {<<"relation1Name", "relation1Mobile">>, <<"relation2Name", "relation2Mobile">>}
Typed == {"custCorpration", "custJob"}

\* Mutated form of Checked: the job is not looked at.
CheckedButJob ==
    {"custEducation", "custMarrsign", "custAreacode", "relation1Mobile", "relation1Name",
     "relation2Mobile", "relation2Name", "custCorpration", "workAreacode", "custCorpkind",
     "custIncome"}

\* What checkButtonEnble looks at, and what the literal of the submission
\* takes, the two addresses aside.
Checked ==
    {"custEducation", "custMarrsign", "custAreacode", "relation1Mobile", "relation1Name",
     "relation2Mobile", "relation2Name", "custCorpration", "workAreacode", "custCorpkind",
     "custJob", "custIncome"}
Submitted ==
    {"custEducation", "custMarrsign", "custAreacode", "relation1Mobile", "relation1Name",
     "relation2Mobile", "relation2Name", "custCorpration", "workAreacode", "custCorpkind",
     "custJob", "custIncome"}
Entry == Checked \cup Submitted

NoEntry == [e \in Entry |-> IF e \in Watched THEN "nil" ELSE "text"]
Given(e) == IF e \in Watched THEN {"", "text"} ELSE {"text"}

\* An address is told apart by the row it was typed in.
Address == {"", "house", "work"}

InfoTypeOK ==
    /\ entry \in [Entry -> {"nil", "", "text"}]
    /\ cellAt \in [Row -> Cell \cup {NoCell}]
    /\ bottomTextFiled \in [Cell -> Address]
    /\ houseAddressTextFile \in Cell \cup {NoCell}
    /\ workAddressTextFile \in Cell \cup {NoCell}
    /\ custAddr \in Address \cup {"nil"}
    /\ workAddr \in Address \cup {"nil"}
    /\ infoNext \in BOOLEAN
    /\ served \in [Cell -> SUBSET AddressRow]

InfoInit ==
    /\ entry = NoEntry
    /\ cellAt = [r \in Row |-> NoCell]
    /\ bottomTextFiled = [c \in Cell |-> ""]
    /\ houseAddressTextFile = NoCell
    /\ workAddressTextFile = NoCell
    /\ custAddr = "nil"
    /\ workAddr = "nil"
    /\ infoNext = FALSE
    /\ served = [c \in Cell |-> {}]

infoDidLoad ==
    /\ entry' = NoEntry
    /\ cellAt' = [r \in Row |-> NoCell]
    /\ bottomTextFiled' = [c \in Cell |-> ""]
    /\ houseAddressTextFile' = NoCell
    /\ workAddressTextFile' = NoCell
    /\ custAddr' = "nil"
    /\ workAddr' = "nil"
    /\ infoNext' = FALSE
    /\ served' = [c \in Cell |-> {}]

-----------------------------------------------------------------------------
(* The table.                                                              *)

\* Mutated form of servesAddress: both rows are taken for the home's.
servesAddressHouse(r, c) ==
    /\ houseAddressTextFile' = IF r \in AddressRow THEN c ELSE houseAddressTextFile
    /\ UNCHANGED workAddressTextFile

servesAddress(r, c) ==
    /\ houseAddressTextFile' = IF r = "house" THEN c ELSE houseAddressTextFile
    /\ workAddressTextFile' = IF r = "work" THEN c ELSE workAddressTextFile

\* A row comes into view and gets any cell that is free, with the text that
\* is in its address field (cellForRowAtIndexPath: sets the others only).
cellForRow(r) ==
    /\ cellAt[r] = NoCell
    /\ \E c \in Cell :
        /\ \A q \in Row : cellAt[q] # c
        /\ cellAt' = [cellAt EXCEPT ![r] = c]
        /\ servesAddress(r, c)
        /\ served' = [served EXCEPT ![c] = @ \cup ({r} \cap AddressRow)]
    /\ UNCHANGED <<entry, bottomTextFiled, custAddr, workAddr, infoNext>>

\* A row goes out of view; its cell may serve another.
hideRow(r) ==
    /\ cellAt[r] # NoCell
    /\ cellAt' = [cellAt EXCEPT ![r] = NoCell]
    /\ UNCHANGED <<entry, bottomTextFiled, houseAddressTextFile, workAddressTextFile,
                   custAddr, workAddr, infoNext, served>>

\* The text of a field that may not be there.
TextOf(f) == IF f = NoCell THEN "nil" ELSE bottomTextFiled[f]

checkButtonEnble ==
    /\ custAddr' = TextOf(houseAddressTextFile)
    /\ workAddr' = TextOf(workAddressTextFile)
    /\ infoNext' = /\ \A e \in Checked : entry'[e] = "text"
                   /\ custAddr' \notin {"nil", ""}
                   /\ workAddr' \notin {"nil", ""}

\* The result of a picker or of a contact's alert: the table is reloaded, but
\* its rows get their cells after the check.
didSelectRow ==
    /\ \/ \E e \in Picked : entry' = [entry EXCEPT ![e] = "text"]
       \/ \E c \in Contact : \E name \in Given(c[1]), mobile \in Given(c[2]) :
              entry' = [entry EXCEPT ![c[1]] = name, ![c[2]] = mobile]
    /\ cellAt' = [r \in Row |-> NoCell]
    /\ checkButtonEnble
    /\ UNCHANGED <<bottomTextFiled, houseAddressTextFile, workAddressTextFile, served>>

\* The end of an edit of the employer or the job.
textFieldShouldEndEditing ==
    /\ cellAt["other"] # NoCell
    /\ \E e \in Typed : \E t \in Given(e) : entry' = [entry EXCEPT ![e] = t]
    /\ checkButtonEnble
    /\ UNCHANGED <<cellAt, bottomTextFiled, houseAddressTextFile, workAddressTextFile, served>>

\* An address is typed, or emptied; nobody hears of it.
typeAddress(r) ==
    /\ r \in AddressRow
    /\ cellAt[r] # NoCell
    /\ \E t \in {"", r} : bottomTextFiled' = [bottomTextFiled EXCEPT ![cellAt[r]] = t]
    /\ UNCHANGED <<entry, cellAt, houseAddressTextFile, workAddressTextFile,
                   custAddr, workAddr, infoNext, served>>

\* The dictionary literal raises on a nil, that of the user's id included.
infoLiteralRaises(signedIn) ==
    \/ ~signedIn
    \/ \E e \in Submitted : entry[e] = "nil"
    \/ custAddr = "nil"
    \/ workAddr = "nil"
=============================================================================
