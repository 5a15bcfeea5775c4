------------------------------ MODULE TabShell ------------------------------
(***************************************************************************)
(* The window of a signed-in user: three tabs, of which a root screen is   *)
(* loaded when its tab is first selected, and the pages pushed over the    *)
(* root of the selected one. A pushed page hides the tab bar, so that      *)
(* another tab can be selected only when no page is left; one sequence of  *)
(* pages is enough for all three.                                          *)
(***************************************************************************)
EXTENDS Naturals, Sequences

VARIABLES
    tab,      \* the selected tab
    loaded,   \* the tabs whose root has run its viewDidLoad
    pages     \* the pages over the selected tab's root, the top one last

shellVars == <<tab, loaded, pages>>

Tab == {"main", "record", "self"}

ShellTypeOK ==
    /\ tab \in Tab
    /\ loaded \in SUBSET Tab

ShellInit ==
    /\ tab = "main"
    /\ loaded = {"main"}
    /\ pages = <<>>

\* The root of tab t is on the screen and may be touched.
AtRoot(t) ==
    /\ tab = t
    /\ pages = <<>>

Top == pages[Len(pages)]

pushPage(p) ==
    /\ pages' = Append(pages, p)
    /\ UNCHANGED <<tab, loaded>>

popPage ==
    /\ pages # <<>>
    /\ pages' = SubSeq(pages, 1, Len(pages) - 1)
    /\ UNCHANGED <<tab, loaded>>

selectTab(t) ==
    /\ pages = <<>>
    /\ t # tab
    /\ tab' = t
    /\ loaded' = loaded \cup {t}
    /\ UNCHANGED pages
=============================================================================
