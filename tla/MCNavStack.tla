----------------------------- MODULE MCNavStack -----------------------------
(* The three tabs with every screen of the application; two requests let   *)
(* a button be submitted twice, or two screens wait at the same time.      *)
EXTENDS NavStack, TLC

CONSTANTS r1, r2

Graph == INSTANCE ScreenGraph

MCSlot == {r1, r2}
MCScreen == Graph!AllScreens
MCHome == Graph!Tabs
MCBack == Graph!PopsTop
MCclass(k) == Graph!classOf(k)
MCPushes == Graph!AllPushes
MCAnswers == Graph!AllAnswers
MCMessages == Graph!AllMessages
MCGoesHome == Graph!FinishAuthenGoesHome \cup Graph!LoanOningGoesHome
Symmetry == Permutations(MCSlot)
=============================================================================
