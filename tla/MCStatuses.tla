----------------------------- MODULE MCStatuses -----------------------------
(* TLC instance of the two sides of a status, which share no state: the      *)
(* collect that brings it (StatusCollect, three checkouts) and the Explorer  *)
(* tab that it reaches.  `part` says which one a behaviour is about.         *)
EXTENDS StatusCollect, MCExplorerTab
CONSTANTS a, b, c
VARIABLE part

ThreePaths == {a, b, c}
Symmetry == Permutations(ThreePaths)

statusesVars == <<vars, explorerVars, part>>

Collecting_ == part = "collect" /\ UNCHANGED <<explorerVars, part>>
Exploring_  == part = "explorer" /\ UNCHANGED <<vars, part>>

StatusesInit == part \in {"collect", "explorer"} /\ Init /\ ExplorerInit

StatusesNext ==
    \/ Collecting_ /\ Next
    \/ Exploring_ /\ ExplorerNext

StatusesSpec == StatusesInit /\ [][StatusesNext]_statusesVars
=============================================================================
