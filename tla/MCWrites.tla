------------------------------ MODULE MCWrites ------------------------------
(* TLC instance of two things that write and share no state: the remote queue *)
(* of two linked worktrees, and the store files of three processes.  `part`   *)
(* says which one a behaviour is about.                                       *)
EXTENDS MCRemoteQueue, Persist
CONSTANTS a, b, c
VARIABLE part

\* Two processes of one workspace and one of another, and the legacy bucket,
\* which nobody saves.
Three     == {a, b, c}
Places    == {"x", "y", "legacy"}
PlaceOf   == [p \in Three |-> IF p = c THEN "y" ELSE "x"]
Contents2 == {"old", "new"}

writesVars == <<vars, persistVars, part>>

Queue_  == part = "queue" /\ UNCHANGED <<persistVars, part>>
Saves_  == part = "saves" /\ UNCHANGED <<vars, part>>

\* A part that stands still has one initial state.
WritesInit ==
    /\ part \in {"queue", "saves"} /\ Init /\ PersistInit
    /\ part = "queue" => file = Gone

WritesNext ==
    \/ Queue_ /\ Next
    \/ Saves_ /\ PersistNext

\* A part that stands still has no step that a fairness asks for.
WritesSpec == WritesInit /\ [][WritesNext]_writesVars /\ Fairness /\ PersistFairness
=============================================================================
