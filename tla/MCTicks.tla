------------------------------- MODULE MCTicks -------------------------------
(* TLC instance of the two things a watch tick asks for that share no state:  *)
(* the background fetch of two instances of one workspace, with different     *)
(* intervals, and the probes of the compare tabs.  `part` says which one a    *)
(* behaviour is about.                                                        *)
EXTENDS FetchClaim, MCCompareTabs
CONSTANTS a, b
VARIABLE part

Two          == {a, b}
OneWorkspace == {"w"}
InOne        == [i \in Two |-> "w"]
Intervals    == [i \in Two |-> IF i = a THEN 2 ELSE 3]

ticksVars == <<vars, tabVars, part>>

Fetching_ == part = "fetch" /\ UNCHANGED <<tabVars, part>>
Tabs_     == part = "tabs" /\ UNCHANGED <<vars, part>>

TicksInit == part \in {"fetch", "tabs"} /\ Init /\ TabsInit

TicksNext ==
    \/ Fetching_ /\ Next
    \/ Tabs_ /\ TabsNext

\* A part that stands still has no step that either fairness asks for.
TicksSpec == TicksInit /\ [][TicksNext]_ticksVars /\ Fairness /\ TabsFairness
=============================================================================
