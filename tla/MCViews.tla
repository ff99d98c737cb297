------------------------------- MODULE MCViews -------------------------------
(* TLC instance of five components of the views that share no state: the      *)
(* graph's gutter, its pages, pull request lookups, latest-only slots and the *)
(* parallel map.  `part` says which one a behaviour is about; the others stay *)
(* as they start.                                                            *)
EXTENDS GraphLanes, MCGraphPages, PrLookups, LatestOnly, ParallelMap
CONSTANTS x, y, p1, p2, p3
VARIABLE part

-----------------------------------------------------------------------------
(* Values of the constants; those of the pages are in MCGraphPages.          *)

\* Two clones, of one remote or of two.
TwoClones  == {x, y}
RemoteMaps == {[c \in TwoClones |-> "origin"], [c \in TwoClones |-> IF c = x THEN "origin" ELSE "fork"]}
OneBranch  == {"feature"}
TwoFacts   == {"running", "merged"}

\* Two overlapping kinds that share a tag with plain jobs (Quick Open, with
\* the stale chunks of the search in files), a kind of a view, and a serial
\* kind that no view asks for (Doctor).
FourKinds   == {"index", "chunk", "blame", "doctor"}
SerialKinds == {"blame", "doctor"}
ViewKinds   == {"blame"}
StaleKinds  == {"chunk", "doctor"}
ThreeTags   == {"files", "blame", "doctor"}
TheirTag    == [k \in FourKinds |-> IF k \in SerialKinds THEN k ELSE "files"]
TheirRank   == [k \in FourKinds |-> IF k = "index" THEN 1 ELSE 2]
PlainTags   == {"files"}

ThreeThreads == {p1, p2, p3}

-----------------------------------------------------------------------------

viewsVars == <<graphVars, pageVars, prVars, vars, parVars, part>>

Lanes_  == part = "lanes" /\ UNCHANGED <<pageVars, prVars, vars, parVars, part>>
Pages_  == part = "pages" /\ UNCHANGED <<graphVars, prVars, vars, parVars, part>>
Pulls_  == part = "pulls" /\ UNCHANGED <<graphVars, pageVars, vars, parVars, part>>
Latest_ == part = "latest" /\ UNCHANGED <<graphVars, pageVars, prVars, parVars, part>>
Map_    == part = "map" /\ UNCHANGED <<graphVars, pageVars, prVars, vars, part>>

\* A part that stands still has one initial state.
ViewsInit ==
    /\ part \in {"lanes", "pages", "pulls", "latest", "map"}
    /\ GraphInit /\ PagesInit /\ PrInit /\ Init /\ ParInit
    /\ part # "pages" => view.cursor = A
    /\ part # "pulls" => Cardinality(PrKeys) = 1 /\ prInputs = 0

ViewsNext ==
    \/ Lanes_ /\ GraphNext
    \/ Pages_ /\ PagesNext
    \/ Pulls_ /\ PrNext
    \/ Latest_ /\ Next
    \/ Map_ /\ ParNext

\* The fairness of each part.
ViewsFairness ==
    /\ WF_viewsVars(Pages_ /\ SpawnLoad) /\ WF_viewsVars(Pages_ /\ SpawnOlder)
    /\ WF_viewsVars(Pages_ /\ LoadEnds) /\ WF_viewsVars(Pages_ /\ OlderEnds)
    /\ PrFairness
    /\ \A t \in Tags : WF_viewsVars(Latest_ /\ Spawn(t))
    /\ \A k \in Kinds : WF_viewsVars(Latest_ /\ Lands(k))
    /\ \A t \in Threads : WF_viewsVars(Map_ /\ ThreadStep(t))
    /\ WF_viewsVars(Map_ /\ Receive) /\ WF_viewsVars(Map_ /\ FinishMap)

ViewsSpec == ViewsInit /\ [][ViewsNext]_viewsVars /\ ViewsFairness
=============================================================================
