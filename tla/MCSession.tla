----------------------------- MODULE MCSession -----------------------------
(* TLC instance of Scheduler and PaneLoad.  A session is one of collects    *)
(* (Scheduler!Next), or of cursor moves and user work (PaneNext), whose     *)
(* parts of the scheduler's state do not meet; each has its own counters.   *)
EXTENDS PaneLoad
CONSTANTS t1, t2, a, b
VARIABLE session

TwoTargets == {t1, t2}
TwoPaths   == {a, b}
AllTags    == {"BulkRemote", "DefaultBranch", "Write", "Other"}

sessionVars == <<vars, paneVars, session>>

Collecting_ == session = "collects" /\ UNCHANGED <<paneVars, session>>
Working_    == session = "keys" /\ UNCHANGED session

SessionInit ==
    \/ /\ session = "collects" /\ Init
       /\ cursor = t1 /\ paneReq = t1 /\ onWorkspace = TRUE /\ revision = 0
       /\ pane = Load(t1, 0) /\ loading = pane /\ excused = {}
    \/ session = "keys" /\ PaneInit

SessionNext ==
    \/ Next /\ Collecting_
    \/ PaneNext /\ Working_

\* The fairness of both.
SessionFairness ==
    /\ WF_sessionVars(Collecting_ /\ Spawn)
    /\ \A g \in 1..MaxGen : WF_sessionVars(Collecting_ /\ WalkEnds(g))
    /\ \A g \in 1..MaxGen, p \in Paths : WF_sessionVars(Collecting_ /\ StatusEnds(g, p))
    /\ WF_sessionVars(Working_ /\ SpawnPane)
    /\ WF_sessionVars(Working_ /\ \E r \in 1..MaxPane : PaneEnds(r))
    /\ \A t \in Tags \ {"BulkRemote"} :
           WF_sessionVars(Working_ /\ UserLands(t) /\ UNCHANGED paneVars)

SessionSpec == SessionInit /\ [][SessionNext]_sessionVars /\ SessionFairness
=============================================================================
