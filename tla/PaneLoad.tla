------------------------------ MODULE PaneLoad ------------------------------
(***************************************************************************)
(* The right pane follows the cursor: requests, loads on a worker and      *)
(* results of tui/effect.rs and tui/effect/job_release.rs, on top of the   *)
(* pane methods of Scheduler.                                              *)
(*                                                                         *)
(* Every move of the cursor asks for a load.  One load runs at a time; a   *)
(* result is shown only if no newer request came and it is still the row   *)
(* under the cursor.  `revision` counts the changes of that row's checkout *)
(* that a status result reported; a load shows at least the revision of    *)
(* the moment it started.  Other tabs park the pane.  Pane loads share the *)
(* local lane and the user queue with the rest of the user's work, which   *)
(* Scheduler's own actions queue and end.                                  *)
(*                                                                         *)
(* Left out: drill depths (a depth is part of the row a target names) and  *)
(* the older graph pages that a new graph cancels.                         *)
(***************************************************************************)
EXTENDS Scheduler

CONSTANTS Targets      \* rows the cursor can stand on

ASSUME PaneAssumption == Targets # {} /\ MaxPane >= 2 * MaxUser + 1

VARIABLES cursor,      \* the row under the cursor
          onWorkspace, \* the Workspace tab is the active one
          revision,    \* changes reported for the row's checkout
          paneReq,     \* target of the last request (Interpreter::pane_req)
          loading,     \* what the load on the worker will show
          pane,        \* what the pane shows
          excused      \* why the pane may be behind, since the last request

paneVars == <<cursor, onWorkspace, revision, paneReq, loading, pane, excused>>

Load(t, r) == [target |-> t, revision |-> r]

PaneLive == \E j \in Live(sched) : IsPane(j)

\* The inputs of a session; each adds at most two requests.
Input == asked < MaxUser /\ asked' = asked + 1

\* First paint asks for the first load (event_loop.rs).
PaneInit ==
    /\ cursor \in Targets /\ paneReq = cursor
    /\ onWorkspace = TRUE /\ revision = 0
    /\ sched = RequestPane(InitSched)
    /\ pane = Load(NoPath, 0) /\ loading = pane
    /\ excused = {}
    /\ row = [p \in Paths |-> 0] /\ shown = {} /\ asked = 0

-----------------------------------------------------------------------------

\* What the event leaves of the scheduler is `s`; ask for the row under `c`.
AskFor(s, c) ==
    /\ sched' = RequestPane(s)
    /\ paneReq' = c
    /\ excused' = {}

\* A key or a click moves the cursor, or asks for the same row again as the
\* end of a write does.  On another tab it leaves the pane alone.
MoveCursor(t) ==
    /\ Input /\ onWorkspace
    /\ cursor' = t
    /\ AskFor(sched, t)
    /\ UNCHANGED <<onWorkspace, revision, loading, pane, row, shown>>

\* A status result shows a change in the focused checkout.
StatusChanged ==
    /\ Input
    /\ revision' = revision + 1
    /\ IF onWorkspace THEN AskFor(sched, cursor)
       ELSE excused' = excused \union {"parked"} /\ UNCHANGED <<sched, paneReq>>
    /\ UNCHANGED <<cursor, onWorkspace, loading, pane, row, shown>>

\* A walk no longer finds the focused checkout: its row goes and the cursor
\* falls to another one, without a request.
CheckoutVanishes(t) ==
    /\ Input /\ t # cursor
    /\ cursor' = t
    /\ excused' = excused \union {"vanished"}
    /\ UNCHANGED <<sched, onWorkspace, revision, paneReq, loading, pane, row, shown>>

SwitchTab ==
    /\ Input
    /\ onWorkspace' = ~onWorkspace
    /\ UNCHANGED <<sched, cursor, revision, paneReq, loading, pane, excused, row, shown>>

\* One turn of spawn_ready: if the job is the pane's, it loads what was last
\* asked for, as it is now.
SpawnPane ==
    /\ CanSpawn(sched)
    /\ sched' = SpawnNext(sched)
    /\ loading' = IF sched'.paneInflight # sched.paneInflight
                  THEN Load(paneReq, revision) ELSE loading
    /\ UNCHANGED <<cursor, onWorkspace, revision, paneReq, pane, excused, row, shown, asked>>

\* Mutant: a row that moved meanwhile is forgotten.
PaneLands_Any(r) ==
    /\ LoadPane(r) \in InFlight(sched)
    /\ pane' = loading
    /\ sched' = [NoteJobFinished(sched, LoadPane(r)) EXCEPT !.paneInflight = 0, !.panePending = FALSE]
    /\ UNCHANGED <<cursor, onWorkspace, revision, paneReq, loading, excused, row, shown, asked>>

\* JobOutcome::RightPane.
PaneLands(r) ==
    LET s        == NoteJobFinished(sched, LoadPane(r))
        accepted == PaneAccepted(s, r)
        landed   == AcceptPaneResult(s, r)
    IN /\ LoadPane(r) \in InFlight(sched)
       /\ IF ~onWorkspace
          THEN /\ sched' = landed
               /\ excused' = IF accepted THEN excused \union {"parked"} ELSE excused
               /\ UNCHANGED <<pane, paneReq>>
          ELSE IF loading.target # cursor
          THEN AskFor(landed, cursor) /\ UNCHANGED pane
          ELSE /\ sched' = landed
               /\ pane' = IF accepted THEN loading ELSE pane
               /\ UNCHANGED <<paneReq, excused>>
       /\ UNCHANGED <<cursor, onWorkspace, revision, loading, row, shown, asked>>

\* Mutant: a panicked load keeps the pane's slot.
PanePanics_Leak(r) ==
    /\ LoadPane(r) \in InFlight(sched)
    /\ sched' = NoteJobFinished(sched, LoadPane(r))
    /\ excused' = IF PaneAccepted(sched, r) THEN excused \union {"panic"} ELSE excused
    /\ UNCHANGED <<cursor, onWorkspace, revision, paneReq, loading, pane, row, shown, asked>>

PanePanics(r) ==
    /\ LoadPane(r) \in InFlight(sched)
    /\ sched' = AcceptPaneResult(NoteJobFinished(sched, LoadPane(r)), r)
    /\ excused' = IF PaneAccepted(sched, r) THEN excused \union {"panic"} ELSE excused
    /\ UNCHANGED <<cursor, onWorkspace, revision, paneReq, loading, pane, row, shown, asked>>

PaneEnds(r) == PaneLands(r) \/ PanePanics(r)

PaneNext ==
    \/ \E t \in Targets : MoveCursor(t)
    \/ StatusChanged
    \/ \E t \in Targets : CheckoutVanishes(t)
    \/ SwitchTab
    \/ SpawnPane
    \/ \E r \in 1..MaxPane : PaneLands(r)
    \/ \E r \in 1..MaxPane : PanePanics(r)
    \/ \E t \in Tags : Enqueue(t) /\ UNCHANGED paneVars
    \/ \E t \in Tags : UserLands(t) /\ UNCHANGED paneVars

\* The live loop spawns after every event, and pane git and local user work
\* have a deadline.  Nothing is assumed of remote jobs.
PaneFairness ==
    /\ WF_<<vars, paneVars>>(SpawnPane)
    /\ WF_<<vars, paneVars>>(\E r \in 1..MaxPane : PaneEnds(r))
    /\ \A t \in Tags \ {"BulkRemote"} :
           WF_<<vars, paneVars>>(UserLands(t) /\ UNCHANGED paneVars)

PaneSpec == PaneInit /\ [][PaneNext]_<<vars, paneVars>> /\ PaneFairness

-----------------------------------------------------------------------------
(* Properties *)

\* One load of the pane is queued or on a worker, never two, and a request
\* that arrived meanwhile is remembered exactly while one is on a worker.  No
\* result asks for another load for ever.
OnePaneLoad ==
    /\ TypeOK
    /\ Cardinality({i \in DOMAIN sched.user : IsPane(sched.user[i])}) +
       Cardinality({j \in InFlight(sched) : IsPane(j)}) <= 1
    /\ sched.paneInflight # 0 <=> \E j \in InFlight(sched) : IsPane(j)
    /\ sched.panePending => sched.paneInflight # 0
    /\ sched.paneLatest <= 2 * asked + 1

\* Cursor moves, changes, and results that land late or not at all: when no
\* load is outstanding the pane shows the row under the cursor, and no older
\* state of it.  The exceptions are the three that the code makes: the newest
\* load panicked, it was missed while another tab was active, or the focused
\* checkout vanished; the next request ends each.
PaneSettled ==
    /\ OnePaneLoad
    /\ ~PaneLive /\ excused = {} => pane = Load(cursor, revision)

\* The pane catches up with the last input of a session.
PaneCatchesUp == <>[](excused # {} \/ pane = Load(cursor, revision))

\* docs/configuration.md:332 "focusing a repo/dir at depth 0 shows the
\* multi-branch commit graph in the right pane".
PaneFollowsFocus ==
    ~PaneLive /\ onWorkspace /\ excused \subseteq {"vanished"} => pane.target = cursor

-----------------------------------------------------------------------------
(* The inductive invariant of SchedulerProofs *)

QueuedPane(s) == \E j \in ToSet(s.user) : IsPane(j)

\* The scheduler's side: the queue holds the newest load or none, a load on a
\* worker keeps it empty, and is remembered to be outdated exactly when it is.
PaneShape(s) ==
    /\ \A i, k \in DOMAIN s.user : IsPane(s.user[i]) /\ IsPane(s.user[k]) => i = k
    /\ \A j \in ToSet(s.user) :
           IsPane(j) => j = LoadPane(s.paneLatest) /\ s.paneInflight = 0 /\ s.paneLatest # 0
    /\ \A j \in ToSet(s.status) : ~IsPane(j)
    /\ \A j \in InFlight(s) :
           IsPane(j) => j = LoadPane(s.paneInflight) /\ s.paneInflight # 0 /\ s.inflight[j] = 1
    /\ s.paneInflight # 0 => LoadPane(s.paneInflight) \in InFlight(s)
    /\ s.paneInflight <= s.paneLatest
    /\ s.panePending <=> s.paneInflight # 0 /\ s.paneInflight # s.paneLatest
    /\ \A j \in Live(s) : j.kind \in {"pane", "user"}

\* No collect runs in a session of keys.
NoCollects(s) ==
    /\ s.nextGen = 1 /\ s.col = NoCollection /\ s.latched = FALSE
    /\ s.pathGen = [p \in Paths |-> 0]

\* A load that is outstanding will find the cursor elsewhere and ask again.
AsksAgain ==
    \/ sched.paneInflight # 0 /\ loading.target # cursor
    \/ (QueuedPane(sched) \/ sched.panePending) /\ paneReq # cursor

PaneIInv ==
    /\ PaneShape(sched) /\ NoCollects(sched)
    /\ asked \in 0..MaxUser
    /\ sched.paneLatest + (IF AsksAgain THEN 1 ELSE 0) <= 2 * asked + 1
    /\ excused = {} => paneReq = cursor
    /\ excused = {} /\ sched.paneInflight # 0 /\ sched.paneInflight = sched.paneLatest
          => loading = Load(cursor, revision)
    /\ excused = {} /\ ~QueuedPane(sched) /\ sched.paneInflight = 0
          => pane = Load(cursor, revision)
=============================================================================
