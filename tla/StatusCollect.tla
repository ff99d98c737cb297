---------------------------- MODULE StatusCollect ----------------------------
(***************************************************************************)
(* What the scheduler promises about collects, without its queues.         *)
(*                                                                         *)
(* A collect is a walk of the workspace followed by one status job per     *)
(* checkout found; `r` on a checkout adds a status job of its own.  Jobs   *)
(* that are outstanding, queued or running alike, may end in any order.    *)
(* Every walk, status job and reload carries a generation, and a result    *)
(* is applied only while it is its checkout's newest.                      *)
(*                                                                         *)
(* Scheduler.tla implements this specification (MCSession.cfg checks it,   *)
(* SchedulerProofs.tla proves it), and StatusCollectProofs.tla proves its  *)
(* invariants for all constants.                                           *)
(***************************************************************************)
EXTENDS Naturals

CONSTANTS Paths,     \* checkouts a workspace walk can find
          MaxGen     \* bound: generations handed out

ASSUME StatusCollectAssumption == MaxGen \in Nat

VARIABLES nextGen,     \* next generation to hand out
          gen,         \* generation of the collect in progress, 0 if none
          discovered,  \* its walk has landed
          pending,     \* checkouts it waits for
          latched,     \* a tick arrived meanwhile: run again
          pathGen,     \* newest generation asked for, per checkout; 0 if none
          walks,       \* generations of outstanding walks
          jobs,        \* outstanding status jobs, <<generation, checkout>>
          row          \* generation of the status last applied, per checkout

collect == <<nextGen, gen, discovered, pending, latched, walks>>
vars    == <<collect, pathGen, jobs, row>>

Init ==
    /\ nextGen = 1
    /\ gen = 0 /\ discovered = FALSE /\ pending = {} /\ latched = FALSE
    /\ walks = {} /\ jobs = {}
    /\ pathGen = [p \in Paths |-> 0]
    /\ row = [p \in Paths |-> 0]

-----------------------------------------------------------------------------

\* A generation is kept back for the rerun of a latched tick.
GenLeft == nextGen + (IF latched THEN 1 ELSE 0) <= MaxGen

\* A collect begins while `out` are the walks outstanding already.
Begin(out) ==
    /\ nextGen' = nextGen + 1
    /\ gen' = nextGen /\ discovered' = FALSE /\ pending' = {} /\ latched' = FALSE
    /\ walks' = out \union {nextGen}

\* The collect is over; a latched tick begins the next one.
Finish(out) ==
    IF latched THEN Begin(out)
    ELSE /\ gen' = 0 /\ discovered' = FALSE /\ pending' = {}
         /\ walks' = out
         /\ UNCHANGED <<nextGen, latched>>

\* Checkout p is done, for the collect in progress if it waits for it.
PathDone(p) ==
    IF gen # 0 /\ discovered /\ pending \ {p} = {} THEN Finish(walks)
    ELSE /\ pending' = pending \ {p}
         /\ UNCHANGED <<nextGen, gen, discovered, latched, walks>>

\* Mutant: any result counts.
Accepted_Any(g, p) == TRUE

Accepted(g, p) ==
    \/ pathGen[p] = g
    \/ pathGen[p] = 0 /\ (gen = g \/ g + 1 = nextGen)

-----------------------------------------------------------------------------

\* The watch tick, or a reload of the workspace.
Tick ==
    /\ GenLeft
    /\ IF gen = 0 THEN Begin(walks)
       ELSE latched' = TRUE /\ UNCHANGED <<nextGen, gen, discovered, pending, walks>>
    /\ UNCHANGED <<pathGen, jobs, row>>

\* `r` on one checkout.
ReloadRepo(p) ==
    /\ GenLeft
    /\ nextGen' = nextGen + 1
    /\ pathGen' = [pathGen EXCEPT ![p] = nextGen]
    /\ jobs' = jobs \union {<<nextGen, p>>}
    /\ UNCHANGED <<gen, discovered, pending, latched, walks, row>>

\* The walk found these checkouts.  One that a newer reload owns is left to
\* that reload.
WalkLands(g, found) ==
    /\ g \in walks
    /\ walks' = walks \ {g}
    /\ IF gen # g THEN UNCHANGED <<discovered, pending, pathGen, jobs>>
       ELSE LET queued == {p \in found : pathGen[p] <= g}
            IN /\ discovered' = TRUE
               /\ pending' = queued
               /\ pathGen' = [p \in Paths |-> IF p \in queued THEN g ELSE pathGen[p]]
               /\ jobs' = jobs \union {<<g, p>> : p \in queued}
    /\ UNCHANGED <<nextGen, gen, latched, row>>

\* Mutant: a walk that panics does not end its collect.
WalkPanics_Leak(g) ==
    /\ g \in walks
    /\ walks' = walks \ {g}
    /\ UNCHANGED <<nextGen, gen, discovered, pending, latched, pathGen, jobs, row>>

WalkPanics(g) ==
    /\ g \in walks
    /\ IF gen = g /\ ~discovered THEN Finish(walks \ {g})
       ELSE walks' = walks \ {g} /\ UNCHANGED <<nextGen, gen, discovered, pending, latched>>
    /\ UNCHANGED <<pathGen, jobs, row>>

StatusLands(g, p) ==
    /\ <<g, p>> \in jobs
    /\ jobs' = jobs \ {<<g, p>>}
    /\ IF Accepted(g, p) THEN PathDone(p) /\ row' = [row EXCEPT ![p] = g]
                         ELSE UNCHANGED <<collect, row>>
    /\ UNCHANGED pathGen

StatusPanics(g, p) ==
    /\ <<g, p>> \in jobs
    /\ jobs' = jobs \ {<<g, p>>}
    /\ IF Accepted(g, p) THEN PathDone(p) ELSE UNCHANGED collect
    /\ UNCHANGED <<pathGen, row>>

Next ==
    \/ Tick
    \/ \E p \in Paths : ReloadRepo(p)
    \/ \E g \in walks, found \in SUBSET Paths : WalkLands(g, found)
    \/ \E g \in walks : WalkPanics(g)
    \/ \E j \in jobs : StatusLands(j[1], j[2])
    \/ \E j \in jobs : StatusPanics(j[1], j[2])

Spec == Init /\ [][Next]_vars

-----------------------------------------------------------------------------
(* Properties *)

\* The state keeps its shape.
TypeOK ==
    /\ nextGen \in Nat \ {0} /\ gen \in Nat
    /\ discovered \in BOOLEAN /\ latched \in BOOLEAN
    /\ pending \in SUBSET Paths
    /\ pathGen \in [Paths -> Nat] /\ row \in [Paths -> Nat]
    /\ walks \in SUBSET Nat
    /\ jobs \in SUBSET (Nat \X Paths)

\* A collect in progress waits only for work that is still coming: its walk,
\* and then a status job of the newest generation of each checkout it waits
\* for.  (scheduler.rs note_repo_done, on_discovered, on_reload_repo)
CollectWaitsForLiveJobs ==
    /\ gen # 0 /\ ~discovered => gen \in walks
    /\ \A p \in pending : <<pathGen[p], p>> \in jobs

\* At most one walk of the workspace is outstanding, the current collect's.
OneWalk == \A g \in walks : g = gen /\ ~discovered

\* A row never goes back to an older status, whatever order results land in.
NewestStatusWins == [][\A p \in Paths : row'[p] >= row[p]]_vars

\* No generation in use is one that is still to be handed out, and none is
\* newer than the newest its checkout was asked for.
GenerationsOrdered ==
    /\ gen < nextGen
    /\ \A p \in Paths : pathGen[p] < nextGen /\ row[p] <= pathGen[p]
    /\ \A j \in jobs : 0 < j[1] /\ j[1] <= pathGen[j[2]]

\* Nothing is waited for before the walk lands or when no collect runs.
PendingAfterWalk == pending # {} => gen # 0 /\ discovered

\* The inductive invariant of StatusCollectProofs.
IInv ==
    /\ TypeOK /\ GenerationsOrdered /\ PendingAfterWalk
    /\ OneWalk /\ CollectWaitsForLiveJobs /\ 0 \notin walks
=============================================================================
