------------------------------ MODULE Scheduler ------------------------------
(***************************************************************************)
(* The TUI job scheduler, crates/workspace-status/src/tui/scheduler.rs.    *)
(*                                                                         *)
(* One thread owns the scheduler and calls its methods between two worker  *)
(* results; the workers run concurrently and their results land in any     *)
(* order.  The struct is one record here, `sched`, and every method is an  *)
(* operator from a record to the next one, so that the handlers of the     *)
(* live loop (this module's actions, and those of the modules that extend  *)
(* it) can compose the calls one handler makes into one atomic step.       *)
(*                                                                         *)
(* Left out: job ids (a job in flight is told by what it is; equal jobs    *)
(* are counted, so `inflight` is a bag), CollectionKind and JobClass       *)
(* (carried along, never read by a guard), default_branch_busy (both of    *)
(* its branches queue the same slot), and the request counters of pickers  *)
(* and commit loads, which share no state with the queues.                 *)
(***************************************************************************)
EXTENDS Naturals, FiniteSets, SequencesExt, Bags, Queues

CONSTANTS Paths,     \* checkouts a workspace walk can find
          NoPath,    \* "no focused checkout"
          Tags,      \* user-work tags the environment enqueues
          Cap,       \* fetchConcurrency: in-flight cap of each lane
          MaxGen,    \* bound: collection generations handed out
          MaxPane,   \* bound: pane request ids handed out
          MaxUser    \* bound: user and background slots asked for

ASSUME SchedulerAssumption ==
    /\ Cap \in Nat \ {0}
    /\ IsFiniteSet(Paths) /\ NoPath \notin Paths
    /\ MaxGen \in Nat /\ MaxPane \in Nat /\ MaxUser \in Nat
    /\ Tags \subseteq {"BulkRemote", "DefaultBranch", "Write", "Other"}

VARIABLES sched,     \* the Scheduler struct
          row,       \* generation of the status last applied to each checkout
          shown,     \* checkouts that have a row in the tree
          asked      \* user and background slots asked for so far

vars == <<sched, row, shown, asked>>

-----------------------------------------------------------------------------
(* Jobs: SpawnKind. *)

Discover(g)       == [kind |-> "discover", gen |-> g]
ProcessRepo(g, p, f) == [kind |-> "status", gen |-> g, path |-> p, focused |-> f]
LoadPane(r)       == [kind |-> "pane", req |-> r]
UserWork(t)       == [kind |-> "user", tag |-> t]

IsStatusFor(j, g, p) == j.kind = "status" /\ j.gen = g /\ j.path = p
IsPane(j)         == j.kind = "pane"
IsTag(j, t)       == j.kind = "user" /\ j.tag = t
IsBulkRemote(j)   == IsTag(j, "BulkRemote")

NoCollection == [gen |-> 0, pending |-> {}, discovered |-> FALSE, focused |-> NoPath]
Collecting(s) == s.col.gen # 0

Queued(s)   == ToSet(s.user) \union ToSet(s.status)
InFlight(s) == BagToSet(s.inflight)
Live(s)     == Queued(s) \union InFlight(s)

InitSched ==
    [nextGen |-> 1, col |-> NoCollection, latched |-> FALSE,
     user |-> <<>>, status |-> <<>>, inflight |-> EmptyBag,
     paneLatest |-> 0, paneInflight |-> 0, panePending |-> FALSE,
     exclusive |-> FALSE, pathGen |-> [p \in Paths |-> 0]]

-----------------------------------------------------------------------------
(* Collections: the workspace walk and the status jobs it queues. *)

StartCollection(s, focus) ==
    [s EXCEPT !.nextGen = @ + 1,
              !.latched = FALSE,
              !.col = [NoCollection EXCEPT !.gen = s.nextGen, !.focused = focus],
              !.user = Append(@, Discover(s.nextGen))]

\* on_watch_tick and on_reload_snapshot: they differ in the kind only.
RequestCollect(s, focus) ==
    IF Collecting(s) THEN [s EXCEPT !.latched = TRUE] ELSE StartCollection(s, focus)

OnReloadRepo(s, p) ==
    [s EXCEPT !.nextGen = @ + 1,
              !.pathGen[p] = s.nextGen,
              !.user = <<ProcessRepo(s.nextGen, p, TRUE)>> \o @]

\* The queue order of a walk: the focused checkout first, then as found.
FocusFirst(found, focus) ==
    IF Contains(found, focus) THEN <<focus>> \o Retain(found, Paths \ {focus}) ELSE found

OnDiscovered(s, g, found) ==
    IF s.col.gen # g THEN s    \* Ignore: no collect, or another one
    ELSE LET focus  == s.col.focused
             queued == Retain(FocusFirst(found, focus), {p \in Paths : s.pathGen[p] <= g})
             focusedJobs == IF Contains(queued, focus)
                            THEN <<ProcessRepo(g, focus, TRUE)>> ELSE <<>>
             others == Retain(queued, Paths \ {focus})
         IN [s EXCEPT !.col.discovered = TRUE,
                      !.col.pending = ToSet(queued),
                      !.pathGen = [p \in Paths |-> IF p \in ToSet(queued) THEN g ELSE @[p]],
                      !.user = focusedJobs \o @,
                      !.status = @ \o [i \in 1..Len(others) |-> ProcessRepo(g, others[i], FALSE)]]

\* The last two disjuncts serve a path that has no generation yet.
AcceptRepoResult(s, g, p) ==
    \/ s.pathGen[p] = g
    \/ s.pathGen[p] = 0 /\ (s.col.gen = g \/ g + 1 = s.nextGen)

\* Mutant: a latched tick is forgotten.
FinishCollection_Forget(s) == [s EXCEPT !.col = NoCollection, !.latched = FALSE]

FinishCollection(s) ==
    LET idle == [s EXCEPT !.col = NoCollection]
    IN IF s.latched THEN StartCollection(idle, s.col.focused) ELSE idle

NoteRepoDone(s, p) ==
    LET noted == [s EXCEPT !.col.pending = @ \ {p}]
    IN IF Collecting(s) /\ s.col.discovered /\ noted.col.pending = {}
       THEN FinishCollection(noted) ELSE noted

AbandonCollection(s, g) ==
    IF s.col.gen = g /\ ~s.col.discovered THEN FinishCollection(s) ELSE s

-----------------------------------------------------------------------------
(* The right pane: one load at a time, the newest request wins. *)

WithoutPane(q) == Retain(q, {j \in ToSet(q) : ~IsPane(j)})

RequestPane(s) ==
    LET id   == s.paneLatest + 1
        rest == WithoutPane(s.user)
    IN [s EXCEPT !.paneLatest = id,
                 !.panePending = s.paneInflight # 0,
                 !.user = IF s.paneInflight # 0 THEN rest ELSE <<LoadPane(id)>> \o rest]

PaneAccepted(s, r) == r = s.paneLatest

AcceptPaneResult(s, r) ==
    LET again == ~PaneAccepted(s, r) \/ s.panePending
    IN [s EXCEPT !.paneInflight = 0,
                 !.panePending = IF again THEN FALSE ELSE @,
                 !.user = IF again THEN <<LoadPane(s.paneLatest)>> \o WithoutPane(@) ELSE @]

-----------------------------------------------------------------------------
(* User work and the choice of the next job. *)

EnqueueUser(s, t) ==
    [s EXCEPT !.exclusive = @ \/ t = "Write", !.user = Append(@, UserWork(t))]

EnqueueBackground(s, t) == [s EXCEPT !.status = Append(@, UserWork(t))]

EnqueueUserFront(s, t) ==
    [s EXCEPT !.exclusive = @ \/ t = "Write", !.user = <<UserWork(t)>> \o @]

\* Mutant: the write flag outlives the write.
NoteUserDone_Leak(s, t) == s

NoteUserDone(s, t) == [s EXCEPT !.exclusive = @ /\ t # "Write"]

BusyForWrites(s) ==
    \/ s.exclusive
    \/ \E j \in InFlight(s) \union ToSet(s.user) : IsTag(j, "Write") \/ IsTag(j, "DefaultBranch")

InLane(s, remote) ==
    BagCardinality([j \in {k \in InFlight(s) : IsBulkRemote(k) = remote} |-> s.inflight[j]])

\* Mutant: one cap for both lanes.
LaneOpen_Shared(s, j) == BagCardinality(s.inflight) < Cap

LaneOpen(s, j) == InLane(s, IsBulkRemote(j)) < Cap

\* A queued default-branch switch waits for the one in flight.
HeldSwitch(s, j) ==
    IsTag(j, "DefaultBranch") /\ UserWork("DefaultBranch") \in InFlight(s)

\* Mutant: local jobs pass a held switch.
UserStartable_Pass(s) ==
    {i \in DOMAIN s.user : LaneOpen(s, s.user[i]) /\ ~HeldSwitch(s, s.user[i])}

\* Nothing in the user queue passes a held switch except remote jobs.
UserStartable(s) ==
    {i \in DOMAIN s.user :
        /\ LaneOpen(s, s.user[i])
        /\ ~HeldSwitch(s, s.user[i])
        /\ IsBulkRemote(s.user[i]) \/ \A k \in 1..(i - 1) : ~HeldSwitch(s, s.user[k])}

StatusStartable(s) == {i \in DOMAIN s.status : LaneOpen(s, s.status[i])}

First(S) == CHOOSE i \in S : \A k \in S : i <= k

TakeInflight(s, j) ==
    [s EXCEPT !.inflight = @ (+) SetToBag({j}),
              !.paneInflight = IF IsPane(j) THEN j.req ELSE @]

CanSpawn(s) == UserStartable(s) # {} \/ StatusStartable(s) # {}

\* spawn_next: the first startable job of the user queue, else of the other.
SpawnNext(s) ==
    IF UserStartable(s) # {}
    THEN LET i == First(UserStartable(s))
         IN TakeInflight([s EXCEPT !.user = RemoveAt(@, i)], s.user[i])
    ELSE LET i == First(StatusStartable(s))
         IN TakeInflight([s EXCEPT !.status = RemoveAt(@, i)], s.status[i])

NoteJobFinished(s, j) == [s EXCEPT !.inflight = @ (-) SetToBag({j})]

-----------------------------------------------------------------------------
(* The live loop around it: keys, ticks and worker results. *)

\* A generation is kept back for the rerun of a latched tick.
GenLeft == sched.nextGen + (IF sched.latched THEN 1 ELSE 0) <= MaxGen

Walks == UNION {SetToSeqs(S) : S \in SUBSET Paths}

Init == /\ sched = InitSched
        /\ row = [p \in Paths |-> 0]
        /\ shown \in SUBSET Paths
        /\ asked = 0

\* The watch tick, or a reload of the workspace.
Tick(focus) ==
    /\ GenLeft
    /\ sched' = RequestCollect(sched, focus)
    /\ UNCHANGED <<row, shown, asked>>

\* `r` on one checkout of the tree.
ReloadRepo(p) ==
    /\ GenLeft
    /\ sched' = OnReloadRepo(sched, p)
    /\ UNCHANGED <<row, shown, asked>>

\* One turn of spawn_ready's loop.
Spawn ==
    /\ CanSpawn(sched)
    /\ sched' = SpawnNext(sched)
    /\ UNCHANGED <<row, shown, asked>>

\* A row whose checkout a walk no longer finds leaves the tree.
DropUndiscovered(found) == shown \intersect ToSet(found)

\* The checkout may be gone when its status is taken: then its row goes too.
ApplyOneRepo(p, there) == IF there THEN shown \union {p} ELSE shown \ {p}

\* JobOutcome::Discovered: the walk found these checkouts, in this order.
WalkLands(g, found) ==
    /\ Discover(g) \in InFlight(sched)
    /\ sched' = OnDiscovered(NoteJobFinished(sched, Discover(g)), g, found)
    /\ shown' = IF sched.col.gen = g THEN DropUndiscovered(found) ELSE shown
    /\ UNCHANGED <<row, asked>>

WalkPanics(g) ==
    /\ Discover(g) \in InFlight(sched)
    /\ sched' = AbandonCollection(NoteJobFinished(sched, Discover(g)), g)
    /\ UNCHANGED <<row, shown, asked>>

\* JobOutcome::RepoStatus: a result that is not accepted changes nothing.
StatusLands(j, there) ==
    LET s == NoteJobFinished(sched, j)
    IN /\ IF AcceptRepoResult(s, j.gen, j.path)
          THEN /\ sched' = NoteRepoDone(s, j.path)
               /\ row' = [row EXCEPT ![j.path] = j.gen]
               /\ shown' = ApplyOneRepo(j.path, there)
          ELSE sched' = s /\ UNCHANGED <<row, shown>>
       /\ UNCHANGED asked

\* Mutant: a panicked status job frees its slot only.
StatusPanics_Leak(j) ==
    sched' = NoteJobFinished(sched, j) /\ UNCHANGED <<row, shown, asked>>

StatusPanics(j) ==
    LET s == NoteJobFinished(sched, j)
    IN /\ sched' = IF AcceptRepoResult(s, j.gen, j.path) THEN NoteRepoDone(s, j.path) ELSE s
       /\ UNCHANGED <<row, shown, asked>>

\* A key queues a slot of user work.  Pane previews ("Other" here) go to the
\* front, and activity bars, the background work, behind all of it.
Enqueue(t) ==
    /\ asked < MaxUser
    /\ asked' = asked + 1
    /\ \/ sched' = EnqueueUser(sched, t)
       \/ t = "Other" /\ sched' = EnqueueUserFront(sched, t)
       \/ t = "Other" /\ sched' = EnqueueBackground(sched, t)
    /\ UNCHANGED <<row, shown>>

UserLands(t) ==
    /\ UserWork(t) \in InFlight(sched)
    /\ sched' = NoteUserDone(NoteJobFinished(sched, UserWork(t)), t)
    /\ UNCHANGED <<row, shown, asked>>

StatusJobs == {j \in InFlight(sched) : j.kind = "status"}

WalkEnds(g)     == WalkPanics(g) \/ \E found \in Walks : WalkLands(g, found)
StatusEnds(g, p) == \E j \in StatusJobs :
                        /\ IsStatusFor(j, g, p)
                        /\ StatusPanics(j) \/ \E there \in BOOLEAN : StatusLands(j, there)

\* Collects alone; PaneLoad adds user work.
Next ==
    \/ \E focus \in shown \union {NoPath} : Tick(focus)
    \/ \E p \in shown : ReloadRepo(p)
    \/ Spawn
    \/ \E g \in 1..MaxGen, found \in Walks : WalkLands(g, found)
    \/ \E g \in 1..MaxGen : WalkPanics(g)
    \/ \E j \in StatusJobs, there \in BOOLEAN : StatusLands(j, there)
    \/ \E j \in StatusJobs : StatusPanics(j)

\* The live loop spawns after every event.  Git runs under a deadline, so
\* every walk and status job ends.
Fairness ==
    /\ WF_vars(Spawn)
    /\ \A g \in 1..MaxGen : WF_vars(WalkEnds(g))
    /\ \A g \in 1..MaxGen, p \in Paths : WF_vars(StatusEnds(g, p))

Spec == Init /\ [][Next]_vars /\ Fairness

-----------------------------------------------------------------------------
(* Properties *)

Jobs == {Discover(g) : g \in 1..MaxGen}
        \union {ProcessRepo(g, p, f) : g \in 1..MaxGen, p \in Paths, f \in BOOLEAN}
        \union {LoadPane(r) : r \in 1..MaxPane}
        \union {UserWork(t) : t \in Tags}

\* The fields of the struct and the rows keep their shape.
TypeOK ==
    /\ sched.nextGen \in 1..(MaxGen + 1)
    /\ sched.col \in [gen : 0..MaxGen, pending : SUBSET Paths, discovered : BOOLEAN,
                      focused : Paths \union {NoPath}]
    /\ {sched.latched, sched.panePending, sched.exclusive} \subseteq BOOLEAN
    /\ {sched.paneLatest, sched.paneInflight} \subseteq 0..MaxPane
    /\ sched.pathGen \in [Paths -> 0..MaxGen]
    /\ Live(sched) \subseteq Jobs
    /\ row \in [Paths -> 0..MaxGen]
    /\ shown \in SUBSET Paths
    /\ asked \in 0..MaxUser

\* A collect that has checkouts to wait for ends, reloads, panics and late
\* results notwithstanding.
CollectEnds ==
    \A g \in 1..MaxGen :
        (sched.col.gen = g /\ sched.col.pending # {}) ~> sched.col.gen # g

\* scheduler.rs:415-416 and docs/tui-rust.md:338: a tick that latched during
\* a collect gets its rerun.
LatchedTickReruns == sched.latched ~> ~sched.latched

\* With the queues hidden the scheduler is the collect specification.
Collects == INSTANCE StatusCollect WITH
    nextGen <- sched.nextGen, gen <- sched.col.gen, discovered <- sched.col.discovered,
    pending <- sched.col.pending, latched <- sched.latched, pathGen <- sched.pathGen,
    walks <- {j.gen : j \in {k \in Live(sched) : k.kind = "discover"}},
    jobs <- {<<j.gen, j.path>> : j \in {k \in Live(sched) : k.kind = "status"}}

\* Wherever a job waits, in either queue or on a worker, and in whatever order
\* spawn_next takes them, each step is one of StatusCollect or leaves it alone.
ImplementsStatusCollect == Collects!Spec

\* The gate that refuses keys while a write runs is shut exactly while a write
\* or a default-branch switch is queued or in flight, whichever ends first.
WriteGate ==
    BusyForWrites(sched) <=>
        \E j \in Live(sched) : IsTag(j, "Write") \/ IsTag(j, "DefaultBranch")

\* Within each lane the queue order does not change: the job that starts was
\* the first of its lane in its queue.
LaneOrder ==
    [][\A j \in InFlight(sched') :
          sched'.inflight = sched.inflight (+) SetToBag({j}) =>
              \/ \E i \in DOMAIN sched.user :
                    /\ j = sched.user[i] /\ sched'.user = RemoveAt(sched.user, i)
                    /\ \A k \in 1..(i - 1) : IsBulkRemote(sched.user[k]) # IsBulkRemote(j)
              \/ \E i \in DOMAIN sched.status :
                    /\ j = sched.status[i] /\ sched'.status = RemoveAt(sched.status, i)
                    /\ \A k \in 1..(i - 1) : IsBulkRemote(sched.status[k]) # IsBulkRemote(j)]_vars

\* Remotes that hang cannot hold up the rest: once no more work is asked
\* for, every queued local job has started, though no remote ever ends.
LocalDrains == <>[](\A j \in Queued(sched) : IsBulkRemote(j))

-----------------------------------------------------------------------------
(* The inductive invariant of SchedulerProofs, for collects alone *)

SameWork(j, k) ==
    /\ j.kind = k.kind /\ j.gen = k.gen
    /\ j.kind = "status" => j.path = k.path

NoTwins(q) == \A i, k \in DOMAIN q : SameWork(q[i], q[k]) => i = k

\* No walk and no status is outstanding twice, in one queue, in both, or on a
\* worker meanwhile: when it ends, nothing of it is left.
JobsApart(s) ==
    /\ NoTwins(s.user) /\ NoTwins(s.status)
    /\ \A j \in ToSet(s.user), k \in ToSet(s.status) : ~SameWork(j, k)
    /\ \A j \in Queued(s), k \in InFlight(s) : ~SameWork(j, k)
    /\ \A j, k \in InFlight(s) : SameWork(j, k) => j = k
    /\ \A j \in InFlight(s) : s.inflight[j] = 1

\* Every outstanding generation was handed out, and a walk's statuses come
\* after it.
GensKnown(s) ==
    /\ \A j \in Live(s) : j.kind \in {"discover", "status"} /\ j.gen < s.nextGen
    /\ \A j, k \in Live(s) : j.kind = "discover" /\ k.kind = "status" => j.gen # k.gen

SchedIInv == JobsApart(sched) /\ GensKnown(sched)
=============================================================================
