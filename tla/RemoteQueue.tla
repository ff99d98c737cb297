----------------------------- MODULE RemoteQueue -----------------------------
(***************************************************************************)
(* Who may run git in which repository: the remote queue, the exclusive    *)
(* writes and the default-branch switches of tui/effect.rs.                *)
(*                                                                         *)
(* Fetch, pull and push jobs wait in one queue and run in parallel, one    *)
(* per gitdir; linked worktrees of a repository share its gitdir.  A write *)
(* holds its gitdir from the key to the end of its worker, a batch of      *)
(* default-branch switches holds all of its gitdirs to the end of the      *)
(* batch.  The jobs of one kind that are live together form a wave, whose  *)
(* end writes the result line and reports the background fetch.            *)
(*                                                                         *)
(* Left out: the order of the pending jobs (any eligible one may start;    *)
(* the fairness below stands for first come, first served), of the queued  *)
(* writes and of a batch, tallies and status text, and the reload and pane *)
(* load that follow a write or a wave, which Scheduler takes at any time.  *)
(* Rows are fixed: a checkout does not leave the snapshot while it has     *)
(* jobs.  A panicked worker lands as a failure, so it is no action apart.  *)
(***************************************************************************)
EXTENDS Naturals, FiniteSets, FiniteSetsExt

CONSTANTS Checkouts,   \* checkouts with a row in the snapshot
          Gitdirs,     \* repositories
          GitdirOf,    \* the gitdir of each checkout: primary_repo, else itself
          Kinds,       \* remote operations in use, out of AllKinds
          Cap,         \* in-flight cap of the remote lane, and of the local one
          NoCheckout   \* "not a remote job"

AllKinds == {"fetch", "pull", "push"}

ASSUME RemoteQueueAssumption ==
    /\ GitdirOf \in [Checkouts -> Gitdirs]
    /\ Kinds \subseteq AllKinds
    /\ Cap \in Nat \ {0}
    /\ NoCheckout \notin Checkouts
    /\ IsFiniteSet(Gitdirs)

VARIABLES pending,     \* remote jobs not started, <<kind, checkout>>
          occupy,      \* what holds each gitdir
          slots,       \* BulkRemote slots in the scheduler's user queue
          remotes,     \* remote jobs on a worker, <<kind, checkout>>
          waves,       \* the wave of each kind
          claim,       \* this instance holds the background fetch claim
          writes,      \* gitdirs of the writes queued
          writing,     \* gitdirs of the writes on a worker
          batch,       \* checkouts of the default-branch batch in progress
          left,        \* those of them not started
          switching    \* those of them on a worker

local == <<writes, writing, batch, left, switching>>
vars  == <<pending, occupy, slots, remotes, waves, claim, local>>

-----------------------------------------------------------------------------

Jobs == Kinds \X Checkouts

Free        == [by |-> "none", kind |-> "none", checkout |-> NoCheckout]
Exclusive   == [Free EXCEPT !.by = "write"]
Switch      == [Free EXCEPT !.by = "switch"]
Remote(k, c) == [by |-> "remote", kind |-> k, checkout |-> c]

Owners == {Free, Exclusive, Switch} \union {Remote(j[1], j[2]) : j \in Jobs}

EmptyWave == [repos |-> {}, ran |-> FALSE, foreground |-> FALSE, scheduled |-> FALSE]
WaveType  == [repos : SUBSET Checkouts, ran : BOOLEAN, foreground : BOOLEAN,
              scheduled : BOOLEAN]

\* A job of kind k is pending or holds a gitdir.
KindLive(k, pend, occ) ==
    \/ \E j \in pend : j[1] = k
    \/ \E g \in Gitdirs : occ[g].by = "remote" /\ occ[g].kind = k

\* One of each free gitdir's pending jobs could start now.
EligibleCount(pend, occ) ==
    Cardinality({g \in Gitdirs : occ[g] = Free /\ \E j \in pend : GitdirOf[j[2]] = g})

Pumped(n, pend, occ) ==
    IF EligibleCount(pend, occ) > n THEN EligibleCount(pend, occ) ELSE n

\* Mutant: the origin flags outlive the wave.
WavesAfter_Flags(k, ws, pend, occ) ==
    IF KindLive(k, pend, occ) THEN ws ELSE [ws EXCEPT ![k].repos = {}, ![k].ran = FALSE]

\* The end of a wave, or of one no job of which ever ran: either way it is
\* empty again, and a fetch wave takes the claim with it.
WavesAfter(k, ws, pend, occ) ==
    IF KindLive(k, pend, occ) THEN ws ELSE [ws EXCEPT ![k] = EmptyWave]

ClaimAfter(pend, occ) == claim /\ KindLive("fetch", pend, occ)

Busy == writes \union writing # {} \/ batch # {}

LocalWorkers == Cardinality(writing) + Cardinality(switching)

Init ==
    /\ pending = {} /\ remotes = {} /\ slots = 0 /\ claim = FALSE
    /\ occupy = [g \in Gitdirs |-> Free]
    /\ waves = [k \in Kinds |-> EmptyWave]
    /\ writes = {} /\ writing = {}
    /\ batch = {} /\ left = {} /\ switching = {}

-----------------------------------------------------------------------------
(* Remote jobs *)

\* drop_new_remote: a job in flight does the same already.
InFlightCovers(k, c) ==
    \E g \in Gitdirs : /\ occupy[g].by = "remote" /\ occupy[g].checkout = c
                       /\ occupy[g].kind = k \/ (k = "fetch" /\ occupy[g].kind = "pull")

\* So does a pending one.
PendingCovers(k, c) == <<k, c>> \in pending \/ (k = "fetch" /\ <<"pull", c>> \in pending)

\* start_bulk: queue `repos` for kind k.  A pull takes the place of its
\* checkout's pending fetch.
StartBulk(k, repos, foreground) ==
    LET new      == {c \in repos : ~InFlightCovers(k, c) /\ ~PendingCovers(k, c)}
        upgraded == IF k = "pull" THEN {c \in new : <<"fetch", c>> \in pending} ELSE {}
        noted    == [w \in Kinds |->
                        [waves[w] EXCEPT
                            !.repos = IF w = k THEN @ \union new
                                      ELSE IF w = "fetch" THEN @ \ upgraded ELSE @]]
        ended    == IF upgraded = {} THEN noted
                    ELSE WavesAfter("fetch", noted, pending', occupy)
    IN /\ pending' = (pending \ {<<"fetch", c>> : c \in upgraded}) \union {<<k, c>> : c \in new}
       /\ waves' = IF ~KindLive(k, pending', occupy) THEN ended
                   ELSE [ended EXCEPT ![k].foreground = @ \/ foreground,
                                      ![k].scheduled = @ \/ ~foreground]
       /\ slots' = Pumped(slots, pending', occupy)
       /\ UNCHANGED <<occupy, remotes, local>>

\* f, p or P on some checkouts.
RemoteKey(k, repos) ==
    /\ StartBulk(k, repos, TRUE)
    /\ claim' = ClaimAfter(pending', occupy)

\* The background fetch tick: no claim, no fetch; an I/O error on the claim
\* fetches without it.  The claim is kept only while a fetch wave is live.
FetchTick(repos, granted) ==
    /\ "fetch" \in Kinds /\ ~claim
    /\ StartBulk("fetch", repos, FALSE)
    /\ claim' = (granted /\ KindLive("fetch", pending', occupy))

\* spawn_user, BulkRemote: a slot starts an eligible job ...
StartRemote(j) ==
    /\ slots > 0 /\ Cardinality(remotes) < Cap
    /\ j \in pending /\ occupy[GitdirOf[j[2]]] = Free
    /\ slots' = slots - 1
    /\ pending' = pending \ {j}
    /\ occupy' = [occupy EXCEPT ![GitdirOf[j[2]]] = Remote(j[1], j[2])]
    /\ remotes' = remotes \union {j}
    /\ UNCHANGED <<waves, claim, local>>

\* ... or ends unused when nothing is eligible by then.
DropSlot ==
    /\ slots > 0 /\ Cardinality(remotes) < Cap
    /\ EligibleCount(pending, occupy) = 0
    /\ slots' = slots - 1
    /\ UNCHANGED <<pending, occupy, remotes, waves, claim, local>>

\* The gitdir that checkout c's remote job holds.
HeldBy(c) ==
    LET held == {g \in Gitdirs : occupy[g].by = "remote" /\ occupy[g].checkout = c}
    IN IF held # {} THEN CHOOSE g \in held : TRUE ELSE GitdirOf[c]

\* land_remote: done, failed or panicked.
LandRemote(k, c) ==
    /\ <<k, c>> \in remotes
    /\ remotes' = remotes \ {<<k, c>>}
    /\ occupy' = [occupy EXCEPT ![HeldBy(c)] = Free]
    /\ waves' = WavesAfter(k, [waves EXCEPT ![k].repos = @ \union {c}, ![k].ran = TRUE],
                           pending, occupy')
    /\ claim' = ClaimAfter(pending, occupy')
    /\ slots' = Pumped(slots, pending, occupy')
    /\ UNCHANGED <<pending, local>>

-----------------------------------------------------------------------------
(* Exclusive writes and default-branch switches *)

\* refuse_exclusive_if_busy: whoever holds the gitdir, nothing exclusive starts.
RemoteGitdirBusy(c) == occupy[GitdirOf[c]] # Free

\* Mutant: a write does not look who holds the gitdir.
EnqueueWrite_Unchecked(c) ==
    /\ occupy' = [occupy EXCEPT ![GitdirOf[c]] = Exclusive]
    /\ writes' = writes \union {GitdirOf[c]}
    /\ UNCHANGED <<pending, slots, remotes, waves, claim, writing, batch, left, switching>>

\* occupy_exclusive and a Write slot.
EnqueueWrite(c) ==
    /\ ~RemoteGitdirBusy(c)
    /\ occupy' = [occupy EXCEPT ![GitdirOf[c]] = Exclusive]
    /\ writes' = writes \union {GitdirOf[c]}
    /\ UNCHANGED <<pending, slots, remotes, waves, claim, writing, batch, left, switching>>

\* A key that writes is ignored while a write or a switch is queued or runs.
WriteKey(c) == ~Busy /\ EnqueueWrite(c)

\* The hotkeys of the stash menu are not.
StashMenuKey(c) == EnqueueWrite(c)

StartWrite(g) ==
    /\ g \in writes /\ LocalWorkers < Cap
    /\ writes' = writes \ {g}
    /\ writing' = writing \union {g}
    /\ UNCHANGED <<pending, occupy, slots, remotes, waves, claim, batch, left, switching>>

\* Mutants: the gitdir stays held; the jobs that wait for it get no slot.
LandWrite_Leak(g) ==
    /\ g \in writing
    /\ writing' = writing \ {g}
    /\ UNCHANGED <<pending, occupy, slots, remotes, waves, claim, writes, batch, left, switching>>
LandWrite_NoPump(g) ==
    /\ g \in writing
    /\ writing' = writing \ {g}
    /\ occupy' = IF occupy[g] = Exclusive THEN [occupy EXCEPT ![g] = Free] ELSE occupy
    /\ UNCHANGED <<pending, slots, remotes, waves, claim, writes, batch, left, switching>>

LandWrite(g) ==
    /\ g \in writing
    /\ writing' = writing \ {g}
    /\ occupy' = IF occupy[g] = Exclusive THEN [occupy EXCEPT ![g] = Free] ELSE occupy
    /\ slots' = Pumped(slots, pending, occupy')
    /\ UNCHANGED <<pending, remotes, waves, claim, writes, batch, left, switching>>

\* d: a batch, refused as a whole when one of its gitdirs is held.
DefaultBranchKey(repos) ==
    /\ ~Busy
    /\ \A c \in repos : ~RemoteGitdirBusy(c)
    /\ occupy' = [g \in Gitdirs |-> IF \E c \in repos : GitdirOf[c] = g THEN Switch ELSE occupy[g]]
    /\ batch' = repos /\ left' = repos
    /\ UNCHANGED <<pending, slots, remotes, waves, claim, writes, writing, switching>>

StartSwitch(c) ==
    /\ c \in left /\ switching = {} /\ LocalWorkers < Cap
    /\ left' = left \ {c}
    /\ switching' = {c}
    /\ UNCHANGED <<pending, occupy, slots, remotes, waves, claim, writes, writing, batch>>

LandSwitch(c) ==
    /\ c \in switching
    /\ switching' = switching \ {c}
    /\ IF left # {} THEN UNCHANGED <<batch, occupy, slots>>
       ELSE /\ batch' = {}
            /\ occupy' = [g \in Gitdirs |-> IF occupy[g] = Switch THEN Free ELSE occupy[g]]
            /\ slots' = Pumped(slots, pending, occupy')
    /\ UNCHANGED <<pending, remotes, waves, claim, writes, writing, left>>

-----------------------------------------------------------------------------

Targets == (SUBSET Checkouts) \ {{}}

Next ==
    \/ \E k \in Kinds, repos \in Targets : RemoteKey(k, repos)
    \/ \E repos \in Targets, granted \in BOOLEAN : FetchTick(repos, granted)
    \/ \E j \in pending : StartRemote(j)
    \/ DropSlot
    \/ \E j \in remotes : LandRemote(j[1], j[2])
    \/ \E c \in Checkouts : WriteKey(c)
    \/ \E c \in Checkouts : StashMenuKey(c)
    \/ \E g \in writes : StartWrite(g)
    \/ \E g \in writing : LandWrite(g)
    \/ \E repos \in Targets : DefaultBranchKey(repos)
    \/ \E c \in left : StartSwitch(c)
    \/ \E c \in switching : LandSwitch(c)

\* Every git run has a deadline (120 s remote, 60 s local).  The queue is
\* first come, first served: a job that can start again and again does.
Fairness ==
    /\ \A j \in Jobs : SF_vars(StartRemote(j)) /\ WF_vars(LandRemote(j[1], j[2]))
    /\ WF_vars(DropSlot)
    /\ \A g \in Gitdirs : WF_vars(StartWrite(g)) /\ WF_vars(LandWrite(g))
    /\ WF_vars(\E c \in left : StartSwitch(c))
    /\ WF_vars(\E c \in switching : LandSwitch(c))

Safe == Init /\ [][Next]_vars
Spec == Safe /\ Fairness

-----------------------------------------------------------------------------
(* Properties *)

\* The state keeps its shape.
TypeOK ==
    /\ pending \in SUBSET Jobs /\ remotes \in SUBSET Jobs
    /\ occupy \in [Gitdirs -> Owners]
    /\ slots \in Nat
    /\ waves \in [Kinds -> WaveType]
    /\ claim \in BOOLEAN
    /\ writes \in SUBSET Gitdirs /\ writing \in SUBSET Gitdirs
    /\ batch \in SUBSET Checkouts /\ left \in SUBSET batch /\ switching \in SUBSET batch

\* A gitdir is held exactly while the work it is held for is live: a remote
\* job by its worker, a write from the key to the end of its worker, a
\* switch to the end of its batch.  Nothing is held for good.
OccupyMatchesWork ==
    /\ \A g \in Gitdirs, j \in Jobs :
           occupy[g] = Remote(j[1], j[2]) <=> j \in remotes /\ GitdirOf[j[2]] = g
    /\ \A g \in Gitdirs : occupy[g] = Exclusive <=> g \in writes \union writing
    /\ \A g \in Gitdirs : occupy[g] = Switch <=> \E c \in batch : GitdirOf[c] = g
    /\ batch = {} <=> left \union switching = {}
    /\ writes \intersect writing = {} /\ left \intersect switching = {}

\* Two git processes that write never run in one repository: not two remote
\* jobs of linked worktrees, nor a remote job beside a write or a switch.
OneWorkerPerGitdir ==
    /\ \A i, j \in remotes : GitdirOf[i[2]] = GitdirOf[j[2]] => i = j
    /\ \A j \in remotes : GitdirOf[j[2]] \notin writing
    /\ \A j \in remotes, c \in switching : GitdirOf[j[2]] # GitdirOf[c]
    /\ \A c \in switching : GitdirOf[c] \notin writing
    /\ \A c, d \in switching : c = d

\* Keys pressed again coalesce: no job waits behind one that does the same
\* for its checkout, and a fetch waits for no pull, pending or running.
PendingCoalesced ==
    \A j \in pending :
        /\ j \notin remotes
        /\ j[1] = "fetch" => <<"pull", j[2]>> \notin pending \union remotes

\* When no job of a kind is live its wave is empty: no repository, result or
\* origin flag leaks into the next wave of that kind.  The background fetch
\* claim is held only during a wave that the tick joined, so no instance keeps
\* it from the others.
WavesEndEmpty ==
    /\ \A k \in Kinds : ~KindLive(k, pending, occupy) => waves[k] = EmptyWave
    /\ claim => KindLive("fetch", pending, occupy) /\ waves["fetch"].scheduled

\* Each gitdir that a pending job could use has a slot queued for it.
SlotsCoverEligible == slots >= EligibleCount(pending, occupy)

\* The queue is in order after every step: no double work waits, no wave leaks
\* into the next, and what can start has a slot.
QueueInOrder == PendingCoalesced /\ WavesEndEmpty /\ SlotsCoverEligible

\* Every remote job that waits starts, or is replaced by a pull.
PendingStarts == \A j \in Jobs : j \in pending ~> j \notin pending

\* The inductive invariant of WriteProofs.
IInv == TypeOK /\ OccupyMatchesWork /\ \A c, d \in switching : c = d

\* docs/git-operations.md:379 "Exclusive writes stay serial."
ExclusiveSerial == Cardinality(writing) <= 1
=============================================================================
