----------------------------- MODULE FetchClaim -----------------------------
(***************************************************************************)
(* The scheduled background fetch that the instances of one workspace      *)
(* share, tui/fetch_claim.rs, and what each of them shows of it            *)
(* (tui/state/mod.rs).                                                     *)
(*                                                                         *)
(* An instance fetches while it holds the claim, a file lock, and only if  *)
(* the last recorded fetch started long enough ago by its own interval.    *)
(* The end of the fetch is recorded under a generation, and then the claim *)
(* is released; the other instances apply the record by its generation.    *)
(* Processes die at any step, and the system then frees their locks.       *)
(*                                                                         *)
(* The record is written in one step here; Persist shows how.  Time is in  *)
(* units of Tolerance.  Left out: ticks while a fetch without a claim      *)
(* runs, and the text of an outage.                                        *)
(***************************************************************************)
EXTENDS Naturals, SequencesExt

CONSTANTS Instances,
          Workspaces,
          WorkspaceOf,   \* the workspace of each instance
          Interval,      \* the fetch interval of each instance
          Tolerance,     \* INTERVAL_TOLERANCE_MS
          Nobody,
          MaxTime,       \* bound: clock values
          MaxTick        \* bound: fetch ticks

ASSUME FetchClaimAssumption ==
    /\ WorkspaceOf \in [Instances -> Workspaces]
    /\ Interval \in [Instances -> Nat \ {0}]
    /\ Tolerance \in Nat /\ MaxTime \in Nat /\ MaxTick \in Nat
    /\ Nobody \notin Instances

VARIABLES now,       \* the wall clock, which may be set back
          lock,      \* who holds the claim of each workspace
          store,     \* the record of each workspace
          pc,        \* where each instance is in its tick
          started,   \* the clock each instance read in its tick
          failed,    \* outcome of its fetch, until it has shown it
          recorded,  \* generation it wrote for it, 0 if none
          applied,   \* AppState::fetch_applied_generation
          outage,    \* it shows the scheduled-fetch outage
          log,       \* history: the recorded outcomes of each workspace
          own,       \* history: what it shows comes from no record
          ticks

vars == <<now, lock, store, pc, started, failed, recorded, applied, outage, log, own, ticks>>

Record == [generation : Nat \ {0}, failed : BOOLEAN, started : Nat]
NoRecord == [generation |-> 0, failed |-> FALSE, started |-> 0]

W(i) == WorkspaceOf[i]

Init ==
    /\ now \in 0..MaxTime
    /\ lock = [w \in Workspaces |-> Nobody]
    /\ store = [w \in Workspaces |-> NoRecord]
    /\ pc = [i \in Instances |-> "off"]
    /\ started = [i \in Instances |-> 0] /\ failed = [i \in Instances |-> FALSE]
    /\ recorded = [i \in Instances |-> 0] /\ applied = [i \in Instances |-> 0]
    /\ outage = [i \in Instances |-> FALSE] /\ own = [i \in Instances |-> TRUE]
    /\ log = [w \in Workspaces |-> <<>>]
    /\ ticks = 0

Goto(i, at) == pc' = [pc EXCEPT ![i] = at]
Unlock(i)   == lock' = [lock EXCEPT ![W(i)] = Nobody]

-----------------------------------------------------------------------------

\* open_background_fetch_store: outcomes from before the launch never show.
Launch(i) ==
    /\ pc[i] = "off" /\ Goto(i, "idle")
    /\ applied' = [applied EXCEPT ![i] = store[W(i)].generation]
    /\ outage' = [outage EXCEPT ![i] = FALSE]
    /\ own' = [own EXCEPT ![i] = TRUE]
    /\ UNCHANGED <<now, lock, store, started, failed, recorded, log, ticks>>

\* The tick reads the clock before it tries the claim.
Tick(i) ==
    /\ ticks < MaxTick /\ ticks' = ticks + 1
    /\ pc[i] = "idle" /\ Goto(i, "tick")
    /\ started' = [started EXCEPT ![i] = now]
    /\ UNCHANGED <<now, lock, store, failed, recorded, applied, outage, log, own>>

\* try_lock_sibling: taken, held by another instance, or an I/O error, on
\* which the instance fetches without a claim.
TryLock(i) ==
    /\ pc[i] = "tick"
    /\ \/ lock[W(i)] = Nobody /\ lock' = [lock EXCEPT ![W(i)] = i] /\ Goto(i, "locked")
       \/ lock[W(i)] # Nobody /\ UNCHANGED lock /\ Goto(i, "idle")
       \/ UNCHANGED lock /\ Goto(i, "bare")
    /\ UNCHANGED <<now, store, started, failed, recorded, applied, outage, log, own, ticks>>

\* Mutant: a failed fetch does not count.
Due_Failed(i, r) == r.failed \/ r.started > started[i] \/ started[i] - r.started + Tolerance >= Interval[i]

\* A start in the future (a clock set back) does not block the claim.
Due(i, r) == r.started > started[i] \/ started[i] - r.started + Tolerance >= Interval[i]

\* Mutant: a claim that is not due is kept.
CheckDue_Kept(i) ==
    /\ pc[i] = "locked"
    /\ IF store[W(i)] = NoRecord \/ Due(i, store[W(i)]) THEN Goto(i, "fetch") ELSE Goto(i, "idle")
    /\ UNCHANGED <<now, lock, store, started, failed, recorded, applied, outage, log, own, ticks>>

CheckDue(i) ==
    /\ pc[i] = "locked"
    /\ IF store[W(i)] = NoRecord \/ Due(i, store[W(i)])
       THEN Goto(i, "fetch") /\ UNCHANGED lock
       ELSE Goto(i, "idle") /\ Unlock(i)
    /\ UNCHANGED <<now, store, started, failed, recorded, applied, outage, log, own, ticks>>

\* Nothing to fetch, or the last fetch was replaced by a pull: no record.
DropClaim(i) ==
    /\ pc[i] = "fetch" /\ Goto(i, "idle") /\ Unlock(i)
    /\ UNCHANGED <<now, store, started, failed, recorded, applied, outage, log, own, ticks>>

NextGeneration(i) == store[W(i)].generation + 1

\* finish: the outcome is recorded (or cannot be) while the claim is held.
Finish(i, bad, saved) ==
    /\ pc[i] = "fetch" /\ Goto(i, "release")
    /\ failed' = [failed EXCEPT ![i] = bad]
    /\ recorded' = [recorded EXCEPT ![i] = IF saved THEN NextGeneration(i) ELSE 0]
    /\ IF saved
       THEN /\ store' = [store EXCEPT ![W(i)] = [generation |-> NextGeneration(i), failed |-> bad,
                                               started |-> started[i]]]
            /\ log' = [log EXCEPT ![W(i)] = Append(@, bad)]
       ELSE UNCHANGED <<store, log>>
    /\ UNCHANGED <<now, lock, started, applied, outage, own, ticks>>

\* Mutant: the instance does not mark its own record as applied.
Release_Unmarked(i) ==
    /\ pc[i] = "release" /\ Goto(i, "idle") /\ Unlock(i)
    /\ outage' = [outage EXCEPT ![i] = failed[i]]
    /\ own' = [own EXCEPT ![i] = recorded[i] = 0]
    /\ UNCHANGED <<now, store, started, failed, recorded, applied, log, ticks>>

\* Then the claim is released, and the instance shows its own outcome.
Release(i) ==
    /\ pc[i] = "release" /\ Goto(i, "idle") /\ Unlock(i)
    /\ applied' = [applied EXCEPT ![i] = IF recorded[i] # 0 THEN recorded[i] ELSE @]
    /\ outage' = [outage EXCEPT ![i] = failed[i]]
    /\ own' = [own EXCEPT ![i] = recorded[i] = 0]
    /\ UNCHANGED <<now, store, started, failed, recorded, log, ticks>>

\* A fetch without a claim ends; it has no record.
BareEnds(i, bad) ==
    /\ pc[i] = "bare" /\ Goto(i, "idle")
    /\ outage' = [outage EXCEPT ![i] = bad]
    /\ own' = [own EXCEPT ![i] = TRUE]
    /\ UNCHANGED <<now, lock, store, started, failed, recorded, applied, log, ticks>>

\* Mutant: only failures are applied.
ApplyRecord_Failures(i) ==
    /\ pc[i] \in {"idle", "fetch", "bare"}
    /\ store[W(i)].generation # applied[i] /\ store[W(i)].failed
    /\ applied' = [applied EXCEPT ![i] = store[W(i)].generation]
    /\ outage' = [outage EXCEPT ![i] = TRUE]
    /\ own' = [own EXCEPT ![i] = FALSE]
    /\ UNCHANGED <<now, lock, store, pc, started, failed, recorded, log, ticks>>

\* The watch tick: a record of another instance.
ApplyRecord(i) ==
    /\ pc[i] \in {"idle", "fetch", "bare"}
    /\ store[W(i)].generation \notin {0, applied[i]}
    /\ applied' = [applied EXCEPT ![i] = store[W(i)].generation]
    /\ outage' = [outage EXCEPT ![i] = store[W(i)].failed]
    /\ own' = [own EXCEPT ![i] = FALSE]
    /\ UNCHANGED <<now, lock, store, pc, started, failed, recorded, log, ticks>>

\* Quit, or the process dies: its locks go with it, and no record is written.
Die(i) ==
    /\ pc[i] # "off" /\ Goto(i, "off")
    /\ lock' = [w \in Workspaces |-> IF lock[w] = i THEN Nobody ELSE lock[w]]
    /\ UNCHANGED <<now, store, started, failed, recorded, applied, outage, log, own, ticks>>

\* Time passes, or someone sets the clock.
Clock(t) ==
    /\ now' = t
    /\ UNCHANGED <<lock, store, pc, started, failed, recorded, applied, outage, log, own, ticks>>

Next ==
    \/ \E t \in 0..MaxTime : Clock(t)
    \/ \E i \in Instances : Launch(i)
    \/ \E i \in Instances : Tick(i)
    \/ \E i \in Instances : TryLock(i)
    \/ \E i \in Instances : CheckDue(i)
    \/ \E i \in Instances : DropClaim(i)
    \/ \E i \in Instances, bad, saved \in BOOLEAN : Finish(i, bad, saved)
    \/ \E i \in Instances : Release(i)
    \/ \E i \in Instances, bad \in BOOLEAN : BareEnds(i, bad)
    \/ \E i \in Instances : ApplyRecord(i)
    \/ \E i \in Instances : Die(i)

\* Fetches have a deadline; the rest of a tick is straight-line code; watch
\* ticks go on.
FetchEnds(i) == DropClaim(i) \/ \E bad, saved \in BOOLEAN : Finish(i, bad, saved)

Fairness ==
    \A i \in Instances :
        /\ WF_vars(TryLock(i)) /\ WF_vars(CheckDue(i)) /\ WF_vars(Release(i))
        /\ WF_vars(FetchEnds(i)) /\ WF_vars(ApplyRecord(i))

Safe == Init /\ [][Next]_vars
Spec == Safe /\ Fairness

-----------------------------------------------------------------------------
(* Properties *)

\* The state keeps its shape.
TypeOK ==
    /\ now \in Nat /\ ticks \in Nat
    /\ lock \in [Workspaces -> Instances \union {Nobody}]
    /\ store \in [Workspaces -> Record \union {NoRecord}]
    /\ pc \in [Instances -> {"off", "idle", "tick", "locked", "fetch", "release", "bare"}]
    /\ started \in [Instances -> Nat] /\ failed \in [Instances -> BOOLEAN]
    /\ recorded \in [Instances -> Nat] /\ applied \in [Instances -> Nat]
    /\ outage \in [Instances -> BOOLEAN] /\ own \in [Instances -> BOOLEAN]
    /\ log \in [Workspaces -> Seq(BOOLEAN)]

Claims(i) == pc[i] \in {"locked", "fetch", "release"}

\* The claim is held exactly while its holder checks it, fetches or records:
\* a workspace has at most one claimed fetch, and none holds the claim idly.
ClaimMatchesWork ==
    \A i \in Instances, w \in Workspaces : lock[w] = i <=> w = W(i) /\ Claims(i)

\* A claimed fetch is due all the time it runs: no other instance records a
\* fetch in between, and failed ones count.  Only a record from a future of
\* this instance's clock does not.
FetchDue ==
    \A i \in Instances :
        pc[i] = "fetch" =>
            LET r == store[W(i)]
            IN r = NoRecord \/ r.started > started[i] \/ r.started + Interval[i] <= started[i] + Tolerance

\* Generations count the recorded fetches of a workspace, whoever ran them:
\* none is handed out twice, so no instance takes a new outcome for one it
\* has applied.
GenerationsCount ==
    \A w \in Workspaces : store[w].generation = Len(log[w])

\* An instance that has applied a generation shows the outcome of that very
\* fetch, its own or another's, unless it has fetched without a record since.
OutcomeShown ==
    \A i \in Instances :
        pc[i] # "off" /\ ~own[i] =>
            applied[i] \in DOMAIN log[W(i)] /\ outage[i] = log[W(i)][applied[i]]

ClaimFreed == \A i \in Instances : lock[W(i)] = i ~> lock[W(i)] # i
AllCatchUp ==
    <>[](\A i \in Instances :
            pc[i] # "off" => store[W(i)].generation \in {0, applied[i]})

\* No instance is kept from what it shares: every claim is released in the
\* end, whoever died with it, and once the fetches stop every instance has
\* applied the last record.
OthersFollow == ClaimFreed /\ AllCatchUp
=============================================================================
