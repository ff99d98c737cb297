----------------------------- MODULE LatestOnly -----------------------------
(***************************************************************************)
(* Latest-only job slots, tui/latest_only.rs, and how tui/effect.rs uses   *)
(* them: lookups of which only the newest request matters.                 *)
(*                                                                         *)
(* A kind keeps its newest waiting request and asks the scheduler for a    *)
(* slot under its tag.  A serial kind has one job queued or running; an    *)
(* overlapping one has one slot queued.  Several overlapping kinds and     *)
(* plain jobs may share a tag: a slot that spawns serves whichever of them *)
(* comes first.  The kinds of a view (line blame, commit card) ask again   *)
(* after every event for what the view wants and has no answer for yet.    *)
(*                                                                         *)
(* Left out: the scheduler's lanes (Scheduler) and the eviction of old     *)
(* answers.  A panicked worker lands as a failed answer.                   *)
(***************************************************************************)
EXTENDS Naturals, FiniteSets, FiniteSetsExt

CONSTANTS Kinds,     \* latest-only job kinds
          Serial,    \* those with SlotPolicy::Serial, each with its own tag
          Viewed,    \* the serial kinds that a view asks for
          Filtered,  \* kinds whose request is dropped at spawn when stale
          Tags,      \* scheduler tags
          TagOf,     \* the tag of each kind
          Rank,      \* the order in which a spawned slot tries its kinds
          Plain,     \* tags that also carry plain jobs, one slot each
          Keys,      \* bound: what a view can want
          MaxAsk     \* bound: requests made

ASSUME LatestOnlyAssumption ==
    /\ Viewed \subseteq Serial /\ Serial \subseteq Kinds /\ Filtered \subseteq Kinds \ Viewed
    /\ TagOf \in [Kinds -> Tags] /\ Rank \in [Kinds -> Nat] /\ Plain \subseteq Tags
    /\ Keys \in Nat /\ MaxAsk \in Nat
    /\ \A k, l \in Kinds : TagOf[k] = TagOf[l] => k = l \/ (Rank[k] # Rank[l] /\ k \notin Serial)
    /\ \A k \in Serial : TagOf[k] \notin Plain
    /\ IsFiniteSet(Kinds)

VARIABLES waiting,   \* newest request not started, per kind; 0 if none
          held,      \* per kind: LatestOnly::held
          slots,     \* slots queued on the scheduler, per tag
          running,   \* requests on a worker, per kind
          plain,     \* plain jobs waiting, per tag
          want,      \* what the view wants, per kind; 0 if nothing
          answers,   \* what it has answers for
          asked      \* requests made so far

vars == <<waiting, held, slots, running, plain, want, answers, asked>>

-----------------------------------------------------------------------------
(* The slot of one kind: [waiting, held, slots] of kind k and its tag. *)

Of(k) == [waiting |-> waiting[k], held |-> held[k], slots |-> slots[TagOf[k]]]

Offered(o, r) ==
    [waiting |-> r, held |-> TRUE, slots |-> IF o.held THEN o.slots ELSE o.slots + 1]

Cleared(o) == [o EXCEPT !.waiting = 0]

\* Mutant: the request that waited for the running job gets no slot.
Finished_Stranded(o) == [o EXCEPT !.held = FALSE]

Finished(o) ==
    IF o.waiting # 0 THEN [o EXCEPT !.held = TRUE, !.slots = @ + 1]
                     ELSE [o EXCEPT !.held = FALSE]

Put(k, o) ==
    /\ waiting' = [waiting EXCEPT ![k] = o.waiting]
    /\ held' = [held EXCEPT ![k] = o.held]
    /\ slots' = [slots EXCEPT ![TagOf[k]] = o.slots]

\* after_change: ask for what the view wants now.
Refreshed(o, w, known) ==
    IF w = 0 THEN Cleared(o) ELSE IF w \in known THEN o ELSE Offered(o, w)

-----------------------------------------------------------------------------

Init ==
    /\ waiting = [k \in Kinds |-> 0] /\ held = [k \in Kinds |-> FALSE]
    /\ slots = [t \in Tags |-> 0] /\ plain = [t \in Tags |-> 0]
    /\ running = [k \in Kinds |-> {}]
    /\ want = [k \in Viewed |-> 0] /\ answers = [k \in Viewed |-> {}]
    /\ asked = 0

Ask == asked < MaxAsk /\ asked' = asked + 1

\* A key, or a chunk of results that asks for the next one.
Offer(k) ==
    /\ Ask /\ k \notin Viewed
    /\ Put(k, Offered(Of(k), asked + 1))
    /\ UNCHANGED <<running, plain, want, answers>>

\* The view wants something else, nothing, or (after any other event) the
\* same again.
Want(k, w) ==
    /\ Ask
    /\ want' = [want EXCEPT ![k] = w]
    /\ Put(k, Refreshed(Of(k), w, answers[k]))
    /\ UNCHANGED <<running, plain, answers>>

\* Mutant: plain jobs share one slot.
OfferPlain_Shared(t, dropped) ==
    /\ Ask /\ dropped \in 0..plain[t]
    /\ plain' = [plain EXCEPT ![t] = @ - dropped + 1]
    /\ slots' = [slots EXCEPT ![t] = IF plain[t] = 0 THEN @ + 1 ELSE @]
    /\ UNCHANGED <<waiting, held, running, want, answers>>

\* A folder or file of the Explorer, on the tag of Quick Open.  A file drops
\* the queued files that no tab waits for any more; their slots stay.
OfferPlain(t, dropped) ==
    /\ Ask /\ dropped \in 0..plain[t]
    /\ plain' = [plain EXCEPT ![t] = @ - dropped + 1]
    /\ slots' = [slots EXCEPT ![t] = @ + 1]
    /\ UNCHANGED <<waiting, held, running, want, answers>>

Candidates(t) == {k \in Kinds : TagOf[k] = t /\ waiting[k] # 0}

\* The kind a slot of tag t serves.
Served(t) == CHOOSE k \in Candidates(t) : \A l \in Candidates(t) : Rank[k] <= Rank[l]

\* A slot whose kinds have nothing waiting gives each of them its slot back.
Tried(t) == {k \in Kinds : TagOf[k] = t /\ k \notin Candidates(t)}

SpawnPlain(t) ==
    /\ slots[t] > 0 /\ plain[t] > 0
    /\ slots' = [slots EXCEPT ![t] = @ - 1]
    /\ plain' = [plain EXCEPT ![t] = @ - 1]
    /\ UNCHANGED <<waiting, held, running, want, answers, asked>>

SpawnNothing(t) ==
    /\ slots[t] > 0 /\ plain[t] = 0 /\ Candidates(t) = {}
    /\ slots' = [slots EXCEPT ![t] = @ - 1]
    /\ held' = [k \in Kinds |-> held[k] /\ k \notin Tried(t)]
    /\ UNCHANGED <<waiting, running, plain, want, answers, asked>>

\* take_if: does the kind stay held?
Taken(k, keep) == k \in Serial /\ keep

SpawnJob(t, keep) ==
    /\ slots[t] > 0 /\ plain[t] = 0 /\ Candidates(t) # {}
    /\ LET k == Served(t)
       IN /\ keep \/ k \in Filtered
          /\ waiting' = [waiting EXCEPT ![k] = 0]
          /\ held' = [l \in Kinds |->
                        IF l = k THEN Taken(k, keep)
                        ELSE held[l] /\ (l \notin Tried(t) \/ Rank[l] > Rank[k])]
          /\ running' = IF keep THEN [running EXCEPT ![k] = @ \union {waiting[k]}] ELSE running
    /\ slots' = [slots EXCEPT ![t] = @ - 1]
    /\ UNCHANGED <<plain, want, answers, asked>>

\* The answer of a kind no view asks for lands.
Land(k, r) ==
    /\ k \notin Viewed /\ r \in running[k]
    /\ running' = [running EXCEPT ![k] = @ \ {r}]
    /\ IF k \in Serial THEN Put(k, Finished(Of(k))) ELSE UNCHANGED <<waiting, held, slots>>
    /\ UNCHANGED <<plain, want, answers, asked>>

\* apply_line_blame and the commit card's: an answer is kept, whoever asked.
Answered(k, r, kept) ==
    IF kept THEN [answers EXCEPT ![k] = @ \union {r}] ELSE answers

\* Mutant: the view does not ask again when an answer lands.
LandView_Once(k, r, kept) ==
    /\ r \in running[k] /\ (kept \/ want[k] = 0)
    /\ running' = [running EXCEPT ![k] = @ \ {r}]
    /\ answers' = Answered(k, r, kept)
    /\ Put(k, Finished(Cleared(Of(k))))
    /\ UNCHANGED <<plain, want, asked>>

\* release_line_blame and release_commit_card, then after_change.  An answer
\* is dropped while line blame is off.
LandView(k, r, kept) ==
    /\ r \in running[k] /\ (kept \/ want[k] = 0)
    /\ running' = [running EXCEPT ![k] = @ \ {r}]
    /\ answers' = Answered(k, r, kept)
    /\ Put(k, Refreshed(Finished(Cleared(Of(k))), want[k], answers'[k]))
    /\ UNCHANGED <<plain, want, asked>>

Spawn(t) == SpawnPlain(t) \/ SpawnNothing(t) \/ \E keep \in BOOLEAN : SpawnJob(t, keep)
Lands(k) ==
    \E r \in running[k], kept \in BOOLEAN : Land(k, r) \/ (k \in Viewed /\ LandView(k, r, kept))

Next ==
    \/ \E k \in Kinds : Offer(k)
    \/ \E k \in Viewed, w \in 0..Keys : Want(k, w)
    \/ \E t \in Plain, dropped \in 0..MaxAsk : OfferPlain(t, dropped)
    \/ \E t \in Tags : SpawnPlain(t)
    \/ \E t \in Tags : SpawnNothing(t)
    \/ \E t \in Tags, keep \in BOOLEAN : SpawnJob(t, keep)
    \/ \E k \in Kinds : \E r \in running[k] : Land(k, r)
    \/ \E k \in Viewed : \E r \in running[k], kept \in BOOLEAN : LandView(k, r, kept)

\* The live loop spawns after every event, and the lookups are bounded.
Fairness ==
    /\ \A t \in Tags : WF_vars(Spawn(t))
    /\ \A k \in Kinds : WF_vars(Lands(k))

Spec == Init /\ [][Next]_vars /\ Fairness

-----------------------------------------------------------------------------
(* Properties *)

\* A serial kind has one job at a time, and while it runs none is queued.
SerialOne ==
    \A k \in Serial :
        running[k] # {} => Cardinality(running[k]) = 1 /\ held[k] /\ slots[TagOf[k]] = 0

\* Requests that a slot should serve: those of a serial kind whose job still
\* runs get theirs when it ends.
Unserved(t) == {k \in Candidates(t) : running[k] = {} \/ k \notin Serial}

\* Kinds and plain jobs that share a tag cannot take each other's last slot:
\* whatever waits has one, unless its serial job still runs.
SlotPerWaiting ==
    /\ SerialOne
    /\ \A t \in Tags : slots[t] >= plain[t] + Cardinality(Unserved(t))

\* Once no more is asked for, every request has started or was dropped, and
\* a view that moved on while its lookup ran has the answer it wants.
RequestsEnd ==
    <>[](/\ \A k \in Kinds : waiting[k] = 0
         /\ \A k \in Viewed : want[k] = 0 \/ want[k] \in answers[k])

\* The state keeps its shape.
TypeOK ==
    /\ waiting \in [Kinds -> Nat] /\ held \in [Kinds -> BOOLEAN]
    /\ slots \in [Tags -> Nat] /\ plain \in [Tags -> Nat]
    /\ running \in [Kinds -> SUBSET Nat]
    /\ want \in [Viewed -> Nat] /\ answers \in [Viewed -> SUBSET Nat]
    /\ asked \in Nat

\* A serial kind is held from its slot to the end of its job, and by nothing
\* else: its slot is queued, or one job of it runs.
SerialSlot ==
    \A k \in Serial :
        /\ running[k] # {} => held[k] /\ slots[TagOf[k]] = 0 /\ \E r \in running[k] : running[k] = {r}
        /\ running[k] = {} => slots[TagOf[k]] = (IF held[k] THEN 1 ELSE 0)

\* The overlapping kinds of a tag that count on a slot of it.
Holding(t) == {k \in Kinds \ Serial : TagOf[k] = t /\ held[k]}

\* What waits is held; each kind that is held, and each plain job, has a slot
\* of its own; plain jobs wait on their tags only.
SlotPerHeld ==
    /\ \A k \in Kinds : waiting[k] # 0 => held[k]
    /\ \A t \in Tags : slots[t] >= plain[t] + Cardinality(Holding(t))
    /\ \A t \in Tags \ Plain : plain[t] = 0

\* The inductive invariant of ViewProofs.
IInv == TypeOK /\ SerialSlot /\ SlotPerHeld
=============================================================================
