------------------------------ MODULE ViewProofs ------------------------------
(***************************************************************************)
(* Three components of the views.                                          *)
(*                                                                         *)
(* Latest-only slots, for any kinds, tags and plain jobs, and any number   *)
(* of requests.                                                            *)
(* SlotPerWaiting counts what waits, and what waits does not say whose     *)
(* slot is queued: a view that clears its request leaves one behind.  The  *)
(* inductive invariant counts what is held: a kind is held from its slot   *)
(* on, and a slot that finds nothing to do releases the kinds it tried.    *)
(*                                                                         *)
(* The pages of the graph, for any repositories, states of git, histories  *)
(* that print a commit once, and page sizes.  InSight says that blocked    *)
(* pages have the newest one on its way and is inductive as it stands.     *)
(* That the graph is history needs more (Histories): a page on a worker    *)
(* that is still the newest one starts where the shown graph ends, because *)
(* a graph that replaces another one moves the newest generation past it.  *)
(*                                                                         *)
(* The gutter of the graph, for any number of commits with any parents     *)
(* below them.  PictureIsHistory speaks of all rows at once and says       *)
(* nothing of the lanes; GInv says of each row what it took over, what it  *)
(* hands down and which parents it found lanes for (RowFits).  A rail finds*)
(* its lane below because compacting takes each rail to a lane of its own  *)
(* that waits for the same commit: if none were left for it, more rails    *)
(* than lanes would wait for that commit (PartnerLeft).                    *)
(***************************************************************************)
EXTENDS LatestOnly, GraphPages, GraphLanes, QueueProofs, FiniteSetTheorems

-----------------------------------------------------------------------------
(* The slot of one kind *)

SlotRecord == [waiting : Nat, held : BOOLEAN, slots : Nat]

\* A slot record that a serial kind may have while `run` is on a worker.
Settled(o, run) ==
    /\ o.waiting # 0 => o.held
    /\ run # {} => o.held /\ o.slots = 0 /\ \E r \in run : run = {r}
    /\ run = {} => o.slots = (IF o.held THEN 1 ELSE 0)

LEMMA OfferedSettles ==
    ASSUME NEW o \in SlotRecord, NEW run, Settled(o, run), NEW r \in Nat
    PROVE  Offered(o, r) \in SlotRecord /\ Settled(Offered(o, r), run)
BY DEF Offered, SlotRecord, Settled

LEMMA ClearedSettles ==
    ASSUME NEW o \in SlotRecord, NEW run, Settled(o, run)
    PROVE  Cleared(o) \in SlotRecord /\ Settled(Cleared(o), run) /\ Cleared(o).waiting = 0
BY DEF Cleared, SlotRecord, Settled

LEMMA FinishedSettles ==
    ASSUME NEW o \in SlotRecord, NEW run, Settled(o, run), run # {}
    PROVE  Finished(o) \in SlotRecord /\ Settled(Finished(o), {})
<1>1. o.held = TRUE /\ o.slots = 0 /\ o.waiting \in Nat
  BY DEF SlotRecord, Settled
<1>2. CASE o.waiting # 0
  <2>1. Finished(o) = [o EXCEPT !.held = TRUE, !.slots = o.slots + 1]
    BY <1>2 DEF Finished
  <2>2. o.slots + 1 = 1
    BY <1>1
  <2>3. Finished(o) = [o EXCEPT !.held = TRUE, !.slots = 1]
    BY <2>1, <2>2
  <2>4. Finished(o).waiting = o.waiting /\ Finished(o).held = TRUE /\ Finished(o).slots = 1
    BY <2>3 DEF SlotRecord
  <2>5. Finished(o) = [waiting |-> o.waiting, held |-> TRUE, slots |-> 1]
    BY <2>3 DEF SlotRecord
  <2>6. Finished(o) \in SlotRecord
    BY <1>1, <2>5 DEF SlotRecord
  <2> QED BY <2>4, <2>6 DEF Settled
<1>3. CASE o.waiting = 0
  <2>1. Finished(o) = [o EXCEPT !.held = FALSE]
    BY <1>3 DEF Finished
  <2>2. Finished(o).waiting = 0 /\ Finished(o).held = FALSE /\ Finished(o).slots = 0
    BY <1>1, <1>3, <2>1 DEF SlotRecord
  <2>3. Finished(o) \in SlotRecord
    BY <2>1 DEF SlotRecord
  <2> QED BY <2>2, <2>3 DEF Settled
<1> QED BY <1>2, <1>3

LEMMA RefreshedSettles ==
    ASSUME NEW o \in SlotRecord, NEW run, Settled(o, run), NEW w \in Nat, NEW known
    PROVE  Refreshed(o, w, known) \in SlotRecord /\ Settled(Refreshed(o, w, known), run)
BY OfferedSettles, ClearedSettles DEF Refreshed

\* The state's record of a kind, and that of a serial one.
LEMMA OfSettles ==
    ASSUME IInv, NEW k \in Kinds
    PROVE  /\ Of(k) \in SlotRecord
           /\ Of(k).waiting = waiting[k] /\ Of(k).held = held[k] /\ Of(k).slots = slots[TagOf[k]]
           /\ k \in Serial => Settled(Of(k), running[k])
<1>1. TagOf[k] \in Tags
  BY LatestOnlyAssumption
<1> QED BY <1>1 DEF IInv, TypeOK, SerialSlot, SlotPerHeld, Of, SlotRecord, Settled

\* A serial kind has its tag to itself.
LEMMA SerialTag ==
    ASSUME NEW k \in Serial, NEW l \in Kinds, TagOf[l] = TagOf[k]
    PROVE  l = k
BY LatestOnlyAssumption

\* The kinds held on a tag are finitely many.
LEMMA HoldingFinite ==
    ASSUME NEW t
    PROVE  IsFiniteSet(Holding(t)) /\ Cardinality(Holding(t)) \in Nat
<1>1. IsFiniteSet(Kinds) /\ Holding(t) \subseteq Kinds
  BY LatestOnlyAssumption DEF Holding
<1> QED BY <1>1, FS_Subset, FS_CardinalityType

LEMMA HoldingFiniteNext ==
    ASSUME NEW t
    PROVE  IsFiniteSet(Holding(t)') /\ Cardinality(Holding(t)') \in Nat
<1>1. IsFiniteSet(Kinds) /\ Holding(t)' \subseteq Kinds
  BY LatestOnlyAssumption DEF Holding
<1> QED BY <1>1, FS_Subset, FS_CardinalityType

\* A handler that changes one kind: a serial one keeps its slot or its job,
\* an overlapping one is held from its slot on.
LEMMA PutKeepsIInv ==
    ASSUME IInv, NEW k \in Kinds, NEW o \in SlotRecord, NEW run \in SUBSET Nat,
           Put(k, o), running' = [running EXCEPT ![k] = run], plain' = plain,
           want' \in [Viewed -> Nat], answers' \in [Viewed -> SUBSET Nat], asked' \in Nat,
           k \in Serial => Settled(o, run),
           k \notin Serial => o.held /\ o.slots = slots[TagOf[k]] + (IF held[k] THEN 0 ELSE 1)
    PROVE  IInv'
<1> DEFINE t == TagOf[k]
<1>1. t \in Tags /\ o.waiting \in Nat /\ o.held \in BOOLEAN /\ o.slots \in Nat
  BY LatestOnlyAssumption DEF SlotRecord
<1>2. TypeOK'
  BY <1>1 DEF IInv, TypeOK, Put
<1>3. /\ waiting'[k] = o.waiting /\ slots'[t] = o.slots /\ running'[k] = run
      /\ \A l \in Kinds : l # k => waiting'[l] = waiting[l] /\ running'[l] = running[l]
      /\ \A u \in Tags : u # t => slots'[u] = slots[u]
  BY <1>1 DEF IInv, TypeOK, Put
<1>4. (held'[k] <=> o.held) /\ \A l \in Kinds : l # k => (held'[l] <=> held[l])
  BY <1>1 DEF IInv, TypeOK, Put
<1>5. SerialSlot'
  <2> SUFFICES ASSUME NEW l \in Serial
               PROVE  /\ running'[l] # {} => held'[l] /\ slots'[TagOf[l]] = 0
                                             /\ \E r \in running'[l] : running'[l] = {r}
                      /\ running'[l] = {} => slots'[TagOf[l]] = (IF held'[l] THEN 1 ELSE 0)
    BY DEF SerialSlot
  <2>1. CASE l = k
    BY <1>3, <1>4, <2>1 DEF Settled
  <2>2. CASE l # k
    <3>1. l \in Kinds /\ TagOf[l] \in Tags /\ TagOf[l] # t
      BY <2>2, LatestOnlyAssumption, SerialTag
    <3> QED BY <1>3, <1>4, <2>2, <3>1 DEF IInv, SerialSlot
  <2> QED BY <2>1, <2>2
<1>6. \A l \in Kinds : waiting'[l] # 0 => held'[l]
  BY <1>3, <1>4 DEF Settled, IInv, SlotPerHeld
<1>7. ASSUME NEW u \in Tags PROVE slots'[u] >= plain'[u] + Cardinality(Holding(u)')
  <2>0. slots[u] \in Nat /\ plain[u] \in Nat /\ slots[u] >= plain[u] + Cardinality(Holding(u))
    BY DEF IInv, TypeOK, SlotPerHeld
  <2>1. CASE u # t
    <3>1. Holding(u)' = Holding(u)
      BY <1>4, <2>1 DEF Holding
    <3> QED BY <1>3, <2>0, <2>1, <3>1
  <2>2. CASE u = t /\ k \in Serial
    <3>1. Holding(u)' = {} /\ Holding(u) = {}
      BY <2>2, SerialTag DEF Holding
    <3>2. Cardinality(Holding(u)') = 0
      BY <3>1, FS_EmptySet
    <3>3. plain[u] = 0
      BY <2>2, LatestOnlyAssumption DEF IInv, SlotPerHeld
    <3> QED BY <1>1, <1>3, <2>2, <3>2, <3>3
  <2>3. CASE u = t /\ k \notin Serial
    <3>1. Holding(u)' = Holding(u) \union {k}
      BY <1>4, <2>3 DEF Holding
    <3>2. k \in Holding(u) <=> held[k]
      BY <2>3 DEF Holding
    <3>3. Cardinality(Holding(u)') = Cardinality(Holding(u)) + (IF held[k] THEN 0 ELSE 1)
      <4>1. IsFiniteSet(Holding(u)) /\ Cardinality(Holding(u)) \in Nat
        BY HoldingFinite
      <4>2. CASE held[k]
        <5>1. Holding(u)' = Holding(u)
          BY <3>1, <3>2, <4>2
        <5> QED BY <4>1, <4>2, <5>1
      <4>3. CASE ~held[k]
        <5>1. Cardinality(Holding(u) \union {k}) = Cardinality(Holding(u)) + 1
          BY <3>2, <4>1, <4>3, FS_AddElement
        <5> QED BY <3>1, <4>3, <5>1
      <4> QED BY <4>2, <4>3
    <3>4. CASE held[k]
      BY <1>3, <2>0, <2>3, <3>3, <3>4, HoldingFinite
    <3>5. CASE ~held[k]
      BY <1>3, <2>0, <2>3, <3>3, <3>5, HoldingFinite
    <3> QED BY <3>4, <3>5
  <2> QED BY <2>1, <2>2, <2>3
<1>8. \A u \in Tags \ Plain : plain'[u] = 0
  BY DEF IInv, SlotPerHeld
<1> QED BY <1>2, <1>5, <1>6, <1>7, <1>8 DEF IInv, SlotPerHeld

-----------------------------------------------------------------------------
(* The steps *)

LEMMA InitEstablishesIInv == Init => IInv
<1> SUFFICES ASSUME Init PROVE IInv
  OBVIOUS
<1>1. TypeOK
  BY DEF Init, TypeOK
<1>2. SerialSlot
  BY LatestOnlyAssumption DEF Init, SerialSlot
<1>3. ASSUME NEW t \in Tags PROVE slots[t] >= plain[t] + Cardinality(Holding(t))
  <2>1. Holding(t) = {}
    BY DEF Init, Holding
  <2>2. Cardinality(Holding(t)) = 0
    BY <2>1, FS_EmptySet
  <2> QED BY <2>2 DEF Init
<1> QED BY <1>1, <1>2, <1>3 DEF Init, IInv, SlotPerHeld

\* A request of a kind that no view asks for.
LEMMA OfferKeepsIInv ==
    ASSUME IInv, NEW k \in Kinds, Offer(k)
    PROVE  IInv'
<1> DEFINE o == Offered(Of(k), asked + 1)
<1>1. /\ Put(k, o) /\ UNCHANGED <<running, plain, want, answers>> /\ asked' \in Nat /\ asked + 1 \in Nat
  BY DEF Offer, Ask, IInv, TypeOK
<1>2. /\ Of(k) \in SlotRecord /\ Of(k).held = held[k] /\ Of(k).slots = slots[TagOf[k]]
      /\ k \in Serial => Settled(Of(k), running[k])
  BY OfSettles
<1>3. o \in SlotRecord /\ (k \in Serial => Settled(o, running[k]))
  <2>1. o \in SlotRecord
    BY <1>1, <1>2 DEF Offered, SlotRecord
  <2> QED BY <1>1, <1>2, <2>1, OfferedSettles
<1>4. o.held /\ o.slots = slots[TagOf[k]] + (IF held[k] THEN 0 ELSE 1)
  <2>1. slots[TagOf[k]] \in Nat
    BY LatestOnlyAssumption DEF IInv, TypeOK
  <2> QED BY <1>2, <2>1 DEF Offered
<1>5. running[k] \in SUBSET Nat /\ running' = [running EXCEPT ![k] = running[k]]
  BY <1>1 DEF IInv, TypeOK
<1> HIDE DEF o
<1> QED BY <1>1, <1>3, <1>4, <1>5, PutKeepsIInv DEF IInv, TypeOK

\* The view of a serial kind wants something.
LEMMA WantKeepsIInv ==
    ASSUME IInv, NEW k \in Viewed, NEW w \in 0..Keys, Want(k, w)
    PROVE  IInv'
<1> DEFINE o == Refreshed(Of(k), w, answers[k])
<1>0. k \in Kinds /\ k \in Serial /\ w \in Nat
  BY LatestOnlyAssumption
<1>1. /\ Put(k, o) /\ UNCHANGED <<running, plain, answers>> /\ asked' \in Nat
      /\ want' \in [Viewed -> Nat]
  BY <1>0 DEF Want, Ask, IInv, TypeOK
<1>2. o \in SlotRecord /\ Settled(o, running[k])
  BY <1>0, OfSettles, RefreshedSettles
<1>3. running[k] \in SUBSET Nat /\ running' = [running EXCEPT ![k] = running[k]]
  BY <1>0, <1>1 DEF IInv, TypeOK
<1> HIDE DEF o
<1> QED BY <1>0, <1>1, <1>2, <1>3, PutKeepsIInv DEF IInv, TypeOK

\* The answer of a kind that no view asks for.
LEMMA LandKeepsIInv ==
    ASSUME IInv, NEW k \in Kinds, NEW r \in running[k], Land(k, r)
    PROVE  IInv'
<1>1. /\ running' = [running EXCEPT ![k] = running[k] \ {r}]
      /\ UNCHANGED <<plain, want, answers, asked>>
      /\ running[k] \in SUBSET Nat
  BY DEF Land, IInv, TypeOK
<1>2. CASE k \in Serial
  <2> DEFINE o == Finished(Of(k))
  <2>1. Put(k, o)
    BY <1>2 DEF Land
  <2>2. o \in SlotRecord /\ Settled(o, {})
    BY <1>2, OfSettles, FinishedSettles
  <2>3. running[k] \ {r} = {}
    BY <1>2 DEF IInv, SerialSlot
  <2> HIDE DEF o
  <2> QED BY <1>1, <1>2, <2>1, <2>2, <2>3, PutKeepsIInv DEF IInv, TypeOK
<1>3. CASE k \notin Serial
  <2>1. UNCHANGED <<waiting, held, slots>>
    BY <1>3 DEF Land
  <2>2. TypeOK'
    BY <1>1, <2>1 DEF IInv, TypeOK
  <2>3. SerialSlot'
    <3>1. \A l \in Serial : l \in Kinds /\ running'[l] = running[l]
      BY <1>1, <1>3, LatestOnlyAssumption DEF IInv, TypeOK
    <3> QED BY <2>1, <3>1 DEF IInv, SerialSlot
  <2>4. SlotPerHeld'
    BY <1>1, <2>1 DEF IInv, SlotPerHeld, Holding
  <2> QED BY <2>2, <2>3, <2>4 DEF IInv
<1> QED BY <1>2, <1>3

\* The answer of a kind of a view, which then asks for what it wants now.
LEMMA LandViewKeepsIInv ==
    ASSUME IInv, NEW k \in Viewed, NEW r \in running[k], NEW kept \in BOOLEAN, LandView(k, r, kept)
    PROVE  IInv'
<1> DEFINE c == Cleared(Of(k))
           f == Finished(c)
           o == Refreshed(f, want[k], answers'[k])
<1>0. k \in Kinds /\ k \in Serial /\ want[k] \in Nat
  BY LatestOnlyAssumption DEF IInv, TypeOK
<1>1. /\ running' = [running EXCEPT ![k] = running[k] \ {r}]
      /\ UNCHANGED <<plain, want, asked>> /\ Put(k, o)
      /\ running[k] \in SUBSET Nat
  BY <1>0 DEF LandView, IInv, TypeOK
<1>2. answers' \in [Viewed -> SUBSET Nat]
  BY <1>1 DEF LandView, Answered, IInv, TypeOK
<1>3. c \in SlotRecord /\ Settled(c, running[k])
  BY <1>0, OfSettles, ClearedSettles
<1>4. f \in SlotRecord /\ Settled(f, {})
  BY <1>3, FinishedSettles
<1>5. o \in SlotRecord /\ Settled(o, {})
  BY <1>0, <1>4, RefreshedSettles
<1>6. running[k] \ {r} = {}
  BY <1>0 DEF IInv, SerialSlot
<1> HIDE DEF o
<1> QED BY <1>0, <1>1, <1>2, <1>5, <1>6, PutKeepsIInv DEF IInv, TypeOK

\* A plain job brings its slot, and the files it drops leave theirs.
LEMMA OfferPlainKeepsIInv ==
    ASSUME IInv, NEW t \in Plain, NEW dropped \in 0..MaxAsk, OfferPlain(t, dropped)
    PROVE  IInv'
<1>1. /\ t \in Tags /\ plain[t] \in Nat /\ slots[t] \in Nat /\ dropped \in Nat /\ dropped <= plain[t]
      /\ plain' = [plain EXCEPT ![t] = plain[t] - dropped + 1]
      /\ slots' = [slots EXCEPT ![t] = slots[t] + 1]
      /\ UNCHANGED <<waiting, held, running, want, answers>> /\ asked' \in Nat
  BY LatestOnlyAssumption DEF OfferPlain, Ask, IInv, TypeOK
<1>2. plain[t] - dropped + 1 \in Nat /\ plain[t] - dropped + 1 <= plain[t] + 1
  BY <1>1
<1>3. TypeOK'
  BY <1>1, <1>2 DEF IInv, TypeOK
<1>4. SerialSlot'
  <2>1. \A k \in Serial : k \in Kinds /\ TagOf[k] \in Tags /\ TagOf[k] # t
    BY LatestOnlyAssumption
  <2>2. \A k \in Serial : slots'[TagOf[k]] = slots[TagOf[k]]
    BY <1>1, <2>1 DEF IInv, TypeOK
  <2> QED BY <1>1, <2>2 DEF IInv, SerialSlot
<1>5. ASSUME NEW u \in Tags PROVE slots'[u] >= plain'[u] + Cardinality(Holding(u)')
  <2>1. Holding(u)' = Holding(u) /\ Cardinality(Holding(u)) \in Nat
    BY <1>1, HoldingFinite DEF Holding
  <2>2. slots[u] \in Nat /\ plain[u] \in Nat /\ slots[u] >= plain[u] + Cardinality(Holding(u))
    BY DEF IInv, TypeOK, SlotPerHeld
  <2>3. CASE u = t
    <3>1. slots'[u] = slots[u] + 1 /\ plain'[u] = plain[t] - dropped + 1
      BY <1>1, <2>3 DEF IInv, TypeOK
    <3> QED BY <1>2, <2>1, <2>2, <2>3, <3>1
  <2>4. CASE u # t
    <3>1. slots'[u] = slots[u] /\ plain'[u] = plain[u]
      BY <1>1, <2>4 DEF IInv, TypeOK
    <3> QED BY <2>1, <2>2, <3>1
  <2> QED BY <2>3, <2>4
<1>6. \A u \in Tags \ Plain : plain'[u] = 0
  BY <1>1 DEF IInv, TypeOK, SlotPerHeld
<1> QED BY <1>1, <1>3, <1>4, <1>5, <1>6 DEF IInv, SlotPerHeld

\* A slot serves a plain job before any kind of its tag.
LEMMA SpawnPlainKeepsIInv ==
    ASSUME IInv, NEW t \in Tags, SpawnPlain(t)
    PROVE  IInv'
<1>1. /\ plain[t] \in Nat /\ slots[t] \in Nat /\ slots[t] > 0 /\ plain[t] > 0 /\ t \in Plain
      /\ plain' = [plain EXCEPT ![t] = plain[t] - 1]
      /\ slots' = [slots EXCEPT ![t] = slots[t] - 1]
      /\ UNCHANGED <<waiting, held, running, want, answers, asked>>
  BY DEF SpawnPlain, IInv, TypeOK, SlotPerHeld
<1>2. TypeOK'
  BY <1>1 DEF IInv, TypeOK
<1>3. SerialSlot'
  <2>1. \A k \in Serial : k \in Kinds /\ TagOf[k] \in Tags /\ TagOf[k] # t
    BY <1>1, LatestOnlyAssumption
  <2>2. \A k \in Serial : slots'[TagOf[k]] = slots[TagOf[k]]
    BY <1>1, <2>1 DEF IInv, TypeOK
  <2> QED BY <1>1, <2>2 DEF IInv, SerialSlot
<1>4. ASSUME NEW u \in Tags PROVE slots'[u] >= plain'[u] + Cardinality(Holding(u)')
  <2>1. Holding(u)' = Holding(u) /\ Cardinality(Holding(u)) \in Nat
    BY <1>1, HoldingFinite DEF Holding
  <2>2. slots[u] \in Nat /\ plain[u] \in Nat /\ slots[u] >= plain[u] + Cardinality(Holding(u))
    BY DEF IInv, TypeOK, SlotPerHeld
  <2>3. CASE u = t
    <3>1. slots'[u] = slots[u] - 1 /\ plain'[u] = plain[u] - 1
      BY <1>1, <2>3 DEF IInv, TypeOK
    <3> QED BY <1>1, <2>1, <2>2, <2>3, <3>1
  <2>4. CASE u # t
    <3>1. slots'[u] = slots[u] /\ plain'[u] = plain[u]
      BY <1>1, <2>4 DEF IInv, TypeOK
    <3> QED BY <2>1, <2>2, <3>1
  <2> QED BY <2>3, <2>4
<1>5. \A u \in Tags \ Plain : plain'[u] = 0
  BY <1>1 DEF IInv, TypeOK, SlotPerHeld
<1> QED BY <1>1, <1>2, <1>3, <1>4, <1>5 DEF IInv, SlotPerHeld

\* A slot that finds nothing to do releases every kind of its tag.
LEMMA SpawnNothingKeepsIInv ==
    ASSUME IInv, NEW t \in Tags, SpawnNothing(t)
    PROVE  IInv'
<1>1. /\ plain[t] = 0 /\ slots[t] \in Nat /\ slots[t] > 0 /\ Candidates(t) = {}
      /\ slots' = [slots EXCEPT ![t] = slots[t] - 1]
      /\ held' = [k \in Kinds |-> held[k] /\ k \notin Tried(t)]
      /\ UNCHANGED <<waiting, running, plain, want, answers, asked>>
  BY DEF SpawnNothing, IInv, TypeOK
<1>2. \A k \in Kinds : k \in Tried(t) <=> TagOf[k] = t
  BY <1>1 DEF Tried
<1>3. \A k \in Kinds : /\ TagOf[k] = t => ~held'[k] /\ waiting[k] = 0
                       /\ TagOf[k] # t => (held'[k] <=> held[k])
  BY <1>1, <1>2 DEF Candidates
<1>4. TypeOK'
  BY <1>1 DEF IInv, TypeOK
<1>5. SerialSlot'
  <2> SUFFICES ASSUME NEW k \in Serial
               PROVE  /\ running'[k] # {} => held'[k] /\ slots'[TagOf[k]] = 0
                                             /\ \E r \in running'[k] : running'[k] = {r}
                      /\ running'[k] = {} => slots'[TagOf[k]] = (IF held'[k] THEN 1 ELSE 0)
    BY DEF SerialSlot
  <2>1. k \in Kinds /\ TagOf[k] \in Tags
    BY LatestOnlyAssumption
  <2>2. CASE TagOf[k] = t
    <3>1. running[k] = {} /\ slots[t] = 1
      BY <1>1, <2>2 DEF IInv, SerialSlot
    <3>2. slots'[t] = 0 /\ ~held'[k] /\ running'[k] = {}
      BY <1>1, <1>3, <2>1, <2>2, <3>1 DEF IInv, TypeOK
    <3> QED BY <2>2, <3>2
  <2>3. CASE TagOf[k] # t
    <3>1. slots'[TagOf[k]] = slots[TagOf[k]] /\ running'[k] = running[k] /\ (held'[k] <=> held[k])
      BY <1>1, <1>3, <2>1, <2>3 DEF IInv, TypeOK
    <3> QED BY <3>1 DEF IInv, SerialSlot
  <2> QED BY <2>2, <2>3
<1>6. \A k \in Kinds : waiting'[k] # 0 => held'[k]
  BY <1>1, <1>3 DEF IInv, SlotPerHeld
<1>7. ASSUME NEW u \in Tags PROVE slots'[u] >= plain'[u] + Cardinality(Holding(u)')
  <2>1. CASE u = t
    <3>1. Holding(u)' = {}
      BY <1>3, <2>1 DEF Holding
    <3>2. slots'[u] \in Nat /\ plain'[u] = 0
      BY <1>1, <1>4, <2>1 DEF TypeOK
    <3> QED BY <3>1, <3>2, FS_EmptySet
  <2>2. CASE u # t
    <3>1. Holding(u)' = Holding(u) /\ slots'[u] = slots[u] /\ plain'[u] = plain[u]
      BY <1>1, <1>3, <2>2 DEF Holding, IInv, TypeOK
    <3> QED BY <3>1 DEF IInv, SlotPerHeld
  <2> QED BY <2>1, <2>2
<1>8. \A u \in Tags \ Plain : plain'[u] = 0
  BY <1>1 DEF IInv, SlotPerHeld
<1> QED BY <1>4, <1>5, <1>6, <1>7, <1>8 DEF IInv, SlotPerHeld

\* A slot with something to serve has a kind of lowest rank to serve.
LEMMA ServedIsCandidate ==
    ASSUME IInv, NEW t, Candidates(t) # {}
    PROVE  Served(t) \in Candidates(t)
<1> DEFINE ranks == {Rank[k] : k \in Candidates(t)}
<1>1. Candidates(t) \subseteq Kinds /\ ranks \in SUBSET Nat /\ ranks # {}
  BY LatestOnlyAssumption DEF Candidates
<1>2. PICK n \in ranks : \A m \in ranks : n <= m
  BY <1>1, LeastNatural
<1>3. \E k \in Candidates(t) : \A l \in Candidates(t) : Rank[k] <= Rank[l]
  BY <1>2
<1> QED BY <1>3 DEF Served

\* A slot that serves a kind takes it from those that wait; a kind it tried
\* before has nothing waiting, and loses nothing by its release.
LEMMA SpawnJobKeepsIInv ==
    ASSUME IInv, NEW t \in Tags, NEW keep \in BOOLEAN, SpawnJob(t, keep)
    PROVE  IInv'
<1> DEFINE k == Served(t)
<1>1. k \in Kinds /\ TagOf[k] = t /\ waiting[k] # 0 /\ waiting[k] \in Nat
  BY ServedIsCandidate DEF SpawnJob, Candidates, IInv, TypeOK
<1>2. /\ plain[t] = 0 /\ slots[t] \in Nat /\ slots[t] > 0
      /\ waiting' = [waiting EXCEPT ![k] = 0]
      /\ held' = [l \in Kinds |-> IF l = k THEN Taken(k, keep)
                                  ELSE held[l] /\ (l \notin Tried(t) \/ Rank[l] > Rank[k])]
      /\ running' = IF keep THEN [running EXCEPT ![k] = @ \union {waiting[k]}] ELSE running
      /\ slots' = [slots EXCEPT ![t] = slots[t] - 1]
      /\ UNCHANGED <<plain, want, answers, asked>>
  BY DEF SpawnJob, IInv, TypeOK
<1> HIDE DEF k
<1>3. held[k]
  BY <1>1 DEF IInv, SlotPerHeld
<1>4. held'[k] <=> k \in Serial /\ keep
  BY <1>1, <1>2 DEF Taken
<1>5. \A l \in Kinds : l # k => /\ held'[l] => held[l]
                                /\ TagOf[l] # t \/ waiting[l] # 0 => (held'[l] <=> held[l])
                                /\ waiting'[l] = waiting[l] /\ running'[l] = running[l]
  BY <1>1, <1>2 DEF Tried, Candidates, IInv, TypeOK
<1>6. TypeOK'
  <2>1. held' \in [Kinds -> BOOLEAN]
    BY <1>2 DEF Taken, IInv, TypeOK
  <2>2. running' \in [Kinds -> SUBSET Nat]
    BY <1>1, <1>2 DEF IInv, TypeOK
  <2>3. slots' \in [Tags -> Nat] /\ waiting' \in [Kinds -> Nat]
    BY <1>1, <1>2 DEF IInv, TypeOK
  <2> QED BY <1>2, <2>1, <2>2, <2>3 DEF IInv, TypeOK
<1>7. SerialSlot'
  <2> SUFFICES ASSUME NEW l \in Serial
               PROVE  /\ running'[l] # {} => held'[l] /\ slots'[TagOf[l]] = 0
                                             /\ \E r \in running'[l] : running'[l] = {r}
                      /\ running'[l] = {} => slots'[TagOf[l]] = (IF held'[l] THEN 1 ELSE 0)
    BY DEF SerialSlot
  <2>1. l \in Kinds /\ TagOf[l] \in Tags
    BY LatestOnlyAssumption
  <2>2. CASE l = k
    <3>1. running[k] = {} /\ slots[t] = 1
      BY <1>1, <1>2, <2>2 DEF IInv, SerialSlot
    <3>2. slots'[t] = 0
      BY <1>2, <3>1 DEF IInv, TypeOK
    <3>3. running'[k] = IF keep THEN {waiting[k]} ELSE {}
      BY <1>1, <1>2, <3>1 DEF IInv, TypeOK
    <3> QED BY <1>1, <1>4, <2>2, <3>2, <3>3
  <2>3. CASE l # k
    <3>1. TagOf[l] # t
      BY <1>1, <2>1, <2>3, SerialTag
    <3>2. slots'[TagOf[l]] = slots[TagOf[l]]
      BY <1>2, <2>1, <3>1 DEF IInv, TypeOK
    <3> QED BY <1>5, <2>1, <2>3, <3>1, <3>2 DEF IInv, SerialSlot
  <2> QED BY <2>2, <2>3
<1>8. ASSUME NEW l \in Kinds, waiting'[l] # 0 PROVE held'[l]
  <2>1. l # k
    BY <1>1, <1>2, <1>8 DEF IInv, TypeOK
  <2>2. waiting[l] # 0
    BY <1>5, <1>8, <2>1
  <2> QED BY <1>5, <2>1, <2>2 DEF IInv, SlotPerHeld
<1>9. ASSUME NEW u \in Tags PROVE slots'[u] >= plain'[u] + Cardinality(Holding(u)')
  <2>0. slots[u] \in Nat /\ plain[u] \in Nat /\ slots[u] >= plain[u] + Cardinality(Holding(u))
    BY DEF IInv, TypeOK, SlotPerHeld
  <2>1. CASE u # t
    <3>1. Holding(u)' = Holding(u)
      BY <1>1, <1>5, <2>1 DEF Holding
    <3>2. slots'[u] = slots[u] /\ plain'[u] = plain[u]
      BY <1>2, <2>1 DEF IInv, TypeOK
    <3> QED BY <2>0, <3>1, <3>2
  <2>2. CASE u = t /\ k \notin Serial
    <3>1. k \in Holding(u) /\ Holding(u)' \subseteq Holding(u) \ {k}
      BY <1>1, <1>3, <1>4, <1>5, <2>2 DEF Holding
    <3>2. Cardinality(Holding(u) \ {k}) = Cardinality(Holding(u)) - 1 /\ IsFiniteSet(Holding(u) \ {k})
      BY <3>1, HoldingFinite, FS_RemoveElement
    <3>3. Cardinality(Holding(u)') <= Cardinality(Holding(u)) - 1
      BY <3>1, <3>2, FS_Subset
    <3>4. slots'[u] = slots[u] - 1 /\ plain'[u] = plain[u]
      BY <1>2, <2>2 DEF IInv, TypeOK
    <3> QED BY <2>0, <3>3, <3>4, HoldingFinite, HoldingFiniteNext
  <2>3. CASE u = t /\ k \in Serial
    <3>1. Holding(u)' = {}
      BY <1>1, <2>3, SerialTag DEF Holding
    <3>2. slots'[u] \in Nat /\ plain'[u] = 0
      BY <1>2, <1>6, <2>3 DEF TypeOK
    <3> QED BY <3>1, <3>2, FS_EmptySet
  <2> QED BY <2>1, <2>2, <2>3
<1>10. \A u \in Tags \ Plain : plain'[u] = 0
  BY <1>2 DEF IInv, SlotPerHeld
<1> QED BY <1>6, <1>7, <1>8, <1>9, <1>10 DEF IInv, SlotPerHeld

\* Every step keeps the invariant.
LEMMA StepKeepsIInv == IInv /\ [Next]_vars => IInv'
<1> SUFFICES ASSUME IInv, [Next]_vars PROVE IInv'
  OBVIOUS
<1>1. ASSUME NEW k \in Kinds, Offer(k) PROVE IInv'
  BY <1>1, OfferKeepsIInv
<1>2. ASSUME NEW k \in Viewed, NEW w \in 0..Keys, Want(k, w) PROVE IInv'
  BY <1>2, WantKeepsIInv
<1>3. ASSUME NEW t \in Plain, NEW dropped \in 0..MaxAsk, OfferPlain(t, dropped) PROVE IInv'
  BY <1>3, OfferPlainKeepsIInv
<1>4. ASSUME NEW t \in Tags, SpawnPlain(t) PROVE IInv'
  BY <1>4, SpawnPlainKeepsIInv
<1>5. ASSUME NEW t \in Tags, SpawnNothing(t) PROVE IInv'
  BY <1>5, SpawnNothingKeepsIInv
<1>6. ASSUME NEW t \in Tags, NEW keep \in BOOLEAN, SpawnJob(t, keep) PROVE IInv'
  BY <1>6, SpawnJobKeepsIInv
<1>7. ASSUME NEW k \in Kinds, NEW r \in running[k], Land(k, r) PROVE IInv'
  BY <1>7, LandKeepsIInv
<1>8. ASSUME NEW k \in Viewed, NEW r \in running[k], NEW kept \in BOOLEAN, LandView(k, r, kept) PROVE IInv'
  BY <1>8, LandViewKeepsIInv
<1>9. ASSUME UNCHANGED vars PROVE IInv'
  BY <1>9 DEF vars, IInv, TypeOK, SerialSlot, SlotPerHeld, Holding
<1> QED BY <1>1, <1>2, <1>3, <1>4, <1>5, <1>6, <1>7, <1>8, <1>9 DEF Next

\* Who is held has a slot or a job, so what waits is served.
LEMMA HeldIsServed == IInv => SlotPerWaiting
<1> SUFFICES ASSUME IInv PROVE SlotPerWaiting
  OBVIOUS
<1>1. SerialOne
  <2> SUFFICES ASSUME NEW k \in Serial, running[k] # {}
               PROVE  Cardinality(running[k]) = 1 /\ held[k] /\ slots[TagOf[k]] = 0
    BY DEF SerialOne
  <2>1. PICK r \in running[k] : running[k] = {r}
    BY DEF IInv, SerialSlot
  <2>2. Cardinality({r}) = 1
    BY FS_Singleton
  <2> QED BY <2>1, <2>2 DEF IInv, SerialSlot
<1>2. ASSUME NEW t \in Tags PROVE slots[t] >= plain[t] + Cardinality(Unserved(t))
  <2>0. slots[t] \in Nat /\ plain[t] \in Nat /\ slots[t] >= plain[t] + Cardinality(Holding(t))
    BY DEF IInv, TypeOK, SlotPerHeld
  <2>1. \A k \in Unserved(t) : k \in Kinds /\ TagOf[k] = t /\ held[k] /\ (running[k] = {} \/ k \notin Serial)
    BY DEF Unserved, Candidates, IInv, SlotPerHeld
  <2>2. CASE \E k \in Serial : k \in Unserved(t)
    <3>1. PICK k \in Serial : k \in Unserved(t)
      BY <2>2
    <3>2. Unserved(t) = {k}
      BY <2>1, <3>1, SerialTag
    <3>3. Cardinality(Unserved(t)) = 1
      BY <3>2, FS_Singleton
    <3>4. slots[t] = 1
      BY <2>1, <3>1 DEF IInv, SerialSlot
    <3>5. plain[t] = 0
      BY <2>1, <3>1, LatestOnlyAssumption DEF IInv, SlotPerHeld
    <3> QED BY <3>3, <3>4, <3>5
  <2>3. CASE \A k \in Serial : k \notin Unserved(t)
    <3>1. Unserved(t) \subseteq Holding(t)
      BY <2>1, <2>3 DEF Holding
    <3>2. Cardinality(Unserved(t)) <= Cardinality(Holding(t)) /\ IsFiniteSet(Unserved(t))
      BY <3>1, HoldingFinite, FS_Subset
    <3> QED BY <2>0, <3>2, HoldingFinite, FS_CardinalityType
  <2> QED BY <2>2, <2>3
<1> QED BY <1>1, <1>2 DEF SlotPerWaiting

\* No request and no plain job is ever without a slot to come, for any kinds
\* that share tags in any way, and a serial kind never has two jobs.
THEOREM EveryRequestHasASlot == Spec => []SlotPerWaiting
BY InitEstablishesIInv, StepKeepsIInv, HeldIsServed, PTL DEF Spec

-----------------------------------------------------------------------------
(* The record of the pages *)

PageFields == {"cursor", "onWorkspace", "focus", "graph", "identity", "loadingOlder", "latest",
               "autoload", "slots", "running", "wanted", "paneJob", "status", "olderPrev", "reveal"}

\* The fields, the queued slots and what the status slot may say.
PageShape(s) ==
    /\ DOMAIN s = PageFields /\ s.slots \in Nat
    /\ s.status \in {"older", "latest"} /\ (s.status = "older" => s.olderPrev = "latest")

\* The older page that unblocks the others, and any older page at all.
NewestOnItsWay(s) ==
    \/ s.autoload # Nothing /\ s.autoload.gen = s.latest /\ s.slots > 0
    \/ \E j \in s.running : j.gen = s.latest
OlderOnItsWay(s) == (s.autoload # Nothing /\ s.slots > 0) \/ s.running # {}

InSight(s) ==
    /\ PageShape(s)
    /\ s.loadingOlder => NewestOnItsWay(s)
    /\ s.status = "older" => OlderOnItsWay(s)

\* What decides whether older pages are in sight.
SameOlder(s, t) ==
    /\ DOMAIN t = PageFields
    /\ t.autoload = s.autoload /\ t.latest = s.latest /\ t.slots = s.slots /\ t.running = s.running

SameSight(s, t) ==
    /\ SameOlder(s, t)
    /\ t.loadingOlder = s.loadingOlder /\ t.status = s.status /\ t.olderPrev = s.olderPrev

LEMMA SameOlderInSight ==
    ASSUME NEW s, NEW t, InSight(s), SameOlder(s, t),
           t.loadingOlder => s.loadingOlder,
           t.status = "latest" \/ (t.status = s.status /\ t.olderPrev = s.olderPrev)
    PROVE  InSight(t)
BY DEF InSight, SameOlder, PageShape, NewestOnItsWay, OlderOnItsWay

LEMMA SameSightInSight ==
    ASSUME NEW s, NEW t, InSight(s), SameSight(s, t) PROVE InSight(t)
BY SameOlderInSight DEF SameSight

\* A record that names something is not the one that names nothing.
LEMMA SomeAutoload ==
    ASSUME NEW g, NEW r
    PROVE  [gen |-> g, repo |-> r] # Nothing /\ [gen |-> g, repo |-> r].gen = g
<1>1. "gen" \in DOMAIN [gen |-> g, repo |-> r] /\ "gen" \notin DOMAIN Nothing
  BY DEF Nothing
<1> QED BY <1>1

LEMMA SayInSight == ASSUME NEW s, InSight(s) PROVE InSight(Say(s))
<1>1. Say(s).status = "latest" /\ ~ (Say(s).loadingOlder # s.loadingOlder) /\ SameOlder(s, Say(s))
  BY DEF Say, SameOlder, InSight, PageShape, PageFields
<1> QED BY <1>1, SameOlderInSight

LEMMA AskPaneInSight == ASSUME NEW s, InSight(s) PROVE InSight(AskPane(s))
<1>1. PICK w : w = PaneRequest(s)
  OBVIOUS
<1>2. AskPane(s) = [s EXCEPT !.wanted = w]
  BY <1>1 DEF AskPane
<1> QED BY <1>2, SameOlderInSight DEF SameOlder, InSight, PageShape, PageFields

LEMMA RetryRevealSame ==
    ASSUME NEW s, DOMAIN s = PageFields, NEW repo, NEW seen
    PROVE  SameSight(s, RetryReveal(s, repo, seen))
<1>1. RetryReveal(s, repo, seen) = s \/ \E r : RetryReveal(s, repo, seen) = [s EXCEPT !.reveal = r]
  BY DEF RetryReveal
<1>2. ASSUME NEW r PROVE SameSight(s, [s EXCEPT !.reveal = r])
  BY DEF SameSight, SameOlder, PageFields
<1> QED BY <1>1, <1>2 DEF SameSight, SameOlder

LEMMA SetGraphSame ==
    ASSUME NEW s, DOMAIN s = PageFields, NEW g, NEW repo
    PROVE  SameSight(s, SetGraph(s, g, repo))
<1>1. PICK t : t = [s EXCEPT !.graph = g, !.identity = repo]
  OBVIOUS
<1>2. SameSight(s, t)
  BY <1>1 DEF SameSight, SameOlder, PageFields
<1>3. ASSUME NEW seen \in BOOLEAN PROVE SameSight(t, RetryReveal(t, repo, seen))
  BY <1>2, RetryRevealSame DEF SameSight, SameOlder
<1> QED BY <1>1, <1>2, <1>3 DEF SetGraph, SameSight, SameOlder

\* With no older page blocking others, the message goes back to what it was.
LEMMA RestoreInSight ==
    ASSUME NEW s, PageShape(s), s.loadingOlder => NewestOnItsWay(s)
    PROVE  InSight(RestoreOlderPrev(s))
<1> DEFINE t == RestoreOlderPrev(s)
<1>1. t.status = "latest" /\ SameOlder(s, t) /\ ~ (t.loadingOlder # s.loadingOlder)
  BY DEF RestoreOlderPrev, SameOlder, PageShape, PageFields
<1>2. PageShape(t)
  <2> HIDE DEF t
  <2> QED BY <1>1 DEF SameOlder, PageShape
<1>3. InSight(t)
  <2> HIDE DEF t
  <2> QED BY <1>1, <1>2 DEF InSight, SameOlder, NewestOnItsWay
<1> QED BY <1>3

LEMMA QueueAutoloadInSight ==
    ASSUME NEW s, InSight(s), ~s.loadingOlder
    PROVE  InSight(QueueAutoload(s))
<1>1. CASE s.identity = NoRepo
  BY <1>1 DEF QueueAutoload
<1>2. CASE s.identity # NoRepo
  <2> DEFINE t == QueueAutoload(s)
  <2>1. PICK a : a = [gen |-> s.latest + 1, repo |-> s.identity]
    OBVIOUS
  <2>2. PICK prev : prev = (IF s.status = "older" THEN s.olderPrev ELSE s.status)
    OBVIOUS
  <2>3. a # Nothing /\ a.gen = s.latest + 1
    BY <2>1, SomeAutoload
  <2>4. t = [s EXCEPT !.loadingOlder = TRUE, !.latest = s.latest + 1, !.autoload = a, !.olderPrev = prev,
                      !.status = "older", !.slots = s.slots + 1]
    BY <1>2, <2>1, <2>2 DEF QueueAutoload
  <2>5. /\ t.latest = s.latest + 1 /\ t.autoload = a /\ t.olderPrev = prev
        /\ t.status = "older" /\ t.slots = s.slots + 1 /\ DOMAIN t = PageFields
    BY <2>4 DEF InSight, PageShape, PageFields
  <2>6. prev = "latest"
    BY <2>2 DEF InSight, PageShape
  <2>7. InSight(t)
    <3> HIDE DEF t
    <3>1. PageShape(t)
      BY <2>5, <2>6 DEF InSight, PageShape
    <3>2. t.autoload # Nothing /\ t.autoload.gen = t.latest /\ t.slots > 0
      BY <2>3, <2>5 DEF InSight, PageShape
    <3> QED BY <3>1, <3>2 DEF InSight, NewestOnItsWay, OlderOnItsWay
  <2> QED BY <2>7
<1> QED BY <1>1, <1>2

LEMMA AfterChangeInSight == ASSUME NEW s, InSight(s) PROVE InSight(AfterChange(s))
<1>1. CASE ~AutoloadAllowed(s) \/ ~WantsOlder(s)
  BY <1>1 DEF AfterChange
<1>2. CASE AutoloadAllowed(s) /\ WantsOlder(s)
  <2>1. ASSUME NEW r PROVE InSight([s EXCEPT !.reveal = r]) /\ ~[s EXCEPT !.reveal = r].loadingOlder
    BY <1>2, SameOlderInSight DEF AutoloadAllowed, SameOlder, InSight, PageShape, PageFields
  <2>2. \E r : \/ AfterChange(s) = QueueAutoload([s EXCEPT !.reveal = r])
               \/ AfterChange(s) = Say([s EXCEPT !.reveal = r])
    BY <1>2 DEF AfterChange
  <2> QED BY <2>1, <2>2, QueueAutoloadInSight, SayInSight
<1> QED BY <1>1, <1>2

LEMMA CancelAutoloadInSight ==
    ASSUME NEW s, InSight(s) PROVE InSight(CancelAutoload(s))
<1>1. PICK t : t = [s EXCEPT !.latest = s.latest + 1, !.autoload = Nothing, !.loadingOlder = FALSE]
  OBVIOUS
<1>2. PageShape(t) /\ ~t.loadingOlder
  BY <1>1 DEF InSight, PageShape, PageFields
<1>3. CancelAutoload(s) = RestoreOlderPrev(t)
  BY <1>1 DEF CancelAutoload
<1> QED BY <1>2, <1>3, RestoreInSight

\* The end of an older page: the newest one unblocks the others.
LEMMA FinishInSight ==
    ASSUME NEW s, PageShape(s), NEW accepted \in BOOLEAN,
           ~accepted /\ s.loadingOlder => NewestOnItsWay(s)
    PROVE  InSight(FinishAutoload(s, accepted))
<1>1. CASE accepted
  <2>1. PICK t : t = [s EXCEPT !.loadingOlder = FALSE]
    OBVIOUS
  <2>2. PageShape(t) /\ ~t.loadingOlder
    BY <2>1 DEF PageShape, PageFields
  <2> QED BY <1>1, <2>1, <2>2, RestoreInSight DEF FinishAutoload
<1>2. CASE ~accepted /\ ~s.loadingOlder
  BY <1>2, RestoreInSight DEF FinishAutoload
<1>3. CASE ~accepted /\ s.loadingOlder
  BY <1>3 DEF FinishAutoload, InSight, NewestOnItsWay, OlderOnItsWay
<1> QED BY <1>1, <1>2, <1>3

-----------------------------------------------------------------------------
(* Older pages end in sight *)

LEMMA PagesInitInSight == PagesInit => InSight(view)
<1> SUFFICES ASSUME PagesInit PROVE InSight(view)
  OBVIOUS
<1>1. PICK r \in Repos :
        view = AskPane([cursor |-> r, onWorkspace |-> TRUE, focus |-> NoRepo,
                        graph |-> Nothing, identity |-> NoRepo, loadingOlder |-> FALSE,
                        latest |-> 0, autoload |-> Nothing, slots |-> 0, running |-> {},
                        wanted |-> Nothing, paneJob |-> Nothing,
                        status |-> "latest", olderPrev |-> "none", reveal |-> Nothing])
  BY DEF PagesInit
<1>2. PICK s : s = [cursor |-> r, onWorkspace |-> TRUE, focus |-> NoRepo,
                    graph |-> Nothing, identity |-> NoRepo, loadingOlder |-> FALSE,
                    latest |-> 0, autoload |-> Nothing, slots |-> 0, running |-> {},
                    wanted |-> Nothing, paneJob |-> Nothing,
                    status |-> "latest", olderPrev |-> "none", reveal |-> Nothing]
  OBVIOUS
<1>3. DOMAIN s = PageFields
  BY <1>2 DEF PageFields
<1>4. s.slots = 0 /\ s.status = "latest" /\ ~s.loadingOlder
  BY <1>2
<1>5. InSight(s)
  BY <1>3, <1>4 DEF InSight, PageShape
<1> QED BY <1>1, <1>2, <1>5, AskPaneInSight

\* Keys and refreshes: they change what is shown, focused or revealed.
LEMMA InputsInSight ==
    ASSUME InSight(view),
           \/ \E r \in PageRows : MoveRow(r)
           \/ RefreshPane
           \/ \E r \in Repos : FocusBranches(r)
           \/ ClearFocus \/ PageTab \/ Message \/ LastRow
    PROVE  InSight(view')
<1>1. ASSUME NEW r, MoveRow(r) PROVE InSight(view')
  <2>1. PICK s : s = [view EXCEPT !.cursor = r, !.reveal = Nothing]
    OBVIOUS
  <2>2. SameSight(view, s)
    BY <2>1 DEF SameSight, SameOlder, InSight, PageShape, PageFields
  <2>3. InSight(AfterChange(AskPane(s)))
    BY <2>2, SameSightInSight, AskPaneInSight, AfterChangeInSight
  <2> QED BY <1>1, <2>1, <2>3 DEF MoveRow
<1>2. CASE RefreshPane
  BY <1>2, AskPaneInSight, AfterChangeInSight DEF RefreshPane
<1>3. ASSUME NEW f, view' = AfterChange(AskPane(Say([view EXCEPT !.identity = NoRepo, !.focus = f])))
      PROVE  InSight(view')
  <2>1. PICK s : s = [view EXCEPT !.identity = NoRepo, !.focus = f]
    OBVIOUS
  <2>2. SameSight(view, s)
    BY <2>1 DEF SameSight, SameOlder, InSight, PageShape, PageFields
  <2>3. InSight(AfterChange(AskPane(Say(s))))
    BY <2>2, SameSightInSight, SayInSight, AskPaneInSight, AfterChangeInSight
  <2> QED BY <1>3, <2>1, <2>3
<1>4. CASE PageTab
  <2>1. PICK t \in BOOLEAN : t <=> ~view.onWorkspace
    OBVIOUS
  <2>2. PICK s : s = [view EXCEPT !.onWorkspace = ~view.onWorkspace]
    OBVIOUS
  <2>3. SameSight(view, s)
    BY <2>2 DEF SameSight, SameOlder, InSight, PageShape, PageFields
  <2>4. InSight(AfterChange(s))
    BY <2>3, SameSightInSight, AfterChangeInSight
  <2> QED BY <1>4, <2>2, <2>4 DEF PageTab
<1>5. CASE Message
  BY <1>5, SayInSight, AfterChangeInSight DEF Message
<1>6. CASE LastRow
  BY <1>6, QueueAutoloadInSight, AfterChangeInSight DEF LastRow, AutoloadAllowed
<1> QED BY <1>1, <1>2, <1>3, <1>4, <1>5, <1>6 DEF FocusBranches, ClearFocus

LEMMA RevealInSight ==
    ASSUME InSight(view), NEW repo \in Repos, NEW sha \in Commits, Reveal(repo, sha)
    PROVE  InSight(view')
<1>1. PICK rev : rev = [repo |-> repo, sha |-> sha, pages |-> 0, seen |-> FALSE]
  OBVIOUS
<1>2. PICK s : s = [view EXCEPT !.onWorkspace = TRUE, !.cursor = repo, !.reveal = rev]
  OBVIOUS
<1>3. SameSight(view, s)
  BY <1>2 DEF SameSight, SameOlder, InSight, PageShape, PageFields
<1>4. InSight(s)
  BY <1>3, SameSightInSight
<1>5. ASSUME NEW seen \in BOOLEAN PROVE InSight(RetryReveal(s, repo, seen))
  BY <1>4, RetryRevealSame, SameSightInSight DEF InSight, PageShape
<1>6. \E t : InSight(t) /\ (view' = AfterChange(AskPane(t)) \/ view' = AfterChange(t))
  BY <1>1, <1>2, <1>4, <1>5 DEF Reveal
<1> QED BY <1>6, AskPaneInSight, AfterChangeInSight

LEMMA SpawnsInSight ==
    ASSUME InSight(view), SpawnLoad \/ SpawnOlder
    PROVE  InSight(view')
<1>1. CASE SpawnLoad
  <2>1. PICK job : job = [req |-> view.wanted, since |-> git]
    OBVIOUS
  <2>2. view' = [view EXCEPT !.paneJob = job, !.wanted = Nothing]
    BY <1>1, <2>1 DEF SpawnLoad
  <2>3. SameSight(view, view')
    BY <2>2 DEF SameSight, SameOlder, InSight, PageShape, PageFields
  <2> QED BY <2>3, SameSightInSight
<1>2. CASE SpawnOlder
  <2>1. PICK s : s = [view EXCEPT !.slots = view.slots - 1]
    OBVIOUS
  <2>2. /\ DOMAIN s = PageFields /\ s.slots = view.slots - 1 /\ s.autoload = view.autoload
        /\ s.latest = view.latest /\ s.running = view.running /\ s.loadingOlder = view.loadingOlder
        /\ s.status = view.status /\ s.olderPrev = view.olderPrev /\ s.graph = view.graph
    BY <2>1 DEF InSight, PageShape, PageFields
  <2>3. PageShape(s)
    BY <1>2, <2>2 DEF SpawnOlder, InSight, PageShape
  <2>4. CASE s.autoload = Nothing
    <3>1. InSight(s)
      BY <2>2, <2>3, <2>4 DEF InSight, NewestOnItsWay, OlderOnItsWay
    <3> QED BY <1>2, <2>1, <2>4, <3>1 DEF SpawnOlder
  <2>5. CASE s.autoload # Nothing /\ s.graph = Nothing
    <3>1. PICK t : t = [s EXCEPT !.autoload = Nothing, !.loadingOlder = FALSE]
      OBVIOUS
    <3>2. PageShape(t) /\ ~t.loadingOlder
      BY <2>3, <3>1 DEF PageShape, PageFields
    <3> QED BY <1>2, <2>1, <2>5, <3>1, <3>2, RestoreInSight DEF SpawnOlder
  <2>6. CASE s.autoload # Nothing /\ s.graph # Nothing
    <3>1. PICK j : j = [gen |-> s.autoload.gen, repo |-> s.autoload.repo, since |-> git,
                        skip |-> OlderSkip(s.graph), limit |-> s.graph.limit,
                        focused |-> FocusRevs(s)]
      OBVIOUS
    <3>2. j.gen = s.autoload.gen
      BY <3>1
    <3>3. view' = [s EXCEPT !.autoload = Nothing, !.running = s.running \union {j}]
      BY <1>2, <2>1, <2>6, <3>1 DEF SpawnOlder
    <3>4. /\ DOMAIN view' = PageFields /\ view'.slots = s.slots /\ view'.status = s.status
          /\ view'.olderPrev = s.olderPrev /\ view'.running = s.running \union {j}
          /\ view'.latest = s.latest /\ view'.loadingOlder = s.loadingOlder
      BY <2>2, <3>3 DEF PageFields
    <3>5. PageShape(view')
      BY <2>3, <3>4 DEF PageShape
    <3>6. view'.loadingOlder => NewestOnItsWay(view')
      BY <2>2, <2>6, <3>2, <3>4 DEF InSight, NewestOnItsWay
    <3> QED BY <3>4, <3>5, <3>6 DEF InSight, OlderOnItsWay
  <2> QED BY <2>4, <2>5, <2>6
<1> QED BY <1>1, <1>2

LEMMA LoadEndsInSight ==
    ASSUME InSight(view), LoadPanics \/ \E v \in 1..Versions : LoadLands(v)
    PROVE  InSight(view')
<1>1. PICK s : s = [view EXCEPT !.paneJob = Nothing]
  OBVIOUS
<1>2. SameSight(view, s)
  BY <1>1 DEF SameSight, SameOlder, InSight, PageShape, PageFields
<1>3. InSight(s)
  BY <1>2, SameSightInSight
<1>4. CASE LoadPanics
  BY <1>1, <1>3, <1>4, AfterChangeInSight DEF LoadPanics
<1>5. ASSUME NEW v, LoadLands(v) PROVE InSight(view')
  <2>1. InSight(AskPane(s))
    BY <1>3, AskPaneInSight
  <2>2. ASSUME NEW g, NEW repo PROVE InSight(SetGraph(CancelAutoload(s), g, repo))
    BY <1>3, CancelAutoloadInSight, SetGraphSame, SameSightInSight DEF InSight, PageShape
  <2>3. InSight(SetDiff(s))
    <3>1. PICK t : t = SetDiff(s)
      OBVIOUS
    <3>2. SameSight(s, t)
      BY <1>3, <3>1 DEF SetDiff, SameSight, SameOlder, InSight, PageShape, PageFields
    <3> QED BY <1>3, <3>1, <3>2, SameSightInSight
  <2>4. InSight(ClearRight(s))
    <3>1. PICK t : t = ClearRight(s)
      OBVIOUS
    <3>2. SameOlder(s, t) /\ ~t.loadingOlder
          /\ t.status = s.status /\ t.olderPrev = s.olderPrev
      BY <1>3, <3>1 DEF ClearRight, SameOlder, InSight, PageShape, PageFields
    <3> QED BY <1>3, <3>1, <3>2, SameOlderInSight
  <2>5. \E t : InSight(t) /\ view' = AfterChange(t)
    BY <1>1, <1>3, <1>5, <2>1, <2>2, <2>3, <2>4 DEF LoadLands
  <2> QED BY <2>5, AfterChangeInSight
<1> QED BY <1>4, <1>5

\* Without the page that ended, the newest one is still on its way unless it
\* was the one that ended.
LEMMA OlderEndsKeepSight ==
    ASSUME InSight(view), NEW j \in view.running, NEW s, s = [view EXCEPT !.running = view.running \ {j}]
    PROVE  /\ PageShape(s) /\ s.latest = view.latest
           /\ j.gen # view.latest /\ s.loadingOlder => NewestOnItsWay(s)
<1>1. /\ DOMAIN s = PageFields /\ s.slots = view.slots /\ s.autoload = view.autoload
      /\ s.latest = view.latest /\ s.running = view.running \ {j} /\ s.loadingOlder = view.loadingOlder
      /\ s.status = view.status /\ s.olderPrev = view.olderPrev
  BY DEF InSight, PageShape, PageFields
<1>2. PageShape(s)
  BY <1>1 DEF InSight, PageShape
<1>3. ASSUME j.gen # view.latest, s.loadingOlder PROVE NewestOnItsWay(s)
  BY <1>1, <1>3 DEF InSight, NewestOnItsWay
<1> QED BY <1>1, <1>2, <1>3

LEMMA OlderEndsInSightNext ==
    ASSUME InSight(view), NEW j \in view.running,
           OlderPanics(j) \/ \E v \in 1..Versions : OlderLands(j, v)
    PROVE  InSight(view')
<1>1. PICK s : s = [view EXCEPT !.running = view.running \ {j}]
  OBVIOUS
<1>2. PICK accepted \in BOOLEAN : accepted <=> (j.gen = view.latest)
  OBVIOUS
<1>3. PageShape(s) /\ (~accepted /\ s.loadingOlder => NewestOnItsWay(s))
  BY <1>1, <1>2, OlderEndsKeepSight
<1>4. CASE OlderPanics(j)
  <2>1. view' = AfterChange(FinishAutoload(s, j.gen = view.latest))
    BY <1>1, <1>4 DEF OlderPanics
  <2>2. (j.gen = view.latest) = accepted
    BY <1>2
  <2> QED BY <1>3, <2>1, <2>2, FinishInSight, AfterChangeInSight
<1>5. ASSUME NEW v, OlderLands(j, v) PROVE InSight(view')
  <2>1. (j.gen = view.latest) = accepted
    BY <1>2
  <2>2. \E g : \E landed \in {s, SetGraph(s, g, j.repo)} :
            view' = AfterChange(FinishAutoload(landed, accepted))
    BY <1>1, <1>5, <2>1 DEF OlderLands
  <2>3. ASSUME NEW g, NEW landed \in {s, SetGraph(s, g, j.repo)}
        PROVE  PageShape(landed) /\ (~accepted /\ landed.loadingOlder => NewestOnItsWay(landed))
    <3>1. SameSight(s, landed)
      BY <1>3, SetGraphSame DEF SameSight, SameOlder, PageShape
    <3> QED BY <1>3, <3>1 DEF SameSight, SameOlder, PageShape, NewestOnItsWay
  <2> QED BY <2>2, <2>3, FinishInSight, AfterChangeInSight
<1> QED BY <1>4, <1>5

\* Whatever lands late, panics or is cancelled, blocked older pages have one
\* on its way that unblocks them, and `loading older...` ends with it.
\* (effect.rs: autoload, spawn_user, apply_outcome, finish_autoload)
THEOREM OlderPagesInSight == PagesSpec => []OlderEndsInSight
<1>1. PagesInit => InSight(view)
  BY PagesInitInSight
<1>2. InSight(view) /\ [PagesNext]_pageVars => InSight(view)'
  <2> SUFFICES ASSUME InSight(view), [PagesNext]_pageVars PROVE InSight(view')
    OBVIOUS
  <2>1. CASE GitMoves \/ UNCHANGED pageVars
    BY <2>1 DEF GitMoves, pageVars
  <2>2. CASE PagesNext
    BY <2>1, <2>2, InputsInSight, RevealInSight, SpawnsInSight, LoadEndsInSight, OlderEndsInSightNext
       DEF PagesNext
  <2> QED BY <2>1, <2>2
<1>3. InSight(view) => OlderEndsInSight
  BY DEF InSight, PageShape, NewestOnItsWay, OlderOnItsWay, OlderEndsInSight
<1> QED BY <1>1, <1>2, <1>3, PTL DEF PagesSpec

-----------------------------------------------------------------------------
(* What the loaded graph shows *)

\* What a graph or a page was read from: a row, a state of git and a focus.
Sources == Repos \X (1..Versions) \X BOOLEAN

Log(p) == History[p[2]][p[3]]

\* `g` shows a prefix of the log of source `p`.
Faithful(g, p) ==
    /\ Len(g.window) <= Len(Log(p))
    /\ g.window = SubSeq(Log(p), 1, Len(g.window))
    /\ ~g.more => g.window = Log(p)
    /\ g.extras \intersect ToSet(g.window) = {}
    /\ g.stashes \subseteq Loaded(g)
    /\ ~p[3] => g.stashes = Stashed[p[2]] /\ g.extras \subseteq g.stashes

GraphOK(g) ==
    /\ g.window \in Seq(Commits) /\ g.limit \in Nat \ {0}
    /\ g.from \in SUBSET Sources /\ IsFiniteSet(g.from) /\ g.from # {}
    /\ \A p, q \in g.from : p[1] = q[1]
    /\ \A p \in Sources : g.from = {p} => Faithful(g, p)

RequestOK(w) == w.row \in PageRows /\ w.focused \in BOOLEAN /\ w.limit \in Nat \ {0}

OlderOK(j) ==
    /\ j.repo \in Repos /\ j.skip \in Nat /\ j.limit \in Nat \ {0}
    /\ j.since \in 1..Versions /\ j.focused \in BOOLEAN /\ j.gen \in Nat

\* Generations are handed out once, and the newest page was asked for at the
\* end of the graph that is still shown.
OlderFits(s) ==
    /\ s.autoload # Nothing =>
           /\ s.autoload.gen = s.latest /\ s.autoload.repo \in Repos
           /\ \A j \in s.running : j.gen < s.latest
    /\ \A j \in s.running : OlderOK(j) /\ j.gen <= s.latest
    /\ \A j, k \in s.running : j.gen = k.gen => j = k
    /\ s.graph # Nothing =>
           \A j \in s.running : j.gen = s.latest => j.skip = Len(s.graph.window)

ShownFits(s) ==
    /\ s.cursor \in PageRows /\ s.identity \in Repos \union {NoRepo}
    /\ s.graph # Nothing => GraphOK(s.graph) /\ \A p \in s.graph.from : s.identity \in {NoRepo, p[1]}

LoadsFit(s) ==
    /\ s.wanted # Nothing => RequestOK(s.wanted)
    /\ s.paneJob # Nothing => RequestOK(s.paneJob.req) /\ s.paneJob.since \in 1..Versions

Histories(s) ==
    DOMAIN s = PageFields /\ s.latest \in Nat /\ ShownFits(s) /\ OlderFits(s) /\ LoadsFit(s)


(* Windows: part of the log of their source. *)

LEMMA SourceParts ==
    ASSUME NEW p \in Sources
    PROVE  p[1] \in Repos /\ p[2] \in 1..Versions /\ p[3] \in BOOLEAN /\ p = <<p[1], p[2], p[3]>>
BY DEF Sources

\* The log is a sequence of commits, each of them once.
LEMMA LogOnce ==
    ASSUME NEW p \in Sources
    PROVE  /\ Log(p) \in Seq(Commits) /\ Len(Log(p)) \in Nat
           /\ \A a, b \in 1..Len(Log(p)) : Log(p)[a] = Log(p)[b] => a = b
<1>1. PICK log : log = Log(p)
  OBVIOUS
<1>2. log \in Seq(ToSet(log)) /\ IsInjective(log)
  BY <1>1, SourceParts, GraphPagesAssumption DEF Log
<1>3. DOMAIN log = 1..Len(log) /\ Len(log) \in Nat
  BY <1>2, LenProperties
<1>4. ToSet(log) \subseteq Commits
  BY <1>1, SourceParts DEF Commits, Log
<1>5. log \in Seq(Commits)
  BY <1>2, <1>4
<1> QED BY <1>1, <1>2, <1>3, <1>5 DEF IsInjective

LEMMA SmallerOfTwo ==
    ASSUME NEW a \in Int, NEW b \in Int
    PROVE  Min({a, b}) = IF a <= b THEN a ELSE b
BY DEF Min

LEMMA LargestOfThree ==
    ASSUME NEW a \in Int, NEW b \in Int, NEW c \in Int
    PROVE  Max({a, b, c}) \in {a, b, c} /\ Max({a, b, c}) >= c
<1>1. \E x \in {a, b, c} : \A y \in {a, b, c} : x >= y
  OBVIOUS
<1> QED BY <1>1 DEF Max

\* The elements of s after the first a, up to the m-th.
LEMMA PartOf ==
    ASSUME NEW S, NEW s \in Seq(S), NEW a \in Nat, NEW m \in Nat, m <= Len(s)
    PROVE  /\ SubSeq(s, a + 1, m) \in Seq(S)
           /\ Len(SubSeq(s, a + 1, m)) = IF a <= m THEN m - a ELSE 0
           /\ \A i \in 1..(m - a) : SubSeq(s, a + 1, m)[i] = s[a + i]
<1>1. \A i \in (a + 1)..m : s[i] \in S
  BY ElementOfSeq, LenProperties
<1>2. a + 1 \in Int /\ m \in Int
  OBVIOUS
<1>3. /\ SubSeq(s, a + 1, m) \in Seq(S)
      /\ Len(SubSeq(s, a + 1, m)) = IF a + 1 <= m THEN m - (a + 1) + 1 ELSE 0
      /\ \A i \in 1..(m - (a + 1) + 1) : SubSeq(s, a + 1, m)[i] = s[(a + 1) + i - 1]
  BY <1>1, <1>2, SubSeqProperties
<1>4. m - (a + 1) + 1 = m - a /\ \A i \in 1..(m - a) : (a + 1) + i - 1 = a + i
  OBVIOUS
<1> QED BY <1>3, <1>4

\* `w` holds the log from `skip` to `m`, all the rest of it if no more is promised.
Cuts(w, log, skip, m) ==
    /\ m <= Len(log) /\ w.window = SubSeq(log, skip + 1, m)
    /\ skip <= Len(log) => skip <= m
    /\ skip <= Len(log) /\ ~w.more => m = Len(log)

LEMMA WindowCuts ==
    ASSUME NEW p \in Sources, NEW skip \in Nat, NEW limit \in Nat \ {0},
           NEW w, w = Window(p[1], p[2], p[3], skip, limit)
    PROVE  \E m \in Nat : Cuts(w, Log(p), skip, m)
<1>1. PICK log : log = Log(p)
  OBVIOUS
<1>2. log \in Seq(Commits) /\ Len(log) \in Nat
  BY <1>1, LogOnce
<1>3. PICK m : m = Min({skip + limit, Len(log)})
  OBVIOUS
<1>4. m = (IF skip + limit <= Len(log) THEN skip + limit ELSE Len(log)) /\ m \in Nat
  BY <1>2, <1>3, SmallerOfTwo
<1>5. PICK shown : shown = SubSeq(log, skip + 1, m)
  OBVIOUS
<1>6. w.window = shown
  BY <1>1, <1>3, <1>5 DEF Window, Log
<1>7. w.more <=> limit > 0 /\ Len(shown) = limit
  <2>1. w.more = (limit > 0 /\ Len(shown) = limit)
    BY <1>1, <1>3, <1>5 DEF Window, Log
  <2> QED BY <2>1
<1>8. Len(shown) = IF skip <= m THEN m - skip ELSE 0
  BY <1>2, <1>4, <1>5, PartOf
<1>9. skip <= Len(log) /\ ~w.more => m = Len(log)
  BY <1>2, <1>4, <1>7, <1>8
<1> QED BY <1>1, <1>2, <1>4, <1>5, <1>6, <1>9 DEF Cuts

\* The other fields of a page.
PageOf(w, p, limit) ==
    /\ w.window \in Seq(Commits) /\ w.limit = limit /\ w.from = {p}
    /\ w.extras = IF p[3] THEN {} ELSE Stashed[p[2]] \ ToSet(w.window)
    /\ w.stashes = IF p[3] THEN Stashed[p[2]] \intersect ToSet(w.window) ELSE Stashed[p[2]]

LEMMA WindowFields ==
    ASSUME NEW p \in Sources, NEW skip \in Nat, NEW limit \in Nat \ {0},
           NEW w, w = Window(p[1], p[2], p[3], skip, limit)
    PROVE  PageOf(w, p, limit)
<1>1. PICK m \in Nat : Cuts(w, Log(p), skip, m)
  BY WindowCuts
<1>2. w.window \in Seq(Commits)
  BY <1>1, LogOnce, PartOf DEF Cuts
<1>3. w.from = {p} /\ w.limit = limit
  BY SourceParts DEF Window
<1>4. /\ w.extras = IF p[3] THEN {} ELSE Stashed[p[2]] \ ToSet(w.window)
      /\ w.stashes = IF p[3] THEN Stashed[p[2]] \intersect ToSet(w.window) ELSE Stashed[p[2]]
  <2>1. PICK shown : shown = SubSeq(Log(p), skip + 1, Min({skip + limit, Len(Log(p))}))
    OBVIOUS
  <2> QED BY <2>1 DEF Window, Log
<1> QED BY <1>2, <1>3, <1>4 DEF PageOf

\* A first window is a graph.
LEMMA WindowOK ==
    ASSUME NEW p \in Sources, NEW limit \in Nat \ {0}, NEW w, w = Window(p[1], p[2], p[3], 0, limit)
    PROVE  GraphOK(w) /\ \A q \in w.from : q[1] = p[1]
<1>1. PICK log : log = Log(p)
  OBVIOUS
<1>2. log \in Seq(Commits) /\ Len(log) \in Nat
  BY <1>1, LogOnce
<1>3. PICK m \in Nat : Cuts(w, log, 0, m)
  BY <1>1, WindowCuts
<1>4. PageOf(w, p, limit)
  BY WindowFields
<1>5. w.window = SubSeq(log, 1, m) /\ m <= Len(log) /\ (~w.more => m = Len(log))
  BY <1>2, <1>3 DEF Cuts
<1>6. Len(w.window) = m
  <2>1. Len(SubSeq(log, 0 + 1, m)) = m - 0
    BY <1>2, <1>5, PartOf
  <2> QED BY <1>5, <2>1
<1>7. Faithful(w, p)
  <2>1. ~w.more => w.window = log
    BY <1>2, <1>5, SubSeqFull
  <2>2. w.extras \intersect ToSet(w.window) = {} /\ w.stashes \subseteq Loaded(w)
    BY <1>4 DEF Loaded, PageOf
  <2>3. ~p[3] => w.stashes = Stashed[p[2]] /\ w.extras \subseteq w.stashes
    BY <1>4 DEF PageOf
  <2> QED BY <1>1, <1>5, <1>6, <2>1, <2>2, <2>3 DEF Faithful
<1>8. IsFiniteSet(w.from) /\ w.from = {p}
  <2>1. IsFiniteSet({p})
    BY FS_Singleton
  <2> QED BY <1>4, <2>1 DEF PageOf
<1> QED BY <1>4, <1>7, <1>8 DEF GraphOK, PageOf

-----------------------------------------------------------------------------
(* Merging a page *)

\* Induction up to a bound, for a set instead of a predicate.
LEMMA UpTo ==
    ASSUME NEW L \in Nat, NEW S, 0 \in S, \A n \in 1..L : n - 1 \in S => n \in S
    PROVE  \A n \in 0..L : n \in S
<1> DEFINE missing == {n \in 0..L : n \notin S}
<1>1. SUFFICES ASSUME missing # {} PROVE FALSE
  OBVIOUS
<1>2. PICK n \in missing : \A k \in missing : n <= k
  <2>1. missing \in SUBSET Nat
    OBVIOUS
  <2> HIDE DEF missing
  <2> QED BY <1>1, <2>1, LeastNatural
<1>3. n \in 1..L /\ n - 1 \in 0..L /\ ~(n <= n - 1)
  BY <1>2
<1>4. n - 1 \notin missing
  <2> HIDE DEF missing
  <2> QED BY <1>2, <1>3
<1> QED BY <1>2, <1>3, <1>4

\* The window that merge_autoload has built after n commits of the page.
Merges(f, window, page, n) ==
    f[n] = IF n = 0 THEN window
           ELSE IF page[n] \in ToSet(f[n - 1]) THEN f[n - 1] ELSE Append(f[n - 1], page[n])

\* The recursion of MergedWindow has a solution.
LEMMA MergeDefined ==
    ASSUME NEW T, NEW window \in Seq(T), NEW page \in Seq(T)
    PROVE  \E f \in [0..Len(page) -> Seq(T)] : \A n \in 0..Len(page) : Merges(f, window, page, n)
<1> DEFINE Solved(m) == \E f \in [0..m -> Seq(T)] : \A n \in 0..m : Merges(f, window, page, n)
           solved == {m \in 0..Len(page) : Solved(m)}
<1>1. Len(page) \in Nat /\ \A i \in 1..Len(page) : page[i] \in T
  BY LenProperties, ElementOfSeq
<1>2. Solved(0)
  <2>1. [n \in 0..0 |-> window] \in [0..0 -> Seq(T)]
    OBVIOUS
  <2>2. [k \in 0..0 |-> window][0] = window /\ \A n \in 0..0 : n = 0
    OBVIOUS
  <2>3. \A n \in 0..0 : Merges([k \in 0..0 |-> window], window, page, n)
    BY <2>2 DEF Merges
  <2> QED BY <2>1, <2>3
<1>3. ASSUME NEW m \in 1..Len(page), Solved(m - 1) PROVE Solved(m)
  <2>1. m \in Nat /\ m # 0 /\ m - 1 \in Nat /\ page[m] \in T
    BY <1>1
  <2>2. PICK f \in [0..(m - 1) -> Seq(T)] : \A n \in 0..(m - 1) : Merges(f, window, page, n)
    BY <1>3
  <2>3. PICK last \in Seq(T) : last = IF page[m] \in ToSet(f[m - 1]) THEN f[m - 1]
                                      ELSE Append(f[m - 1], page[m])
    <3>1. PICK w \in Seq(T) : w = f[m - 1]
      BY <2>1, <2>2
    <3>2. Append(w, page[m]) \in Seq(T)
      BY <2>1, <3>1, AppendProperties
    <3> QED BY <3>1, <3>2
  <2>4. PICK g \in [0..m -> Seq(T)] : \A n \in 0..m : g[n] = IF n = m THEN last ELSE f[n]
    <3>1. [n \in 0..m |-> IF n = m THEN last ELSE f[n]] \in [0..m -> Seq(T)]
      BY <2>1, <2>2
    <3> QED BY <3>1
  <2>5. ASSUME NEW n \in 0..m PROVE Merges(g, window, page, n)
    <3>1. CASE n = m
      <4>1. g[m] = last /\ g[m - 1] = f[m - 1]
        BY <2>1, <2>4
      <4> QED BY <2>1, <2>3, <3>1, <4>1 DEF Merges
    <3>2. CASE n # m
      <4>1. n \in 0..(m - 1)
        BY <2>1, <3>2
      <4>2. g[n] = f[n] /\ (n # 0 => g[n - 1] = f[n - 1])
        BY <2>1, <2>4, <4>1
      <4>3. Merges(f, window, page, n)
        BY <2>2, <4>1
      <4> QED BY <4>2, <4>3 DEF Merges
    <3> QED BY <3>1, <3>2
  <2> QED BY <2>5
<1>4. 0 \in solved /\ \A m \in 1..Len(page) : m - 1 \in solved => m \in solved
  <2>1. \A m \in 1..Len(page) : m \in 0..Len(page) /\ m - 1 \in 0..Len(page)
    BY <1>1
  <2>2. 0 \in 0..Len(page)
    BY <1>1
  <2> HIDE DEF Solved
  <2> QED BY <1>2, <1>3, <2>1, <2>2
<1>5. Len(page) \in solved
  <2>1. Len(page) \in 0..Len(page)
    BY <1>1
  <2> HIDE DEF solved
  <2> QED BY <1>1, <1>4, <2>1, UpTo
<1> QED BY <1>5

\* So MergedWindow is the last value of a function that obeys the recursion.
LEMMA MergeSteps ==
    ASSUME NEW T, NEW window \in Seq(T), NEW page \in Seq(T)
    PROVE  \E f : /\ \A n \in 0..Len(page) : Merges(f, window, page, n)
                  /\ MergedWindow(window, page) = f[Len(page)]
<1> DEFINE Solves(f) == f = [n \in 0..Len(page) |->
                                IF n = 0 THEN window
                                ELSE IF page[n] \in ToSet(f[n - 1]) THEN f[n - 1]
                                     ELSE Append(f[n - 1], page[n])]
<1>1. PICK h \in [0..Len(page) -> Seq(T)] : \A n \in 0..Len(page) : Merges(h, window, page, n)
  BY MergeDefined
<1>2. Solves(h)
  BY <1>1 DEF Merges
<1>3. Solves(CHOOSE f : Solves(f))
  <2> HIDE DEF Solves
  <2> QED BY <1>2
<1>4. MergedWindow(window, page) = (CHOOSE f : Solves(f))[Len(page)]
  BY DEF MergedWindow
<1> DEFINE k == CHOOSE f : Solves(f)
<1>5. \A n \in 0..Len(page) : Merges(k, window, page, n)
  <2>1. Solves(k)
    BY <1>3
  <2> HIDE DEF k
  <2> QED BY <2>1 DEF Merges
<1> HIDE DEF k
<1> QED BY <1>4, <1>5 DEF k

LEMMA MergedIsSeq ==
    ASSUME NEW T, NEW window \in Seq(T), NEW page \in Seq(T)
    PROVE  MergedWindow(window, page) \in Seq(T)
<1>1. Len(page) \in Nat /\ \A i \in 1..Len(page) : page[i] \in T
  BY LenProperties, ElementOfSeq
<1>2. PICK f : (\A n \in 0..Len(page) : Merges(f, window, page, n)) /\ MergedWindow(window, page) = f[Len(page)]
  BY MergeSteps
<1> DEFINE S == {n \in 0..Len(page) : f[n] \in Seq(T)}
<1>3. 0 \in S
  BY <1>1, <1>2 DEF Merges
<1>4. ASSUME NEW n \in 1..Len(page), n - 1 \in S PROVE n \in S
  <2>1. n \in 0..Len(page) /\ n # 0 /\ page[n] \in T /\ f[n - 1] \in Seq(T)
    BY <1>1, <1>4
  <2>2. f[n] = IF page[n] \in ToSet(f[n - 1]) THEN f[n - 1] ELSE Append(f[n - 1], page[n])
    BY <1>2, <2>1 DEF Merges
  <2>3. PICK w \in Seq(T) : w = f[n - 1]
    BY <2>1
  <2>4. Append(w, page[n]) \in Seq(T)
    BY <2>1, <2>3, AppendProperties
  <2> QED BY <2>1, <2>2, <2>3, <2>4
<1>5. Len(page) \in S
  <2>1. Len(page) \in 0..Len(page)
    BY <1>1
  <2> HIDE DEF S
  <2> QED BY <1>1, <1>3, <1>4, <2>1, UpTo
<1> QED BY <1>2, <1>5

\* One more commit of a log that repeats none.
LEMMA PrefixGrows ==
    ASSUME NEW T, NEW log \in Seq(T), NEW n \in 1..Len(log),
           \A a, b \in 1..Len(log) : log[a] = log[b] => a = b
    PROVE  /\ log[n] \notin ToSet(SubSeq(log, 1, n - 1))
           /\ Append(SubSeq(log, 1, n - 1), log[n]) = SubSeq(log, 1, n)
<1>1. Len(log) \in Nat /\ n \in Nat /\ n - 1 \in Nat /\ log[n] \in T
  BY LenProperties, ElementOfSeq
<1>2. PICK s : s = SubSeq(log, 1, n - 1)
  OBVIOUS
<1>3. s \in Seq(T) /\ Len(s) = n - 1 /\ \A i \in 1..(n - 1) : s[i] = log[i]
  <2>1. /\ SubSeq(log, 0 + 1, n - 1) \in Seq(T) /\ Len(SubSeq(log, 0 + 1, n - 1)) = (n - 1) - 0
        /\ \A i \in 1..((n - 1) - 0) : SubSeq(log, 0 + 1, n - 1)[i] = log[0 + i]
    BY <1>1, PartOf
  <2>2. 0 + 1 = 1 /\ (n - 1) - 0 = n - 1 /\ \A i \in 1..(n - 1) : 0 + i = i
    BY <1>1
  <2> QED BY <1>2, <2>1, <2>2
<1>4. PICK t : t = SubSeq(log, 1, n)
  OBVIOUS
<1>5. t \in Seq(T) /\ Len(t) = n /\ \A i \in 1..n : t[i] = log[i]
  <2>1. /\ SubSeq(log, 0 + 1, n) \in Seq(T) /\ Len(SubSeq(log, 0 + 1, n)) = n - 0
        /\ \A i \in 1..(n - 0) : SubSeq(log, 0 + 1, n)[i] = log[0 + i]
    BY <1>1, PartOf
  <2>2. 0 + 1 = 1 /\ n - 0 = n /\ \A i \in 1..n : 0 + i = i
    BY <1>1
  <2> QED BY <1>4, <2>1, <2>2
<1>6. log[n] \notin ToSet(s)
  <2>1. DOMAIN s = 1..(n - 1)
    BY <1>3, LenProperties
  <2>2. \A i \in 1..(n - 1) : i \in 1..Len(log) /\ i # n
    BY <1>1
  <2> QED BY <1>3, <2>1, <2>2 DEF ToSet
<1>7. Append(s, log[n]) = t
  <2>1. PICK u : u = Append(s, log[n])
    OBVIOUS
  <2>2. u \in Seq(T) /\ Len(u) = n /\ (\A i \in 1..(n - 1) : u[i] = s[i]) /\ u[n] = log[n]
    <3>1. /\ u \in Seq(T) /\ Len(u) = Len(s) + 1 /\ (\A i \in 1..Len(s) : u[i] = s[i])
          /\ u[Len(s) + 1] = log[n]
      BY <1>1, <1>3, <2>1, AppendProperties
    <3>2. Len(s) + 1 = n
      BY <1>1, <1>3
    <3> QED BY <1>3, <3>1, <3>2
  <2>3. \A i \in 1..n : u[i] = t[i]
    <3> TAKE i \in 1..n
    <3>1. i = n \/ i \in 1..(n - 1)
      BY <1>1
    <3>2. i \in 1..(n - 1) => u[i] = s[i] /\ s[i] = log[i]
      BY <1>3, <2>2
    <3>3. t[i] = log[i] /\ u[n] = log[n]
      BY <1>5, <2>2
    <3> QED BY <3>1, <3>2, <3>3
  <2>4. u = t
    BY <1>5, <2>2, <2>3, SeqEqual
  <2> QED BY <2>1, <2>4
<1> QED BY <1>2, <1>4, <1>6, <1>7

\* The page that follows a window of the same log continues it.
LEMMA MergedContinues ==
    ASSUME NEW T, NEW log \in Seq(T), \A a, b \in 1..Len(log) : log[a] = log[b] => a = b,
           NEW k \in 0..Len(log), NEW m \in k..Len(log)
    PROVE  MergedWindow(SubSeq(log, 1, k), SubSeq(log, k + 1, m)) = SubSeq(log, 1, m)
<1>1. Len(log) \in Nat /\ k \in Nat /\ m \in Nat
  BY LenProperties
<1>2. PICK window, page : window = SubSeq(log, 1, k) /\ page = SubSeq(log, k + 1, m)
  OBVIOUS
<1>3. /\ page \in Seq(T) /\ Len(page) = m - k /\ \A i \in 1..(m - k) : page[i] = log[k + i]
  BY <1>1, <1>2, PartOf
<1>4. window \in Seq(T)
  <2>1. SubSeq(log, 0 + 1, k) \in Seq(T) /\ 0 + 1 = 1
    BY <1>1, PartOf
  <2> QED BY <1>2, <2>1
<1>5. PICK f : (\A n \in 0..Len(page) : Merges(f, window, page, n)) /\ MergedWindow(window, page) = f[Len(page)]
  BY <1>3, <1>4, MergeSteps
<1> DEFINE S == {n \in 0..(m - k) : f[n] = SubSeq(log, 1, k + n)}
<1>6. 0 \in S
  <2>1. f[0] = window
    BY <1>1, <1>3, <1>5 DEF Merges
  <2>2. 0 \in 0..(m - k) /\ k + 0 = k
    BY <1>1
  <2> QED BY <1>2, <2>1, <2>2
<1>7. ASSUME NEW n \in 1..(m - k), n - 1 \in S PROVE n \in S
  <2>1. n \in 0..(m - k) /\ n # 0 /\ page[n] = log[k + n]
    BY <1>1, <1>3
  <2>2. k + n \in 1..Len(log) /\ k + (n - 1) = (k + n) - 1
    BY <1>1
  <2>3. f[n - 1] = SubSeq(log, 1, (k + n) - 1)
    BY <1>7, <2>2
  <2>4. f[n] = IF page[n] \in ToSet(f[n - 1]) THEN f[n - 1] ELSE Append(f[n - 1], page[n])
    BY <1>3, <1>5, <2>1 DEF Merges
  <2>5. f[n] = SubSeq(log, 1, k + n)
    <3>1. /\ log[k + n] \notin ToSet(SubSeq(log, 1, (k + n) - 1))
          /\ Append(SubSeq(log, 1, (k + n) - 1), log[k + n]) = SubSeq(log, 1, k + n)
      BY <2>2, PrefixGrows
    <3> QED BY <2>1, <2>3, <2>4, <3>1
  <2> QED BY <2>1, <2>5
<1>8. m - k \in S
  <2>1. m - k \in Nat /\ m - k \in 0..(m - k)
    BY <1>1
  <2> HIDE DEF S
  <2> QED BY <1>6, <1>7, <2>1, UpTo
<1>9. k + (m - k) = m
  BY <1>1
<1> QED BY <1>2, <1>3, <1>5, <1>8, <1>9

\* A later part of a prefix is in it.
LEMMA PartOfPrefix ==
    ASSUME NEW T, NEW s \in Seq(T), NEW a \in Nat, NEW m \in a..Len(s)
    PROVE  ToSet(SubSeq(s, a + 1, m)) \subseteq ToSet(SubSeq(s, 1, m))
<1>1. Len(s) \in Nat /\ m \in Nat /\ a <= m
  BY LenProperties
<1>2. PICK t : t = SubSeq(s, a + 1, m)
  OBVIOUS
<1>3. t \in Seq(T) /\ Len(t) = m - a /\ \A i \in 1..(m - a) : t[i] = s[a + i]
  BY <1>1, <1>2, PartOf
<1>4. PICK u : u = SubSeq(s, 1, m)
  OBVIOUS
<1>5. u \in Seq(T) /\ Len(u) = m /\ \A i \in 1..m : u[i] = s[i]
  <2>1. /\ SubSeq(s, 0 + 1, m) \in Seq(T) /\ Len(SubSeq(s, 0 + 1, m)) = m - 0
        /\ \A i \in 1..(m - 0) : SubSeq(s, 0 + 1, m)[i] = s[0 + i]
    BY <1>1, PartOf
  <2>2. 0 + 1 = 1 /\ m - 0 = m /\ \A i \in 1..m : 0 + i = i
    BY <1>1
  <2> QED BY <1>4, <2>1, <2>2
<1>6. DOMAIN t = 1..(m - a) /\ DOMAIN u = 1..m
  BY <1>3, <1>5, LenProperties
<1>7. \A i \in 1..(m - a) : a + i \in 1..m /\ t[i] = u[a + i]
  BY <1>1, <1>3, <1>5
<1> QED BY <1>2, <1>4, <1>6, <1>7 DEF ToSet

\* The older page that was asked for at the end of the shown graph continues
\* it; read from another state of git or with another focus it is appended,
\* and the two are told apart.
LEMMA MergeOK ==
    ASSUME NEW g, GraphOK(g), NEW p \in Sources, NEW limit \in Nat \ {0}, \A q \in g.from : q[1] = p[1],
           NEW w, w = Window(p[1], p[2], p[3], Len(g.window), limit), NEW h, h = MergePage(g, w)
    PROVE  GraphOK(h) /\ \A q \in h.from : q[1] = p[1]
<1>1. PICK skip \in Nat : skip = Len(g.window)
  BY LenProperties DEF GraphOK
<1>2. PageOf(w, p, limit) /\ \E m \in Nat : Cuts(w, Log(p), skip, m)
  BY <1>1, WindowFields, WindowCuts
<1>3. PICK window : window = MergedWindow(g.window, w.window)
  OBVIOUS
<1>4. /\ h.window = window /\ h.limit = g.limit /\ h.more = w.more
      /\ h.extras = (g.extras \union w.extras) \ ToSet(window)
      /\ h.stashes = w.stashes /\ h.from = g.from \union w.from
  BY <1>3 DEF MergePage
<1>5. window \in Seq(Commits)
  BY <1>2, <1>3, MergedIsSeq DEF GraphOK, PageOf
<1>6. /\ h.from \in SUBSET Sources /\ h.from # {} /\ \A q \in h.from : q[1] = p[1]
      /\ IsFiniteSet(h.from)
  <2>1. h.from = g.from \union {p}
    BY <1>2, <1>4 DEF PageOf
  <2>2. IsFiniteSet(g.from \union {p})
    BY FS_AddElement DEF GraphOK
  <2> QED BY <2>1, <2>2 DEF GraphOK
<1>7. ASSUME NEW q \in Sources, h.from = {q} PROVE Faithful(h, q)
  <2>1. q = p /\ g.from = {p} /\ Faithful(g, p)
    BY <1>2, <1>4, <1>7 DEF PageOf, GraphOK
  <2>2. PICK log : log = Log(p)
    OBVIOUS
  <2>3. log \in Seq(Commits) /\ Len(log) \in Nat /\ \A a, b \in 1..Len(log) : log[a] = log[b] => a = b
    BY <2>2, LogOnce
  <2>4. skip <= Len(log) /\ g.window = SubSeq(log, 1, skip)
    BY <1>1, <2>1, <2>2 DEF Faithful
  <2>5. PICK m \in skip..Len(log) : w.window = SubSeq(log, skip + 1, m) /\ (~w.more => m = Len(log))
    BY <1>2, <2>2, <2>3, <2>4 DEF Cuts
  <2>6. window = SubSeq(log, 1, m)
    <3>1. skip \in 0..Len(log)
      BY <2>3, <2>4
    <3>2. MergedWindow(SubSeq(log, 1, skip), SubSeq(log, skip + 1, m)) = SubSeq(log, 1, m)
      BY <2>3, <2>5, <3>1, MergedContinues
    <3> QED BY <1>3, <2>4, <2>5, <3>2
  <2>7. Len(window) = m /\ m <= Len(log)
    <3>1. Len(SubSeq(log, 0 + 1, m)) = m - 0
      BY <2>3, <2>5, PartOf
    <3>2. 0 + 1 = 1 /\ m - 0 = m
      BY <2>3, <2>5
    <3> QED BY <2>3, <2>5, <2>6, <3>1, <3>2
  <2>8. ~h.more => h.window = log
    BY <1>4, <2>3, <2>5, <2>6, SubSeqFull
  <2>9. ToSet(w.window) \subseteq ToSet(window)
    BY <1>1, <2>3, <2>5, <2>6, PartOfPrefix
  <2>10. h.stashes \subseteq Loaded(h)
    BY <1>2, <1>4, <2>9 DEF PageOf, Loaded
  <2>11. ~p[3] => h.stashes = Stashed[p[2]] /\ h.extras \subseteq h.stashes
    <3>1. ~p[3] => g.extras \subseteq Stashed[p[2]]
      BY <2>1 DEF Faithful
    <3> QED BY <1>2, <1>4, <3>1 DEF PageOf
  <2> QED BY <1>4, <2>1, <2>2, <2>6, <2>7, <2>8, <2>10, <2>11 DEF Faithful
<1> QED BY <1>4, <1>5, <1>6, <1>7 DEF GraphOK

-----------------------------------------------------------------------------
(* The graph is history *)

\* What Histories speaks of.
SameHistory(s, t) ==
    /\ DOMAIN t = PageFields
    /\ t.cursor = s.cursor /\ t.identity = s.identity /\ t.graph = s.graph
    /\ t.latest = s.latest /\ t.autoload = s.autoload /\ t.running = s.running
    /\ t.wanted = s.wanted /\ t.paneJob = s.paneJob

LEMMA SameHistoryFits ==
    ASSUME NEW s, NEW t, Histories(s), SameHistory(s, t) PROVE Histories(t)
BY DEF Histories, SameHistory, ShownFits, OlderFits, LoadsFit

LEMMA SayHistory == ASSUME NEW s, Histories(s) PROVE Histories(Say(s))
<1>1. SameHistory(s, Say(s))
  BY DEF Say, SameHistory, Histories, PageFields
<1> QED BY <1>1, SameHistoryFits

LEMMA RestoreHistory == ASSUME NEW s, Histories(s) PROVE Histories(RestoreOlderPrev(s))
<1>1. SameHistory(s, RestoreOlderPrev(s))
  BY DEF RestoreOlderPrev, SameHistory, Histories, PageFields
<1> QED BY <1>1, SameHistoryFits

LEMMA RetryRevealHistory ==
    ASSUME NEW s, Histories(s), NEW repo, NEW seen PROVE Histories(RetryReveal(s, repo, seen))
<1>1. RetryReveal(s, repo, seen) = s \/ \E r : RetryReveal(s, repo, seen) = [s EXCEPT !.reveal = r]
  BY DEF RetryReveal
<1>2. ASSUME NEW r PROVE SameHistory(s, [s EXCEPT !.reveal = r])
  BY DEF SameHistory, Histories, PageFields
<1> QED BY <1>1, <1>2, SameHistoryFits

LEMMA FinishHistory ==
    ASSUME NEW s, Histories(s), NEW accepted \in BOOLEAN PROVE Histories(FinishAutoload(s, accepted))
<1>1. PICK t : t = [s EXCEPT !.loadingOlder = FALSE]
  OBVIOUS
<1>2. SameHistory(s, t)
  BY <1>1 DEF SameHistory, Histories, PageFields
<1>3. FinishAutoload(s, accepted) \in {s, RestoreOlderPrev(s), RestoreOlderPrev(t)}
  BY <1>1 DEF FinishAutoload
<1> QED BY <1>2, <1>3, SameHistoryFits, RestoreHistory

\* A request asks for a page that is not empty.
LEMMA RequestFits == ASSUME NEW s, Histories(s) PROVE RequestOK(PaneRequest(s))
<1>1. PICK limit : limit = IF RepoOf(s.cursor) # NoRepo /\ s.identity = RepoOf(s.cursor)
                           THEN RefreshLimit(s.graph) ELSE Page
  OBVIOUS
<1>2. PICK f \in BOOLEAN : f <=> FocusRevs(s)
  OBVIOUS
<1>3. FocusRevs(s) = f
  BY <1>2 DEF FocusRevs
<1>4. PaneRequest(s) = [row |-> s.cursor, focused |-> f, limit |-> limit]
  BY <1>1, <1>3 DEF PaneRequest
<1>5. limit \in Nat \ {0}
  <2>1. Page \in Nat \ {0}
    BY GraphPagesAssumption
  <2>2. ASSUME s.graph # Nothing PROVE RefreshLimit(s.graph) \in Nat \ {0}
    <3>1. Len(s.graph.window) \in Nat /\ s.graph.limit \in Nat
      BY <2>2, LenProperties DEF Histories, ShownFits, GraphOK
    <3>2. PICK a, b : a = Len(s.graph.window) /\ b = s.graph.limit /\ a \in Nat /\ b \in Nat
      BY <3>1
    <3>3. Max({a, b, Page}) \in {a, b, Page} /\ Max({a, b, Page}) >= Page
      <4>1. a \in Int /\ b \in Int /\ Page \in Int
        BY <2>1, <3>2
      <4> QED BY <4>1, LargestOfThree
    <3>4. RefreshLimit(s.graph) = Max({a, b, Page})
      BY <2>2, <3>2 DEF RefreshLimit
    <3> QED BY <2>1, <3>2, <3>3, <3>4
  <2>3. s.graph = Nothing => RefreshLimit(s.graph) = Page
    BY DEF RefreshLimit
  <2> QED BY <1>1, <2>1, <2>2, <2>3
<1> QED BY <1>4, <1>5 DEF RequestOK, Histories, ShownFits

LEMMA AskPaneHistory == ASSUME NEW s, Histories(s) PROVE Histories(AskPane(s))
<1>1. PICK w : w = PaneRequest(s)
  OBVIOUS
<1>2. RequestOK(w)
  BY <1>1, RequestFits
<1>3. PICK t : t = [s EXCEPT !.wanted = w]
  OBVIOUS
<1>4. /\ DOMAIN t = PageFields /\ t.cursor = s.cursor /\ t.identity = s.identity /\ t.graph = s.graph
      /\ t.latest = s.latest /\ t.autoload = s.autoload /\ t.running = s.running
      /\ t.wanted = w /\ t.paneJob = s.paneJob
  BY <1>3 DEF Histories, PageFields
<1>5. AskPane(s) = t
  BY <1>1, <1>3 DEF AskPane
<1>6. Histories(t)
  BY <1>2, <1>4 DEF Histories, ShownFits, OlderFits, LoadsFit
<1> QED BY <1>5, <1>6

\* A page is asked for with a generation of its own.
LEMMA QueueAutoloadHistory == ASSUME NEW s, Histories(s) PROVE Histories(QueueAutoload(s))
<1>1. CASE s.identity = NoRepo
  BY <1>1 DEF QueueAutoload
<1>2. CASE s.identity # NoRepo
  <2>1. PICK a : a = [gen |-> s.latest + 1, repo |-> s.identity]
    OBVIOUS
  <2>2. PICK prev : prev = (IF s.status = "older" THEN s.olderPrev ELSE s.status)
    OBVIOUS
  <2>3. a.gen = s.latest + 1 /\ a.repo \in Repos
    BY <1>2, <2>1 DEF Histories, ShownFits
  <2>4. PICK t : t = [s EXCEPT !.loadingOlder = TRUE, !.latest = s.latest + 1, !.autoload = a,
                               !.olderPrev = prev, !.status = "older", !.slots = s.slots + 1]
    OBVIOUS
  <2>5. /\ DOMAIN t = PageFields /\ t.cursor = s.cursor /\ t.identity = s.identity /\ t.graph = s.graph
        /\ t.latest = s.latest + 1 /\ t.autoload = a /\ t.running = s.running
        /\ t.wanted = s.wanted /\ t.paneJob = s.paneJob
    BY <2>4 DEF Histories, PageFields
  <2>6. QueueAutoload(s) = t
    BY <1>2, <2>1, <2>2, <2>4 DEF QueueAutoload
  <2>7. OlderFits(t)
    <3>1. s.latest \in Nat /\ \A j \in s.running : OlderOK(j) /\ j.gen <= s.latest
      BY DEF Histories, OlderFits
    <3>2. \A j \in s.running : j.gen < s.latest + 1 /\ j.gen <= s.latest + 1 /\ j.gen # s.latest + 1
      BY <3>1 DEF OlderOK
    <3>3. \A j, k \in s.running : j.gen = k.gen => j = k
      BY DEF Histories, OlderFits
    <3> QED BY <2>3, <2>5, <3>1, <3>2, <3>3 DEF OlderFits
  <2>8. Histories(t)
    BY <2>5, <2>7 DEF Histories, ShownFits, LoadsFit
  <2> QED BY <2>6, <2>8
<1> QED BY <1>1, <1>2

LEMMA AfterChangeHistory == ASSUME NEW s, Histories(s) PROVE Histories(AfterChange(s))
<1>1. ASSUME NEW r PROVE Histories([s EXCEPT !.reveal = r])
  <2>1. SameHistory(s, [s EXCEPT !.reveal = r])
    BY DEF SameHistory, Histories, PageFields
  <2> QED BY <2>1, SameHistoryFits
<1>2. \/ AfterChange(s) = s
      \/ \E r : \/ AfterChange(s) = QueueAutoload([s EXCEPT !.reveal = r])
                \/ AfterChange(s) = Say([s EXCEPT !.reveal = r])
  BY DEF AfterChange
<1> QED BY <1>1, <1>2, QueueAutoloadHistory, SayHistory

\* No older page of the replaced graph is still the newest one.
NoneIsNewest(s) == s.autoload = Nothing /\ \A j \in s.running : j.gen # s.latest

LEMMA CancelAutoloadHistory ==
    ASSUME NEW s, Histories(s)
    PROVE  Histories(CancelAutoload(s)) /\ NoneIsNewest(CancelAutoload(s))
<1>1. PICK t : t = [s EXCEPT !.latest = s.latest + 1, !.autoload = Nothing, !.loadingOlder = FALSE]
  OBVIOUS
<1>2. /\ DOMAIN t = PageFields /\ t.cursor = s.cursor /\ t.identity = s.identity /\ t.graph = s.graph
      /\ t.latest = s.latest + 1 /\ t.autoload = Nothing /\ t.running = s.running
      /\ t.wanted = s.wanted /\ t.paneJob = s.paneJob
  BY <1>1 DEF Histories, PageFields
<1>3. s.latest \in Nat /\ (\A j \in s.running : OlderOK(j) /\ j.gen <= s.latest)
      /\ \A j, k \in s.running : j.gen = k.gen => j = k
  BY DEF Histories, OlderFits
<1>4. \A j \in s.running : j.gen <= s.latest + 1 /\ j.gen # s.latest + 1
  BY <1>3 DEF OlderOK
<1>5. OlderFits(t)
  BY <1>2, <1>3, <1>4 DEF OlderFits
<1>6. Histories(t)
  BY <1>2, <1>5 DEF Histories, ShownFits, LoadsFit
<1>7. CancelAutoload(s) = RestoreOlderPrev(t)
  BY <1>1 DEF CancelAutoload
<1>8. RestoreOlderPrev(t).autoload = Nothing /\ RestoreOlderPrev(t).running = t.running
      /\ RestoreOlderPrev(t).latest = t.latest
  BY <1>2 DEF RestoreOlderPrev, PageFields
<1> QED BY <1>2, <1>4, <1>6, <1>7, <1>8, RestoreHistory DEF NoneIsNewest

\* A graph takes the place of another one: no page that is on its way may be
\* the newest one.
LEMMA SetGraphHistory ==
    ASSUME NEW s, Histories(s), NoneIsNewest(s), NEW repo \in Repos, NEW g, GraphOK(g),
           \A p \in g.from : p[1] = repo
    PROVE  Histories(SetGraph(s, g, repo))
<1>1. PICK t : t = [s EXCEPT !.graph = g, !.identity = repo]
  OBVIOUS
<1>2. /\ DOMAIN t = PageFields /\ t.cursor = s.cursor /\ t.identity = repo /\ t.graph = g
      /\ t.latest = s.latest /\ t.autoload = s.autoload /\ t.running = s.running
      /\ t.wanted = s.wanted /\ t.paneJob = s.paneJob
  BY <1>1 DEF Histories, PageFields
<1>3. ShownFits(t)
  BY <1>2 DEF Histories, ShownFits
<1>4. OlderFits(t)
  BY <1>2 DEF Histories, OlderFits, NoneIsNewest
<1>5. Histories(t)
  BY <1>2, <1>3, <1>4 DEF Histories, LoadsFit
<1>6. ASSUME NEW seen \in BOOLEAN PROVE Histories(RetryReveal(t, repo, seen))
  BY <1>5, RetryRevealHistory
<1> QED BY <1>1, <1>6 DEF SetGraph

LEMMA PagesInitHistory == PagesInit => git \in 1..Versions /\ Histories(view)
<1> SUFFICES ASSUME PagesInit PROVE git \in 1..Versions /\ Histories(view)
  OBVIOUS
<1>1. git \in 1..Versions
  BY GraphPagesAssumption DEF PagesInit
<1>2. PICK r \in Repos :
        view = AskPane([cursor |-> r, onWorkspace |-> TRUE, focus |-> NoRepo,
                        graph |-> Nothing, identity |-> NoRepo, loadingOlder |-> FALSE,
                        latest |-> 0, autoload |-> Nothing, slots |-> 0, running |-> {},
                        wanted |-> Nothing, paneJob |-> Nothing,
                        status |-> "latest", olderPrev |-> "none", reveal |-> Nothing])
  BY DEF PagesInit
<1>3. PICK s : s = [cursor |-> r, onWorkspace |-> TRUE, focus |-> NoRepo,
                    graph |-> Nothing, identity |-> NoRepo, loadingOlder |-> FALSE,
                    latest |-> 0, autoload |-> Nothing, slots |-> 0, running |-> {},
                    wanted |-> Nothing, paneJob |-> Nothing,
                    status |-> "latest", olderPrev |-> "none", reveal |-> Nothing]
  OBVIOUS
<1>4. DOMAIN s = PageFields
  BY <1>3 DEF PageFields
<1>5. /\ s.cursor = r /\ s.identity = NoRepo /\ s.graph = Nothing /\ s.latest = 0 /\ s.autoload = Nothing
      /\ s.running = {} /\ s.wanted = Nothing /\ s.paneJob = Nothing
  BY <1>3
<1>6. Histories(s)
  BY <1>4, <1>5 DEF Histories, ShownFits, OlderFits, LoadsFit, PageRows
<1> QED BY <1>1, <1>2, <1>3, <1>6, AskPaneHistory

LEMMA InputsHistory ==
    ASSUME Histories(view),
           \/ \E r \in PageRows : MoveRow(r)
           \/ RefreshPane
           \/ \E r \in Repos : FocusBranches(r)
           \/ ClearFocus \/ PageTab \/ Message \/ LastRow
    PROVE  Histories(view')
<1>1. ASSUME NEW r \in PageRows, MoveRow(r) PROVE Histories(view')
  <2>1. PICK s : s = [view EXCEPT !.cursor = r, !.reveal = Nothing]
    OBVIOUS
  <2>2. /\ DOMAIN s = PageFields /\ s.cursor = r /\ s.identity = view.identity /\ s.graph = view.graph
        /\ s.latest = view.latest /\ s.autoload = view.autoload /\ s.running = view.running
        /\ s.wanted = view.wanted /\ s.paneJob = view.paneJob
    BY <2>1 DEF Histories, PageFields
  <2>3. Histories(s)
    BY <2>2 DEF Histories, ShownFits, OlderFits, LoadsFit
  <2>4. Histories(AfterChange(AskPane(s)))
    BY <2>3, AskPaneHistory, AfterChangeHistory
  <2> QED BY <1>1, <2>1, <2>4 DEF MoveRow
<1>2. CASE RefreshPane
  BY <1>2, AskPaneHistory, AfterChangeHistory DEF RefreshPane
<1>3. ASSUME NEW f, view' = AfterChange(AskPane(Say([view EXCEPT !.identity = NoRepo, !.focus = f])))
      PROVE  Histories(view')
  <2>1. PICK s : s = [view EXCEPT !.identity = NoRepo, !.focus = f]
    OBVIOUS
  <2>2. /\ DOMAIN s = PageFields /\ s.cursor = view.cursor /\ s.identity = NoRepo /\ s.graph = view.graph
        /\ s.latest = view.latest /\ s.autoload = view.autoload /\ s.running = view.running
        /\ s.wanted = view.wanted /\ s.paneJob = view.paneJob
    BY <2>1 DEF Histories, PageFields
  <2>3. Histories(s)
    BY <2>2 DEF Histories, ShownFits, OlderFits, LoadsFit
  <2>4. Histories(AfterChange(AskPane(Say(s))))
    BY <2>3, SayHistory, AskPaneHistory, AfterChangeHistory
  <2> QED BY <1>3, <2>1, <2>4
<1>4. CASE PageTab
  <2>1. PICK s : s = [view EXCEPT !.onWorkspace = ~view.onWorkspace]
    OBVIOUS
  <2>2. SameHistory(view, s)
    BY <2>1 DEF SameHistory, Histories, PageFields
  <2>3. Histories(AfterChange(s))
    BY <2>2, SameHistoryFits, AfterChangeHistory
  <2> QED BY <1>4, <2>1, <2>3 DEF PageTab
<1>5. CASE Message
  BY <1>5, SayHistory, AfterChangeHistory DEF Message
<1>6. CASE LastRow
  BY <1>6, QueueAutoloadHistory, AfterChangeHistory DEF LastRow
<1> QED BY <1>1, <1>2, <1>3, <1>4, <1>5, <1>6 DEF FocusBranches, ClearFocus

LEMMA RevealHistory ==
    ASSUME Histories(view), NEW repo \in Repos, NEW sha \in Commits, Reveal(repo, sha)
    PROVE  Histories(view')
<1>1. PICK rev : rev = [repo |-> repo, sha |-> sha, pages |-> 0, seen |-> FALSE]
  OBVIOUS
<1>2. PICK s : s = [view EXCEPT !.onWorkspace = TRUE, !.cursor = repo, !.reveal = rev]
  OBVIOUS
<1>3. /\ DOMAIN s = PageFields /\ s.cursor = repo /\ s.identity = view.identity /\ s.graph = view.graph
      /\ s.latest = view.latest /\ s.autoload = view.autoload /\ s.running = view.running
      /\ s.wanted = view.wanted /\ s.paneJob = view.paneJob
  BY <1>2 DEF Histories, PageFields
<1>4. Histories(s)
  BY <1>3 DEF Histories, ShownFits, OlderFits, LoadsFit, PageRows
<1>5. ASSUME NEW seen \in BOOLEAN PROVE Histories(RetryReveal(s, repo, seen))
  BY <1>4, RetryRevealHistory
<1>6. \E t : Histories(t) /\ (view' = AfterChange(AskPane(t)) \/ view' = AfterChange(t))
  BY <1>1, <1>2, <1>4, <1>5 DEF Reveal
<1> QED BY <1>6, AskPaneHistory, AfterChangeHistory

\* A page starts at the end of the graph that is shown.
LEMMA SpawnsHistory ==
    ASSUME git \in 1..Versions, Histories(view), SpawnLoad \/ SpawnOlder
    PROVE  Histories(view')
<1>1. CASE SpawnLoad
  <2>1. PICK job : job = [req |-> view.wanted, since |-> git]
    OBVIOUS
  <2>2. view' = [view EXCEPT !.paneJob = job, !.wanted = Nothing]
    BY <1>1, <2>1 DEF SpawnLoad
  <2>3. /\ DOMAIN view' = PageFields /\ view'.cursor = view.cursor /\ view'.identity = view.identity
        /\ view'.graph = view.graph /\ view'.latest = view.latest /\ view'.autoload = view.autoload
        /\ view'.running = view.running /\ view'.wanted = Nothing /\ view'.paneJob = job
    BY <2>2 DEF Histories, PageFields
  <2>4. RequestOK(job.req) /\ job.since \in 1..Versions
    BY <1>1, <2>1 DEF SpawnLoad, Histories, LoadsFit
  <2> QED BY <2>3, <2>4 DEF Histories, ShownFits, OlderFits, LoadsFit
<1>2. CASE SpawnOlder
  <2>1. PICK s : s = [view EXCEPT !.slots = view.slots - 1]
    OBVIOUS
  <2>2. SameHistory(view, s)
    BY <2>1 DEF SameHistory, Histories, PageFields
  <2>3. Histories(s)
    BY <2>2, SameHistoryFits
  <2>4. CASE s.autoload = Nothing
    BY <1>2, <2>1, <2>3, <2>4 DEF SpawnOlder
  <2>5. CASE s.autoload # Nothing /\ s.graph = Nothing
    <3>1. PICK t : t = [s EXCEPT !.autoload = Nothing, !.loadingOlder = FALSE]
      OBVIOUS
    <3>2. /\ DOMAIN t = PageFields /\ t.cursor = s.cursor /\ t.identity = s.identity /\ t.graph = s.graph
          /\ t.latest = s.latest /\ t.autoload = Nothing /\ t.running = s.running
          /\ t.wanted = s.wanted /\ t.paneJob = s.paneJob
      BY <2>3, <3>1 DEF Histories, PageFields
    <3>3. Histories(t)
      BY <2>3, <3>2 DEF Histories, ShownFits, OlderFits, LoadsFit
    <3> QED BY <1>2, <2>1, <2>5, <3>1, <3>3, RestoreHistory DEF SpawnOlder
  <2>6. CASE s.autoload # Nothing /\ s.graph # Nothing
    <3>1. PICK f \in BOOLEAN : f = FocusRevs(s)
      BY DEF FocusRevs
    <3>2. PICK j : j = [gen |-> s.autoload.gen, repo |-> s.autoload.repo, since |-> git,
                        skip |-> OlderSkip(s.graph), limit |-> s.graph.limit, focused |-> f]
      OBVIOUS
    <3>3. /\ j.gen = s.autoload.gen /\ j.repo = s.autoload.repo /\ j.since = git
          /\ j.skip = OlderSkip(s.graph) /\ j.limit = s.graph.limit /\ (j.focused <=> f)
      BY <3>2
    <3>4. j.focused \in BOOLEAN
      BY <3>2
    <3>5. view' = [s EXCEPT !.autoload = Nothing, !.running = s.running \union {j}]
      BY <1>2, <2>1, <2>6, <3>1, <3>2 DEF SpawnOlder
    <3>6. /\ DOMAIN view' = PageFields /\ view'.cursor = s.cursor /\ view'.identity = s.identity
          /\ view'.graph = s.graph /\ view'.latest = s.latest /\ view'.autoload = Nothing
          /\ view'.running = s.running \union {j} /\ view'.wanted = s.wanted /\ view'.paneJob = s.paneJob
      BY <2>3, <3>5 DEF Histories, PageFields
    <3>7. j.gen = s.latest /\ OlderOK(j) /\ j.skip = Len(s.graph.window)
      <4>1. s.autoload.gen = s.latest /\ s.autoload.repo \in Repos /\ s.latest \in Nat
        BY <2>3, <2>6 DEF Histories, OlderFits
      <4>2. s.graph.limit \in Nat \ {0} /\ Len(s.graph.window) \in Nat
        BY <2>3, <2>6, LenProperties DEF Histories, ShownFits, GraphOK
      <4> QED BY <3>3, <3>4, <4>1, <4>2 DEF OlderOK, OlderSkip
    <3>8. \A k \in s.running : k.gen < s.latest /\ k.gen \in Nat /\ OlderOK(k)
      BY <2>3, <2>6 DEF Histories, OlderFits, OlderOK
    <3>9. s.latest \in Nat /\ \A k, l \in s.running : k.gen = l.gen => k = l
      BY <2>3 DEF Histories, OlderFits
    <3>10. OlderFits(view')
      <4>1. \A k \in view'.running : OlderOK(k) /\ k.gen <= view'.latest
        BY <3>6, <3>7, <3>8, <3>9
      <4>2. \A k, l \in view'.running : k.gen = l.gen => k = l
        BY <3>6, <3>7, <3>8, <3>9
      <4>3. \A k \in view'.running : k.gen = view'.latest => k.skip = Len(view'.graph.window)
        BY <3>6, <3>7, <3>8, <3>9
      <4> QED BY <3>6, <4>1, <4>2, <4>3 DEF OlderFits
    <3> QED BY <2>3, <3>6, <3>10 DEF Histories, ShownFits, LoadsFit
  <2> QED BY <2>4, <2>5, <2>6
<1> QED BY <1>1, <1>2

LEMMA LoadEndsHistory ==
    ASSUME git \in 1..Versions, Histories(view), LoadPanics \/ \E v \in 1..Versions : LoadLands(v)
    PROVE  Histories(view')
<1>1. PICK s : s = [view EXCEPT !.paneJob = Nothing]
  OBVIOUS
<1>2. /\ DOMAIN s = PageFields /\ s.cursor = view.cursor /\ s.identity = view.identity /\ s.graph = view.graph
      /\ s.latest = view.latest /\ s.autoload = view.autoload /\ s.running = view.running
      /\ s.wanted = view.wanted /\ s.paneJob = Nothing
  BY <1>1 DEF Histories, PageFields
<1>3. Histories(s)
  BY <1>2 DEF Histories, ShownFits, OlderFits, LoadsFit
<1>4. CASE LoadPanics
  BY <1>1, <1>3, <1>4, AfterChangeHistory DEF LoadPanics
<1>5. ASSUME NEW v \in 1..Versions, LoadLands(v) PROVE Histories(view')
  <2>1. PICK req : req = view.paneJob.req
    OBVIOUS
  <2>2. RequestOK(req)
    BY <1>5, <2>1 DEF LoadLands, Histories, LoadsFit
  <2>3. Histories(AskPane(s))
    BY <1>3, AskPaneHistory
  <2>4. ASSUME RepoOf(req.row) # NoRepo
        PROVE  Histories(SetGraph(CancelAutoload(s),
                                  Window(RepoOf(req.row), v, req.focused, 0, req.limit), RepoOf(req.row)))
    <3>1. RepoOf(req.row) \in Repos
      BY <2>4 DEF RepoOf
    <3>2. PICK p : p = <<RepoOf(req.row), v, req.focused>>
      OBVIOUS
    <3>3. p \in Sources /\ p[1] = RepoOf(req.row) /\ p[2] = v /\ p[3] = req.focused
      BY <2>2, <3>1, <3>2 DEF Sources, RequestOK
    <3>4. PICK w : w = Window(p[1], p[2], p[3], 0, req.limit)
      OBVIOUS
    <3>5. GraphOK(w) /\ \A q \in w.from : q[1] = p[1]
      BY <2>2, <3>3, <3>4, WindowOK DEF RequestOK
    <3>6. Histories(SetGraph(CancelAutoload(s), w, p[1]))
      BY <1>3, <3>1, <3>3, <3>5, CancelAutoloadHistory, SetGraphHistory
    <3> QED BY <3>3, <3>4, <3>6
  <2>5. Histories(SetDiff(s))
    <3>1. PICK t : t = SetDiff(s)
      OBVIOUS
    <3>2. /\ DOMAIN t = PageFields /\ t.cursor = s.cursor /\ t.identity = s.identity /\ t.graph = Nothing
          /\ t.latest = s.latest /\ t.autoload = s.autoload /\ t.running = s.running
          /\ t.wanted = s.wanted /\ t.paneJob = s.paneJob
      BY <1>2, <3>1 DEF SetDiff, PageFields
    <3> QED BY <1>3, <3>1, <3>2 DEF Histories, ShownFits, OlderFits, LoadsFit
  <2>6. Histories(ClearRight(s))
    <3>1. PICK t : t = ClearRight(s)
      OBVIOUS
    <3>2. /\ DOMAIN t = PageFields /\ t.cursor = s.cursor /\ t.identity = NoRepo /\ t.graph = Nothing
          /\ t.latest = s.latest /\ t.autoload = s.autoload /\ t.running = s.running
          /\ t.wanted = s.wanted /\ t.paneJob = s.paneJob
      BY <1>2, <3>1 DEF ClearRight, PageFields
    <3> QED BY <1>3, <3>1, <3>2 DEF Histories, ShownFits, OlderFits, LoadsFit
  <2>7. \E t : Histories(t) /\ view' = AfterChange(t)
    BY <1>1, <1>3, <1>5, <2>1, <2>3, <2>4, <2>5, <2>6 DEF LoadLands
  <2> QED BY <2>7, AfterChangeHistory
<1> QED BY <1>4, <1>5

LEMMA OlderEndsHistory ==
    ASSUME git \in 1..Versions, Histories(view), NEW j \in view.running,
           OlderPanics(j) \/ \E v \in 1..Versions : OlderLands(j, v)
    PROVE  Histories(view')
<1>1. PICK s : s = [view EXCEPT !.running = view.running \ {j}]
  OBVIOUS
<1>2. /\ DOMAIN s = PageFields /\ s.cursor = view.cursor /\ s.identity = view.identity /\ s.graph = view.graph
      /\ s.latest = view.latest /\ s.autoload = view.autoload /\ s.running = view.running \ {j}
      /\ s.wanted = view.wanted /\ s.paneJob = view.paneJob
  BY <1>1 DEF Histories, PageFields
<1>3. Histories(s)
  BY <1>2 DEF Histories, ShownFits, OlderFits, LoadsFit
<1>4. PICK accepted \in BOOLEAN : accepted = (j.gen = view.latest)
  OBVIOUS
<1>5. CASE OlderPanics(j)
  <2>1. view' = AfterChange(FinishAutoload(s, accepted))
    BY <1>1, <1>4, <1>5 DEF OlderPanics
  <2> QED BY <1>3, <2>1, FinishHistory, AfterChangeHistory
<1>6. ASSUME NEW v \in 1..Versions, OlderLands(j, v) PROVE Histories(view')
  <2>1. PICK page : page = Window(j.repo, v, j.focused, j.skip, j.limit)
    OBVIOUS
  <2>2. \E landed : /\ view' = AfterChange(FinishAutoload(landed, accepted))
                    /\ \/ landed = s
                       \/ /\ accepted /\ s.identity = j.repo /\ s.graph # Nothing
                          /\ landed = SetGraph(s, MergePage(s.graph, page), j.repo)
    BY <1>1, <1>4, <1>6, <2>1 DEF OlderLands
  <2>3. ASSUME j.gen = view.latest, s.identity = j.repo, s.graph # Nothing
        PROVE  Histories(SetGraph(s, MergePage(s.graph, page), j.repo))
    <3>1. OlderOK(j) /\ j.skip = Len(s.graph.window)
      BY <1>2, <2>3 DEF Histories, OlderFits
    <3>2. NoneIsNewest(s)
      <4>1. view.autoload = Nothing
        BY <2>3 DEF Histories, OlderFits
      <4>2. \A k \in view.running : k.gen = j.gen => k = j
        BY DEF Histories, OlderFits
      <4> QED BY <1>2, <2>3, <4>1, <4>2 DEF NoneIsNewest
    <3>3. PICK p : p = <<j.repo, v, j.focused>>
      OBVIOUS
    <3>4. p \in Sources /\ p[1] = j.repo /\ p[2] = v /\ p[3] = j.focused
      BY <3>1, <3>3 DEF Sources, OlderOK
    <3>5. PICK g : g = s.graph
      OBVIOUS
    <3>6. GraphOK(g) /\ \A q \in g.from : q[1] = p[1]
      BY <1>3, <2>3, <3>1, <3>4, <3>5, GraphPagesAssumption DEF Histories, ShownFits, OlderOK
    <3>7. page = Window(p[1], p[2], p[3], Len(g.window), j.limit)
      BY <2>1, <3>1, <3>4, <3>5
    <3>8. PICK h : h = MergePage(g, page)
      OBVIOUS
    <3>9. GraphOK(h) /\ \A q \in h.from : q[1] = p[1]
      BY <3>1, <3>4, <3>6, <3>7, <3>8, MergeOK DEF OlderOK
    <3>10. j.repo \in Repos
      BY <3>1 DEF OlderOK
    <3>11. Histories(SetGraph(s, h, j.repo))
      BY <1>3, <3>2, <3>4, <3>9, <3>10, SetGraphHistory
    <3> QED BY <3>5, <3>8, <3>11
  <2>4. \E landed : view' = AfterChange(FinishAutoload(landed, accepted)) /\ Histories(landed)
    BY <1>3, <1>4, <2>2, <2>3
  <2> QED BY <2>4, FinishHistory, AfterChangeHistory
<1> QED BY <1>5, <1>6

\* A graph whose source is one has one only.
LEMMA OneSource ==
    ASSUME NEW S, IsFiniteSet(S), Cardinality(S) = 1
    PROVE  \E p : S = {p} /\ (CHOOSE q \in S : TRUE) = p
<1>1. PICK p : S = {p}
  BY FS_Singleton
<1>2. (CHOOSE q \in S : TRUE) \in S
  BY <1>1
<1> QED BY <1>1, <1>2

LEMMA HistoriesShow == Histories(view) => GraphIsHistory
<1> SUFFICES ASSUME Histories(view), view.graph # Nothing PROVE GraphIsHistory
  BY DEF GraphIsHistory
<1>1. PICK g : g = view.graph
  OBVIOUS
<1>2. GraphOK(g)
  BY <1>1 DEF Histories, ShownFits
<1>3. \A p, q \in g.from : p[1] = q[1]
  BY <1>2 DEF GraphOK
<1>4. ASSUME Cardinality(g.from) = 1
      PROVE  LET part == CHOOSE p \in g.from : TRUE
                 log  == History[part[2]][part[3]]
             IN /\ g.window = SubSeq(log, 1, Len(g.window))
                /\ ~g.more => g.window = log
                /\ g.extras \intersect ToSet(g.window) = {}
                /\ g.stashes \subseteq Loaded(g)
                /\ ~part[3] => g.stashes = Stashed[part[2]] /\ g.extras \subseteq g.stashes
  <2>1. IsFiniteSet(g.from)
    BY <1>2 DEF GraphOK
  <2>2. PICK p : g.from = {p} /\ (CHOOSE q \in g.from : TRUE) = p
    BY <1>4, <2>1, OneSource
  <2>3. p \in Sources /\ Faithful(g, p)
    BY <1>2, <2>2 DEF GraphOK
  <2>4. PICK part : part = CHOOSE q \in g.from : TRUE
    OBVIOUS
  <2>5. part = p
    BY <2>2, <2>4
  <2> QED BY <2>3, <2>4, <2>5 DEF Faithful, Log
<1> QED BY <1>1, <1>3, <1>4 DEF GraphIsHistory

\* Reads that overlap, land late or are cancelled never mix histories: what
\* was read from one state of git is a prefix of its log without a gap or a
\* repetition, and a pane shows one repository.
\* (graph_load.rs: load_graph_model_window, merge_autoload; effect.rs: apply_outcome)
THEOREM PagesAreHistory == PagesSpec => []GraphIsHistory
<1> DEFINE HInv == git \in 1..Versions /\ Histories(view)
<1>1. PagesInit => HInv
  BY PagesInitHistory
<1>2. HInv /\ [PagesNext]_pageVars => HInv'
  <2> SUFFICES ASSUME HInv, [PagesNext]_pageVars PROVE HInv'
    OBVIOUS
  <2>1. CASE GitMoves \/ UNCHANGED pageVars
    <3>1. view' = view
      BY <2>1 DEF GitMoves, pageVars
    <3>2. git' \in 1..Versions
      BY <2>1, GraphPagesAssumption DEF GitMoves, pageVars
    <3> QED BY <3>1, <3>2
  <2>2. CASE PagesNext /\ ~GitMoves
    <3>1. Histories(view')
      BY <2>2, InputsHistory, RevealHistory, SpawnsHistory, LoadEndsHistory, OlderEndsHistory DEF PagesNext
    <3>2. git' = git
      BY <2>2 DEF PagesNext, MoveRow, RefreshPane, FocusBranches, ClearFocus, PageTab, Message, LastRow,
                  Reveal, SpawnLoad, SpawnOlder, LoadLands, LoadPanics, OlderLands, OlderPanics
    <3> QED BY <3>1, <3>2
  <2> QED BY <2>1, <2>2
<1>3. HInv => GraphIsHistory
  BY HistoriesShow
<1> QED BY <1>1, <1>2, <1>3, PTL DEF PagesSpec

-----------------------------------------------------------------------------
(* The gutter of the commit graph: parents *)

Waiters == Ids \union {None}

\* The lanes of s that have a rail.
Live(s) == {l \in DOMAIN s : s[l] # None}

LEMMA IdsHold ==
    /\ Rows + Unloaded \in Nat /\ Ids \subseteq Nat \ {None} /\ IsFiniteSet(Ids)
    /\ \A c \in Ids : c # Lost /\ c # Open
    /\ Lost # Open
<1>1. Rows + Unloaded \in Nat /\ Ids = 1..(Rows + Unloaded)
  BY GraphAssumption DEF Ids
<1>2. IsFiniteSet(Ids)
  <2>1. 1 \in Int /\ Rows + Unloaded \in Int
    BY <1>1
  <2> QED BY <1>1, <2>1, FS_Interval
<1>3. PICK n \in Nat : n = Rows + Unloaded
  BY <1>1
<1>4. Lost = n + 1 /\ Open = n + 2 /\ Ids = 1..n
  BY <1>1, <1>3 DEF Lost, Open
<1> QED BY <1>1, <1>2, <1>3, <1>4 DEF None

\* The parents of commit c: older commits, each once.
ParentsFit(ps, c) ==
    /\ ps \in Seq(Ids) /\ \A k \in 1..Len(ps) : ps[k] > c
    /\ \A j, k \in 1..Len(ps) : ps[j] = ps[k] => j = k

LEMMA ParentListsHold ==
    ASSUME NEW c, NEW ps \in ParentLists(c)
    PROVE  ParentsFit(ps, c)
<1>1. PICK S \in SUBSET {p \in Ids : p > c} : ps \in SetToSeqs(S)
  BY DEF ParentLists
<1>2. IsFiniteSet(S)
  <2>1. S \in SUBSET Ids
    OBVIOUS
  <2> QED BY <2>1, IdsHold, FS_Subset
<1>3. PICK n \in Nat : n = Cardinality(S)
  BY <1>2, FS_CardinalityType
<1>4. ps \in [1..n -> S] /\ \A j, k \in 1..n : j # k => ps[j] # ps[k]
  BY <1>1, <1>3 DEF SetToSeqs
<1>5. ps \in [1..n -> Ids] /\ \A k \in 1..n : ps[k] > c
  BY <1>4
<1>6. ps \in Seq(Ids) /\ Len(ps) = n
  <2>1. ps \in Seq(Ids)
    BY <1>5, SeqDef
  <2> QED BY <1>5, <2>1, LenProperties
<1> QED BY <1>4, <1>5, <1>6 DEF ParentsFit

-----------------------------------------------------------------------------
(* The lanes of the parents *)

Plan == [next : Seq(Waiters), opened : SUBSET Nat, linked : SUBSET Nat]

\* The lanes on which a rail to a parent starts.
Starts(plan, lane) == plan.opened \union plan.linked \union {lane}

\* What has come of the first k parents of the commit on a lane of s.
Planned(plan, s, lane, ps, k) ==
    /\ plan.next \in Seq(Ids) /\ Len(plan.next) >= Len(s)
    /\ plan.next[lane] = ps[1] /\ \A l \in DOMAIN s \ {lane} : plan.next[l] = s[l]
    /\ plan.opened = (Len(s) + 1)..Len(plan.next) /\ plan.linked \subseteq DOMAIN s \ {lane}
    /\ \A l \in Starts(plan, lane) : \E j \in 1..k : plan.next[l] = ps[j]
    /\ \A j \in 1..k : \E l \in Starts(plan, lane) : plan.next[l] = ps[j]
    /\ \A l, m \in Starts(plan, lane) : plan.next[l] = plan.next[m] => l = m

\* A lane that Min names is one of them.
LEMMA LeastLane ==
    ASSUME NEW S \in SUBSET Nat, S # {}
    PROVE  Min(S) \in S
<1>1. PICK n \in S : \A m \in S : n <= m
  BY LeastNatural
<1> QED BY <1>1 DEF Min

LEMMA AddParentType ==
    ASSUME NEW lane, NEW plan \in Plan, NEW p \in Ids
    PROVE  AddParent(lane, plan, p) \in Plan
<1> DEFINE there == LanesOf(plan.next, p)
           free  == {l \in LanesOf(plan.next, None) : l > lane}
<1>1. PICK next \in Seq(Waiters), opened \in SUBSET Nat, linked \in SUBSET Nat :
         plan = [next |-> next, opened |-> opened, linked |-> linked]
  BY DEF Plan
<1>2. plan.next = next /\ plan.opened = opened /\ plan.linked = linked
  BY <1>1
<1>3. Len(next) \in Nat /\ DOMAIN next = 1..Len(next) /\ p \in Waiters
  BY Places DEF Waiters
<1>4. there \in SUBSET Nat /\ free \in SUBSET DOMAIN next /\ free \in SUBSET Nat
  BY <1>2, <1>3 DEF LanesOf, Lanes
<1>5. CASE there # {}
  <2>1. PICK m \in Nat : m = Min(there)
    BY <1>4, <1>5, LeastLane
  <2>2. PICK more \in SUBSET Nat : more = IF m = lane THEN linked ELSE linked \union {m}
    OBVIOUS
  <2>3. AddParent(lane, plan, p) = [plan EXCEPT !.linked = more]
    BY <1>2, <1>5, <2>1, <2>2 DEF AddParent
  <2>4. [plan EXCEPT !.linked = more] = [next |-> next, opened |-> opened, linked |-> more]
    BY <1>1
  <2> QED BY <2>3, <2>4 DEF Plan
<1>6. CASE there = {}
  <2>1. PICK l : l = IF free # {} THEN Min(free) ELSE Len(next) + 1
    OBVIOUS
  <2>2. l \in Nat /\ (l \in DOMAIN next \/ l > Len(next))
    <3>1. free # {} => Min(free) \in free
      BY <1>4, LeastLane
    <3> QED BY <1>3, <1>4, <2>1, <3>1
  <2>3. PICK new : new = IF l > Len(next) THEN Append(next, p) ELSE [next EXCEPT ![l] = p]
    OBVIOUS
  <2>4. new \in Seq(Waiters)
    <3>1. Append(next, p) \in Seq(Waiters)
      BY <1>3, AppendProperties
    <3>2. l \in DOMAIN next => [next EXCEPT ![l] = p] \in Seq(Waiters)
      BY <1>3, ExceptSeq
    <3> QED BY <2>2, <2>3, <3>1, <3>2
  <2>5. AddParent(lane, plan, p) = [plan EXCEPT !.next = new, !.opened = opened \union {l}]
    BY <1>2, <1>6, <2>1, <2>3 DEF AddParent
  <2>6. PICK more \in SUBSET Nat : more = opened \union {l}
    BY <2>2
  <2>7. [plan EXCEPT !.next = new, !.opened = more] \in Plan
    BY <2>4 DEF Plan
  <2> QED BY <2>5, <2>6, <2>7
<1> QED BY <1>5, <1>6


\* One parent more.
LEMMA AddParentPlans ==
    ASSUME NEW s \in Seq(Ids), NEW lane \in DOMAIN s, NEW c, NEW ps, ParentsFit(ps, c),
           NEW k \in 1..(Len(ps) - 1), NEW plan \in Plan, Planned(plan, s, lane, ps, k)
    PROVE  Planned(AddParent(lane, plan, ps[k + 1]), s, lane, ps, k + 1)
<1> DEFINE p     == ps[k + 1]
           next  == plan.next
           there == LanesOf(next, p)
           St    == Starts(plan, lane)
<1>1. /\ Len(ps) \in Nat /\ k \in Nat /\ k + 1 \in 1..Len(ps) /\ 1 \in 1..k /\ p \in Ids
      /\ \A j \in 1..k : j \in 1..Len(ps) /\ j # k + 1
      /\ 1..(k + 1) = (1..k) \union {k + 1}
  BY Places DEF ParentsFit
<1>2. \A j \in 1..k : ps[j] # p
  BY <1>1 DEF ParentsFit
<1>3. /\ next \in Seq(Ids) /\ Len(next) \in Nat /\ DOMAIN next = 1..Len(next)
      /\ Len(s) \in Nat /\ DOMAIN s = 1..Len(s) /\ Len(next) >= Len(s)
  BY Places DEF Planned
<1>4. \A l \in St : next[l] # p
  BY <1>2 DEF Planned
<1>5. /\ lane \in St /\ plan.opened = (Len(s) + 1)..Len(next) /\ plan.opened \subseteq St
      /\ plan.linked \subseteq DOMAIN s \ {lane} /\ lane \in DOMAIN next
  BY <1>3 DEF Planned, Starts
<1>6. \A l \in DOMAIN next : l \notin St => l \in DOMAIN s \ {lane}
  BY <1>3, <1>5
<1>7. CASE there # {}
  <2>1. there \in SUBSET Nat /\ there \in SUBSET DOMAIN next /\ \A l \in there : next[l] = p
    BY <1>3 DEF LanesOf, Lanes
  <2>2. PICK m \in there : m = Min(there)
    BY <1>7, <2>1, LeastLane
  <2>3. m \notin St /\ m # lane /\ m \in DOMAIN s \ {lane} /\ next[m] = p
    BY <1>4, <1>5, <1>6, <2>1
  <2>4. PICK u \in Plan : u = AddParent(lane, plan, p)
    BY <1>1, AddParentType
  <2>5. u.next = next /\ u.opened = plan.opened /\ u.linked = plan.linked \union {m}
    BY <1>7, <2>2, <2>3, <2>4 DEF AddParent, Plan
  <2>6. Starts(u, lane) = St \union {m}
    BY <2>5 DEF Starts
  <2> HIDE DEF p, next, there, St
  <2>7. ASSUME NEW l \in Starts(u, lane) PROVE \E j \in 1..(k + 1) : u.next[l] = ps[j]
    <3>1. CASE l \in St
      <4>1. PICK j \in 1..k : next[l] = ps[j]
        BY <3>1 DEF Planned, St, next
      <4> QED BY <1>1, <2>5, <4>1
    <3>2. CASE l = m
      <4>1. u.next[l] = ps[k + 1] /\ k + 1 \in 1..(k + 1)
        BY <1>1, <2>3, <2>5, <3>2 DEF p
      <4> QED BY <4>1
    <3> QED BY <2>6, <3>1, <3>2
  <2>8. \A j \in 1..(k + 1) : \E l \in Starts(u, lane) : u.next[l] = ps[j]
    BY <1>1, <2>3, <2>5, <2>6 DEF Planned, St, next, p
  <2>9. \A l, n \in Starts(u, lane) : u.next[l] = u.next[n] => l = n
    BY <1>4, <2>3, <2>5, <2>6 DEF Planned, St, next
  <2>10. u.linked \subseteq DOMAIN s \ {lane}
    BY <1>5, <2>3, <2>5
  <2>11. /\ u.next \in Seq(Ids) /\ Len(u.next) >= Len(s) /\ u.opened = (Len(s) + 1)..Len(u.next)
         /\ u.next[lane] = ps[1] /\ \A l \in DOMAIN s \ {lane} : u.next[l] = s[l]
    BY <2>5 DEF Planned, next
  <2>12. Planned(u, s, lane, ps, k + 1)
    BY <2>7, <2>8, <2>9, <2>10, <2>11, Zenon DEF Planned
  <2> QED BY <2>4, <2>12 DEF p
<1>8. CASE there = {}
  <2>1. \A l \in DOMAIN next : next[l] # None
    <3>1. \A l \in DOMAIN next : next[l] \in Ids
      BY <1>3, ElementOfSeq
    <3> QED BY <3>1, IdsHold
  <2>2. {l \in LanesOf(next, None) : l > lane} = {}
    BY <2>1 DEF LanesOf, Lanes
  <2>3. PICK m \in Nat : m = Len(next) + 1
    BY <1>3
  <2>4. PICK longer \in Seq(Ids) :
           /\ longer = Append(next, p) /\ Len(longer) = m /\ longer[m] = p
           /\ \A l \in DOMAIN next : longer[l] = next[l]
    <3>1. PICK q \in Seq(Ids) : q = next
      BY <1>3
    <3>2. /\ Append(q, p) \in Seq(Ids) /\ Len(Append(q, p)) = Len(q) + 1
          /\ \A l \in 1..Len(q) : Append(q, p)[l] = q[l]
          /\ Append(q, p)[Len(q) + 1] = p
      BY <1>1, AppendProperties
    <3> QED BY <1>3, <2>3, <3>1, <3>2
  <2>5. PICK u \in Plan : u = AddParent(lane, plan, p)
    BY <1>1, AddParentType
  <2>6. u.next = longer /\ u.opened = plan.opened \union {m} /\ u.linked = plan.linked
    <3>1. AddParent(lane, plan, p) = [plan EXCEPT !.next = IF m > Len(@) THEN Append(@, p) ELSE [@ EXCEPT ![m] = p],
                                                  !.opened = @ \union {m}]
      BY <1>8, <2>2, <2>3 DEF AddParent
    <3>2. m > Len(next)
      BY <1>3, <2>3
    <3> QED BY <2>4, <2>5, <3>1, <3>2 DEF Plan
  <2>7. Starts(u, lane) = St \union {m}
    BY <2>6 DEF Starts
  <2>8. m \notin DOMAIN next /\ u.opened = (Len(s) + 1)..Len(longer) /\ Len(longer) >= Len(s)
    BY <1>3, <1>5, <2>3, <2>4, <2>6
  <2>9. \A l \in St : l \in DOMAIN next /\ l # m /\ longer[l] = next[l]
    BY <1>3, <1>5, <2>4, <2>8 DEF Starts
  <2> HIDE DEF p, next, there, St
  <2>10. ASSUME NEW l \in Starts(u, lane) PROVE \E j \in 1..(k + 1) : u.next[l] = ps[j]
    <3>1. CASE l \in St
      <4>1. \E j \in 1..k : next[l] = ps[j]
        BY <3>1 DEF Planned, St, next
      <4> QED BY <1>1, <2>6, <2>9, <3>1, <4>1
    <3>2. CASE l = m
      <4>1. u.next[l] = ps[k + 1] /\ k + 1 \in 1..(k + 1)
        BY <1>1, <2>4, <2>6, <3>2 DEF p
      <4> QED BY <4>1
    <3> QED BY <2>7, <3>1, <3>2
  <2>11. ASSUME NEW j \in 1..(k + 1) PROVE \E l \in Starts(u, lane) : u.next[l] = ps[j]
    <3>1. CASE j \in 1..k
      <4>1. PICK l \in St : next[l] = ps[j]
        BY <3>1 DEF Planned, St, next
      <4> QED BY <2>6, <2>7, <2>9, <4>1
    <3>2. CASE j = k + 1
      BY <2>4, <2>6, <2>7, <3>2 DEF p
    <3> QED BY <1>1, <3>1, <3>2
  <2>12. \A l, n \in Starts(u, lane) : u.next[l] = u.next[n] => l = n
    <3>1. \A l, n \in St : u.next[l] = u.next[n] => l = n
      <4>1. \A l, n \in St : next[l] = next[n] => l = n
        BY DEF Planned, St, next
      <4> QED BY <2>6, <2>9, <4>1
    <3>2. u.next[m] = p /\ \A l \in St : u.next[l] # p
      BY <1>4, <2>4, <2>6, <2>9
    <3> QED BY <2>7, <3>1, <3>2
  <2>13. u.next[lane] = ps[1] /\ \A l \in DOMAIN s \ {lane} : u.next[l] = s[l]
    BY <1>3, <1>5, <2>4, <2>6 DEF Planned, next
  <2>14. /\ u.next \in Seq(Ids) /\ Len(u.next) >= Len(s) /\ u.opened = (Len(s) + 1)..Len(u.next)
         /\ u.linked \subseteq DOMAIN s \ {lane}
    BY <1>5, <2>4, <2>6, <2>8
  <2>15. Planned(u, s, lane, ps, k + 1)
    BY <2>10, <2>11, <2>12, <2>13, <2>14, Zenon DEF Planned
  <2> QED BY <2>5, <2>15 DEF p
<1> QED BY <1>7, <1>8

\* The plan before the further parents.
FirstPlan(s, lane, ps) ==
    [next |-> [s EXCEPT ![lane] = IF ps = <<>> THEN None ELSE ps[1]], opened |-> {}, linked |-> {}]

LEMMA FirstPlanHolds ==
    ASSUME NEW s \in Seq(Ids), NEW lane \in DOMAIN s, NEW c, NEW ps, ParentsFit(ps, c)
    PROVE  /\ FirstPlan(s, lane, ps) \in Plan
           /\ ps # <<>> => Planned(FirstPlan(s, lane, ps), s, lane, ps, 1)
<1>1. /\ Len(s) \in Nat /\ DOMAIN s = 1..Len(s) /\ Len(ps) \in Nat
      /\ \A j \in 1..Len(ps) : ps[j] \in Ids
      /\ ps # <<>> => 1 \in 1..Len(ps)
  BY Places, EmptySeq DEF ParentsFit
<1>2. PICK e : e = IF ps = <<>> THEN None ELSE ps[1]
  OBVIOUS
<1>3. e \in Waiters /\ (ps # <<>> => e = ps[1] /\ e \in Ids)
  BY <1>1, <1>2 DEF Waiters
<1>4. PICK next : next = [s EXCEPT ![lane] = e]
  OBVIOUS
<1>5. next \in Seq(Waiters)
  <2>1. s \in Seq(Waiters)
    BY SeqMonotonic DEF Waiters
  <2> QED BY <1>1, <1>3, <1>4, <2>1, ExceptSeq
<1>6. PICK u : u = FirstPlan(s, lane, ps)
  OBVIOUS
<1>7. u = [next |-> next, opened |-> {}, linked |-> {}]
  BY <1>2, <1>4, <1>6 DEF FirstPlan
<1>8. u \in Plan /\ u.next = next /\ u.opened = {} /\ u.linked = {}
  BY <1>5, <1>7 DEF Plan
<1>9. ASSUME ps # <<>> PROVE Planned(u, s, lane, ps, 1)
  <2>1. e \in Ids /\ e = ps[1]
    BY <1>3, <1>9
  <2>2. /\ next \in Seq(Ids) /\ Len(next) = Len(s) /\ next[lane] = ps[1]
        /\ \A l \in DOMAIN s \ {lane} : next[l] = s[l]
    BY <1>1, <1>4, <2>1, ExceptSeq
  <2>3. Starts(u, lane) = {lane}
    BY <1>8 DEF Starts
  <2>4. (Len(s) + 1)..Len(u.next) = {} /\ Len(u.next) >= Len(s)
    BY <1>1, <1>8, <2>2
  <2>5. \A j \in 1..1 : j = 1
    OBVIOUS
  <2>6. 1 \in 1..1
    OBVIOUS
  <2> QED BY <1>8, <2>2, <2>3, <2>4, <2>5, <2>6 DEF Planned
<1> QED BY <1>6, <1>8, <1>9

\* The fold of plan_parents over the further parents.
LEMMA PlanHolds ==
    ASSUME NEW s \in Seq(Ids), NEW lane \in DOMAIN s, NEW c, NEW ps, ParentsFit(ps, c)
    PROVE  /\ PlanParents(s, lane, ps) \in Plan
           /\ ps = <<>> => PlanParents(s, lane, ps) = FirstPlan(s, lane, ps)
           /\ ps # <<>> => Planned(PlanParents(s, lane, ps), s, lane, ps, Len(ps))
<1> DEFINE rest == SubSeq(ps, 2, Len(ps))
           N    == Len(rest)
           base == FirstPlan(s, lane, ps)
           Is(it) == it = [S \in SUBSET (1..N) |->
                             IF S = {} THEN base ELSE AddParent(lane, it[S \ {Max(S)}], rest[Max(S)])]
<1>1. /\ N \in Nat /\ DOMAIN rest = 1..N /\ \A i \in 1..N : rest[i] \in Ids
      /\ ps = <<>> => N = 0
      /\ ps # <<>> => N = Len(ps) - 1 /\ \A i \in 1..N : rest[i] = ps[i + 1]
  <2>1. PICK n \in Nat : n = Len(ps) /\ ps \in Seq(Ids)
    BY Places DEF ParentsFit
  <2>2. 2 \in Nat \ {0} /\ n <= Len(ps)
    BY <2>1
  <2>3. /\ SubSeq(ps, 2, n) \in Seq(Ids) /\ Len(SubSeq(ps, 2, n)) = IF 2 <= n THEN n - 2 + 1 ELSE 0
        /\ \A i \in 1..(n - 2 + 1) : SubSeq(ps, 2, n)[i] = ps[2 + i - 1]
    BY <2>1, <2>2, Piece
  <2>4. PICK r \in Seq(Ids) : r = rest
    BY <2>1, <2>3
  <2>5. Len(r) \in Nat /\ DOMAIN r = 1..Len(r) /\ \A i \in 1..Len(r) : r[i] \in Ids
    BY Places
  <2>6. ps = <<>> => n = 0
    BY <2>1, EmptySeq
  <2>7. ps # <<>> => n >= 1
    BY <2>1, EmptySeq
  <2>8. ps # <<>> => Len(r) = n - 1 /\ \A i \in 1..Len(r) : r[i] = ps[i + 1]
    BY <2>1, <2>3, <2>4, <2>7
  <2>9. ps = <<>> => Len(r) = 0
    BY <2>1, <2>3, <2>4, <2>6
  <2> HIDE DEF rest
  <2> QED BY <2>1, <2>4, <2>5, <2>8, <2>9
<1>2. base \in Plan /\ (ps # <<>> => Planned(base, s, lane, ps, 1))
  BY FirstPlanHolds
<1>3. PlanParents(s, lane, ps) =
        FoldLeft(LAMBDA plan, p : AddParent(lane, plan, p), base, rest)
  BY DEF PlanParents, FirstPlan
<1> HIDE DEF base, rest
<1>4. PICK g : g = [x \in Plan \X (1..N) |-> AddParent(lane, x[1], rest[x[2]])]
  OBVIOUS
<1>5. g \in [Plan \X (1..N) -> Plan]
  <2>1. ASSUME NEW x \in Plan \X (1..N) PROVE AddParent(lane, x[1], rest[x[2]]) \in Plan
    <3>1. PICK plan \in Plan : plan = x[1]
      OBVIOUS
    <3>2. PICK p \in Ids : p = rest[x[2]]
      BY <1>1
    <3>3. AddParent(lane, plan, p) \in Plan
      BY AddParentType
    <3> QED BY <3>1, <3>2, <3>3, Zenon
  <2> QED BY <1>4, <2>1
<1>6. PICK it \in [SUBSET (1..N) -> Plan] : FoldsLeft(it, N, base, g)
  BY <1>1, <1>2, <1>5, FoldLeftDefined
<1>7. Is(it)
  <2>1. ASSUME NEW S \in SUBSET (1..N), S # {}
        PROVE  it[S] = AddParent(lane, it[S \ {Max(S)}], rest[Max(S)])
    <3>1. S \in SUBSET (0..N)
      BY <1>1
    <3>2. PICK k : k = Max(S) /\ k \in S
      BY <1>1, <2>1, <3>1, MaxIsGreatest
    <3>3. it[S] = g[<<it[S \ {k}], k>>]
      BY <1>6, <2>1, <3>2 DEF FoldsLeft
    <3>4. it[S \ {k}] \in Plan /\ k \in 1..N
      BY <1>6, <3>2
    <3>5. g[<<it[S \ {k}], k>>] = AddParent(lane, it[S \ {k}], rest[k])
      BY <1>4, <3>4
    <3> QED BY <3>2, <3>3, <3>5
  <2>2. it[{}] = base
    BY <1>6 DEF FoldsLeft
  <2>3. \A S \in SUBSET (1..N) :
           it[S] = IF S = {} THEN base ELSE AddParent(lane, it[S \ {Max(S)}], rest[Max(S)])
    BY <2>1, <2>2
  <2> QED BY <1>6, <2>3
<1>8. PICK h : h = CHOOSE f : Is(f)
  OBVIOUS
<1>9. Is(h)
  <2> HIDE DEF Is
  <2> QED BY <1>7, <1>8
<1>10. PlanParents(s, lane, ps) = h[1..N]
  BY <1>1, <1>3, <1>8 DEF FoldLeft, MapThenFoldSet
<1>11. h[1..0] = base
  <2>1. 1..0 = {} /\ {} \in SUBSET (1..N)
    OBVIOUS
  <2> QED BY <1>9, <2>1
<1>12. ASSUME NEW k \in 1..N PROVE h[1..k] = AddParent(lane, h[1..(k - 1)], rest[k])
  <2>1. 1..k \in SUBSET (1..N) /\ 1..k # {} /\ k \in 1..k /\ 1..k \in SUBSET (0..N)
    <3>1. PICK n \in Nat : n = N
      BY <1>1
    <3>2. k \in Nat /\ k \in 1..k /\ \A j \in 1..k : j \in 1..n /\ j \in 0..n
      BY <3>1
    <3>3. 1..k \in SUBSET (1..n) /\ 1..k \in SUBSET (0..n)
      BY <3>2
    <3> HIDE DEF N
    <3> QED BY <3>1, <3>2, <3>3, Zenon
  <2>2. Max(1..k) = k
    <3>1. Max(1..k) \in 1..k /\ \A i \in 1..k : i <= Max(1..k)
      BY <1>1, <2>1, MaxIsGreatest
    <3> QED BY <1>1, <2>1, <3>1
  <2>3. (1..k) \ {k} = 1..(k - 1)
    BY <1>1
  <2> QED BY <1>9, <2>1, <2>2, <2>3
<1> HIDE DEF Is
<1> DEFINE Good(k) == h[1..k] \in Plan /\ (ps # <<>> => Planned(h[1..k], s, lane, ps, k + 1))
           bad     == {k \in 0..N : ~Good(k)}
<1>13. ASSUME bad # {} PROVE FALSE
  <2>1. bad \in SUBSET Nat
    BY <1>1
  <2>2. PICK m \in bad : \A k \in bad : m <= k
    <3> HIDE DEF bad
    <3> QED BY <1>13, <2>1, LeastNatural
  <2>3. m \in 0..N /\ m # 0
    BY <1>2, <1>11
  <2>4. m \in 1..N /\ m \in Nat /\ m - 1 \in 0..N /\ ~(m <= m - 1) /\ m - 1 + 1 = m
    BY <1>1, <2>3
  <2>5. m - 1 \notin bad
    <3> HIDE DEF bad
    <3> QED BY <2>2, <2>4
  <2>6. Good(m - 1)
    BY <2>4, <2>5
  <2>7. PICK plan \in Plan : plan = h[1..(m - 1)]
    BY <2>6
  <2>8. PICK u : u = h[1..m] /\ u = AddParent(lane, plan, rest[m])
    BY <1>12, <2>4, <2>7
  <2>9. u \in Plan
    BY <1>1, <2>4, <2>8, AddParentType
  <2>10. ASSUME ps # <<>> PROVE Planned(u, s, lane, ps, m + 1)
    <3>1. Planned(plan, s, lane, ps, m)
      BY <2>4, <2>6, <2>7, <2>10
    <3>2. m \in 1..(Len(ps) - 1) /\ rest[m] = ps[m + 1]
      BY <1>1, <2>4, <2>10
    <3> QED BY <2>8, <3>1, <3>2, AddParentPlans
  <2> QED BY <2>2, <2>8, <2>9, <2>10
<1>14. N \in 0..N /\ N \notin bad
  BY <1>1, <1>13
<1>15. Good(N)
  BY <1>14
<1>16. ASSUME ps = <<>> PROVE PlanParents(s, lane, ps) = base
  BY <1>1, <1>10, <1>11, <1>16
<1>17. ASSUME ps # <<>> PROVE Planned(PlanParents(s, lane, ps), s, lane, ps, Len(ps))
  <2>1. N + 1 = Len(ps)
    <3>1. Len(ps) \in Nat
      BY Places DEF ParentsFit
    <3> QED BY <1>1, <1>17, <3>1
  <2>2. Planned(h[1..N], s, lane, ps, N + 1)
    BY <1>15, <1>17
  <2> QED BY <1>10, <2>1, <2>2
<1> QED BY <1>10, <1>15, <1>16, <1>17 DEF base

\* What comes of a plan: its lanes, and those on which rails start.
PlanFits(plan, s, lane, ps) ==
    /\ plan.next \in Seq(Waiters) /\ Len(plan.next) >= Len(s)
    /\ plan.next[lane] = (IF ps = <<>> THEN None ELSE ps[1])
    /\ \A l \in DOMAIN s \ {lane} : plan.next[l] = s[l]
    /\ plan.opened = (Len(s) + 1)..Len(plan.next) /\ plan.linked \subseteq DOMAIN s \ {lane}
    /\ \A l \in plan.opened \union plan.linked : plan.next[l] \in ToSet(ps)

LaneStarts(plan, lane, ps) == plan.opened \union plan.linked \union (IF ps = <<>> THEN {} ELSE {lane})

\* The rails that start on lanes St lead to the parents, one each.
OneEach(next, St, ps) ==
    /\ \A p : p \in ToSet(ps) <=> \E l \in St : next[l] = p
    /\ Cardinality(St) = Len(ps)

LEMMA StartsCount ==
    ASSUME NEW s \in Seq(Ids), NEW lane, NEW c, NEW ps, ParentsFit(ps, c), NEW plan,
           Planned(plan, s, lane, ps, Len(ps))
    PROVE  OneEach(plan.next, Starts(plan, lane), ps)
<1>1. PICK n \in Nat : n = Len(ps) /\ DOMAIN ps = 1..n
  BY Places DEF ParentsFit
<1>2. PICK St, next : St = Starts(plan, lane) /\ next = plan.next
  OBVIOUS
<1>3. /\ \A l \in St : \E j \in 1..n : next[l] = ps[j]
      /\ \A j \in 1..n : \E l \in St : next[l] = ps[j]
      /\ \A l, m \in St : next[l] = next[m] => l = m
  BY <1>1, <1>2 DEF Planned
<1>4. \A j, k \in 1..n : ps[j] = ps[k] => j = k
  BY <1>1 DEF ParentsFit
<1>5. \A p : p \in ToSet(ps) <=> \E l \in St : next[l] = p
  BY <1>1, <1>3 DEF ToSet
<1>6. PICK f : f = [j \in 1..n |-> CHOOSE l \in St : next[l] = ps[j]]
  OBVIOUS
<1>7. \A j \in 1..n : f[j] \in St /\ next[f[j]] = ps[j]
  BY <1>3, <1>6
<1>8. f \in [1..n -> St]
  BY <1>6, <1>7
<1>9. ASSUME NEW j \in 1..n, NEW k \in 1..n, f[j] = f[k] PROVE j = k
  BY <1>4, <1>7, <1>9
<1>10. ASSUME NEW l \in St PROVE \E j \in 1..n : f[j] = l
  <2>1. PICK j \in 1..n : next[l] = ps[j]
    BY <1>3
  <2> QED BY <1>3, <1>7, <2>1
<1>11. f \in Bijection(1..n, St)
  BY <1>8, <1>9, <1>10 DEF Bijection, Injection, Surjection, IsInjective
<1>12. ExistsBijection(1..n, St)
  BY <1>11 DEF ExistsBijection
<1>13. IsFiniteSet(1..n) /\ Cardinality(1..n) = n
  <2>1. 1 \in Int /\ n \in Int /\ (IF 1 > n THEN 0 ELSE n - 1 + 1) = n
    BY <1>1
  <2> QED BY <2>1, FS_Interval
<1>14. Cardinality(St) = n
  BY <1>12, <1>13, FS_Bijection
<1> QED BY <1>1, <1>2, <1>5, <1>14 DEF OneEach

LEMMA PlanFitsAll ==
    ASSUME NEW s \in Seq(Ids), NEW lane \in DOMAIN s, NEW c, NEW ps, ParentsFit(ps, c), NEW plan,
           plan = PlanParents(s, lane, ps)
    PROVE  /\ PlanFits(plan, s, lane, ps)
           /\ OneEach(plan.next, LaneStarts(plan, lane, ps), ps)
<1>1. /\ Len(s) \in Nat /\ DOMAIN s = 1..Len(s) /\ Len(ps) \in Nat /\ DOMAIN ps = 1..Len(ps)
      /\ \A j \in 1..Len(ps) : ps[j] \in ToSet(ps)
  BY Places DEF ParentsFit
<1>2. CASE ps = <<>>
  <2>1. plan = FirstPlan(s, lane, ps)
    BY <1>2, PlanHolds
  <2>2. PICK next : next = [s EXCEPT ![lane] = None]
    OBVIOUS
  <2>3. plan = [next |-> next, opened |-> {}, linked |-> {}]
    BY <1>2, <2>1, <2>2 DEF FirstPlan
  <2>4. plan.next = next /\ plan.opened = {} /\ plan.linked = {}
    BY <2>3
  <2>5. /\ next \in Seq(Waiters) /\ Len(next) = Len(s) /\ next[lane] = None
        /\ \A l \in DOMAIN s \ {lane} : next[l] = s[l]
    <3>1. s \in Seq(Waiters) /\ None \in Waiters
      BY SeqMonotonic DEF Waiters
    <3> QED BY <1>1, <2>2, <3>1, ExceptSeq
  <2>6. (Len(s) + 1)..Len(next) = {} /\ Len(next) >= Len(s)
    BY <1>1, <2>5
  <2>7. PlanFits(plan, s, lane, ps)
    BY <1>2, <2>4, <2>5, <2>6 DEF PlanFits
  <2>8. LaneStarts(plan, lane, ps) = {}
    BY <1>2, <2>4 DEF LaneStarts
  <2>9. ToSet(ps) = {} /\ Len(ps) = 0
    BY <1>2, EmptyIsListed, EmptySeq
  <2> QED BY <2>7, <2>8, <2>9, FS_EmptySet DEF OneEach
<1>3. CASE ps # <<>>
  <2>1. Planned(plan, s, lane, ps, Len(ps))
    BY <1>3, PlanHolds
  <2>2. LaneStarts(plan, lane, ps) = Starts(plan, lane)
    BY <1>3 DEF LaneStarts, Starts
  <2>3. plan.next \in Seq(Waiters)
    BY <2>1, SeqMonotonic DEF Planned, Waiters
  <2>4. \A l \in Starts(plan, lane) : plan.next[l] \in ToSet(ps)
    BY <1>1, <2>1 DEF Planned
  <2>5. \A l \in plan.opened \union plan.linked : plan.next[l] \in ToSet(ps)
    BY <2>4 DEF Starts
  <2>6. PlanFits(plan, s, lane, ps)
    BY <1>3, <2>1, <2>3, <2>5 DEF PlanFits, Planned
  <2>7. OneEach(plan.next, Starts(plan, lane), ps)
    BY <2>1, StartsCount
  <2> QED BY <2>2, <2>6, <2>7, Zenon
<1> QED BY <1>2, <1>3

-----------------------------------------------------------------------------
(* One row *)

\* A connector leaves its lane upwards or downwards at its far end only.
LEMMA ConnectorEnds ==
    ASSUME NEW l, NEW lane, NEW to, NEW vertical, NEW x \in {"up", "down"}
    PROVE  x \in Connector(l, lane, to, vertical) <=> l = to /\ x \in vertical
<1>1. \A a, b : Toward(a, b) \in {"left", "right"}
  BY DEF Toward
<1>2. x # "left" /\ x # "right"
  OBVIOUS
<1>3. CASE l = to
  <2>1. Connector(l, lane, to, vertical) = vertical \union {Toward(to, lane)}
    BY <1>3 DEF Connector
  <2>2. Toward(to, lane) # x
    BY <1>1, <1>2
  <2> QED BY <1>3, <2>1, <2>2
<1>4. CASE l # to
  <2>1. Connector(l, lane, to, vertical) \subseteq {"left", "right"}
    BY <1>4 DEF Connector
  <2> QED BY <1>2, <1>4, <2>1
<1> QED BY <1>3, <1>4

LEMMA CellEnds ==
    ASSUME NEW l, NEW lane, NEW verticals, NEW joins, NEW linked, NEW opened
    PROVE  /\ ("up" \in Cell(l, lane, verticals, joins, linked, opened) <=> l \in verticals \union joins)
           /\ ("down" \in Cell(l, lane, verticals, joins, linked, opened) <=> l \in verticals \union opened)
<1> DEFINE line == IF l \in verticals THEN {"up", "down"} ELSE {}
           up   == UNION {Connector(l, lane, to, {"up"}) : to \in joins}
           link == UNION {Connector(l, lane, to, {}) : to \in linked}
           open == UNION {Connector(l, lane, to, {"down"}) : to \in opened}
<1>1. Cell(l, lane, verticals, joins, linked, opened) = line \union up \union link \union open
  BY DEF Cell
<1>2. \A to : /\ ("up" \in Connector(l, lane, to, {"up"}) <=> l = to)
              /\ "down" \notin Connector(l, lane, to, {"up"})
              /\ "up" \notin Connector(l, lane, to, {}) /\ "down" \notin Connector(l, lane, to, {})
              /\ "up" \notin Connector(l, lane, to, {"down"})
              /\ ("down" \in Connector(l, lane, to, {"down"}) <=> l = to)
  BY ConnectorEnds
<1>3. ("up" \in line <=> l \in verticals) /\ ("down" \in line <=> l \in verticals)
  OBVIOUS
<1>4. ("up" \in up <=> l \in joins) /\ "down" \notin up
  BY <1>2, Zenon
<1>5. "up" \notin link /\ "down" \notin link
  BY <1>2, Zenon
<1>6. "up" \notin open /\ ("down" \in open <=> l \in opened)
  BY <1>2, Zenon
<1> HIDE DEF line, up, link, open
<1> QED BY <1>1, <1>3, <1>4, <1>5, <1>6

\* The row of a commit is on a lane that waits for it.
LEMMA PlacedHolds ==
    ASSUME NEW s \in Seq(Ids), NEW c \in Ids
    PROVE  /\ Placed(s, c) \in Seq(Ids) /\ DOMAIN s \subseteq DOMAIN Placed(s, c)
           /\ \A l \in DOMAIN s : Placed(s, c)[l] = s[l]
           /\ \A l \in DOMAIN Placed(s, c) \ DOMAIN s : Placed(s, c)[l] = c
           /\ LanesOf(Placed(s, c), c) # {}
<1>1. Len(s) \in Nat /\ DOMAIN s = 1..Len(s) /\ \A l \in 1..Len(s) : s[l] \in Ids
  BY Places
<1>2. CASE LanesOf(s, c) # {}
  <2>1. Placed(s, c) = s
    BY <1>2 DEF Placed
  <2> QED BY <1>2, <2>1
<1>3. CASE LanesOf(s, c) = {}
  <2>1. LanesOf(s, None) = {}
    <3>1. \A l \in DOMAIN s : s[l] # None
      BY <1>1, IdsHold
    <3> QED BY <3>1 DEF LanesOf, Lanes
  <2>2. Placed(s, c) = Append(s, c)
    BY <1>3, <2>1 DEF Placed
  <2>3. PICK r \in Seq(Ids) :
           /\ r = Append(s, c) /\ Len(r) = Len(s) + 1 /\ r[Len(s) + 1] = c
           /\ \A l \in 1..Len(s) : r[l] = s[l]
    <3>1. /\ Append(s, c) \in Seq(Ids) /\ Len(Append(s, c)) = Len(s) + 1
          /\ \A l \in 1..Len(s) : Append(s, c)[l] = s[l]
          /\ Append(s, c)[Len(s) + 1] = c
      BY AppendProperties
    <3> QED BY <3>1, Zenon
  <2>4. DOMAIN r = 1..(Len(s) + 1)
    BY <2>3, Places
  <2>5. Len(s) + 1 \in LanesOf(r, c)
    BY <1>1, <2>3, <2>4 DEF LanesOf, Lanes
  <2>6. \A l \in DOMAIN r \ DOMAIN s : l = Len(s) + 1
    BY <1>1, <2>4
  <2> QED BY <1>1, <2>2, <2>3, <2>4, <2>5, <2>6
<1> QED BY <1>2, <1>3

LEMMA LaneOfHolds ==
    ASSUME NEW s \in Seq(Ids), NEW c, LanesOf(s, c) # {}
    PROVE  LaneOf(s, c) \in DOMAIN s /\ s[LaneOf(s, c)] = c
<1>1. LanesOf(s, c) \in SUBSET Nat /\ LanesOf(s, c) \in SUBSET DOMAIN s
  BY Places DEF LanesOf, Lanes
<1>2. PICK l \in LanesOf(s, c) : \A k \in LanesOf(s, c) : l <= k
  BY <1>1, LeastNatural
<1>3. LaneOf(s, c) \in LanesOf(s, c)
  BY <1>2 DEF LaneOf
<1> QED BY <1>1, <1>3 DEF LanesOf, Lanes

\* The row of commit c with parents ps.
RowFits(row, c, ps) ==
    /\ row.commit = c /\ row.before \in Seq(Ids) /\ row.after \in Seq(Waiters)
    /\ row.lane \in DOMAIN row.before
    /\ row.joins \union {row.lane} = LanesOf(row.before, c)
    /\ \A l \in DOMAIN row.before : row.before[l] # c =>
          l \in DOMAIN row.after /\ row.after[l] = row.before[l]
    /\ \A l \in Live(row.after) :
          \/ row.after[l] \in ToSet(ps)
          \/ l \in DOMAIN row.before /\ row.before[l] = row.after[l] /\ row.before[l] # c
    /\ {l \in DOMAIN row.cells : l = row.lane \/ "up" \in row.cells[l]} = DOMAIN row.before
    /\ {l \in DOMAIN row.cells : IF l = row.lane THEN ps # <<>> ELSE "down" \in row.cells[l]}
          = Live(row.after)
    /\ \A l \in Live(row.after) :
          row.after[l] = IF l = row.lane THEN ps[1]
                         ELSE IF l \in row.opened THEN row.after[l] ELSE row.before[l]
    /\ row.starts \subseteq Live(row.after) /\ OneEach(row.after, row.starts, ps)

\* Its rails, above and below.
LEMMA StemsHold ==
    ASSUME NEW row, NEW c, RowFits(row, c, parents[c])
    PROVE  /\ StemUp(row) = row.before
           /\ StemDown(row) = [l \in Live(row.after) |-> row.after[l]]
<1>1. PICK before : before = row.before /\ before \in Seq(Ids)
  BY DEF RowFits
<1>2. before = [l \in DOMAIN before |-> before[l]]
  BY <1>1, Places
<1>3. \A l \in DOMAIN before :
         (IF l \in row.joins \union {row.lane} THEN row.commit ELSE row.before[l]) = before[l]
  <2>1. \A l \in LanesOf(before, c) : before[l] = c
    BY DEF LanesOf
  <2> QED BY <1>1, <2>1 DEF RowFits
<1>4. StemUp(row) = [l \in DOMAIN before |->
                        IF l \in row.joins \union {row.lane} THEN row.commit ELSE row.before[l]]
  BY <1>1 DEF StemUp, RowFits
<1>5. StemUp(row) = before
  BY <1>2, <1>3, <1>4
<1>6. row.commit = c
  BY DEF RowFits
<1>7. StemDown(row) = [l \in Live(row.after) |->
                          IF l = row.lane THEN parents[c][1]
                          ELSE IF l \in row.opened THEN row.after[l] ELSE row.before[l]]
  BY <1>6 DEF StemDown, RowFits
<1>8. \A l \in Live(row.after) :
         (IF l = row.lane THEN parents[c][1]
          ELSE IF l \in row.opened THEN row.after[l] ELSE row.before[l]) = row.after[l]
  BY DEF RowFits
<1> QED BY <1>1, <1>5, <1>7, <1>8

\* One turn of layout_commits makes such a row.
LEMMA RowHolds ==
    ASSUME active \in Seq(Ids), NEW c \in Ids, NEW ps, ParentsFit(ps, c)
    PROVE  RowFits(Row(c, ps), c, ps) /\ Row(c, ps).before = Placed(active, c)
<1>1. PICK s \in Seq(Ids) : s = Placed(active, c) /\ LanesOf(s, c) # {}
  BY PlacedHolds
<1>2. PICK lane \in DOMAIN s : lane = LaneOf(s, c) /\ s[lane] = c
  BY <1>1, LaneOfHolds
<1>3. PICK plan : plan = PlanParents(s, lane, ps)
  OBVIOUS
<1>4. PlanFits(plan, s, lane, ps) /\ OneEach(plan.next, LaneStarts(plan, lane, ps), ps)
  BY <1>3, PlanFitsAll
<1>5. PICK joins : joins = Incoming(s, lane, c)
  OBVIOUS
<1>6. joins \subseteq DOMAIN s \ {lane} /\ joins \union {lane} = LanesOf(s, c)
  BY <1>2, <1>5 DEF Incoming, LanesOf, Lanes
<1>7. \A l \in DOMAIN s : s[l] = c <=> l \in joins \union {lane}
  BY <1>6 DEF LanesOf, Lanes
<1>8. PICK closed \in Seq(Waiters) : closed = plan.next
  BY <1>4 DEF PlanFits
<1>9. PICK next : next = CloseJoined(closed, joins)
  OBVIOUS
<1>10. /\ Len(s) \in Nat /\ DOMAIN s = 1..Len(s) /\ Len(closed) \in Nat /\ DOMAIN closed = 1..Len(closed)
       /\ Len(closed) >= Len(s) /\ DOMAIN s \subseteq DOMAIN closed
       /\ \A l \in DOMAIN s : s[l] \in Ids
       /\ \A l \in DOMAIN closed : closed[l] \in Waiters
  <2>1. /\ Len(s) \in Nat /\ DOMAIN s = 1..Len(s) /\ Len(closed) \in Nat /\ DOMAIN closed = 1..Len(closed)
        /\ \A l \in DOMAIN s : s[l] \in Ids
        /\ \A l \in DOMAIN closed : closed[l] \in Waiters
    BY Places
  <2>2. Len(closed) >= Len(s)
    BY <1>4, <1>8 DEF PlanFits
  <2> QED BY <2>1, <2>2
<1>11. /\ next \in Seq(Waiters) /\ DOMAIN next = DOMAIN closed
       /\ \A l \in DOMAIN closed : next[l] = IF l \in joins THEN None ELSE closed[l]
  <2>1. next = [l \in 1..Len(closed) |-> IF l \in joins THEN None ELSE closed[l]]
    BY <1>9, <1>10 DEF CloseJoined
  <2>2. \A l \in 1..Len(closed) : (IF l \in joins THEN None ELSE closed[l]) \in Waiters
    BY <1>10 DEF Waiters
  <2>3. next \in [1..Len(closed) -> Waiters]
    BY <2>1, <2>2
  <2> QED BY <1>10, <2>1, <2>3, SeqDef
<1>12. PICK opened, linked : opened = plan.opened /\ linked = plan.linked
  OBVIOUS
<1>13. /\ closed[lane] = (IF ps = <<>> THEN None ELSE ps[1])
       /\ \A l \in DOMAIN s \ {lane} : closed[l] = s[l]
       /\ opened = (Len(s) + 1)..Len(closed) /\ linked \subseteq DOMAIN s \ {lane}
       /\ \A l \in opened \union linked : closed[l] \in ToSet(ps)
  BY <1>4, <1>8, <1>12 DEF PlanFits
<1>14. /\ opened \subseteq DOMAIN closed /\ opened \intersect DOMAIN s = {}
       /\ DOMAIN closed = DOMAIN s \union opened
  BY <1>10, <1>13
<1>15. /\ ToSet(ps) \subseteq Ids \ {None} /\ c \notin ToSet(ps) /\ c # None
       /\ ps # <<>> => ps[1] \in ToSet(ps)
  <2>1. /\ Len(ps) \in Nat /\ DOMAIN ps = 1..Len(ps) /\ ToSet(ps) \subseteq Ids
        /\ \A e \in ToSet(ps) : \E k \in 1..Len(ps) : ps[k] = e
        /\ \A k \in 1..Len(ps) : ps[k] \in ToSet(ps)
    BY Places DEF ParentsFit
  <2>2. ps # <<>> => 1 \in 1..Len(ps)
    <3>1. ps # <<>> => Len(ps) # 0
      BY EmptySeq DEF ParentsFit
    <3> QED BY <2>1, <3>1
  <2>3. \A k \in 1..Len(ps) : ps[k] # c
    <3>1. c \in Nat
      BY IdsHold
    <3>2. \A k \in 1..Len(ps) : ps[k] > c /\ ps[k] \in Nat
      BY <2>1, IdsHold DEF ParentsFit
    <3> QED BY <3>1, <3>2
  <2> QED BY <2>1, <2>2, <2>3, IdsHold
<1>16. PICK verticals : verticals = {l \in Lanes(s) : l # lane} \ joins
  OBVIOUS
<1>17. \A l : l \in verticals <=> l \in DOMAIN s /\ l # lane /\ l \notin joins
  BY <1>16 DEF Lanes
<1>18. Live(next) = verticals \union opened \union (IF ps = <<>> THEN {} ELSE {lane})
  <2>1. ASSUME NEW l \in verticals PROVE l \in Live(next)
    <3>1. next[l] = s[l] /\ l \in DOMAIN next
      BY <1>10, <1>11, <1>13, <1>17
    <3>2. s[l] # None
      BY <1>10, <1>17, IdsHold
    <3> QED BY <3>1, <3>2 DEF Live
  <2>2. ASSUME NEW l \in opened PROVE l \in Live(next)
    <3>1. next[l] = closed[l] /\ l \in DOMAIN next
      BY <1>6, <1>11, <1>14
    <3> QED BY <1>13, <1>15, <3>1 DEF Live
  <2>3. next[lane] = closed[lane] /\ lane \in DOMAIN next
    BY <1>6, <1>10, <1>11
  <2>4. ps # <<>> => lane \in Live(next)
    BY <1>13, <1>15, <2>3 DEF Live
  <2>5. ps = <<>> => lane \notin Live(next)
    BY <1>13, <2>3 DEF Live
  <2>6. ASSUME NEW l \in Live(next), l \notin verticals, l \notin opened PROVE l = lane
    <3>1. l \in DOMAIN closed /\ next[l] # None
      BY <1>11 DEF Live
    <3>2. l \notin joins /\ l \in DOMAIN s
      BY <1>11, <1>14, <2>6, <3>1
    <3> QED BY <1>17, <2>6, <3>2
  <2> QED BY <2>1, <2>2, <2>4, <2>5, <2>6
<1>19. PICK W : W = {lane, Len(s)} \union LanesOf(s, c) \union opened \union linked
                    \union {l \in DOMAIN next : next[l] # None}
  OBVIOUS
<1>20. PICK width \in Nat : width = Max(W) /\ \A l \in W : l <= width
  <2>1. W \in SUBSET (0..Len(closed)) /\ W # {}
    <3>1. LanesOf(s, c) \subseteq DOMAIN s /\ lane \in W /\ Len(s) \in 0..Len(closed)
      BY <1>10, <1>19 DEF LanesOf, Lanes
    <3>2. DOMAIN closed \subseteq 0..Len(closed)
      BY <1>10
    <3>3. opened \subseteq DOMAIN closed /\ linked \subseteq DOMAIN closed /\ DOMAIN next \subseteq DOMAIN closed
          /\ lane \in DOMAIN closed /\ DOMAIN s \subseteq DOMAIN closed
      BY <1>10, <1>11, <1>13, <1>14
    <3> QED BY <1>19, <3>1, <3>2, <3>3
  <2>2. Max(W) \in W /\ \A l \in W : l <= Max(W)
    BY <1>10, <2>1, MaxIsGreatest
  <2>3. PICK width : width = Max(W)
    OBVIOUS
  <2>4. width \in 0..Len(closed) /\ \A l \in W : l <= width
    BY <2>1, <2>2, <2>3
  <2>5. width \in Nat
    BY <2>4
  <2> QED BY <2>3, <2>4, <2>5, Zenon
<1>21. /\ DOMAIN s \subseteq 1..width /\ Live(next) \subseteq 1..width /\ lane \in 1..width
  <2>1. Len(s) \in W /\ Live(next) \subseteq W
    BY <1>19 DEF Live
  <2>2. Len(s) <= width /\ \A l \in Live(next) : l <= width
    BY <1>20, <2>1
  <2>3. \A l \in Live(next) : l \in Nat /\ l >= 1
    BY <1>10, <1>11 DEF Live
  <2> QED BY <1>10, <2>2, <2>3
<1>22. PICK cells : cells = [l \in 1..width |-> Cell(l, lane, verticals, joins, linked, opened)]
  OBVIOUS
<1>23. PICK starts : starts = opened \union linked \union (IF ps = <<>> THEN {} ELSE {lane})
  OBVIOUS
<1>24. PICK row : row = [commit |-> c, lane |-> lane, joins |-> joins, opened |-> opened, starts |-> starts,
                         before |-> s, after |-> next, cells |-> cells]
  OBVIOUS
<1>25. /\ row.commit = c /\ row.lane = lane /\ row.joins = joins /\ row.opened = opened
       /\ row.starts = starts /\ row.before = s /\ row.after = next /\ row.cells = cells
  BY <1>24
<1>26. Row(c, ps) = row
  <2> DEFINE RowOf(sp, ln, js, pl, vs, nx) ==
               [commit |-> c, lane |-> ln, joins |-> js, opened |-> pl.opened,
                starts |-> pl.opened \union pl.linked \union (IF ps = <<>> THEN {} ELSE {ln}),
                before |-> sp, after |-> nx,
                cells |-> [l \in 1..Max({ln, Len(sp)} \union LanesOf(sp, c) \union pl.opened \union pl.linked
                                        \union {l \in DOMAIN nx : nx[l] # None})
                             |-> Cell(l, ln, vs, js, pl.linked, pl.opened)]]
             lane0 == LaneOf(Placed(active, c), c)
             joins0 == Incoming(Placed(active, c), lane0, c)
             plan0 == PlanParents(Placed(active, c), lane0, ps)
  <2>1. Row(c, ps) = RowOf(Placed(active, c), lane0, joins0, plan0,
                           {l \in Lanes(Placed(active, c)) : l # lane0} \ joins0,
                           CloseJoined(plan0.next, joins0))
    BY Zenon DEF Row
  <2>2. /\ Placed(active, c) = s /\ lane0 = lane /\ joins0 = joins /\ plan0 = plan
        /\ {l \in Lanes(Placed(active, c)) : l # lane0} \ joins0 = verticals
        /\ CloseJoined(plan0.next, joins0) = next
    <3>1. Placed(active, c) = s /\ lane0 = lane
      BY <1>1, <1>2
    <3>2. joins0 = joins /\ plan0 = plan
      BY <1>3, <1>5, <3>1
    <3> HIDE DEF lane0, joins0, plan0
    <3> QED BY <1>8, <1>9, <1>16, <3>1, <3>2
  <2> HIDE DEF RowOf, lane0, joins0, plan0
  <2>3. Row(c, ps) = RowOf(s, lane, joins, plan, verticals, next)
    BY <2>1, <2>2
  <2>4. RowOf(s, lane, joins, plan, verticals, next) =
          [commit |-> c, lane |-> lane, joins |-> joins, opened |-> opened, starts |-> starts,
           before |-> s, after |-> next,
           cells |-> [l \in 1..Max(W) |-> Cell(l, lane, verticals, joins, linked, opened)]]
    BY <1>12, <1>19, <1>23 DEF RowOf
  <2> QED BY <1>20, <1>22, <1>24, <2>3, <2>4
<1>27. {l \in DOMAIN cells : l = lane \/ "up" \in cells[l]} = DOMAIN s
  <2>1. \A l \in 1..width : "up" \in cells[l] <=> l \in verticals \union joins
    BY <1>22, CellEnds
  <2>2. DOMAIN cells = 1..width
    BY <1>22
  <2> QED BY <1>6, <1>17, <1>21, <2>1, <2>2
<1>28. {l \in DOMAIN cells : IF l = lane THEN ps # <<>> ELSE "down" \in cells[l]} = Live(next)
  <2>1. \A l \in 1..width : "down" \in cells[l] <=> l \in verticals \union opened
    BY <1>22, CellEnds
  <2>2. DOMAIN cells = 1..width
    BY <1>22
  <2>3. lane \notin verticals /\ lane \notin opened
    BY <1>14, <1>17
  <2> QED BY <1>18, <1>21, <2>1, <2>2, <2>3
<1>29. ASSUME NEW l \in Live(next)
       PROVE  /\ next[l] \in ToSet(ps) \/ (l \in DOMAIN s /\ s[l] = next[l] /\ s[l] # c)
              /\ next[l] = IF l = lane THEN ps[1] ELSE IF l \in opened THEN next[l] ELSE s[l]
  <2>1. CASE l \in verticals
    <3>1. next[l] = s[l] /\ l \in DOMAIN s /\ s[l] # c /\ l # lane /\ l \notin opened
      BY <1>7, <1>10, <1>11, <1>13, <1>14, <1>17, <2>1
    <3> QED BY <3>1
  <2>2. CASE l \in opened
    <3>1. next[l] = closed[l] /\ l # lane
      BY <1>6, <1>11, <1>14, <2>2
    <3> QED BY <1>13, <2>2, <3>1
  <2>3. CASE l = lane /\ ps # <<>>
    <3>1. next[l] = closed[l]
      BY <1>6, <1>10, <1>11, <2>3
    <3> QED BY <1>13, <1>15, <2>3, <3>1
  <2> QED BY <1>18, <2>1, <2>2, <2>3
<1>30. ASSUME NEW l \in DOMAIN s, s[l] # c PROVE l \in DOMAIN next /\ next[l] = s[l]
  BY <1>7, <1>10, <1>11, <1>13, <1>30
<1>31. starts \subseteq Live(next) /\ \A l \in starts : next[l] = closed[l]
  <2>1. ASSUME NEW l \in linked PROVE l \in verticals
    <3>1. l \in DOMAIN s \ {lane} /\ closed[l] = s[l] /\ closed[l] \in ToSet(ps)
      BY <1>13
    <3>2. s[l] # c
      BY <1>15, <3>1
    <3> QED BY <1>7, <1>17, <3>1, <3>2
  <2>2. starts \subseteq Live(next)
    BY <1>18, <1>23, <2>1
  <2>3. \A l \in Live(next) : l \in DOMAIN closed /\ l \notin joins
    BY <1>11 DEF Live
  <2> QED BY <1>11, <2>2, <2>3
<1>32. OneEach(next, starts, ps)
  <2>1. OneEach(closed, starts, ps)
    BY <1>4, <1>8, <1>12, <1>23 DEF LaneStarts
  <2> QED BY <1>31, <2>1 DEF OneEach
<1>33. RowFits(row, c, ps)
  <2>1. {l \in DOMAIN row.cells : l = row.lane \/ "up" \in row.cells[l]} = DOMAIN row.before
    BY <1>25, <1>27
  <2>2. {l \in DOMAIN row.cells : IF l = row.lane THEN ps # <<>> ELSE "down" \in row.cells[l]} = Live(row.after)
    BY <1>25, <1>28
  <2>3. \A l \in Live(row.after) :
           /\ \/ row.after[l] \in ToSet(ps)
              \/ l \in DOMAIN row.before /\ row.before[l] = row.after[l] /\ row.before[l] # c
           /\ row.after[l] = IF l = row.lane THEN ps[1]
                             ELSE IF l \in row.opened THEN row.after[l] ELSE row.before[l]
    BY <1>25, <1>29
  <2>4. \A l \in DOMAIN row.before : row.before[l] # c => l \in DOMAIN row.after /\ row.after[l] = row.before[l]
    BY <1>25, <1>30
  <2>5. row.starts \subseteq Live(row.after) /\ OneEach(row.after, row.starts, ps)
    BY <1>25, <1>31, <1>32
  <2>6. /\ row.commit = c /\ row.before \in Seq(Ids) /\ row.after \in Seq(Waiters)
        /\ row.lane \in DOMAIN row.before
        /\ row.joins \union {row.lane} = LanesOf(row.before, c)
    BY <1>6, <1>11, <1>25
  <2> QED BY <2>1, <2>2, <2>3, <2>4, <2>5, <2>6, Zenon DEF RowFits
<1> QED BY <1>1, <1>25, <1>26, <1>33

-----------------------------------------------------------------------------
(* Between two rows *)

\* The rails that leave a row.
Rails(q) == [l \in Live(q) |-> q[l]]

\* to takes every rail to a lane of its own that waits for the same commit.
Carried(to, down, up) ==
    /\ to \in [DOMAIN down -> DOMAIN up]
    /\ \A l, m \in DOMAIN down : to[l] = to[m] => l = m
    /\ \A l \in DOMAIN down : up[to[l]] = down[l]

\* Compacting loses no rail and adds none.
LEMMA CompactHolds ==
    ASSUME NEW q \in Seq(Waiters)
    PROVE  /\ CompactActive(q) \in Seq(Ids)
           /\ \A k \in DOMAIN CompactActive(q) : \E l \in Live(q) : CompactActive(q)[k] = q[l]
           /\ \E to : Carried(to, Rails(q), CompactActive(q))
<1>1. PICK r \in Seq(Waiters) : r = CompactActive(q) /\ Filters(r, q, Len(q), Ids)
  BY RetainFilters DEF CompactActive
<1>2. PICK pos \in [1..Len(r) -> 1..Len(q)] :
         /\ \A i, k \in 1..Len(r) : i # k => pos[i] # pos[k]
         /\ \A i \in 1..Len(r) : r[i] = q[pos[i]] /\ r[i] \in Ids
         /\ \A m \in 1..Len(q) : q[m] \in Ids => \E i \in 1..Len(r) : pos[i] = m
  BY <1>1 DEF Filters
<1>3. /\ DOMAIN r = 1..Len(r) /\ DOMAIN q = 1..Len(q)
      /\ \A m \in DOMAIN q : q[m] \in Waiters
  BY Places
<1>4. \A m : m \in Live(q) <=> m \in DOMAIN q /\ q[m] \in Ids
  BY <1>3, IdsHold DEF Live, Waiters
<1>5. r \in Seq(Ids)
  <2>1. ToSet(r) \subseteq Ids
    BY <1>2, <1>3 DEF ToSet
  <2> QED BY <2>1, Narrow
<1>6. \A k \in DOMAIN r : pos[k] \in Live(q) /\ r[k] = q[pos[k]]
  BY <1>2, <1>3, <1>4
<1>7. PICK to : to = [m \in Live(q) |-> CHOOSE i \in 1..Len(r) : pos[i] = m]
  OBVIOUS
<1>8. \A m \in Live(q) : to[m] \in DOMAIN r /\ pos[to[m]] = m
  <2>1. \A m \in Live(q) : \E i \in 1..Len(r) : pos[i] = m
    BY <1>2, <1>3, <1>4
  <2> QED BY <1>3, <1>7, <2>1
<1>9. Carried(to, Rails(q), r)
  <2>1. PICK down : down = Rails(q) /\ DOMAIN down = Live(q) /\ \A l \in Live(q) : down[l] = q[l]
    <3>1. PICK down : down = [l \in Live(q) |-> q[l]]
      OBVIOUS
    <3>2. down = Rails(q) /\ DOMAIN down = Live(q) /\ \A l \in Live(q) : down[l] = q[l]
      BY <3>1 DEF Rails
    <3> QED BY <3>2
  <2>2. to \in [DOMAIN down -> DOMAIN r]
    BY <1>7, <1>8, <2>1
  <2>3. \A l, m \in DOMAIN down : to[l] = to[m] => l = m
    BY <1>8, <2>1
  <2>4. \A l \in DOMAIN down : r[to[l]] = down[l]
    BY <1>6, <1>8, <2>1
  <2> QED BY <2>1, <2>2, <2>3, <2>4 DEF Carried
<1> QED BY <1>1, <1>5, <1>6, <1>9

\* The lower row expects every rail that is carried to it.
LEMMA CarriedToRow ==
    ASSUME NEW q \in Seq(Waiters), NEW c \in Ids
    PROVE  \E to : Carried(to, Rails(q), Placed(CompactActive(q), c))
<1>1. PICK r, to : r \in Seq(Ids) /\ r = CompactActive(q) /\ Carried(to, Rails(q), r)
  BY CompactHolds
<1>2. PICK up : up = Placed(r, c) /\ DOMAIN r \subseteq DOMAIN up /\ \A l \in DOMAIN r : up[l] = r[l]
  <2>1. DOMAIN r \subseteq DOMAIN Placed(r, c) /\ \A l \in DOMAIN r : Placed(r, c)[l] = r[l]
    BY <1>1, PlacedHolds
  <2> QED BY <2>1
<1>3. Carried(to, Rails(q), up)
  <2>1. PICK down : down = Rails(q)
    OBVIOUS
  <2>2. /\ to \in [DOMAIN down -> DOMAIN r]
        /\ \A l, m \in DOMAIN down : to[l] = to[m] => l = m
        /\ \A l \in DOMAIN down : r[to[l]] = down[l]
    BY <1>1, <2>1 DEF Carried
  <2>3. to \in [DOMAIN down -> DOMAIN up] /\ \A l \in DOMAIN down : up[to[l]] = down[l]
    BY <1>2, <2>2
  <2> QED BY <2>1, <2>2, <2>3 DEF Carried
<1> QED BY <1>1, <1>2, <1>3

\* One rail more of the upper row, bent to its partner.
Bend(down, up, pairs, from) ==
    pairs \union {<<from, to>> : to \in Partner(up, {p[2] : p \in pairs}, from, down[from])}

\* The rails of `done` have their partners, each one of its own.
Bent(pairs, down, up, done) ==
    /\ pairs \in SUBSET ((DOMAIN down) \X (DOMAIN up))
    /\ \A p \in pairs : p[1] \in done /\ up[p[2]] = down[p[1]]
    /\ \A l \in done : \E p \in pairs : p[1] = l
    /\ \A p, q \in pairs : p[1] = q[1] \/ p[2] = q[2] => p = q

\* There is a partner left: more rails than lanes would wait for a commit.
LEMMA PartnerLeft ==
    ASSUME NEW down, NEW up, NEW to, Carried(to, down, up), IsFiniteSet(DOMAIN down),
           IsFiniteSet(DOMAIN up), NEW pairs, NEW done, Bent(pairs, down, up, done),
           NEW from \in DOMAIN down, from \notin done
    PROVE  \E l \in DOMAIN up : up[l] = down[from] /\ l \notin {p[2] : p \in pairs}
<1> DEFINE id == down[from]
           F  == {l \in DOMAIN down : down[l] = id}
           G  == {l \in DOMAIN up : up[l] = id}
<1>1. SUFFICES ASSUME \A l \in G : \E p \in pairs : p[2] = l PROVE FALSE
  OBVIOUS
<1>2. from \in F /\ F \in SUBSET DOMAIN down /\ G \in SUBSET DOMAIN up
  OBVIOUS
<1>3. IsFiniteSet(F) /\ IsFiniteSet(G)
  <2> HIDE DEF F, G
  <2> QED BY <1>2, FS_Subset
<1>4. PICK f : f = [l \in F |-> to[l]]
  OBVIOUS
<1>5. f \in Injection(F, G)
  <2>1. \A l \in F : to[l] \in G
    BY DEF Carried
  <2>2. \A l, m \in F : to[l] = to[m] => l = m
    BY DEF Carried
  <2> HIDE DEF F, G
  <2>3. f \in [F -> G]
    BY <1>4, <2>1
  <2>4. \A l, m \in F : f[l] = f[m] => l = m
    BY <1>4, <2>2
  <2> QED BY <2>3, <2>4 DEF Injection, IsInjective
<1>6. PICK source : source = [l \in G |-> CHOOSE p \in pairs : p[2] = l]
  OBVIOUS
<1>7. \A l \in G : source[l] \in pairs /\ source[l][2] = l
  BY <1>1, <1>6
<1>8. PICK g : g = [l \in G |-> source[l][1]]
  OBVIOUS
<1>9. g \in Injection(G, F \ {from})
  <2>1. ASSUME NEW l \in G PROVE g[l] \in F \ {from}
    <3>1. PICK p \in pairs : p = source[l] /\ p[2] = l
      BY <1>7
    <3>2. p[1] \in DOMAIN down /\ p[1] \in done /\ up[l] = down[p[1]]
      BY <3>1 DEF Bent
    <3>3. g[l] = p[1]
      BY <1>8, <3>1
    <3> QED BY <3>2, <3>3
  <2>2. ASSUME NEW l \in G, NEW m \in G, g[l] = g[m] PROVE l = m
    <3>1. PICK p \in pairs : p = source[l] /\ p[2] = l
      BY <1>7
    <3>2. PICK q \in pairs : q = source[m] /\ q[2] = m
      BY <1>7
    <3>3. p[1] = q[1]
      BY <1>8, <2>2, <3>1, <3>2
    <3>4. p = q
      BY <3>3 DEF Bent
    <3> QED BY <3>1, <3>2, <3>4
  <2> HIDE DEF F, G
  <2>3. g \in [G -> F \ {from}]
    BY <1>8, <2>1
  <2> QED BY <2>2, <2>3 DEF Injection, IsInjective
<1> HIDE DEF F, G
<1>10. /\ Cardinality(F) \in Nat /\ Cardinality(G) \in Nat /\ IsFiniteSet(F \ {from})
       /\ Cardinality(F \ {from}) = Cardinality(F) - 1
  BY <1>2, <1>3, FS_CardinalityType, FS_RemoveElement
<1>11. Cardinality(F) <= Cardinality(G)
  BY <1>3, <1>5, FS_Injection
<1>12. Cardinality(G) <= Cardinality(F \ {from})
  BY <1>9, <1>10, FS_Injection
<1> QED BY <1>10, <1>11, <1>12

LEMMA BendHolds ==
    ASSUME NEW down, NEW up, NEW to, Carried(to, down, up), IsFiniteSet(DOMAIN down),
           IsFiniteSet(DOMAIN up), DOMAIN up \subseteq Nat, NEW pairs, NEW done,
           Bent(pairs, down, up, done), NEW from \in DOMAIN down, from \notin done
    PROVE  Bent(Bend(down, up, pairs, from), down, up, done \union {from})
<1>1. PICK used : used = {p[2] : p \in pairs}
  OBVIOUS
<1>2. PICK free : free = {l \in DOMAIN up \ used : up[l] = down[from]}
  OBVIOUS
<1>3. free # {} /\ free \in SUBSET Nat
  BY <1>1, <1>2, PartnerLeft
<1>4. PICK t : Partner(up, used, from, down[from]) = {t} /\ t \in free
  <2>1. Min(free) \in free
    BY <1>3, LeastLane
  <2>2. Partner(up, used, from, down[from]) = IF from \in free THEN {from} ELSE {Min(free)}
    BY <1>2, <1>3 DEF Partner
  <2>3. CASE from \in free
    BY <2>2, <2>3
  <2>4. CASE from \notin free
    BY <2>1, <2>2, <2>4
  <2> QED BY <2>3, <2>4
<1>5. t \in DOMAIN up /\ up[t] = down[from] /\ \A p \in pairs : p[2] # t
  BY <1>1, <1>2, <1>4
<1>6. PICK new : new = <<from, t>>
  OBVIOUS
<1>7. new \in (DOMAIN down) \X (DOMAIN up) /\ new[1] = from /\ new[2] = t
  BY <1>5, <1>6
<1>8. Bend(down, up, pairs, from) = pairs \union {new}
  BY <1>1, <1>4, <1>6 DEF Bend
<1>9. PICK more : more = pairs \union {new}
  OBVIOUS
<1>10. more \in SUBSET ((DOMAIN down) \X (DOMAIN up))
  BY <1>7, <1>9 DEF Bent
<1>11. \A p \in more : p[1] \in done \union {from} /\ up[p[2]] = down[p[1]]
  BY <1>5, <1>7, <1>9 DEF Bent
<1>12. \A l \in done \union {from} : \E p \in more : p[1] = l
  BY <1>7, <1>9 DEF Bent
<1>13. \A p \in pairs : p[1] # from /\ p[2] # t
  BY <1>5 DEF Bent
<1>14. \A p, q \in more : p[1] = q[1] \/ p[2] = q[2] => p = q
  BY <1>7, <1>9, <1>13 DEF Bent
<1>15. Bent(more, down, up, done \union {from})
  BY <1>10, <1>11, <1>12, <1>14, Zenon DEF Bent
<1> QED BY <1>8, <1>9, <1>15

\* The lanes of the upper row, from the left.
LEMMA OrderHolds ==
    ASSUME NEW n \in Nat, NEW S \in SUBSET (1..n), NEW order,
           order = Retain([l \in 1..Max(S \union {0}) |-> l], S)
    PROVE  order \in Seq(Nat) /\ Distinct(order) /\ ToSet(order) = S
<1>1. PICK m : m = Max(S \union {0})
  OBVIOUS
<1>2. m \in 0..n /\ \A l \in S : l <= m
  <2>1. S \union {0} \in SUBSET (0..n) /\ S \union {0} # {}
    OBVIOUS
  <2>2. PICK W : W = S \union {0} /\ W \in SUBSET (0..n) /\ W # {}
    BY <2>1
  <2>3. Max(W) \in W /\ \A l \in W : l <= Max(W)
    BY <2>2, MaxIsGreatest
  <2>4. m \in W /\ \A l \in W : l <= m
    BY <1>1, <2>2, <2>3, Zenon
  <2> QED BY <2>2, <2>4
<1>3. PICK q : q = [l \in 1..m |-> l]
  OBVIOUS
<1>4. m \in Nat /\ q \in [1..m -> Nat]
  <2>1. m \in Nat
    BY <1>2
  <2>2. \A l \in 1..m : l \in Nat
    BY <2>1
  <2> QED BY <1>3, <2>1, <2>2
<1>5. q \in Seq(Nat) /\ Len(q) = m
  <2>1. q \in Seq(Nat)
    BY <1>4, SeqDef
  <2> QED BY <1>4, <2>1, LenProperties
<1>6. Distinct(q)
  BY <1>3, <1>5 DEF Distinct
<1>7. S \subseteq ToSet(q)
  <2>1. \A l \in S : l \in 1..m
    BY <1>2, <1>4
  <2>2. \A l \in 1..m : l \in DOMAIN q /\ q[l] = l
    BY <1>3
  <2> QED BY <2>1, <2>2 DEF ToSet
<1>8. order = Retain(q, S)
  BY <1>1, <1>3
<1>9. order \in Seq(Nat) /\ ToSet(order) = ToSet(q) \intersect S
  <2>1. Retain(q, S) \in Seq(Nat) /\ ToSet(Retain(q, S)) = ToSet(q) \intersect S
    BY <1>5, RetainHolds
  <2> QED BY <1>8, <2>1, Zenon
<1>10. Distinct(order)
  BY <1>5, <1>6, <1>8, RetainDistinct
<1> QED BY <1>7, <1>9, <1>10

LEMMA BendType ==
    ASSUME NEW down, NEW up, DOMAIN up \subseteq Nat, NEW from \in DOMAIN down,
           NEW pairs \in SUBSET ((DOMAIN down) \X (DOMAIN up))
    PROVE  Bend(down, up, pairs, from) \in SUBSET ((DOMAIN down) \X (DOMAIN up))
<1>1. PICK used : used = {p[2] : p \in pairs}
  OBVIOUS
<1>2. PICK free : free = {l \in DOMAIN up \ used : up[l] = down[from]}
  OBVIOUS
<1>3. free # {} => Min(free) \in free
  <2>1. free \in SUBSET Nat
    BY <1>2
  <2> QED BY <2>1, LeastLane
<1>4. Partner(up, used, from, down[from]) =
        IF from \in free THEN {from} ELSE IF free # {} THEN {Min(free)} ELSE {}
  BY <1>2 DEF Partner
<1>5. PICK partners : partners = Partner(up, used, from, down[from]) /\ partners \subseteq DOMAIN up
  BY <1>2, <1>3, <1>4
<1>6. Bend(down, up, pairs, from) = pairs \union {<<from, t>> : t \in partners}
  BY <1>1, <1>5 DEF Bend
<1>7. \A t \in partners : <<from, t>> \in (DOMAIN down) \X (DOMAIN up)
  BY <1>5
<1> QED BY <1>6, <1>7

\* The fold of match_stems over them: every rail has its partner.
LEMMA MatchHolds ==
    ASSUME NEW n \in Nat, NEW down, DOMAIN down \in SUBSET (1..n), NEW up, IsFiniteSet(DOMAIN up),
           DOMAIN up \subseteq Nat, NEW to, Carried(to, down, up)
    PROVE  Bent(MatchStems(down, up), down, up, DOMAIN down)
<1> DEFINE order == Retain([l \in 1..Max(DOMAIN down \union {0}) |-> l], DOMAIN down)
           N     == Len(order)
           All   == SUBSET ((DOMAIN down) \X (DOMAIN up))
           Is(it) == it = [S \in SUBSET (1..N) |->
                             IF S = {} THEN {} ELSE Bend(down, up, it[S \ {Max(S)}], order[Max(S)])]
<1>1. order \in Seq(Nat) /\ Distinct(order) /\ ToSet(order) = DOMAIN down
  BY OrderHolds
<1>2. IsFiniteSet(DOMAIN down)
  <2>1. 1 \in Int /\ n \in Int
    OBVIOUS
  <2>2. IsFiniteSet(1..n)
    BY <2>1, FS_Interval
  <2> QED BY <2>2, FS_Subset
<1>3. MatchStems(down, up) = FoldLeft(LAMBDA pairs, from : Bend(down, up, pairs, from), {}, order)
  BY DEF MatchStems, Bend
<1> HIDE DEF order
<1>4. /\ N \in Nat /\ DOMAIN order = 1..N
      /\ \A k \in 1..N : order[k] \in DOMAIN down
      /\ \A l \in DOMAIN down : \E k \in 1..N : order[k] = l
      /\ \A j, k \in 1..N : j # k => order[j] # order[k]
  BY <1>1, Places DEF Distinct
<1>5. {} \in All
  OBVIOUS
<1>6. PICK g : g = [x \in All \X (1..N) |-> Bend(down, up, x[1], order[x[2]])]
  OBVIOUS
<1>7. g \in [All \X (1..N) -> All]
  <2>1. ASSUME NEW x \in All \X (1..N) PROVE Bend(down, up, x[1], order[x[2]]) \in All
    <3>1. PICK pairs \in All : pairs = x[1]
      OBVIOUS
    <3>2. PICK from \in DOMAIN down : from = order[x[2]]
      BY <1>4
    <3>3. Bend(down, up, pairs, from) \in All
      BY BendType
    <3> QED BY <3>1, <3>2, <3>3, Zenon
  <2> HIDE DEF All
  <2> QED BY <1>6, <2>1
<1>8. PICK it \in [SUBSET (1..N) -> All] : FoldsLeft(it, N, {}, g)
  <2> HIDE DEF All
  <2> QED BY <1>4, <1>5, <1>7, FoldLeftDefined
<1> HIDE DEF All
<1>9. Is(it)
  <2>1. ASSUME NEW S \in SUBSET (1..N), S # {}
        PROVE  it[S] = Bend(down, up, it[S \ {Max(S)}], order[Max(S)])
    <3>1. S \in SUBSET (0..N)
      BY <1>4
    <3>2. PICK k : k = Max(S) /\ k \in S
      BY <1>4, <2>1, <3>1, MaxIsGreatest
    <3>3. it[S] = g[<<it[S \ {k}], k>>]
      BY <1>8, <2>1, <3>2 DEF FoldsLeft
    <3>4. it[S \ {k}] \in All /\ k \in 1..N
      BY <1>8, <3>2
    <3>5. g[<<it[S \ {k}], k>>] = Bend(down, up, it[S \ {k}], order[k])
      BY <1>6, <3>4
    <3> QED BY <3>2, <3>3, <3>5
  <2>2. it[{}] = {}
    BY <1>8 DEF FoldsLeft
  <2>3. \A S \in SUBSET (1..N) :
           it[S] = IF S = {} THEN {} ELSE Bend(down, up, it[S \ {Max(S)}], order[Max(S)])
    BY <2>1, <2>2
  <2> QED BY <1>8, <2>3
<1>10. PICK h : h = CHOOSE f : Is(f)
  OBVIOUS
<1>11. Is(h)
  <2> HIDE DEF Is
  <2> QED BY <1>9, <1>10
<1>12. MatchStems(down, up) = h[1..N]
  BY <1>4, <1>3, <1>10 DEF FoldLeft, MapThenFoldSet
<1>13. h[1..0] = {}
  <2>1. 1..0 = {} /\ {} \in SUBSET (1..N)
    OBVIOUS
  <2> QED BY <1>11, <2>1
<1>14. ASSUME NEW k \in 1..N PROVE h[1..k] = Bend(down, up, h[1..(k - 1)], order[k])
  <2>1. 1..k \in SUBSET (1..N) /\ 1..k # {} /\ k \in 1..k /\ 1..k \in SUBSET (0..N)
    <3>1. PICK i \in Nat : i = N
      BY <1>4
    <3>2. k \in Nat /\ k \in 1..k /\ \A j \in 1..k : j \in 1..i /\ j \in 0..i
      BY <3>1
    <3>3. 1..k \in SUBSET (1..i) /\ 1..k \in SUBSET (0..i)
      BY <3>2
    <3> HIDE DEF N
    <3> QED BY <3>1, <3>2, <3>3, Zenon
  <2>2. Max(1..k) = k
    <3>1. Max(1..k) \in 1..k /\ \A i \in 1..k : i <= Max(1..k)
      BY <1>4, <2>1, MaxIsGreatest
    <3> QED BY <1>4, <2>1, <3>1
  <2>3. (1..k) \ {k} = 1..(k - 1)
    BY <1>4
  <2> QED BY <1>11, <2>1, <2>2, <2>3
<1> HIDE DEF Is
<1> DEFINE done(k) == {order[j] : j \in 1..k}
           Good(k) == Bent(h[1..k], down, up, done(k))
           bad     == {k \in 0..N : ~Good(k)}
<1>15. Good(0)
  <2>1. done(0) = {}
    OBVIOUS
  <2>2. Bent({}, down, up, {})
    BY DEF Bent
  <2> HIDE DEF done
  <2> QED BY <1>13, <2>1, <2>2
<1>16. ASSUME bad # {} PROVE FALSE
  <2>1. bad \in SUBSET Nat
    BY <1>4
  <2>2. PICK m \in bad : \A k \in bad : m <= k
    <3> HIDE DEF bad
    <3> QED BY <1>16, <2>1, LeastNatural
  <2>3. m \in 0..N /\ m # 0
    BY <1>15
  <2>4. m \in 1..N /\ m \in Nat /\ m - 1 \in 0..N /\ ~(m <= m - 1)
    BY <1>4, <2>3
  <2>5. m - 1 \notin bad
    <3> HIDE DEF bad
    <3> QED BY <2>2, <2>4
  <2>6. Good(m - 1)
    BY <2>4, <2>5
  <2>7. PICK pairs, before : pairs = h[1..(m - 1)] /\ before = done(m - 1) /\ Bent(pairs, down, up, before)
    BY <2>6
  <2>8. PICK from \in DOMAIN down : from = order[m]
    BY <1>4, <2>4
  <2>9. from \notin before /\ done(m) = before \union {from}
    <3>1. 1..m = (1..(m - 1)) \union {m} /\ \A j \in 1..(m - 1) : j \in 1..N /\ j # m
      BY <1>4, <2>4
    <3> QED BY <1>4, <2>4, <2>7, <2>8, <3>1
  <2>10. Bent(Bend(down, up, pairs, from), down, up, before \union {from})
    BY <1>2, <2>7, <2>8, <2>9, BendHolds
  <2>11. h[1..m] = Bend(down, up, pairs, from)
    BY <1>14, <2>4, <2>7, <2>8
  <2>12. Good(m)
    <3> HIDE DEF done
    <3> QED BY <2>9, <2>10, <2>11
  <2> QED BY <2>2, <2>12
<1>17. N \in 0..N /\ N \notin bad
  <2>1. N \in 0..N
    BY <1>4
  <2> HIDE DEF bad
  <2> QED BY <1>16, <2>1
<1>18. Good(N)
  BY <1>17
<1>19. done(N) = DOMAIN down
  <2>1. \A l \in DOMAIN down : l \in done(N)
    BY <1>4
  <2>2. \A l \in done(N) : l \in DOMAIN down
    BY <1>4
  <2> HIDE DEF done
  <2> QED BY <2>1, <2>2
<1> HIDE DEF done
<1> QED BY <1>12, <1>18, <1>19

-----------------------------------------------------------------------------
(* The picture *)

\* Commit v comes after row i, and is a parent of a commit up to there.
AwaitedAt(lists, v, i) == v > i /\ \E j \in 1..i : v \in ToSet(lists[j])

\* The rows are what the loop has made of the commits read.
RowsFit ==
    \A i \in DOMAIN laid :
       /\ ParentsFit(parents[i], i) /\ RowFits(laid[i], i, parents[i])
       /\ \A l \in Live(laid[i].after) : AwaitedAt(parents, laid[i].after[l], i)

\* Each starts from what the one above left.
RowsFollow ==
    /\ \A i \in DOMAIN laid :
          i + 1 \in DOMAIN laid => laid[i + 1].before = Placed(CompactActive(laid[i].after), i + 1)
    /\ active = IF laid = <<>> THEN <<>> ELSE CompactActive(laid[Len(laid)].after)

GInv ==
    /\ Listed(parents) /\ Listed(laid) /\ Len(parents) = Len(laid) /\ Len(laid) <= Rows
    /\ RowsFit /\ RowsFollow

\* What the lanes wait for between two rows.
LEMMA ActiveHolds ==
    ASSUME GInv
    PROVE  active \in Seq(Ids) /\ \A l \in DOMAIN active : AwaitedAt(parents, active[l], Len(laid))
<1>1. Len(laid) \in Nat /\ DOMAIN laid = 1..Len(laid)
  BY ListedShape DEF GInv
<1>2. CASE laid = <<>>
  <2>1. active = <<>>
    BY <1>2 DEF GInv, RowsFollow
  <2>2. <<>> \in Seq(Ids) /\ DOMAIN <<>> = {}
    BY EmptySeq
  <2> QED BY <2>1, <2>2
<1>3. CASE laid # <<>>
  <2>1. Len(laid) \in DOMAIN laid
    <3>1. Len(laid) # 0
      BY <1>3, EmptySeq DEF GInv, Listed
    <3> QED BY <1>1, <3>1
  <2>2. PICK q : q = laid[Len(laid)].after
    OBVIOUS
  <2>3. q \in Seq(Waiters) /\ \A l \in Live(q) : AwaitedAt(parents, q[l], Len(laid))
    BY <2>1, <2>2 DEF GInv, RowsFit, RowFits
  <2>4. active = CompactActive(q)
    BY <1>3, <2>2 DEF GInv, RowsFollow
  <2>5. active \in Seq(Ids) /\ \A k \in DOMAIN active : \E l \in Live(q) : active[k] = q[l]
    BY <2>3, <2>4, CompactHolds
  <2> QED BY <2>3, <2>5
<1> QED BY <1>2, <1>3

LEMMA GStarts == GraphInit => GInv
<1> SUFFICES ASSUME GraphInit PROVE GInv
  OBVIOUS
<1>1. parents = <<>> /\ active = <<>> /\ laid = <<>>
  BY DEF GraphInit
<1>2. Listed(<<>>) /\ Len(<<>>) = 0 /\ DOMAIN <<>> = {}
  BY EmptyIsListed, EmptySeq
<1>3. Listed(parents) /\ Listed(laid) /\ Len(parents) = Len(laid) /\ Len(laid) <= Rows
  BY <1>1, <1>2, GraphAssumption
<1>4. RowsFit /\ RowsFollow
  BY <1>1, <1>2 DEF RowsFit, RowsFollow
<1> QED BY <1>3, <1>4 DEF GInv

LEMMA GStep == GInv /\ [GraphNext]_graphVars => GInv'
<1> SUFFICES ASSUME GInv, [GraphNext]_graphVars PROVE GInv'
  OBVIOUS
<1>1. CASE UNCHANGED graphVars
  <2>1. parents' = parents /\ active' = active /\ laid' = laid
    BY <1>1 DEF graphVars
  <2> QED BY <2>1 DEF GInv, RowsFit, RowsFollow, AwaitedAt
<1>2. ASSUME Len(laid) < Rows, NEW ps \in ParentLists(Len(laid) + 1), LayOut(ps) PROVE GInv'
  <2>1. PICK n \in Nat, c \in Nat :
           /\ n = Len(laid) /\ c = n + 1 /\ Len(parents) = n
           /\ DOMAIN laid = 1..n /\ DOMAIN parents = 1..n
    BY ListedShape DEF GInv
  <2>2. c \in Ids /\ 1..c = (1..n) \union {c} /\ c \notin 1..n /\ c <= Rows
    <3>1. c \in 1..(Rows + Unloaded) /\ c <= Rows
      BY <1>2, <2>1, GraphAssumption
    <3>2. 1..c = (1..n) \union {c} /\ c \notin 1..n
      BY <2>1
    <3> QED BY <3>1, <3>2 DEF Ids
  <2>3. ParentsFit(ps, c)
    BY <1>2, <2>1, ParentListsHold
  <2>4. active \in Seq(Ids) /\ \A l \in DOMAIN active : AwaitedAt(parents, active[l], n)
    BY <2>1, ActiveHolds
  <2>5. PICK row : row = Row(c, ps)
    OBVIOUS
  <2>6. RowFits(row, c, ps) /\ row.before = Placed(active, c)
    BY <2>2, <2>3, <2>4, <2>5, RowHolds
  <2>7. /\ parents' = Append(parents, ps) /\ laid' = Append(laid, row)
        /\ active' = CompactActive(row.after)
    BY <1>2, <2>1, <2>5 DEF LayOut
  <2>8. /\ Listed(laid') /\ Len(laid') = c /\ DOMAIN laid' = 1..c
        /\ laid'[c] = row /\ \A i \in 1..n : laid'[i] = laid[i]
    <3>1. Listed(laid)
      BY DEF GInv
    <3> QED BY <2>1, <2>7, <3>1, AppendListed
  <2>9. /\ Listed(parents') /\ Len(parents') = c
        /\ parents'[c] = ps /\ \A i \in 1..n : parents'[i] = parents[i]
    <3>1. Listed(parents)
      BY DEF GInv
    <3> QED BY <2>1, <2>7, <3>1, AppendListed
  <2>10. \A v, i : i \in 1..n /\ AwaitedAt(parents, v, i) => AwaitedAt(parents', v, i)
    <3>1. ASSUME NEW v, NEW i \in 1..n, AwaitedAt(parents, v, i) PROVE AwaitedAt(parents', v, i)
      <4>1. v > i
        BY <3>1 DEF AwaitedAt
      <4>2. PICK j \in 1..i : v \in ToSet(parents[j])
        BY <3>1 DEF AwaitedAt
      <4>3. parents'[j] = parents[j]
        BY <2>1, <2>9
      <4> QED BY <4>1, <4>2, <4>3 DEF AwaitedAt
    <3> QED BY <3>1
  <2>11. ASSUME NEW l \in Live(row.after) PROVE AwaitedAt(parents', row.after[l], c)
    <3>1. CASE row.after[l] \in ToSet(ps)
      <4>1. \A e \in ToSet(ps) : e > c
        BY <2>3, Places DEF ParentsFit
      <4> QED BY <2>2, <2>9, <3>1, <4>1 DEF AwaitedAt
    <3>2. CASE l \in DOMAIN row.before /\ row.before[l] = row.after[l] /\ row.before[l] # c
      <4>1. l \in DOMAIN active /\ active[l] = row.after[l]
        <5>1. PICK s : s = Placed(active, c)
          OBVIOUS
        <5>2. /\ \A k \in DOMAIN active : s[k] = active[k]
              /\ \A k \in DOMAIN s \ DOMAIN active : s[k] = c
          BY <2>2, <2>4, <5>1, PlacedHolds
        <5> QED BY <2>6, <3>2, <5>1, <5>2
      <4>2. PICK v : v = row.after[l] /\ v # c /\ AwaitedAt(parents, v, n) /\ v \in Ids
        <5>1. \A k \in DOMAIN active : active[k] \in Ids
          BY <2>4, Places
        <5> QED BY <2>4, <3>2, <4>1, <5>1
      <4>3. v > n /\ v \in Nat
        BY <4>2, IdsHold DEF AwaitedAt
      <4>4. v > c
        BY <2>1, <4>2, <4>3
      <4>5. PICK j \in 1..n : v \in ToSet(parents[j])
        BY <4>2 DEF AwaitedAt
      <4>6. j \in 1..c /\ parents'[j] = parents[j]
        BY <2>2, <2>9
      <4> QED BY <4>2, <4>4, <4>5, <4>6 DEF AwaitedAt
    <3> QED BY <2>6, <3>1, <3>2 DEF RowFits
  <2>12. RowsFit'
    <3>1. ASSUME NEW i \in 1..n
          PROVE  /\ ParentsFit(parents'[i], i) /\ RowFits(laid'[i], i, parents'[i])
                 /\ \A l \in Live(laid'[i].after) : AwaitedAt(parents', laid'[i].after[l], i)
      <4>1. /\ ParentsFit(parents[i], i) /\ RowFits(laid[i], i, parents[i])
            /\ \A l \in Live(laid[i].after) : AwaitedAt(parents, laid[i].after[l], i)
        BY <2>1 DEF GInv, RowsFit
      <4> QED BY <2>8, <2>9, <2>10, <4>1
    <3>2. \A l \in Live(laid'[c].after) : AwaitedAt(parents', laid'[c].after[l], c)
      BY <2>8, <2>11
    <3>3. ParentsFit(parents'[c], c) /\ RowFits(laid'[c], c, parents'[c])
      BY <2>3, <2>6, <2>8, <2>9
    <3>4. \A i \in DOMAIN laid' : i \in 1..n \/ i = c
      BY <2>2, <2>8
    <3> QED BY <3>1, <3>2, <3>3, <3>4 DEF RowsFit
  <2>13. RowsFollow'
    <3>1. laid' # <<>>
      <4>1. Len(laid') # 0
        BY <2>1, <2>8
      <4> QED BY <4>1, EmptySeq
    <3>2. active' = CompactActive(laid'[Len(laid')].after)
      BY <2>7, <2>8
    <3>3. ASSUME NEW i \in 1..c, i + 1 \in 1..c
          PROVE  laid'[i + 1].before = Placed(CompactActive(laid'[i].after), i + 1)
      <4>1. i \in 1..n /\ (i + 1 \in 1..n \/ (i = n /\ i + 1 = c))
        BY <2>1, <3>3
      <4>2. CASE i + 1 \in 1..n
        <5>1. laid[i + 1].before = Placed(CompactActive(laid[i].after), i + 1)
          BY <2>1, <4>1, <4>2 DEF GInv, RowsFollow
        <5> QED BY <2>8, <4>1, <4>2, <5>1
      <4>3. CASE i = n /\ i + 1 = c
        <5>1. laid # <<>>
          BY <2>1, <4>1, <4>3, EmptySeq
        <5>2. active = CompactActive(laid[n].after)
          BY <2>1, <5>1 DEF GInv, RowsFollow
        <5> QED BY <2>6, <2>8, <4>1, <4>3, <5>2
      <4> QED BY <4>1, <4>2, <4>3
    <3> QED BY <2>8, <3>1, <3>2, <3>3 DEF RowsFollow
  <2> QED BY <2>2, <2>8, <2>9, <2>12, <2>13 DEF GInv
<1> QED BY <1>1, <1>2 DEF GraphNext

\* Where the rails that leave row i lead.
Leads(i) ==
    [l \in Live(laid[i].after) |-> IF laid[i].after[l] <= Len(laid) THEN laid[i].after[l] ELSE Open]

LEMMA LastLeads ==
    ASSUME GInv, NEW i \in DOMAIN laid, i = Len(laid)
    PROVE  [l \in DOMAIN StemDown(laid[i]) |-> Open] = Leads(i)
<1>1. Len(laid) \in Nat
  BY ListedShape DEF GInv
<1>2. PICK q : q = laid[i].after
  OBVIOUS
<1>3. q \in Seq(Waiters) /\ \A l \in Live(q) : q[l] \in Nat /\ q[l] > i
  <2>1. q \in Seq(Waiters) /\ \A l \in Live(q) : q[l] > i
    BY <1>2 DEF GInv, RowsFit, RowFits, AwaitedAt
  <2>2. \A l \in DOMAIN q : q[l] \in Waiters
    BY <2>1, Places
  <2> QED BY <2>1, <2>2, IdsHold DEF Live, Waiters
<1>4. \A l \in Live(q) : ~(q[l] <= Len(laid))
  BY <1>1, <1>3
<1>5. PICK down : down = StemDown(laid[i]) /\ down = [l \in Live(q) |-> q[l]]
  <2>1. RowFits(laid[i], i, parents[i])
    BY DEF GInv, RowsFit
  <2> QED BY <1>2, <2>1, StemsHold
<1>6. DOMAIN down = Live(q)
  BY <1>5
<1>7. Leads(i) = [l \in Live(q) |-> Open]
  BY <1>2, <1>4 DEF Leads
<1> QED BY <1>5, <1>6, <1>7

\* A rail bends to a lane that waits for the same commit: there it ends, or
\* the next row hands it on.
LEMMA LeadsDown ==
    ASSUME GInv, NEW i \in DOMAIN laid, i + 1 \in DOMAIN laid
    PROVE  LeadsFrom(i, Leads(i + 1)) = Leads(i)
<1> DEFINE down  == StemDown(laid[i])
           next  == laid[i + 1]
           below == Leads(i + 1)
           pairs == MatchStems(down, StemUp(next))
           to(l) == {p[2] : p \in {q \in pairs : q[1] = l}}
           on(t) == IF t \in next.joins \union {next.lane} THEN next.commit
                    ELSE IF t \in DOMAIN below THEN below[t] ELSE Lost
<1>1. PICK n \in Nat : n = Len(laid) /\ DOMAIN laid = 1..n
  BY ListedShape DEF GInv
<1>2. PICK c \in Nat : c = i + 1 /\ c <= n /\ c \in Ids
  <2>1. i + 1 \in 1..n /\ n <= Rows
    BY <1>1 DEF GInv
  <2>2. i + 1 \in 1..(Rows + Unloaded) /\ i + 1 \in Nat /\ i + 1 <= n
    BY <1>1, <2>1, GraphAssumption
  <2> QED BY <2>2 DEF Ids
<1>3. PICK q : q = laid[i].after
  OBVIOUS
<1>4. /\ RowFits(laid[i], i, parents[i]) /\ RowFits(next, c, parents[c])
      /\ q \in Seq(Waiters)
  <2>1. c \in DOMAIN laid /\ next = laid[c]
    BY <1>2
  <2>2. RowFits(laid[i], i, parents[i]) /\ RowFits(laid[c], c, parents[c])
    BY <2>1 DEF GInv, RowsFit
  <2>3. q \in Seq(Waiters)
    BY <1>3, <2>2 DEF RowFits
  <2> QED BY <2>1, <2>2, <2>3
<1>5. PICK s : s = next.before
  OBVIOUS
<1>6. s = Placed(CompactActive(q), c) /\ s \in Seq(Ids)
  BY <1>2, <1>3, <1>4, <1>5 DEF GInv, RowsFollow, RowFits
<1>7. StemUp(next) = s /\ down = Rails(q)
  BY <1>3, <1>4, <1>5, StemsHold DEF Rails
<1>8. PICK t : Carried(t, Rails(q), s)
  BY <1>2, <1>4, <1>6, CarriedToRow
<1>9. /\ Len(s) \in Nat /\ DOMAIN s = 1..Len(s) /\ Len(q) \in Nat /\ DOMAIN q = 1..Len(q)
      /\ \A k \in DOMAIN s : s[k] \in Ids
  BY <1>4, <1>6, Places
<1>10. DOMAIN down = Live(q) /\ Live(q) \in SUBSET (1..Len(q)) /\ \A l \in Live(q) : down[l] = q[l]
  <2>1. PICK d : d = [l \in Live(q) |-> q[l]]
    OBVIOUS
  <2>2. d = down
    BY <1>7, <2>1 DEF Rails
  <2>3. Live(q) \in SUBSET (1..Len(q))
    BY <1>9 DEF Live
  <2> QED BY <2>1, <2>2, <2>3
<1>11. IsFiniteSet(DOMAIN s) /\ DOMAIN s \subseteq Nat
  <2>1. 1 \in Int /\ Len(s) \in Int
    BY <1>9
  <2>2. IsFiniteSet(1..Len(s))
    BY <2>1, FS_Interval
  <2> QED BY <1>9, <2>2
<1> HIDE DEF down, next
<1>12. Bent(pairs, down, s, DOMAIN down)
  <2>1. Bent(MatchStems(down, s), down, s, DOMAIN down)
    BY <1>7, <1>8, <1>9, <1>10, <1>11, MatchHolds
  <2> QED BY <1>7, <2>1
<1> HIDE DEF pairs
<1>13. ASSUME NEW l \in Live(q) PROVE to(l) # {} /\ \A k \in to(l) : k \in DOMAIN s /\ s[k] = q[l]
  <2>1. \E p \in pairs : p[1] = l
    BY <1>10, <1>12 DEF Bent
  <2>2. \A p \in pairs : p[1] = l => p[2] \in DOMAIN s /\ s[p[2]] = q[l]
    BY <1>10, <1>12 DEF Bent
  <2> QED BY <2>1, <2>2
<1>14. PICK w : w = laid[c].after
  OBVIOUS
<1>15. /\ next.commit = c /\ next.joins \union {next.lane} = LanesOf(s, c)
       /\ \A k \in DOMAIN s : s[k] # c => k \in DOMAIN w /\ w[k] = s[k]
       /\ next = laid[c]
  <2>1. next = laid[c]
    BY <1>2 DEF next
  <2>2. next.after = w
    BY <1>14, <2>1
  <2> QED BY <1>4, <1>5, <2>1, <2>2 DEF RowFits
<1>16. DOMAIN below = Live(w) /\ \A k \in Live(w) : below[k] = IF w[k] <= n THEN w[k] ELSE Open
  <2>1. PICK b : b = [k \in Live(w) |-> IF w[k] <= n THEN w[k] ELSE Open]
    OBVIOUS
  <2>2. b = below
    BY <1>1, <1>2, <1>14, <2>1 DEF Leads
  <2> QED BY <2>1, <2>2
<1> HIDE DEF below
<1>17. ASSUME NEW k \in DOMAIN s PROVE on(k) = IF s[k] <= n THEN s[k] ELSE Open
  <2>1. CASE s[k] = c
    <3>1. k \in next.joins \union {next.lane}
      BY <1>15, <2>1 DEF LanesOf, Lanes
    <3> QED BY <1>2, <1>15, <2>1, <3>1
  <2>2. CASE s[k] # c
    <3>1. k \notin next.joins \union {next.lane}
      BY <1>15, <2>2 DEF LanesOf, Lanes
    <3>2. k \in Live(w) /\ w[k] = s[k]
      BY <1>9, <1>15, <2>2, IdsHold DEF Live
    <3> QED BY <1>16, <3>1, <3>2
  <2> QED BY <2>1, <2>2
<1> HIDE DEF on, to
<1>18. ASSUME NEW l \in Live(q)
       PROVE  (IF to(l) = {} THEN Lost ELSE on(Min(to(l)))) = IF q[l] <= n THEN q[l] ELSE Open
  <2>1. PICK S : S = to(l) /\ S # {} /\ S \in SUBSET Nat
    <3>1. \A k \in to(l) : k \in Nat
      BY <1>11, <1>13
    <3> QED BY <1>13, <3>1
  <2>2. PICK k : k = Min(S) /\ k \in S
    BY <2>1, LeastLane
  <2>3. k \in DOMAIN s /\ s[k] = q[l]
    BY <1>13, <2>1, <2>2
  <2>4. on(k) = IF q[l] <= n THEN q[l] ELSE Open
    BY <1>17, <2>3
  <2> QED BY <2>1, <2>2, <2>4, Zenon
<1>19. LeadsFrom(i, below) = [l \in DOMAIN down |-> IF to(l) = {} THEN Lost ELSE on(Min(to(l)))]
  BY Zenon DEF LeadsFrom, down, next, pairs, to, on
<1>20. Leads(i) = [l \in Live(q) |-> IF q[l] <= n THEN q[l] ELSE Open]
  BY <1>1, <1>3 DEF Leads
<1>21. LeadsFrom(i, below) = Leads(i)
  BY <1>10, <1>18, <1>19, <1>20
<1> QED BY <1>21 DEF below

\* From the last row up.
LEMMA TracedHolds ==
    ASSUME GInv
    PROVE  Traced = [i \in DOMAIN laid |-> Leads(i)]
<1> DEFINE Is(leads) == leads = [i \in DOMAIN laid |->
                                   IF i = Len(laid) THEN [l \in DOMAIN StemDown(laid[i]) |-> Open]
                                   ELSE LeadsFrom(i, leads[i + 1])]
<1>1. PICK n \in Nat : n = Len(laid) /\ DOMAIN laid = 1..n
  BY ListedShape DEF GInv
<1>2. \A i \in 1..n : i = n => [l \in DOMAIN StemDown(laid[i]) |-> Open] = Leads(i)
  BY <1>1, LastLeads
<1>3. \A i \in 1..n : i # n => i + 1 \in 1..n /\ LeadsFrom(i, Leads(i + 1)) = Leads(i)
  <2>1. ASSUME NEW i \in 1..n, i # n PROVE i + 1 \in 1..n
    BY <2>1
  <2> QED BY <1>1, <2>1, LeadsDown
<1>4. PICK f : f = [i \in 1..n |-> Leads(i)]
  OBVIOUS
<1>5. Is(f)
  <2>1. \A i \in 1..n : f[i] = IF i = n THEN [l \in DOMAIN StemDown(laid[i]) |-> Open]
                               ELSE LeadsFrom(i, f[i + 1])
    <3>1. ASSUME NEW i \in 1..n, i # n PROVE f[i] = LeadsFrom(i, f[i + 1])
      <4>1. f[i] = Leads(i) /\ f[i + 1] = Leads(i + 1)
        BY <1>3, <1>4, <3>1
      <4> QED BY <1>3, <3>1, <4>1
    <3>2. ASSUME NEW i \in 1..n, i = n PROVE f[i] = [l \in DOMAIN StemDown(laid[i]) |-> Open]
      BY <1>2, <1>4, <3>2
    <3> QED BY <3>1, <3>2
  <2>2. f = [i \in 1..n |-> IF i = n THEN [l \in DOMAIN StemDown(laid[i]) |-> Open]
                            ELSE LeadsFrom(i, f[i + 1])]
    BY <1>4, <2>1
  <2> QED BY <1>1, <2>2
<1>6. PICK h : h = CHOOSE leads : Is(leads)
  OBVIOUS
<1>7. Is(h)
  <2> HIDE DEF Is
  <2> QED BY <1>5, <1>6
<1>8. Traced = h
  BY <1>6 DEF Traced
<1>9. \A i \in 1..n : h[i] = IF i = n THEN [l \in DOMAIN StemDown(laid[i]) |-> Open]
                             ELSE LeadsFrom(i, h[i + 1])
  BY <1>1, <1>7
<1>10. h = [i \in 1..n |-> h[i]]
  BY <1>1, <1>7
<1> HIDE DEF Is
<1> DEFINE bad == {d \in 0..(n - 1) : h[n - d] # Leads(n - d)}
<1>11. ASSUME bad # {} PROVE FALSE
  <2>1. bad \in SUBSET Nat
    BY <1>1
  <2>2. PICK d \in bad : \A e \in bad : d <= e
    <3> HIDE DEF bad
    <3> QED BY <1>11, <2>1, LeastNatural
  <2>3. PICK i : i = n - d
    OBVIOUS
  <2>4. i \in 1..n /\ h[i] # Leads(i) /\ d \in Nat /\ d <= n - 1
    BY <2>3
  <2>5. i # n
    BY <1>2, <1>9, <2>4
  <2>6. d - 1 \in 0..(n - 1) /\ ~(d <= d - 1) /\ n - (d - 1) = i + 1
    BY <2>3, <2>4, <2>5
  <2>7. d - 1 \notin bad
    <3> HIDE DEF bad
    <3> QED BY <2>2, <2>6
  <2>8. h[i + 1] = Leads(i + 1)
    BY <2>6, <2>7
  <2>9. h[i] = LeadsFrom(i, h[i + 1])
    BY <1>9, <2>4, <2>5
  <2> HIDE DEF bad
  <2> QED BY <1>3, <2>4, <2>5, <2>8, <2>9
<1>12. ASSUME NEW i \in 1..n PROVE h[i] = Leads(i)
  <2>1. n - i \in 0..(n - 1) /\ n - (n - i) = i
    OBVIOUS
  <2>2. n - i \notin bad
    <3> HIDE DEF bad
    <3> QED BY <1>11
  <2> QED BY <2>1, <2>2
<1>13. h = [i \in 1..n |-> Leads(i)]
  BY <1>10, <1>12
<1> QED BY <1>1, <1>8, <1>13

\* Where the rails on the lanes St lead.
RailEnds(leads, St) == {IF l \in DOMAIN leads THEN leads[l] ELSE Lost : l \in St}

LEMMA RailsLead == GInv => RailsLeadToParents
<1> SUFFICES ASSUME GInv PROVE RailsLeadToParents
  OBVIOUS
<1>1. PICK n \in Nat : n = Len(laid) /\ DOMAIN laid = 1..n
  BY ListedShape DEF GInv
<1>2. PICK traced : traced = Traced /\ traced = [i \in 1..n |-> Leads(i)]
  BY <1>1, TracedHolds
<1>3. ASSUME NEW i \in 1..n
      PROVE  /\ RailEnds(Leads(i), laid[i].starts) \ {Open} = {p \in ToSet(parents[i]) : p <= n}
             /\ Cardinality(laid[i].starts) = Len(parents[i])
  <2>1. PICK q, St, ps : q = laid[i].after /\ St = laid[i].starts /\ ps = parents[i]
    OBVIOUS
  <2>2. /\ q \in Seq(Waiters) /\ St \subseteq Live(q) /\ ps \in Seq(Ids)
        /\ \A p : p \in ToSet(ps) <=> \E l \in St : q[l] = p
        /\ Cardinality(St) = Len(ps)
    <3>1. RowFits(laid[i], i, ps) /\ ParentsFit(ps, i)
      BY <1>1, <2>1 DEF GInv, RowsFit
    <3> QED BY <2>1, <3>1 DEF RowFits, OneEach, ParentsFit
  <2>3. PICK leads, ends : leads = Leads(i) /\ ends = RailEnds(leads, St)
    OBVIOUS
  <2>4. \A l \in St : l \in DOMAIN leads /\ leads[l] = IF q[l] <= n THEN q[l] ELSE Open
    <3>1. leads = [l \in Live(q) |-> IF q[l] <= n THEN q[l] ELSE Open]
      BY <1>1, <2>1, <2>3 DEF Leads
    <3> QED BY <2>2, <3>1
  <2>5. ends = {leads[l] : l \in St}
    BY <2>3, <2>4 DEF RailEnds
  <2>6. \A p \in ToSet(ps) : p # Open
    BY <2>2, Places, IdsHold
  <2>7. ASSUME NEW e \in ends, e # Open PROVE e \in ToSet(ps) /\ e <= n
    <3>1. PICK l \in St : e = leads[l]
      BY <2>5
    <3> QED BY <2>2, <2>4, <2>7, <3>1
  <2>8. ASSUME NEW p \in ToSet(ps), p <= n PROVE p \in ends /\ p # Open
    <3>1. PICK l \in St : q[l] = p
      BY <2>2
    <3>2. leads[l] = p
      BY <2>4, <2>8, <3>1
    <3> QED BY <2>5, <2>6, <3>2
  <2>9. ends \ {Open} = {p \in ToSet(ps) : p <= n}
    BY <2>7, <2>8
  <2> QED BY <2>1, <2>2, <2>3, <2>9
<1>4. ASSUME NEW i \in DOMAIN traced
      PROVE  LET leads == traced[i]
                 ends  == {IF l \in DOMAIN leads THEN leads[l] ELSE Lost : l \in laid[i].starts}
             IN /\ ends \ {Open} = {p \in ToSet(parents[i]) : p <= Len(laid)}
                /\ Cardinality(laid[i].starts) = Len(parents[i])
  <2>1. i \in 1..n /\ traced[i] = Leads(i)
    BY <1>2
  <2>2. /\ RailEnds(traced[i], laid[i].starts) \ {Open} = {p \in ToSet(parents[i]) : p <= Len(laid)}
        /\ Cardinality(laid[i].starts) = Len(parents[i])
    BY <1>1, <1>3, <2>1, Zenon
  <2> QED BY <2>2, Zenon DEF RailEnds
<1> QED BY <1>2, <1>4, Zenon DEF RailsLeadToParents

LEMMA NoGhosts == GInv => NoGhostRails
<1> SUFFICES ASSUME GInv, NEW l \in DOMAIN active
             PROVE  active[l] > Len(laid) /\ \E i \in DOMAIN laid : active[l] \in ToSet(parents[i])
  BY DEF NoGhostRails
<1>1. AwaitedAt(parents, active[l], Len(laid))
  BY ActiveHolds
<1>2. DOMAIN laid = 1..Len(laid)
  BY ListedShape DEF GInv
<1> QED BY <1>1, <1>2 DEF AwaitedAt

\* PictureIsHistory, however many commits there are and whatever their
\* parents: the rails of the gutter lead from each commit to its parents, one
\* each, and no other rail is on its way.  GInv relates every row to the
\* parents of its commit and to the row above; a rail survives the spacer
\* because compacting carries each rail to a lane of its own that waits for
\* the same commit, so that by the time a rail is matched a lane is left.
THEOREM PictureHolds == GraphSpec => []PictureIsHistory
<1>1. GraphInit => GInv
  BY GStarts
<1>2. GInv /\ [GraphNext]_graphVars => GInv'
  BY GStep
<1>3. GInv => PictureIsHistory
  BY RailsLead, NoGhosts DEF PictureIsHistory
<1> QED BY <1>1, <1>2, <1>3, PTL DEF GraphSpec

=============================================================================
