------------------------------- MODULE PrProofs -------------------------------
(***************************************************************************)
(* Proofs about PrLookups, for any clones, branches, remotes and facts,    *)
(* and any number of lookups, workers and inputs.                          *)
(*                                                                         *)
(* PrIInv is CacheFits of the cache and the snapshot, Flying and Covered.  *)
(* LookupsInSight and DetailNotOlder are not inductive alone.  A record    *)
(* that flies is looked up only because lookups are queued once            *)
(* (QueueApart) and records follow their rows (Follows).  A detail that    *)
(* loads has its fetch because a detail goes with the last record that     *)
(* names it (DetailsKnown), and one that is not due is of the answer shown *)
(* because an awaited fetch is of that answer or another follows it        *)
(* (JobsFit).  The outage (RecordsFit) needs the records to follow their   *)
(* rows, and the backoff (Backs) nothing else.                             *)
(*                                                                         *)
(* Methods of the cache are written as one operator on the next, so most   *)
(* lemmas say of one operator which parts it keeps (CacheFits), what it    *)
(* ends with (Covered) and which fields it alters (Alters); an action is   *)
(* their composition.                                                      *)
(***************************************************************************)
EXTENDS PrLookups, QueueProofs, FiniteSetTheorems

-----------------------------------------------------------------------------
(* Numbers, finite sets and sequences *)

\* Min and Max of the community modules, of two numbers.
LEMMA SmallerOfTwo ==
    ASSUME NEW a \in Int, NEW b \in Int
    PROVE  Min({a, b}) = IF a <= b THEN a ELSE b
BY DEF Min

LEMMA LargerOfTwo ==
    ASSUME NEW a \in Int, NEW b \in Int
    PROVE  Max({a, b}) = IF a >= b THEN a ELSE b
BY DEF Max

\* The image of a finite set, under a function.
LEMMA ImageIsFinite ==
    ASSUME NEW S, IsFiniteSet(S), NEW f, DOMAIN f = S
    PROVE  IsFiniteSet({f[x] : x \in S})
<1> DEFINE T == {f[x] : x \in S}
           g == [x \in S |-> f[x]]
<1>1. g \in [S -> T]
  OBVIOUS
<1>2. \A t \in T : \E x \in S : g[x] = t
  OBVIOUS
<1>3. g \in Surjection(S, T)
  BY <1>1, <1>2 DEF Surjection
<1> QED BY <1>3, FS_Surjection

\* A finite set as a sequence names each of its members once.
Lists(q, S) ==
    /\ q \in Seq(S) /\ Len(q) = Cardinality(S) /\ DOMAIN q = 1..Len(q)
    /\ \A i \in 1..Len(q) : q[i] \in S
    /\ \A e \in S : \E i \in 1..Len(q) : q[i] = e
    /\ \A i, j \in 1..Len(q) : q[i] = q[j] => i = j

LEMMA SetToSeqLists ==
    ASSUME NEW S, IsFiniteSet(S)
    PROVE  Lists(SetToSeq(S), S)
<1> DEFINE N == Cardinality(S)
           q == SetToSeq(S)
<1>1. N \in Nat /\ ExistsBijection(1..N, S)
  BY FS_CardinalityType
<1>2. PICK f : f \in Bijection(1..N, S)
  BY <1>1 DEF ExistsBijection
<1>3. f \in [1..N -> S] /\ IsInjective(f)
  BY <1>2 DEF Bijection, Injection, IsInjective
<1>4. q \in [1..N -> S] /\ IsInjective(q)
  BY <1>3 DEF SetToSeq
<1>5. q \in Injection(1..N, S)
  BY <1>4 DEF Injection, IsInjective
<1>6. IsFiniteSet(1..N) /\ Cardinality(1..N) = N
  BY <1>1, FS_Interval
<1>7. q \in Surjection(1..N, S)
  BY <1>5, <1>6, FS_Injection
<1>8. \A e \in S : \E i \in 1..N : q[i] = e
  BY <1>7 DEF Surjection
<1>9. q \in Seq(S) /\ Len(q) = N
  BY <1>1, <1>4, SeqDef
<1>10. \A i, j \in 1..N : q[i] = q[j] => i = j
  BY <1>4 DEF IsInjective
<1> QED BY <1>4, <1>8, <1>9, <1>10 DEF Lists

\* The members of a sequence are what it has at its indices.
LEMMA ToSetOf ==
    ASSUME NEW S, NEW q \in Seq(S)
    PROVE  /\ Len(q) \in Nat /\ DOMAIN q = 1..Len(q)
           /\ \A i \in 1..Len(q) : q[i] \in S /\ q[i] \in ToSet(q)
           /\ \A e \in ToSet(q) : \E i \in 1..Len(q) : q[i] = e
BY LenProperties DEF ToSet

-----------------------------------------------------------------------------
(* The inductive invariant, of a cache `s` beside the snapshot `n`. *)

Fields == {"record", "answer", "detail", "last", "outage", "alert", "cycle", "host", "queue",
           "running", "asks", "asking", "opens", "opening", "slots", "busy"}

Known   == Facts \union {"none", "no", "failed"}
Records == [branch : Branches \union {Gone}, remote : BOOLEAN, inFlight : BOOLEAN, again : BOOLEAN,
            cycle : Nat, failed : BOOLEAN]
Details == [has : {"none", "loading", "ready", "failed"}, req : Nat, due : {"no", "due", "loading"},
            again : BOOLEAN, of : Known]
Hosts   == [failures : Nat, failedCycle : Nat, okAt : Nat]
Jobs    == [clone : Clones, key : PrKeys, req : Nat, of : Known]
Pairs   == Clones \X Branches
Opens   == [id : Nat, clone : Clones, branch : Branches]
Rows    == {n \in [Clones -> [branch : Branches \union {Gone}, counted : BOOLEAN]] :
                \A c \in Clones : n[c].counted => n[c].branch # Gone}

\* A record is of the branch its row is on.
Follows(s, n) ==
    \A c \in Clones : \/ s.record[c] = NoRecord
                      \/ s.record[c].branch = n[c].branch /\ n[c].branch # Gone

RecordsFit(s, n) ==
    /\ n \in Rows /\ s.record \in [Clones -> Records] /\ s.outage \in BOOLEAN
    /\ Follows(s, n)
    /\ s.outage <=> \E c \in Clones : s.record[c].failed

Backs(s) ==
    /\ s.cycle \in Nat /\ s.host \in Hosts
    /\ s.host.failures > 0 => s.host.failures + s.host.okAt <= s.host.failedCycle

\* A lookup is queued once, and not while it runs.
QueueApart(s) ==
    /\ s.queue \in Seq(Pairs) /\ s.running \in SUBSET Pairs /\ IsFiniteSet(s.running)
    /\ \A i \in 1..Len(s.queue) : s.queue[i] \notin s.running
    /\ \A i, j \in 1..Len(s.queue) : s.queue[i] = s.queue[j] => i = j

Flying(s) ==
    \A c \in Clones : s.record[c].inFlight =>
        <<c, s.record[c].branch>> \in ToSet(s.queue) \union s.running

DetailTyped(s) ==
    /\ s.answer \in [PrKeys -> Known] /\ s.detail \in [PrKeys -> Details] /\ s.last \in Nat
    /\ s.asks \in SUBSET Jobs /\ s.asking \in SUBSET Jobs
    /\ IsFiniteSet(s.asks) /\ IsFiniteSet(s.asking) /\ s.asks \intersect s.asking = {}

\* What is asked for `k`: a record of a clone still resolves to it.
Live(s, k) == \E c \in Clones : s.record[c].remote /\ PrKey(c, s.record[c].branch) = k

\* A detail is of a pull request that a record names.
DetailsKnown(s) ==
    \A k \in PrKeys : IF s.detail[k].has = "none" THEN s.detail[k] = NoDetail
                      ELSE s.answer[k] \in Facts /\ Live(s, k)

Loading(d) == d.has = "loading" \/ d.due = "loading"
Outdated(d) == d.again \/ d.due = "due"

\* A fetch that is awaited is of the answer that shows, or another follows.
JobFits(s, j) ==
    /\ j.req <= s.last /\ remoteOf[j.clone] = j.key[1]
    /\ Awaited(s, j) => j.of = s.answer[j.key] \/ Outdated(s.detail[j.key])

JobsFit(s) ==
    /\ \A j \in s.asks \union s.asking : JobFits(s, j)
    /\ \A i, j \in s.asks : i.req = j.req => i = j

NotOlder(s) ==
    \A k \in PrKeys : s.detail[k].has = "ready" /\ s.detail[k].due = "no" =>
        s.detail[k].of \in {s.answer[k], "failed"}

Shared(k) == \E c, d \in Clones : c # d /\ remoteOf[c] = k[1] /\ remoteOf[d] = k[1]

InSight(s) ==
    \A k \in PrKeys : Loading(s.detail[k]) =>
        \/ \E j \in s.asks \union s.asking : j.key = k /\ j.req = s.detail[k].req
        \/ Shared(k)

DetailsFit(s) == DetailTyped(s) /\ DetailsKnown(s) /\ JobsFit(s) /\ NotOlder(s) /\ InSight(s)

Counted(s) ==
    /\ s.opens \in Seq(Opens) /\ s.opening \in SUBSET Opens /\ s.slots \in Nat /\ s.busy \in Nat
    /\ s.busy = Cardinality(s.running) + Cardinality(s.asking) /\ s.busy <= PrMax

Covered(s) ==
    s.slots >= Len(s.opens) + Min({Len(s.queue) + Cardinality(StillAsked(s)), PrMax - s.busy})

CacheFits(s, n) ==
    /\ DOMAIN s = Fields /\ s.alert \in BOOLEAN
    /\ RecordsFit(s, n) /\ Backs(s) /\ QueueApart(s) /\ DetailsFit(s)
    /\ Counted(s)

PrIInv ==
    /\ prInputs \in Nat /\ watched \subseteq Clones /\ remoteOf \in Remotes
    /\ CacheFits(prs, snap) /\ Flying(prs) /\ Covered(prs)

-----------------------------------------------------------------------------
(* A part of the invariant speaks of some fields only. *)

\* `u` is `s` but for the fields of F.
Alters(s, u, F) == DOMAIN u = Fields /\ \A f \in Fields \ F : u[f] = s[f]

LEMMA SameRecords ==
    ASSUME NEW s, NEW u, NEW n, RecordsFit(s, n), u.record = s.record, u.outage = s.outage
    PROVE  RecordsFit(u, n)
BY DEF RecordsFit, Follows

LEMMA SameHost ==
    ASSUME NEW s, NEW u, Backs(s), u.cycle = s.cycle, u.host = s.host
    PROVE  Backs(u)
BY DEF Backs

LEMMA SameQueue ==
    ASSUME NEW s, NEW u, QueueApart(s), u.queue = s.queue, u.running = s.running
    PROVE  QueueApart(u)
BY DEF QueueApart

LEMMA SameFlying ==
    ASSUME NEW s, NEW u, Flying(s),
           u.record = s.record, u.queue = s.queue, u.running = s.running
    PROVE  Flying(u)
BY DEF Flying

SameDetailFields(s, u) ==
    /\ u.answer = s.answer /\ u.detail = s.detail /\ u.last = s.last
    /\ u.asks = s.asks /\ u.asking = s.asking

LEMMA SameAwaited ==
    ASSUME NEW s, NEW u, NEW j, u.detail = s.detail
    PROVE  Awaited(u, j) = Awaited(s, j)
BY DEF Awaited

\* Records may be written as long as what was live stays so.
LEMMA SameDetails ==
    ASSUME NEW s, NEW u, DetailsFit(s), SameDetailFields(s, u),
           \A k \in PrKeys : Live(s, k) => Live(u, k)
    PROVE  DetailsFit(u)
<1> USE DEF SameDetailFields, DetailsFit
<1>1. DetailTyped(u)
  BY DEF DetailTyped
<1>2. DetailsKnown(u)
  BY DEF DetailsKnown
<1>3. JobsFit(u)
  <2>1. \A j \in s.asks \union s.asking : JobFits(u, j)
    BY SameAwaited DEF JobsFit, JobFits
  <2> QED BY <2>1 DEF JobsFit
<1>4. NotOlder(u)
  BY DEF NotOlder
<1>5. InSight(u)
  BY DEF InSight
<1> QED BY <1>1, <1>2, <1>3, <1>4, <1>5

LEMMA SameLive ==
    ASSUME NEW s, NEW u, NEW k, u.record = s.record
    PROVE  Live(u, k) <=> Live(s, k)
BY DEF Live

-----------------------------------------------------------------------------
(* Slots *)

\* No more is awaited than is asked for.
LEMMA StillAskedBound ==
    ASSUME NEW s, IsFiniteSet(s.asks)
    PROVE  /\ IsFiniteSet(StillAsked(s)) /\ Cardinality(StillAsked(s)) \in Nat
           /\ Cardinality(s.asks) \in Nat /\ Cardinality(StillAsked(s)) <= Cardinality(s.asks)
<1>1. StillAsked(s) \subseteq s.asks
  BY DEF StillAsked
<1> QED BY <1>1, FS_Subset, FS_CardinalityType

\* Filling up leaves a slot for whatever may start.
LEMMA FillFits ==
    ASSUME NEW s, NEW n, CacheFits(s, n)
    PROVE  CacheFits(Fill(s), n) /\ Covered(Fill(s)) /\ Alters(s, Fill(s), {"slots"})
<1> DEFINE u == Fill(s)
           free == PrMax - s.busy
           all == Len(s.queue) + Cardinality(s.asks)
           wanted == Len(s.opens) + Min({all, free})
<1>0. PrMax \in Nat
  BY PrLookupsAssumption
<1>1. DOMAIN s = Fields /\ Counted(s) /\ QueueApart(s) /\ IsFiniteSet(s.asks)
  BY DEF CacheFits, DetailsFit, DetailTyped
<1>2. s.busy \in Nat /\ s.slots \in Nat /\ free \in Nat /\ Len(s.opens) \in Nat
  BY <1>0, <1>1 DEF Counted
<1>3. Len(s.queue) \in Nat /\ Cardinality(s.asks) \in Nat /\ all \in Nat
  BY <1>1, StillAskedBound DEF QueueApart
<1>4. wanted \in Nat
  <2>1. PICK least : least = Min({all, free})
    OBVIOUS
  <2>2. least \in Nat
    BY <1>2, <1>3, <2>1, SmallerOfTwo
  <2> QED BY <1>2, <2>1, <2>2
<1>5. PICK m : m = Max({s.slots, wanted})
  OBVIOUS
<1>6. m \in Nat /\ m >= wanted
  <2> HIDE DEF wanted
  <2> QED BY <1>2, <1>4, <1>5, LargerOfTwo
<1>7. u = [s EXCEPT !.slots = m]
  BY <1>5 DEF Fill
<1>8. Alters(s, u, {"slots"}) /\ u.slots = m
  BY <1>1, <1>7 DEF Alters, Fields
<1>9. /\ u.record = s.record /\ u.outage = s.outage /\ u.cycle = s.cycle /\ u.host = s.host
      /\ u.queue = s.queue /\ u.running = s.running /\ SameDetailFields(s, u)
      /\ u.alert = s.alert /\ u.opens = s.opens /\ u.opening = s.opening /\ u.busy = s.busy
      /\ DOMAIN u = Fields
  BY <1>8 DEF Alters, Fields, SameDetailFields
<1> HIDE DEF u
<1>10. Counted(u)
  BY <1>1, <1>6, <1>8, <1>9 DEF Counted, SameDetailFields
<1>11. CacheFits(u, n)
  BY <1>9, <1>10, SameRecords, SameHost, SameQueue, SameDetails, SameLive DEF CacheFits
<1>12. Cardinality(StillAsked(u)) \in Nat /\ Cardinality(StillAsked(u)) <= Cardinality(s.asks)
  BY <1>1, <1>9, StillAskedBound DEF SameDetailFields
<1>13. PICK a : a = Cardinality(StillAsked(u))
  OBVIOUS
<1>14. PICK some \in Nat : some = Len(s.queue) + a /\ some <= all
  BY <1>3, <1>12, <1>13
<1> HIDE DEF all, free
<1>15. /\ Min({some, free}) = IF some <= free THEN some ELSE free
       /\ Min({all, free}) = IF all <= free THEN all ELSE free
  BY <1>2, <1>3, <1>14, SmallerOfTwo
<1>16. Min({some, free}) \in Nat /\ Min({all, free}) \in Nat /\ Min({some, free}) <= Min({all, free})
  BY <1>2, <1>3, <1>14, <1>15
<1>17. Min({Len(s.queue) + a, free}) = Min({some, free})
  BY <1>14
<1> USE DEF free
<1>18. Covered(u)
  BY <1>2, <1>6, <1>8, <1>9, <1>13, <1>16, <1>17 DEF Covered
<1> QED BY <1>8, <1>11, <1>18 DEF u

-----------------------------------------------------------------------------
(* The queue of badge lookups *)

\* Members of a concatenation.
LEMMA ConcatLists ==
    ASSUME NEW S, NEW p \in Seq(S), NEW T \in SUBSET S, NEW q, Lists(q, T)
    PROVE  /\ p \o q \in Seq(S) /\ Len(p \o q) = Len(p) + Len(q)
           /\ \A i \in 1..Len(p) : (p \o q)[i] = p[i]
           /\ \A i \in 1..Len(p \o q) : i > Len(p) => i - Len(p) \in 1..Len(q) /\ (p \o q)[i] = q[i - Len(p)]
           /\ ToSet(p \o q) = ToSet(p) \union T
<1>1. q \in Seq(S)
  BY SeqMonotonic DEF Lists
<1>2. /\ p \o q \in Seq(S) /\ Len(p \o q) = Len(p) + Len(q)
      /\ \A i \in 1..Len(p) + Len(q) : (p \o q)[i] = IF i <= Len(p) THEN p[i] ELSE q[i - Len(p)]
  BY <1>1, ConcatProperties
<1>3. Len(p) \in Nat /\ Len(q) \in Nat
  BY <1>1, LenProperties
<1>4. \A i \in 1..Len(p) : (p \o q)[i] = p[i]
  BY <1>2, <1>3
<1>5. \A i \in 1..Len(p \o q) : i > Len(p) => i - Len(p) \in 1..Len(q) /\ (p \o q)[i] = q[i - Len(p)]
  BY <1>2, <1>3
<1>6. ASSUME NEW e \in ToSet(p) PROVE e \in ToSet(p \o q)
  <2>1. PICK i \in 1..Len(p) : p[i] = e
    BY ToSetOf
  <2>2. i \in 1..Len(p \o q) /\ (p \o q)[i] = e
    BY <1>2, <1>3, <1>4, <2>1
  <2> QED BY <1>2, <2>2, ToSetOf
<1>7. ASSUME NEW e \in T PROVE e \in ToSet(p \o q)
  <2>1. PICK i \in 1..Len(q) : q[i] = e
    BY DEF Lists
  <2>2. i + Len(p) \in 1..Len(p \o q) /\ (p \o q)[i + Len(p)] = e
    BY <1>2, <1>3, <1>5, <2>1
  <2> QED BY <1>2, <2>2, ToSetOf
<1>8. ASSUME NEW e \in ToSet(p \o q) PROVE e \in ToSet(p) \union T
  <2>1. PICK i \in 1..Len(p \o q) : (p \o q)[i] = e
    BY <1>2, ToSetOf
  <2>2. CASE i <= Len(p)
    BY <1>2, <1>3, <1>4, <2>1, <2>2, ToSetOf
  <2>3. CASE i > Len(p)
    BY <1>5, <2>1, <2>3 DEF Lists
  <2> QED BY <1>2, <1>3, <2>1, <2>2, <2>3
<1>9. ToSet(p \o q) = ToSet(p) \union T
  BY <1>6, <1>7, <1>8, Zenon
<1> QED BY <1>2, <1>4, <1>5, <1>9

Asked(u, T) == T \subseteq ToSet(u.queue) \union u.running

\* Queueing looks up all targets, each once.
LEMMA QueueFits ==
    ASSUME NEW s, NEW n, CacheFits(s, n), NEW T \in SUBSET Pairs, IsFiniteSet(T)
    PROVE  /\ CacheFits(Queue(s, T), n) /\ Covered(Queue(s, T))
           /\ Alters(s, Queue(s, T), {"queue", "slots"})
           /\ ToSet(s.queue) \subseteq ToSet(Queue(s, T).queue) /\ Asked(Queue(s, T), T)
<1> DEFINE R == T \ (ToSet(s.queue) \union s.running)
<1>1. DOMAIN s = Fields /\ QueueApart(s)
  BY DEF CacheFits
<1>2. IsFiniteSet(R) /\ R \in SUBSET Pairs
  BY FS_Subset
<1>3. PICK q : q = SetToSeq(R)
  OBVIOUS
<1>4. Lists(q, R)
  BY <1>2, <1>3, SetToSeqLists
<1>5. PICK p : p = s.queue
  OBVIOUS
<1>6. p \in Seq(Pairs) /\ Len(p) \in Nat /\ Len(q) \in Nat
  BY <1>1, <1>4, <1>5, ToSetOf DEF QueueApart, Lists
<1>7. PICK o : o = p \o q
  OBVIOUS
<1>8. /\ o \in Seq(Pairs) /\ Len(o) = Len(p) + Len(q)
      /\ \A i \in 1..Len(p) : o[i] = p[i]
      /\ \A i \in 1..Len(o) : i > Len(p) => i - Len(p) \in 1..Len(q) /\ o[i] = q[i - Len(p)]
      /\ ToSet(o) = ToSet(p) \union R
  <2> HIDE DEF R
  <2> QED BY <1>2, <1>4, <1>6, <1>7, ConcatLists
<1>9. PICK t : t = [s EXCEPT !.queue = o]
  OBVIOUS
<1>10. Alters(s, t, {"queue"}) /\ t.queue = o
  BY <1>1, <1>9 DEF Alters, Fields
<1>11. /\ t.record = s.record /\ t.outage = s.outage /\ t.cycle = s.cycle /\ t.host = s.host
       /\ t.running = s.running /\ SameDetailFields(s, t)
       /\ t.alert = s.alert /\ t.opens = s.opens /\ t.opening = s.opening /\ t.busy = s.busy
       /\ t.slots = s.slots /\ DOMAIN t = Fields
  BY <1>10 DEF Alters, Fields, SameDetailFields
<1>12. QueueApart(t)
  <2>1. \A i \in 1..Len(p) : p[i] \notin s.running /\ p[i] \in ToSet(p)
    BY <1>1, <1>5, <1>6, ToSetOf DEF QueueApart
  <2>2. \A i \in 1..Len(q) : q[i] \notin s.running /\ q[i] \notin ToSet(p)
    BY <1>4, <1>5 DEF Lists
  <2>3. \A i \in 1..Len(o) : o[i] \notin s.running
    <3> TAKE i \in 1..Len(o)
    <3>1. CASE i <= Len(p)
      BY <1>6, <1>8, <2>1, <3>1
    <3>2. CASE i > Len(p)
      BY <1>6, <1>8, <2>2, <3>2
    <3> QED BY <1>6, <1>8, <3>1, <3>2
  <2>4. \A i, j \in 1..Len(p) : p[i] = p[j] => i = j
    BY <1>1, <1>5 DEF QueueApart
  <2>5. \A i, j \in 1..Len(q) : q[i] = q[j] => i = j
    BY <1>4 DEF Lists
  <2>6. ASSUME NEW i \in 1..Len(o), NEW j \in 1..Len(o), o[i] = o[j] PROVE i = j
    <3>1. CASE i <= Len(p) /\ j <= Len(p)
      BY <1>6, <1>8, <2>4, <2>6, <3>1
    <3>2. CASE i > Len(p) /\ j > Len(p)
      <4>1. /\ i - Len(p) \in 1..Len(q) /\ j - Len(p) \in 1..Len(q)
            /\ q[i - Len(p)] = q[j - Len(p)]
        BY <1>8, <2>6, <3>2
      <4>2. i - Len(p) = j - Len(p)
        BY <2>5, <4>1
      <4>3. i \in Nat /\ j \in Nat
        BY <1>6, <1>8
      <4> QED BY <1>6, <4>2, <4>3
    <3>3. CASE i <= Len(p) /\ j > Len(p)
      BY <1>6, <1>8, <2>1, <2>2, <2>6, <3>3
    <3>4. CASE i > Len(p) /\ j <= Len(p)
      BY <1>6, <1>8, <2>1, <2>2, <2>6, <3>4
    <3> QED BY <1>6, <1>8, <3>1, <3>2, <3>3, <3>4
  <2> QED BY <1>1, <1>8, <1>10, <1>11, <2>3, <2>6 DEF QueueApart
<1>13. Counted(t)
  BY <1>11 DEF CacheFits, Counted, SameDetailFields
<1>14. CacheFits(t, n)
  BY <1>11, <1>12, <1>13, SameRecords, SameHost, SameDetails, SameLive DEF CacheFits
<1>15. PICK u : u = Fill(t)
  OBVIOUS
<1>16. CacheFits(u, n) /\ Covered(u) /\ Alters(t, u, {"slots"})
  BY <1>14, <1>15, FillFits
<1>17. Alters(s, u, {"queue", "slots"}) /\ u.queue = o /\ u.running = s.running
  BY <1>10, <1>16 DEF Alters, Fields
<1>18. ToSet(s.queue) \subseteq ToSet(u.queue) /\ Asked(u, T)
  BY <1>5, <1>8, <1>17 DEF Asked
<1>19. u = Queue(s, T)
  BY <1>3, <1>5, <1>7, <1>9, <1>15 DEF Queue
<1> QED BY <1>16, <1>17, <1>18, <1>19

-----------------------------------------------------------------------------
(* Details that are asked for *)

\* A detail to fetch, and what it is while it is fetched.
Wanted(d) == d.has = "none" \/ (d.has # "loading" /\ d.due = "due")

\* A detail that is asked for loads, under the number of its job.
LEMMA DetailAskedShape ==
    ASSUME NEW d \in Details, Wanted(d), NEW r \in Nat
    PROVE  /\ DetailAsked(d, r) \in Details /\ DetailAsked(d, r).req = r
           /\ Loading(DetailAsked(d, r)) /\ DetailAsked(d, r).has # "none"
           /\ DetailAsked(d, r).has = "ready" => DetailAsked(d, r).due # "no"
<1>1. CASE d.has = "none"
  BY <1>1 DEF DetailAsked, NoDetail, Details, Known, Loading
<1>2. CASE d.has # "none"
  <2>1. DetailAsked(d, r) = [d EXCEPT !.req = r, !.due = "loading", !.again = FALSE]
    BY <1>2 DEF DetailAsked
  <2> QED BY <1>2, <2>1 DEF Details, Loading
<1> QED BY <1>1, <1>2

\* The jobs J ask for the details K.
Asks(s, t, K, J) ==
    /\ J \in SUBSET Jobs /\ IsFiniteSet(J) /\ t.asks = s.asks \union J
    /\ t.last \in Nat /\ t.last >= s.last
    /\ \A j \in J : /\ j.req > s.last /\ j.req <= t.last /\ j.key \in K
                    /\ remoteOf[j.clone] = j.key[1] /\ j.of = s.answer[j.key]
    /\ \A i, j \in J : i.req = j.req => i = j
    /\ \A k \in K : \E j \in J : j.key = k /\ t.detail[k] = DetailAsked(s.detail[k], j.req)

\* Asking for what is shown and wanted keeps the details in order.
LEMMA AskedFits ==
    ASSUME NEW s, NEW t, NEW K \in SUBSET PrKeys, NEW J, DetailsFit(s), Asks(s, t, K, J),
           t.record = s.record, t.answer = s.answer, t.asking = s.asking,
           t.detail = [k \in PrKeys |-> t.detail[k]],
           \A k \in K : s.answer[k] \in Facts /\ Live(s, k) /\ Wanted(s.detail[k]),
           \A k \in PrKeys \ K : t.detail[k] = s.detail[k]
    PROVE  DetailsFit(t)
<1>1. /\ s.answer \in [PrKeys -> Known] /\ s.detail \in [PrKeys -> Details] /\ s.last \in Nat
      /\ s.asks \in SUBSET Jobs /\ s.asking \in SUBSET Jobs
      /\ IsFiniteSet(s.asks) /\ IsFiniteSet(s.asking) /\ s.asks \intersect s.asking = {}
  BY DEF DetailsFit, DetailTyped
<1>2. ASSUME NEW k \in K
      PROVE  \E j \in J : /\ j.key = k /\ t.detail[k] \in Details /\ t.detail[k].req = j.req
                          /\ Loading(t.detail[k]) /\ t.detail[k].has # "none"
                          /\ t.detail[k].has = "ready" => t.detail[k].due # "no"
  <2>1. PICK j \in J : j.key = k /\ t.detail[k] = DetailAsked(s.detail[k], j.req)
    BY DEF Asks
  <2>2. j.req \in Nat /\ s.detail[k] \in Details /\ Wanted(s.detail[k])
    BY <1>1 DEF Asks, Jobs
  <2> QED BY <2>1, <2>2, DetailAskedShape
<1>3. \A k \in PrKeys \ K : t.detail[k] = s.detail[k]
  OBVIOUS
<1>4. \A j \in s.asks \union s.asking : j.req <= s.last /\ j.req \in Nat /\ j.key \in PrKeys
  BY <1>1 DEF DetailsFit, JobsFit, JobFits, Jobs
<1>5. \A j \in J : j.req > s.last /\ j.req \in Nat
  BY DEF Asks, Jobs
<1>6. \A j \in J : j \notin s.asks \union s.asking
  BY <1>1, <1>4, <1>5
<1>7. DetailTyped(t)
  <2>1. t.asks \in SUBSET Jobs /\ IsFiniteSet(t.asks)
    <3>1. /\ J \in SUBSET Jobs /\ IsFiniteSet(J) /\ t.asks = s.asks \union J
      BY DEF Asks
    <3>2. IsFiniteSet(s.asks \union J)
      BY <1>1, <3>1, FS_Union
    <3> QED BY <1>1, <3>1, <3>2
  <2>2. t.asks \intersect t.asking = {}
    BY <1>1, <1>6 DEF Asks
  <2>3. \A k \in PrKeys : t.detail[k] \in Details
    BY <1>1, <1>2, <1>3
  <2>4. t.detail \in [PrKeys -> Details]
    <3>1. [k \in PrKeys |-> t.detail[k]] \in [PrKeys -> Details]
      BY <2>3
    <3> QED BY <3>1
  <2> QED BY <1>1, <2>1, <2>2, <2>4 DEF DetailTyped, Asks
<1>8. \A k \in PrKeys : Live(s, k) => Live(t, k)
  BY SameLive
<1>9. DetailsKnown(t)
  BY <1>2, <1>3, <1>8 DEF DetailsKnown, DetailsFit
<1>10. NotOlder(t)
  BY <1>2, <1>3 DEF NotOlder, DetailsFit
<1>11. InSight(t)
  <2> SUFFICES ASSUME NEW k \in PrKeys, Loading(t.detail[k])
               PROVE  (\E j \in t.asks \union t.asking : j.key = k /\ j.req = t.detail[k].req) \/ Shared(k)
    BY DEF InSight
  <2>1. CASE k \in K
    BY <1>2, <2>1 DEF Asks
  <2>2. CASE k \notin K
    BY <1>3, <2>2 DEF InSight, DetailsFit, Asks
  <2> QED BY <2>1, <2>2
<1>12. \A i, j \in t.asks : i.req = j.req => i = j
  <2>1. \A i, j \in s.asks : i.req = j.req => i = j
    BY DEF DetailsFit, JobsFit
  <2>2. \A i \in s.asks, j \in J : i.req # j.req
    BY <1>1, <1>4, <1>5
  <2>3. \A i, j \in J : i.req = j.req => i = j
    BY DEF Asks
  <2>4. t.asks = s.asks \union J
    BY DEF Asks
  <2> QED BY <2>1, <2>2, <2>3, <2>4
<1>13. ASSUME NEW j \in t.asks \union t.asking PROVE JobFits(t, j)
  <2>1. CASE j \in J
    BY <2>1 DEF Asks, JobFits
  <2>2. CASE j \in s.asks \union s.asking
    <3>1. JobFits(s, j) /\ j.req <= s.last
      BY <2>2 DEF DetailsFit, JobsFit, JobFits
    <3>2. j.req <= t.last
      BY <1>1, <1>4, <2>2, <3>1 DEF Asks
    <3>3. CASE j.key \in K
      <4>1. t.detail[j.key].req > s.last
        BY <1>2, <1>5, <3>3
      <4>2. ~Awaited(t, j)
        BY <1>1, <1>4, <2>2, <4>1, <3>1 DEF Awaited
      <4> QED BY <3>1, <3>2, <4>2 DEF JobFits
    <3>4. CASE j.key \notin K
      <4>1. t.detail[j.key] = s.detail[j.key]
        BY <1>3, <1>4, <2>2, <3>4
      <4> QED BY <3>1, <3>2, <4>1 DEF JobFits, Awaited
    <3> QED BY <3>3, <3>4
  <2> QED BY <2>1, <2>2 DEF Asks
<1>14. JobsFit(t)
  BY <1>12, <1>13 DEF JobsFit
<1> QED BY <1>7, <1>9, <1>10, <1>11, <1>14 DEF DetailsFit

\* A clone that shows a pull request has a live answer.
LEMMA ShowsLive ==
    ASSUME NEW s, RecordsFit(s, snap), NEW c \in Clones, Shows(s, c)
    PROVE  /\ snap[c].branch \in Branches /\ s.record[c].branch = snap[c].branch /\ s.record[c].remote
           /\ SnapKey(c) \in PrKeys /\ s.answer[SnapKey(c)] \in Facts /\ Live(s, SnapKey(c))
           /\ SnapKey(c)[1] = remoteOf[c]
<1>1. s.record[c] # NoRecord /\ s.record[c].branch = snap[c].branch /\ s.record[c].remote
  BY DEF Shows, Current
<1>2. snap[c].branch \in Branches
  BY <1>1 DEF RecordsFit, Follows, Rows
<1>3. SnapKey(c) \in PrKeys /\ SnapKey(c)[1] = remoteOf[c]
  BY <1>2 DEF SnapKey, PrKeys, PrKey
<1>4. Live(s, SnapKey(c))
  BY <1>1 DEF Live, SnapKey
<1> QED BY <1>1, <1>2, <1>3, <1>4 DEF Shows

AskedFields == {"last", "asks", "detail", "slots"}

\* Whatever is shown and may be asked for is asked for once.
LEMMA AskFits ==
    ASSUME NEW s, CacheFits(s, snap), NEW clones \in SUBSET Clones
    PROVE  /\ CacheFits(AskDetails(s, clones), snap) /\ Covered(AskDetails(s, clones))
           /\ Alters(s, AskDetails(s, clones), AskedFields)
<1>1. PICK W : W = {c \in clones : Wants(s, c)}
  OBVIOUS
<1>2. PICK K : K = {SnapKey(c) : c \in W}
  OBVIOUS
<1>3. PICK order : order = SetToSeq(K)
  OBVIOUS
<1>4. PICK J : J = {[clone |-> CHOOSE c \in W : SnapKey(c) = order[i], key |-> order[i],
                    req |-> s.last + i, of |-> s.answer[order[i]]] : i \in DOMAIN order}
  OBVIOUS
<1>5. PICK D : D = [k \in PrKeys |-> IF \E i \in DOMAIN order : order[i] = k
                          THEN DetailAsked(s.detail[k], s.last + CHOOSE i \in DOMAIN order : order[i] = k)
                          ELSE s.detail[k]]
  OBVIOUS
<1>6. PICK t : t = [s EXCEPT !.last = @ + Len(order), !.asks = @ \union J, !.detail = D]
  OBVIOUS
<1>7. AskDetails(s, clones) = Fill(t)
  BY <1>1, <1>2, <1>3, <1>4, <1>5, <1>6 DEF AskDetails
<1>8. \A c \in W : /\ c \in Clones /\ SnapKey(c) \in PrKeys /\ Live(s, SnapKey(c))
                   /\ s.answer[SnapKey(c)] \in Facts
                   /\ Wanted(s.detail[SnapKey(c)]) /\ SnapKey(c)[1] = remoteOf[c]
  BY <1>1, ShowsLive DEF CacheFits, Wants, Wanted
<1>9. IsFiniteSet(K) /\ K \in SUBSET PrKeys
  <2>1. IsFiniteSet(W)
    BY <1>1, PrLookupsAssumption, FS_Subset
  <2>2. PICK f : f = [c \in W |-> SnapKey(c)]
    OBVIOUS
  <2>3. K = {f[c] : c \in W} /\ DOMAIN f = W
    BY <1>2, <2>2
  <2>4. IsFiniteSet(K)
    BY <2>1, <2>3, ImageIsFinite
  <2> QED BY <1>2, <1>8, <2>4
<1>10. /\ Lists(order, K) /\ Len(order) \in Nat /\ DOMAIN order = 1..Len(order)
  BY <1>3, <1>9, SetToSeqLists, FS_CardinalityType DEF Lists
<1>11. DOMAIN s = Fields /\ DetailsFit(s) /\ DetailTyped(s) /\ s.last \in Nat
  BY DEF CacheFits, DetailsFit, DetailTyped
<1>12. /\ Alters(s, t, {"last", "asks", "detail"}) /\ t.last = s.last + Len(order)
       /\ t.asks = s.asks \union J /\ t.detail = D
  BY <1>6, <1>11 DEF Alters, Fields
<1>13. \A i \in 1..Len(order) : /\ order[i] \in K
                                 /\ \E c \in W : SnapKey(c) = order[i]
  BY <1>2, <1>10 DEF Lists
<1> DEFINE job(i) == [clone |-> CHOOSE c \in W : SnapKey(c) = order[i], key |-> order[i],
                      req |-> s.last + i, of |-> s.answer[order[i]]]
<1>14. J = {job(i) : i \in 1..Len(order)}
  BY <1>4, <1>10
<1>15. ASSUME NEW i \in 1..Len(order)
       PROVE  /\ job(i) \in Jobs /\ job(i).key = order[i] /\ job(i).req = s.last + i
              /\ job(i).of = s.answer[order[i]] /\ remoteOf[job(i).clone] = job(i).key[1]
  <2>1. PICK c : c = CHOOSE x \in W : SnapKey(x) = order[i]
    OBVIOUS
  <2>2. c \in W /\ SnapKey(c) = order[i]
    BY <1>13, <2>1
  <2>3. job(i) = [clone |-> c, key |-> order[i], req |-> s.last + i, of |-> s.answer[order[i]]]
    BY <2>1
  <2>4. s.answer[order[i]] \in Known /\ order[i] \in PrKeys
    BY <1>8, <1>11, <2>2 DEF DetailTyped
  <2> QED BY <1>8, <1>11, <2>2, <2>3, <2>4 DEF Jobs
<1> HIDE DEF job
<1>16. Asks(s, t, K, J)
  <2>1. J \in SUBSET Jobs
    BY <1>14, <1>15
  <2>2. IsFiniteSet(J)
    <3>1. IsFiniteSet(1..Len(order))
      BY <1>10, FS_Interval
    <3>2. PICK f : f = [i \in 1..Len(order) |-> job(i)]
      OBVIOUS
    <3>3. J = {f[i] : i \in 1..Len(order)} /\ DOMAIN f = 1..Len(order)
      BY <1>14, <3>2
    <3> QED BY <3>1, <3>3, ImageIsFinite
  <2>3. t.last \in Nat /\ t.last >= s.last
    BY <1>10, <1>11, <1>12
  <2>4. ASSUME NEW j \in J
        PROVE  /\ j.req > s.last /\ j.req <= t.last /\ j.key \in K
               /\ remoteOf[j.clone] = j.key[1] /\ j.of = s.answer[j.key]
    <3>1. PICK i \in 1..Len(order) : j = job(i)
      BY <1>14
    <3> QED BY <1>10, <1>11, <1>12, <1>13, <1>15, <3>1
  <2>5. ASSUME NEW i \in J, NEW j \in J, i.req = j.req PROVE i = j
    <3>1. PICK a \in 1..Len(order) : i = job(a)
      BY <1>14
    <3>2. PICK b \in 1..Len(order) : j = job(b)
      BY <1>14
    <3>3. s.last + a = s.last + b
      BY <1>15, <2>5, <3>1, <3>2
    <3>4. a = b
      BY <1>10, <1>11, <3>3
    <3> QED BY <3>1, <3>2, <3>4
  <2>6. ASSUME NEW k \in K
        PROVE  \E j \in J : j.key = k /\ t.detail[k] = DetailAsked(s.detail[k], j.req)
    <3>1. PICK i \in 1..Len(order) : order[i] = k
      BY <1>10 DEF Lists
    <3>2. (CHOOSE x \in DOMAIN order : order[x] = k) = i
      BY <1>10, <3>1 DEF Lists
    <3>3. D[k] = DetailAsked(s.detail[k], s.last + i)
      BY <1>5, <1>9, <1>10, <3>1, <3>2
    <3>4. job(i) \in J
      BY <1>14
    <3> QED BY <1>12, <1>15, <3>1, <3>3, <3>4
  <2> QED BY <1>12, <2>1, <2>2, <2>3, <2>4, <2>5, <2>6 DEF Asks
<1>17. /\ t.record = s.record /\ t.outage = s.outage /\ t.cycle = s.cycle /\ t.host = s.host
       /\ t.queue = s.queue /\ t.running = s.running /\ t.answer = s.answer
       /\ t.asking = s.asking /\ t.alert = s.alert /\ t.opens = s.opens /\ t.opening = s.opening
       /\ t.busy = s.busy /\ t.slots = s.slots /\ DOMAIN t = Fields
  BY <1>12 DEF Alters, Fields
<1>18. t.detail = [k \in PrKeys |-> t.detail[k]]
  BY <1>5, <1>12
<1>19. \A k \in PrKeys \ K : t.detail[k] = s.detail[k]
  BY <1>5, <1>10, <1>12, <1>13
<1>20. \A k \in K : s.answer[k] \in Facts /\ Live(s, k) /\ Wanted(s.detail[k])
  BY <1>2, <1>8
<1>21. DetailsFit(t)
  BY <1>9, <1>11, <1>16, <1>17, <1>18, <1>19, <1>20, AskedFits
<1>22. CacheFits(t, snap)
  <2>1. Counted(t)
    BY <1>17 DEF CacheFits, Counted
  <2> QED BY <1>17, <1>21, <2>1, SameRecords, SameHost, SameQueue DEF CacheFits
<1>23. CacheFits(Fill(t), snap) /\ Covered(Fill(t)) /\ Alters(t, Fill(t), {"slots"})
  BY <1>22, FillFits
<1>24. Alters(s, Fill(t), AskedFields)
  BY <1>12, <1>23 DEF Alters, Fields, AskedFields
<1> QED BY <1>7, <1>23, <1>24

-----------------------------------------------------------------------------
(* Answers that land *)

\* News of a detail leave it as it is, or mark it for a new fetch.
LEMMA MarkDetailShape ==
    ASSUME NEW d \in Details
    PROVE  /\ MarkDetail(d) \in Details /\ MarkDetail(d).has = d.has /\ MarkDetail(d).req = d.req
           /\ Loading(MarkDetail(d)) <=> Loading(d)
           /\ d.has = "none" => MarkDetail(d) = d
           /\ d.has # "none" => Outdated(MarkDetail(d)) /\ MarkDetail(d).due # "no"
<1>1. CASE d.has = "none"
  BY <1>1 DEF MarkDetail
<1>2. CASE d.has # "none" /\ d.due = "loading"
  <2>1. MarkDetail(d) = [d EXCEPT !.again = TRUE]
    BY <1>2 DEF MarkDetail
  <2> QED BY <1>2, <2>1 DEF Details, Loading, Outdated
<1>3. CASE d.has # "none" /\ d.due # "loading"
  <2>1. MarkDetail(d) = [d EXCEPT !.due = "due"]
    BY <1>3 DEF MarkDetail
  <2> QED BY <1>3, <2>1 DEF Details, Loading, Outdated
<1> QED BY <1>1, <1>2, <1>3

LEMMA NoDetailShape ==
    /\ NoDetail \in Details /\ ~Loading(NoDetail) /\ NoDetail.has = "none"
BY DEF NoDetail, Details, Known, Loading

\* `u` is awaiting no more than `s`.
AwaitsLess(s, u) == \A j \in Jobs : Awaited(u, j) => Awaited(s, j)

\* A change of details that drops some, and marks some.
Renews(s, u) ==
    /\ u.detail = [k \in PrKeys |-> u.detail[k]]
    /\ \A k \in PrKeys : \/ u.detail[k] = NoDetail
                         \/ u.detail[k] = s.detail[k] /\ u.answer[k] = s.answer[k]
                         \/ /\ u.detail[k] = MarkDetail(s.detail[k])
                            /\ s.answer[k] \in Facts => u.answer[k] \in Facts
    /\ \A k \in PrKeys : u.detail[k] # NoDetail /\ Live(s, k) => Live(u, k)

\* Dropped details await nothing, and marked ones are not taken for new.
LEMMA RenewedFits ==
    ASSUME NEW s, NEW u, DetailsFit(s), Renews(s, u), u.answer \in [PrKeys -> Known],
           u.last = s.last, u.asks = s.asks, u.asking = s.asking
    PROVE  DetailsFit(u) /\ AwaitsLess(s, u)
<1>1. /\ s.answer \in [PrKeys -> Known] /\ s.detail \in [PrKeys -> Details] /\ s.last \in Nat
      /\ s.asks \in SUBSET Jobs /\ s.asking \in SUBSET Jobs
      /\ IsFiniteSet(s.asks) /\ IsFiniteSet(s.asking) /\ s.asks \intersect s.asking = {}
  BY DEF DetailsFit, DetailTyped
<1>2. \A k \in PrKeys : s.detail[k] \in Details
  BY <1>1
<1>3. \A k \in PrKeys : u.detail[k] \in Details
  BY <1>2, MarkDetailShape, NoDetailShape DEF Renews
<1>4. DetailTyped(u)
  <2>1. [k \in PrKeys |-> u.detail[k]] \in [PrKeys -> Details]
    BY <1>3
  <2>2. u.detail \in [PrKeys -> Details]
    BY <2>1 DEF Renews
  <2> QED BY <1>1, <2>2 DEF DetailTyped
<1>5. DetailsKnown(u)
  <2> SUFFICES ASSUME NEW k \in PrKeys
               PROVE  IF u.detail[k].has = "none" THEN u.detail[k] = NoDetail
                      ELSE u.answer[k] \in Facts /\ Live(u, k)
    BY DEF DetailsKnown
  <2>1. CASE u.detail[k] = NoDetail
    BY <2>1, NoDetailShape
  <2>2. IF s.detail[k].has = "none" THEN s.detail[k] = NoDetail
        ELSE s.answer[k] \in Facts /\ Live(s, k)
    BY DEF DetailsFit, DetailsKnown
  <2>3. CASE u.detail[k] # NoDetail /\ u.detail[k] = s.detail[k] /\ u.answer[k] = s.answer[k]
    BY <2>2, <2>3 DEF Renews
  <2>4. CASE /\ u.detail[k] # NoDetail /\ u.detail[k] = MarkDetail(s.detail[k])
             /\ s.answer[k] \in Facts => u.answer[k] \in Facts
    BY <1>2, <2>2, <2>4, MarkDetailShape DEF Renews
  <2> QED BY <2>1, <2>3, <2>4 DEF Renews
<1>6. NotOlder(u)
  <2> SUFFICES ASSUME NEW k \in PrKeys, u.detail[k].has = "ready" /\ u.detail[k].due = "no"
               PROVE  u.detail[k].of \in {u.answer[k], "failed"}
    BY DEF NotOlder
  <2>1. u.detail[k] # NoDetail
    BY NoDetailShape
  <2>2. CASE u.detail[k] = MarkDetail(s.detail[k])
    BY <1>2, <2>2, MarkDetailShape
  <2>3. CASE u.detail[k] = s.detail[k] /\ u.answer[k] = s.answer[k]
    BY <2>3 DEF DetailsFit, NotOlder
  <2> QED BY <2>1, <2>2, <2>3 DEF Renews
<1>7. \A k \in PrKeys : Loading(u.detail[k]) => Loading(s.detail[k]) /\ u.detail[k].req = s.detail[k].req
  BY <1>2, MarkDetailShape, NoDetailShape DEF Renews
<1>8. InSight(u)
  BY <1>7 DEF DetailsFit, InSight
<1>9. AwaitsLess(s, u)
  <2> SUFFICES ASSUME NEW j \in Jobs, Awaited(u, j) PROVE Awaited(s, j)
    BY DEF AwaitsLess
  <2>1. j.key \in PrKeys
    BY DEF Jobs
  <2>2. Loading(u.detail[j.key]) /\ u.detail[j.key].req = j.req
    BY DEF Awaited, Loading
  <2> QED BY <1>7, <2>1, <2>2 DEF Awaited, Loading
<1>10. ASSUME NEW j \in s.asks \union s.asking PROVE JobFits(u, j)
  <2>1. JobFits(s, j) /\ j \in Jobs /\ j.key \in PrKeys
    BY <1>1 DEF DetailsFit, JobsFit, Jobs
  <2>2. CASE ~Awaited(u, j)
    BY <2>1, <2>2 DEF JobFits
  <2>3. CASE Awaited(u, j)
    <3>1. Awaited(s, j) /\ u.detail[j.key] # NoDetail
      BY <1>9, <2>1, <2>3, NoDetailShape DEF AwaitsLess, Awaited, Loading
    <3>2. j.of = s.answer[j.key] \/ Outdated(s.detail[j.key])
      BY <2>1, <3>1 DEF JobFits
    <3>3. CASE u.detail[j.key] = s.detail[j.key] /\ u.answer[j.key] = s.answer[j.key]
      BY <2>1, <3>2, <3>3 DEF JobFits
    <3>4. CASE u.detail[j.key] = MarkDetail(s.detail[j.key])
      <4>1. s.detail[j.key].has # "none"
        BY <2>1, <3>1, <3>4, <1>2, MarkDetailShape DEF DetailsFit, DetailsKnown
      <4>2. Outdated(u.detail[j.key])
        BY <1>2, <2>1, <3>4, <4>1, MarkDetailShape
      <4> QED BY <2>1, <4>2 DEF JobFits
    <3> QED BY <2>1, <3>1, <3>3, <3>4 DEF Renews
  <2> QED BY <2>2, <2>3
<1>11. JobsFit(u)
  BY <1>10 DEF JobsFit, DetailsFit
<1> QED BY <1>4, <1>5, <1>6, <1>8, <1>9, <1>11 DEF DetailsFit

\* Only the answer of `k` may change.
AnswerSet(s, u, k, a) ==
    /\ u.answer[k] = a
    /\ \A l \in PrKeys : l # k => u.answer[l] = s.answer[l]

\* Another answer drops the detail or marks it.
LEMMA SetAnswerFits ==
    ASSUME NEW s, DOMAIN s = Fields, DetailsFit(s), NEW k \in PrKeys, NEW a \in Known
    PROVE  /\ DetailsFit(SetAnswer(s, k, a)) /\ AwaitsLess(s, SetAnswer(s, k, a))
           /\ Alters(s, SetAnswer(s, k, a), {"answer", "detail"})
           /\ AnswerSet(s, SetAnswer(s, k, a), k, a)
<1>1. CASE s.answer[k] = a
  <2>1. SetAnswer(s, k, a) = s
    BY <1>1 DEF SetAnswer
  <2> QED BY <1>1, <2>1 DEF AwaitsLess, Alters, AnswerSet
<1>2. CASE s.answer[k] # a
  <2>1. PICK d : d = IF {s.answer[k], a} \subseteq Facts THEN MarkDetail(s.detail[k]) ELSE NoDetail
    OBVIOUS
  <2>2. PICK u : u = [s EXCEPT !.answer[k] = a, !.detail[k] = d]
    OBVIOUS
  <2>3. u = SetAnswer(s, k, a)
    BY <1>2, <2>1, <2>2 DEF SetAnswer
  <2>4. s.answer \in [PrKeys -> Known] /\ s.detail \in [PrKeys -> Details]
    BY DEF DetailsFit, DetailTyped
  <2>5. /\ Alters(s, u, {"answer", "detail"})
        /\ u.answer = [s.answer EXCEPT ![k] = a] /\ u.detail = [s.detail EXCEPT ![k] = d]
    BY <2>2 DEF Alters, Fields
  <2>6. u.record = s.record /\ u.last = s.last /\ u.asks = s.asks /\ u.asking = s.asking
    BY <2>5 DEF Alters, Fields
  <2>7. u.answer \in [PrKeys -> Known] /\ AnswerSet(s, u, k, a)
    BY <2>4, <2>5 DEF AnswerSet
  <2>8. /\ u.detail = [l \in PrKeys |-> u.detail[l]]
        /\ u.detail[k] = d /\ \A l \in PrKeys : l # k => u.detail[l] = s.detail[l]
    BY <2>4, <2>5
  <2>9. Renews(s, u)
    <3>1. \A l \in PrKeys : Live(s, l) => Live(u, l)
      BY <2>6, SameLive
    <3>2. \A l \in PrKeys : l # k => u.detail[l] = s.detail[l] /\ u.answer[l] = s.answer[l]
      BY <2>7, <2>8 DEF AnswerSet
    <3>3. d = NoDetail \/ (d = MarkDetail(s.detail[k]) /\ a \in Facts)
      BY <2>1
    <3>4. u.answer[k] = a
      BY <2>7 DEF AnswerSet
    <3> QED BY <2>8, <3>1, <3>2, <3>3, <3>4 DEF Renews
  <2> QED BY <2>3, <2>5, <2>6, <2>7, <2>9, RenewedFits
<1> QED BY <1>1, <1>2

\* The outage of the host ends once no record fails on it.
LEMMA SettleFits ==
    ASSUME NEW s, NEW n \in Rows, DOMAIN s = Fields, s.record \in [Clones -> Records],
           s.outage \in BOOLEAN, Follows(s, n),
           (\E c \in Clones : s.record[c].failed) => s.outage
    PROVE  RecordsFit(Settle(s), n) /\ Alters(s, Settle(s), {"outage"})
<1>1. PICK o \in BOOLEAN : o = (s.outage /\ \E c \in Clones : s.record[c].failed)
  OBVIOUS
<1>2. Settle(s) = [s EXCEPT !.outage = o]
  BY <1>1 DEF Settle
<1>3. Alters(s, Settle(s), {"outage"}) /\ Settle(s).outage = o
  BY <1>2 DEF Alters, Fields
<1>4. Settle(s).record = s.record
  BY <1>3 DEF Alters, Fields
<1>5. o <=> \E c \in Clones : s.record[c].failed
  BY <1>1
<1> QED BY <1>3, <1>4, <1>5 DEF RecordsFit, Follows

\* A cycle backs off once, and only if the host has not answered since.
LEMMA HostFailsBacks ==
    ASSUME NEW h \in Hosts, h.failures > 0 => h.failures + h.okAt <= h.failedCycle, NEW cycle \in Nat
    PROVE  /\ HostFails(h, cycle) \in Hosts
           /\ HostFails(h, cycle).failures > 0 =>
                  HostFails(h, cycle).failures + HostFails(h, cycle).okAt <= HostFails(h, cycle).failedCycle
<1>1. CASE h.okAt >= cycle \/ h.failedCycle >= cycle
  BY <1>1 DEF HostFails
<1>2. CASE ~(h.okAt >= cycle \/ h.failedCycle >= cycle)
  <2>1. h.failures \in Nat /\ h.okAt \in Nat /\ h.failedCycle \in Nat
    BY DEF Hosts
  <2>2. h.okAt < cycle /\ h.failedCycle < cycle
    BY <1>2, <2>1
  <2>3. PICK u : u = HostFails(h, cycle)
    OBVIOUS
  <2>4. u = [h EXCEPT !.failures = @ + 1, !.failedCycle = cycle]
    BY <1>2, <2>3 DEF HostFails
  <2>5. /\ u \in Hosts /\ u.failures = h.failures + 1 /\ u.failedCycle = cycle /\ u.okAt = h.okAt
    <3>1. h = [failures |-> h.failures, failedCycle |-> h.failedCycle, okAt |-> h.okAt]
      BY DEF Hosts
    <3>2. u = [failures |-> h.failures + 1, failedCycle |-> cycle, okAt |-> h.okAt]
      BY <2>4, <3>1
    <3>3. h.failures + 1 \in Nat
      BY <2>1
    <3> QED BY <2>1, <3>2, <3>3 DEF Hosts
  <2>6. u.failures + u.okAt <= u.failedCycle
    BY <2>1, <2>2, <2>5
  <2> QED BY <2>3, <2>5, <2>6
<1> QED BY <1>1, <1>2

\* A host that answers backs off no more.
LEMMA HostAnswersBacks ==
    ASSUME NEW h \in Hosts, NEW now \in Nat
    PROVE  /\ HostAnswers(h, now) \in Hosts /\ HostAnswers(h, now).failures = 0
BY DEF HostAnswers, Hosts

\* Records may change but for where they are and whether they fly.
Steers(s, u) ==
    \A x \in Clones : /\ u.record[x].branch = s.record[x].branch
                      /\ u.record[x].inFlight = s.record[x].inFlight

LandedFields == {"record", "answer", "detail", "outage", "host", "alert"}

\* The record of `c` says that its lookup failed, or not.
RecordLands(s, t, c, f) ==
    t.record = [s.record EXCEPT ![c] = [@ EXCEPT !.failed = f, !.remote = TRUE]]

RecordLanded(s, t, n, c, f) ==
    /\ t.record \in [Clones -> Records] /\ Follows(t, n) /\ Steers(s, t)
    /\ t.record[c].failed = f /\ \A x \in Clones \ {c} : t.record[x] = s.record[x]
    /\ \A k \in PrKeys : Live(s, k) => Live(t, k)

\* Such a record stays where it is, and what was live stays so.
LEMMA RecordLandsFits ==
    ASSUME NEW s, NEW t, NEW n, RecordsFit(s, n), NEW c \in Clones, NEW f \in BOOLEAN,
           s.record[c].branch = n[c].branch, n[c].branch # Gone, RecordLands(s, t, c, f)
    PROVE  RecordLanded(s, t, n, c, f)
<1>1. s.record \in [Clones -> Records] /\ s.record[c] \in Records
  BY DEF RecordsFit
<1>2. PICK r : r = [s.record[c] EXCEPT !.failed = f, !.remote = TRUE]
  OBVIOUS
<1>3. r \in Records /\ r.failed = f /\ r.remote = TRUE
  BY <1>1, <1>2 DEF Records
<1>4. r.branch = s.record[c].branch /\ r.inFlight = s.record[c].inFlight
  BY <1>1, <1>2 DEF Records
<1>5. t.record = [s.record EXCEPT ![c] = r]
  BY <1>2 DEF RecordLands
<1>6. t.record[c] = r /\ \A x \in Clones \ {c} : t.record[x] = s.record[x]
  BY <1>1, <1>5
<1>7. t.record \in [Clones -> Records]
  BY <1>1, <1>3, <1>5
<1>8. Follows(t, n)
  BY <1>4, <1>6 DEF Follows, RecordsFit
<1>9. Steers(s, t)
  BY <1>4, <1>6 DEF Steers
<1>10. ASSUME NEW k \in PrKeys, Live(s, k) PROVE Live(t, k)
  <2>1. PICK x \in Clones : s.record[x].remote /\ PrKey(x, s.record[x].branch) = k
    BY <1>10 DEF Live
  <2>2. t.record[x].remote
    BY <1>3, <1>6, <2>1
  <2>3. t.record[x].branch = s.record[x].branch
    BY <1>9 DEF Steers
  <2> QED BY <2>1, <2>2, <2>3 DEF Live
<1> QED BY <1>3, <1>6, <1>7, <1>8, <1>9, <1>10 DEF RecordLanded

\* What the landing of an answer leaves true.
Lands(s, u, n, c, k, a) ==
    /\ RecordsFit(u, n) /\ Backs(u) /\ DetailsFit(u) /\ AwaitsLess(s, u) /\ Steers(s, u)
    /\ Alters(s, u, LandedFields) /\ u.alert \in BOOLEAN
    /\ \A l \in PrKeys : l # k => u.answer[l] = s.answer[l]
    /\ s.record[c].remote /\ s.answer[k] \in Ready => u.answer[k] # "failed"

\* Records that change await nothing.
LEMMA AwaitsLessTrans ==
    ASSUME NEW s, NEW t, NEW u, t.detail = s.detail, AwaitsLess(t, u)
    PROVE  AwaitsLess(s, u)
BY SameAwaited DEF AwaitsLess

\* The landing of an answer or of a failure, of the record it was asked for.
LEMMA PrLandFits ==
    ASSUME NEW s, NEW n, NEW c \in Clones, NEW b \in Branches, NEW a \in Answers, NEW cycle \in Nat,
           DOMAIN s = Fields, s.alert \in BOOLEAN,
           RecordsFit(s, n), Backs(s), DetailsFit(s), s.record[c].branch = b, n[c].branch = b
    PROVE  Lands(s, PrLand(s, c, b, a, cycle), n, c, PrKey(c, b), a)
<1> DEFINE k == PrKey(c, b)
<1>1. /\ k \in PrKeys /\ n \in Rows
      /\ s.record[c].branch = n[c].branch /\ n[c].branch # Gone
  BY PrLookupsAssumption DEF PrKeys, RecordsFit
<1>2. /\ s.record \in [Clones -> Records] /\ s.record[c] \in Records /\ s.outage \in BOOLEAN
      /\ s.host \in Hosts /\ s.cycle \in Nat
      /\ s.host.failures > 0 => s.host.failures + s.host.okAt <= s.host.failedCycle
  BY DEF RecordsFit, Backs
<1>3. "failed" \notin Facts /\ "failed" \in Known /\ "failed" \notin Ready
  BY PrLookupsAssumption DEF Known, Ready
<1>4. CASE a = "failed"
  <2>1. PICK h : h = IF cycle = 0 THEN s.host ELSE HostFails(s.host, cycle)
    OBVIOUS
  <2>2. PICK t : t = [s EXCEPT !.record[c].failed = TRUE, !.outage = TRUE,
                               !.record[c].remote = TRUE, !.host = h]
    OBVIOUS
  <2>3. /\ Alters(s, t, {"record", "outage", "host"}) /\ t.outage = TRUE /\ t.host = h
        /\ RecordLands(s, t, c, TRUE)
    <3>1. Alters(s, t, {"record", "outage", "host"}) /\ t.outage = TRUE /\ t.host = h
      BY <2>2 DEF Alters, Fields
    <3>2. t.record = [[s.record EXCEPT ![c].failed = TRUE] EXCEPT ![c].remote = TRUE]
      BY <2>2 DEF Fields
    <3>3. t.record = [s.record EXCEPT ![c] = [@ EXCEPT !.failed = TRUE, !.remote = TRUE]]
      BY <1>2, <3>2
    <3> QED BY <3>1, <3>3 DEF RecordLands
  <2>4. /\ t.record \in [Clones -> Records] /\ Follows(t, n) /\ Steers(s, t)
        /\ t.record[c].failed = TRUE
        /\ \A l \in PrKeys : Live(s, l) => Live(t, l)
    <3>1. RecordLanded(s, t, n, c, TRUE)
      BY <1>1, <2>3, RecordLandsFits
    <3> QED BY <3>1 DEF RecordLanded
  <2>5. RecordsFit(t, n)
    <3>1. \E x \in Clones : t.record[x].failed
      BY <2>4
    <3> QED BY <1>1, <2>3, <2>4, <3>1 DEF RecordsFit
  <2>6. Backs(t)
    <3>1. t.cycle = s.cycle
      BY <2>3 DEF Alters, Fields
    <3>2. h \in Hosts /\ (h.failures > 0 => h.failures + h.okAt <= h.failedCycle)
      BY <1>2, <2>1, HostFailsBacks
    <3> QED BY <1>2, <2>3, <3>1, <3>2 DEF Backs
  <2>7. SameDetailFields(s, t) /\ DOMAIN t = Fields /\ t.alert = s.alert
    BY <2>3 DEF Alters, Fields, SameDetailFields
  <2>8. DetailsFit(t)
    BY <2>4, <2>7, SameDetails
  <2>9. CASE s.record[c].remote /\ s.answer[k] \in Ready
    <3>1. PrLand(s, c, b, a, cycle) = t
      BY <1>4, <2>1, <2>2, <2>9 DEF PrLand
    <3>2. AwaitsLess(s, t)
      BY <2>7, SameAwaited DEF AwaitsLess, SameDetailFields
    <3>3. Alters(s, t, LandedFields)
      BY <2>3 DEF Alters, LandedFields
    <3> QED BY <1>3, <2>4, <2>5, <2>6, <2>7, <2>8, <2>9, <3>1, <3>2, <3>3 DEF Lands, SameDetailFields
  <2>10. CASE ~(s.record[c].remote /\ s.answer[k] \in Ready)
    <3>1. PICK u : u = SetAnswer(t, k, "failed")
      OBVIOUS
    <3>2. PrLand(s, c, b, a, cycle) = u
      BY <1>4, <2>1, <2>2, <2>10, <3>1 DEF PrLand
    <3>3. DetailsFit(u) /\ AwaitsLess(t, u) /\ Alters(t, u, {"answer", "detail"}) /\ AnswerSet(t, u, k, "failed")
      <4> HIDE DEF k
      <4> QED BY <1>1, <1>3, <2>7, <2>8, <3>1, SetAnswerFits
    <3>4. /\ u.record = t.record /\ u.outage = t.outage /\ u.cycle = t.cycle /\ u.host = t.host
          /\ u.alert = s.alert
      BY <2>7, <3>3 DEF Alters, Fields
    <3>5. RecordsFit(u, n) /\ Backs(u) /\ Steers(s, u)
      BY <2>4, <2>5, <2>6, <3>4, SameRecords, SameHost DEF Steers
    <3>6. Alters(s, u, LandedFields)
      BY <2>3, <3>3 DEF Alters, LandedFields, Fields
    <3>7. AwaitsLess(s, u)
      BY <2>7, <3>3, AwaitsLessTrans DEF SameDetailFields
    <3>8. \A l \in PrKeys : l # k => u.answer[l] = s.answer[l]
      BY <2>7, <3>3 DEF AnswerSet, SameDetailFields
    <3> HIDE DEF k
    <3>9. Lands(s, u, n, c, k, a)
      BY <2>10, <3>3, <3>4, <3>5, <3>6, <3>7, <3>8 DEF Lands
    <3> QED BY <3>2, <3>9 DEF k
  <2> QED BY <2>9, <2>10
<1>5. CASE a # "failed"
  <2>1. PICK h : h = HostAnswers(s.host, s.cycle)
    OBVIOUS
  <2>2. PICK al \in BOOLEAN : al = (s.alert \/ (s.answer[k] \in Facts /\ s.answer[k] # a))
    OBVIOUS
  <2>3. PICK t : t = [s EXCEPT !.record[c].failed = FALSE, !.record[c].remote = TRUE,
                               !.host = h, !.alert = al]
    OBVIOUS
  <2>4. /\ Alters(s, t, {"record", "alert", "host"}) /\ t.alert = al /\ t.host = h
        /\ RecordLands(s, t, c, FALSE)
    <3>1. Alters(s, t, {"record", "alert", "host"}) /\ t.alert = al /\ t.host = h
      BY <2>3 DEF Alters, Fields
    <3>2. t.record = [[s.record EXCEPT ![c].failed = FALSE] EXCEPT ![c].remote = TRUE]
      BY <2>3 DEF Fields
    <3>3. t.record = [s.record EXCEPT ![c] = [@ EXCEPT !.failed = FALSE, !.remote = TRUE]]
      BY <1>2, <3>2
    <3> QED BY <3>1, <3>3 DEF RecordLands
  <2>5. /\ t.record \in [Clones -> Records] /\ Follows(t, n) /\ Steers(s, t)
        /\ t.record[c].failed = FALSE /\ \A x \in Clones \ {c} : t.record[x] = s.record[x]
        /\ \A l \in PrKeys : Live(s, l) => Live(t, l)
    <3>1. RecordLanded(s, t, n, c, FALSE)
      BY <1>1, <2>4, RecordLandsFits
    <3> QED BY <3>1 DEF RecordLanded
  <2>6. SameDetailFields(s, t) /\ DOMAIN t = Fields /\ t.outage = s.outage /\ t.cycle = s.cycle
    BY <2>4 DEF Alters, Fields, SameDetailFields
  <2>7. DetailsFit(t)
    BY <2>5, <2>6, SameDetails
  <2>8. PICK v : v = SetAnswer(t, k, a)
    OBVIOUS
  <2>9. DetailsFit(v) /\ AwaitsLess(t, v) /\ Alters(t, v, {"answer", "detail"}) /\ AnswerSet(t, v, k, a)
    <3>1. a \in Known
      BY DEF Answers, Known
    <3> HIDE DEF k
    <3> QED BY <1>1, <2>6, <2>7, <2>8, <3>1, SetAnswerFits
  <2>10. /\ v.record = t.record /\ v.outage = t.outage /\ v.cycle = t.cycle /\ v.host = t.host
         /\ v.alert = t.alert /\ DOMAIN v = Fields
    BY <2>6, <2>9 DEF Alters, Fields
  <2>11. PICK u : u = Settle(v)
    OBVIOUS
  <2>12. RecordsFit(u, n) /\ Alters(v, u, {"outage"})
    <3>1. (\E x \in Clones : v.record[x].failed) => v.outage
      BY <2>5, <2>6, <2>10 DEF RecordsFit
    <3>2. Follows(v, n)
      BY <2>5, <2>10 DEF Follows
    <3> QED BY <1>1, <1>2, <2>5, <2>6, <2>10, <2>11, <3>1, <3>2, SettleFits
  <2>13. /\ u.record = v.record /\ SameDetailFields(v, u) /\ u.cycle = v.cycle /\ u.host = v.host
         /\ u.alert = v.alert /\ DOMAIN u = Fields
    BY <2>12 DEF Alters, Fields, SameDetailFields
  <2>14. DetailsFit(u)
    BY <2>9, <2>13, SameDetails, SameLive
  <2>15. AwaitsLess(s, u)
    <3>1. AwaitsLess(t, u)
      BY <2>9, <2>13, SameAwaited DEF AwaitsLess, SameDetailFields
    <3> QED BY <2>6, <3>1, AwaitsLessTrans DEF SameDetailFields
  <2>16. Backs(u)
    BY <1>2, <2>1, <2>4, <2>6, <2>10, <2>13, HostAnswersBacks DEF Backs
  <2>17. Steers(s, u)
    BY <2>5, <2>10, <2>13 DEF Steers
  <2>18. Alters(s, u, LandedFields)
    BY <2>4, <2>9, <2>12 DEF Alters, LandedFields, Fields
  <2>19. u.alert \in BOOLEAN
    BY <2>2, <2>4, <2>10, <2>13
  <2>20. u.answer[k] = a /\ \A l \in PrKeys : l # k => u.answer[l] = s.answer[l]
    BY <2>6, <2>9, <2>13 DEF AnswerSet, SameDetailFields
  <2>21. PrLand(s, c, b, a, cycle) = u
    BY <1>5, <2>1, <2>2, <2>3, <2>8, <2>11 DEF PrLand
  <2> HIDE DEF k
  <2>22. Lands(s, u, n, c, k, a)
    BY <1>5, <2>12, <2>14, <2>15, <2>16, <2>17, <2>18, <2>19, <2>20 DEF Lands
  <2> QED BY <2>21, <2>22 DEF k
<1> QED BY <1>4, <1>5

-----------------------------------------------------------------------------
(* Records follow the snapshot *)

Lasting(s, to) == {c \in Clones : to[c].counted /\ s.record[c].branch = to[c].branch}

SyncedRecord(s, to, due) ==
    [c \in Clones |->
        IF c \in Lasting(s, to)
        THEN IF c \in due
             THEN [s.record[c] EXCEPT !.again = FALSE, !.inFlight = TRUE, !.cycle = 0]
             ELSE s.record[c]
        ELSE IF to[c].counted THEN Fresh(to[c].branch, TRUE) ELSE NoRecord]

\* New records, and none, neither fail nor know an answer.
LEMMA FreshShape ==
    ASSUME NEW b \in Branches \union {Gone}, NEW f \in BOOLEAN
    PROVE  /\ Fresh(b, f) \in Records /\ Fresh(b, f).branch = b /\ Fresh(b, f).inFlight = f
           /\ ~Fresh(b, f).failed /\ ~Fresh(b, f).remote
BY DEF Fresh, Records

LEMMA NoRecordShape ==
    /\ NoRecord \in Records /\ NoRecord.branch = Gone
    /\ ~NoRecord.inFlight /\ ~NoRecord.failed /\ ~NoRecord.remote
<1>1. Gone \in Branches \union {Gone} /\ FALSE \in BOOLEAN
  OBVIOUS
<1>2. NoRecord = Fresh(Gone, FALSE)
  BY DEF NoRecord
<1> QED BY <1>2 DEF Fresh, Records

\* The record of one clone, once it follows.
FollowsNow(r, old, row, flies) ==
    /\ r \in Records
    /\ r = NoRecord \/ (r.branch = row.branch /\ row.branch # Gone)
    /\ r.failed => old.failed
    /\ r.inFlight => r.branch = row.branch /\ (flies \/ (r.branch = old.branch /\ old.inFlight))

\* What becomes of each record.
LEMMA SyncedRecordFits ==
    ASSUME NEW s, NEW n, RecordsFit(s, n), NEW to \in Rows, NEW due, NEW c \in Clones,
           \A x \in Clones \ Lasting(s, to) : to[x].counted => x \in due
    PROVE  /\ FollowsNow(SyncedRecord(s, to, due)[c], s.record[c], to[c], c \in due)
           /\ c \in Lasting(s, to) => SyncedRecord(s, to, due)[c].failed = s.record[c].failed
<1>1. s.record[c] \in Records /\ to[c].branch \in Branches \union {Gone}
      /\ (to[c].counted => to[c].branch # Gone)
  BY DEF RecordsFit, Rows
<1>2. PICK r : r = SyncedRecord(s, to, due)[c]
  OBVIOUS
<1>3. CASE c \in Lasting(s, to) /\ c \in due
  <2>1. r = [s.record[c] EXCEPT !.again = FALSE, !.inFlight = TRUE, !.cycle = 0]
    BY <1>2, <1>3 DEF SyncedRecord
  <2>2. r \in Records /\ r.branch = s.record[c].branch /\ r.failed = s.record[c].failed
    BY <1>1, <2>1 DEF Records
  <2>3. r.branch = to[c].branch /\ to[c].branch # Gone
    BY <1>1, <1>3, <2>2 DEF Lasting
  <2> QED BY <1>2, <1>3, <2>2, <2>3 DEF FollowsNow
<1>4. CASE c \in Lasting(s, to) /\ c \notin due
  <2>1. r = s.record[c]
    BY <1>2, <1>4 DEF SyncedRecord
  <2> QED BY <1>1, <1>2, <1>4, <2>1 DEF FollowsNow, Lasting
<1>5. CASE c \notin Lasting(s, to) /\ to[c].counted
  <2>1. r = Fresh(to[c].branch, TRUE) /\ c \in due
    BY <1>2, <1>5 DEF SyncedRecord
  <2>2. r \in Records /\ r.branch = to[c].branch /\ ~r.failed
    BY <1>1, <2>1, FreshShape
  <2> QED BY <1>1, <1>2, <1>5, <2>1, <2>2 DEF FollowsNow
<1>6. CASE c \notin Lasting(s, to) /\ ~to[c].counted
  <2>1. r = NoRecord
    BY <1>2, <1>6 DEF SyncedRecord
  <2> QED BY <1>2, <1>6, <2>1, NoRecordShape DEF FollowsNow
<1> QED BY <1>3, <1>4, <1>5, <1>6

\* The records follow another snapshot: what is new or marked is looked up, and
\* answers are kept or dropped, never changed.
LEMMA SyncedFits ==
    ASSUME NEW s, NEW n, CacheFits(s, n), Flying(s), NEW to \in Rows
    PROVE  /\ CacheFits(Synced(s, to), to) /\ Flying(Synced(s, to)) /\ Covered(Synced(s, to))
           /\ \A k \in PrKeys : Synced(s, to).answer[k] \in {s.answer[k], "none"}
           /\ \A c \in Clones : \/ Synced(s, to).record[c].branch = s.record[c].branch
                                \/ ~Synced(s, to).record[c].remote
<1>1. PICK L : L = Lasting(s, to)
  OBVIOUS
<1>2. PICK due : due = {c \in Clones : to[c].counted /\ (c \notin L \/ s.record[c].again)}
  OBVIOUS
<1>3. PICK R : R = SyncedRecord(s, to, due)
  OBVIOUS
<1>4. PICK live : live = {PrKey(c, R[c].branch) : c \in {d \in Clones : R[d].remote}}
  OBVIOUS
<1>5. PICK A : A = [k \in PrKeys |-> IF k \in live THEN s.answer[k] ELSE "none"]
  OBVIOUS
<1>6. PICK D : D = [k \in PrKeys |-> IF k \in live THEN s.detail[k] ELSE NoDetail]
  OBVIOUS
<1>7. PICK t : t = [s EXCEPT !.record = R, !.answer = A, !.detail = D]
  OBVIOUS
<1>8. PICK v : v = IF \E c \in Clones \ L : s.record[c] # NoRecord THEN Settle(t) ELSE t
  OBVIOUS
<1>9. PICK T : T = {<<c, to[c].branch>> : c \in due}
  OBVIOUS
<1>10. Synced(s, to) = Queue(v, T)
  <2> DEFINE L0 == {c \in Clones : to[c].counted /\ s.record[c].branch = to[c].branch}
             due0 == {c \in Clones : to[c].counted /\ (c \notin L0 \/ s.record[c].again)}
             R0 == [c \in Clones |->
                       IF c \in L0
                       THEN IF c \in due0
                            THEN [s.record[c] EXCEPT !.again = FALSE, !.inFlight = TRUE, !.cycle = 0]
                            ELSE s.record[c]
                       ELSE IF to[c].counted THEN Fresh(to[c].branch, TRUE) ELSE NoRecord]
             live0 == {PrKey(c, R0[c].branch) : c \in {d \in Clones : R0[d].remote}}
             t0 == [s EXCEPT !.record = R0,
                             !.answer = [k \in PrKeys |-> IF k \in live0 THEN @[k] ELSE "none"],
                             !.detail = [k \in PrKeys |-> IF k \in live0 THEN @[k] ELSE NoDetail]]
             v0 == IF \E c \in Clones \ L0 : s.record[c] # NoRecord THEN Settle(t0) ELSE t0
             T0 == {<<c, to[c].branch>> : c \in due0}
  <2>1. Synced(s, to) = Queue(v0, T0)
    BY DEF Synced, SettleDropped
  <2>2. L = L0
    BY <1>1 DEF Lasting
  <2> HIDE DEF L0
  <2>3. due = due0
    BY <1>2, <2>2
  <2> HIDE DEF due0
  <2>4. R = R0
    BY <1>1, <1>3, <2>2, <2>3 DEF SyncedRecord
  <2> HIDE DEF R0
  <2>5. live = live0
    BY <1>4, <2>4
  <2> HIDE DEF live0
  <2>6. t = t0
    BY <1>5, <1>6, <1>7, <2>4, <2>5
  <2> HIDE DEF t0
  <2>7. v = v0
    BY <1>8, <2>2, <2>6
  <2>8. T = T0
    BY <1>9, <2>3
  <2> QED BY <2>1, <2>7, <2>8
<1>11. DOMAIN s = Fields /\ RecordsFit(s, n) /\ DetailsFit(s)
  BY DEF CacheFits
<1>12. /\ Alters(s, t, {"record", "answer", "detail"})
       /\ t.record = R /\ t.answer = A /\ t.detail = D
  BY <1>7, <1>11 DEF Alters, Fields
<1>13. \A c \in Clones : /\ FollowsNow(R[c], s.record[c], to[c], c \in due)
                         /\ c \in L => R[c].failed = s.record[c].failed
  BY <1>1, <1>2, <1>3, <1>11, SyncedRecordFits
<1>14. R \in [Clones -> Records]
  <2>1. R = [c \in Clones |-> R[c]]
    BY <1>3 DEF SyncedRecord
  <2>2. \A c \in Clones : R[c] \in Records
    BY <1>13 DEF FollowsNow
  <2>3. [c \in Clones |-> R[c]] \in [Clones -> Records]
    BY <2>2
  <2> QED BY <2>1, <2>3
<1>15. Follows(t, to)
  BY <1>12, <1>13 DEF Follows, FollowsNow
<1>16. \A k \in PrKeys : k \in live => Live(t, k)
  BY <1>4, <1>12 DEF Live
<1>17. DetailsFit(t) /\ AwaitsLess(s, t)
  <2>1. /\ t.detail = [k \in PrKeys |-> t.detail[k]]
        /\ \A k \in PrKeys : /\ k \in live => t.detail[k] = s.detail[k] /\ t.answer[k] = s.answer[k]
                             /\ k \notin live => t.detail[k] = NoDetail
    BY <1>5, <1>6, <1>12
  <2>2. Renews(s, t)
    BY <1>16, <2>1 DEF Renews
  <2>3. t.answer \in [PrKeys -> Known]
    BY <1>5, <1>11, <1>12 DEF DetailsFit, DetailTyped, Known
  <2>4. t.last = s.last /\ t.asks = s.asks /\ t.asking = s.asking
    BY <1>12 DEF Alters, Fields
  <2> QED BY <1>11, <2>2, <2>3, <2>4, RenewedFits
<1>18. t.outage = s.outage /\ s.outage \in BOOLEAN /\ (s.outage <=> \E c \in Clones : s.record[c].failed)
  BY <1>11, <1>12 DEF Alters, Fields, RecordsFit
<1>19. (\E c \in Clones : t.record[c].failed) => t.outage
  BY <1>12, <1>13, <1>18 DEF FollowsNow
<1>20. RecordsFit(v, to) /\ Alters(t, v, {"outage"})
  <2>1. DOMAIN t = Fields
    BY <1>12 DEF Alters
  <2>2. CASE \E c \in Clones \ L : s.record[c] # NoRecord
    BY <1>8, <1>12, <1>14, <1>15, <1>18, <1>19, <2>1, <2>2, SettleFits
  <2>3. CASE ~\E c \in Clones \ L : s.record[c] # NoRecord
    <3>1. v = t
      BY <1>8, <2>3
    <3>2. t.outage => \E c \in Clones : t.record[c].failed
      <4> SUFFICES ASSUME t.outage PROVE \E c \in Clones : t.record[c].failed
        OBVIOUS
      <4>1. PICK c \in Clones : s.record[c].failed
        BY <1>18
      <4>2. c \in L
        BY <2>3, <4>1, NoRecordShape
      <4> QED BY <1>12, <1>13, <4>1, <4>2
    <3>3. RecordsFit(t, to)
      BY <1>12, <1>14, <1>15, <1>18, <1>19, <3>2 DEF RecordsFit
    <3> QED BY <2>1, <3>1, <3>3 DEF Alters
  <2> QED BY <2>2, <2>3
<1>21. /\ v.record = R /\ v.answer = A /\ SameDetailFields(t, v) /\ v.cycle = s.cycle /\ v.host = s.host
       /\ v.queue = s.queue /\ v.running = s.running /\ v.asking = s.asking
       /\ v.opens = s.opens /\ v.opening = s.opening /\ v.slots = s.slots /\ v.busy = s.busy
       /\ v.alert = s.alert /\ DOMAIN v = Fields
  BY <1>12, <1>20 DEF Alters, Fields, SameDetailFields
<1>22. CacheFits(v, to)
  <2>1. DetailsFit(v)
    BY <1>12, <1>17, <1>21, SameDetails, SameLive
  <2>2. Counted(v)
    BY <1>21 DEF CacheFits, Counted
  <2> QED BY <1>20, <1>21, <2>1, <2>2, SameHost, SameQueue DEF CacheFits
<1>23. T \in SUBSET Pairs /\ IsFiniteSet(T)
  <2>1. IsFiniteSet(due)
    BY <1>2, PrLookupsAssumption, FS_Subset
  <2>2. PICK f : f = [c \in due |-> <<c, to[c].branch>>]
    OBVIOUS
  <2>3. T = {f[c] : c \in due} /\ DOMAIN f = due
    BY <1>9, <2>2
  <2>4. T \in SUBSET Pairs
    BY <1>2, <1>9 DEF Pairs, Rows
  <2> QED BY <2>1, <2>3, <2>4, ImageIsFinite
<1>24. PICK u : u = Queue(v, T)
  OBVIOUS
<1>25. /\ CacheFits(u, to) /\ Covered(u) /\ Alters(v, u, {"queue", "slots"})
       /\ ToSet(v.queue) \subseteq ToSet(u.queue) /\ Asked(u, T)
  BY <1>22, <1>23, <1>24, QueueFits
<1>26. u.record = R /\ u.answer = A /\ u.running = s.running
  BY <1>21, <1>25 DEF Alters, Fields
<1>27. Flying(u)
  <2> SUFFICES ASSUME NEW c \in Clones, u.record[c].inFlight
               PROVE  <<c, u.record[c].branch>> \in ToSet(u.queue) \union u.running
    BY DEF Flying
  <2>1. /\ R[c].branch = to[c].branch
        /\ c \in due \/ (R[c].branch = s.record[c].branch /\ s.record[c].inFlight)
    BY <1>13, <1>26 DEF FollowsNow
  <2>2. CASE c \in due
    BY <1>9, <1>25, <1>26, <2>1, <2>2 DEF Asked
  <2>3. CASE R[c].branch = s.record[c].branch /\ s.record[c].inFlight
    BY <1>21, <1>25, <1>26, <2>3 DEF Flying
  <2> QED BY <2>1, <2>2, <2>3
<1>28. \A k \in PrKeys : u.answer[k] \in {s.answer[k], "none"}
  BY <1>5, <1>26
<1>29. \A c \in Clones : u.record[c].branch = s.record[c].branch \/ ~u.record[c].remote
  <2> SUFFICES ASSUME NEW c \in Clones, R[c].remote PROVE R[c].branch = s.record[c].branch
    BY <1>26
  <2>1. c \in L
    BY <1>1, <1>3, <1>11, FreshShape, NoRecordShape DEF SyncedRecord, Rows
  <2>2. s.record[c] \in Records
    BY <1>11 DEF RecordsFit
  <2> QED BY <1>1, <1>3, <2>1, <2>2 DEF SyncedRecord, Records
<1> QED BY <1>10, <1>24, <1>25, <1>27, <1>28, <1>29

-----------------------------------------------------------------------------
(* Handlers *)

\* What the next state must satisfy, said of its values.
Whole(u, n) == CacheFits(u, n) /\ Flying(u) /\ Covered(u)

\* From what is said of the values to the next state.
LEMMA WholeNext ==
    ASSUME remoteOf' = remoteOf, Whole(prs', snap')
    PROVE  CacheFits(prs, snap)' /\ Flying(prs)' /\ Covered(prs)'
<1>1. PrKeys' = PrKeys
  BY DEF PrKeys, PrKey
<1>2. Jobs' = Jobs
  BY <1>1 DEF Jobs
<1>3. RecordsFit(prs, snap)'
  BY DEF Whole, CacheFits, RecordsFit, Follows
<1>4. Backs(prs)' /\ QueueApart(prs)' /\ Counted(prs)'
  BY DEF Whole, CacheFits, Backs, QueueApart, Counted
<1>5. DetailTyped(prs)'
  BY <1>1, <1>2 DEF Whole, CacheFits, DetailsFit, DetailTyped
<1>6. DetailsKnown(prs)'
  BY <1>1 DEF Whole, CacheFits, DetailsFit, DetailsKnown, Live, PrKey
<1>7. JobsFit(prs)'
  BY DEF Whole, CacheFits, DetailsFit, JobsFit, JobFits, Awaited
<1>8. NotOlder(prs)' /\ InSight(prs)'
  BY <1>1 DEF Whole, CacheFits, DetailsFit, NotOlder, InSight, Shared
<1>9. Flying(prs)' /\ Covered(prs)'
  BY DEF Whole, Flying, Covered, StillAsked, Awaited
<1> QED BY <1>3, <1>4, <1>5, <1>6, <1>7, <1>8, <1>9 DEF Whole, CacheFits, DetailsFit

\* If no more is awaited, no more slots are needed.
LEMMA CoveredLess ==
    ASSUME NEW s, NEW n, NEW u, CacheFits(s, n), CacheFits(u, n), Covered(s), AwaitsLess(s, u),
           u.asks = s.asks, u.queue = s.queue, u.opens = s.opens, u.slots = s.slots, u.busy = s.busy
    PROVE  Covered(u)
<1>1. IsFiniteSet(s.asks) /\ s.asks \in SUBSET Jobs
  BY DEF CacheFits, DetailsFit, DetailTyped
<1>2. StillAsked(u) \subseteq StillAsked(s)
  BY <1>1 DEF StillAsked, AwaitsLess
<1>3. /\ Cardinality(StillAsked(u)) \in Nat /\ Cardinality(StillAsked(s)) \in Nat
      /\ Cardinality(StillAsked(u)) <= Cardinality(StillAsked(s))
  BY <1>1, <1>2, StillAskedBound, FS_Subset, FS_CardinalityType
<1>4. /\ Len(s.queue) \in Nat /\ PrMax - s.busy \in Nat /\ s.slots \in Nat /\ Len(s.opens) \in Nat
  BY PrLookupsAssumption DEF CacheFits, QueueApart, Counted
<1>5. PICK a, b : a = Cardinality(StillAsked(s)) /\ b = Cardinality(StillAsked(u))
  OBVIOUS
<1>6. /\ Min({Len(s.queue) + a, PrMax - s.busy}) \in Nat /\ Min({Len(s.queue) + b, PrMax - s.busy}) \in Nat
      /\ Min({Len(s.queue) + b, PrMax - s.busy}) <= Min({Len(s.queue) + a, PrMax - s.busy})
  <2>1. PICK x, y, z : x = Len(s.queue) + a /\ y = Len(s.queue) + b /\ z = PrMax - s.busy
    OBVIOUS
  <2>2. x \in Nat /\ y \in Nat /\ z \in Nat /\ y <= x
    BY <1>3, <1>4, <1>5, <2>1
  <2>3. Min({x, z}) \in Nat /\ Min({y, z}) \in Nat /\ Min({y, z}) <= Min({x, z})
    BY <2>2, SmallerOfTwo
  <2> QED BY <2>1, <2>3
<1> QED BY <1>4, <1>5, <1>6 DEF Covered

\* The first snapshot is looked up, with a slot for each lookup.
LEMMA InitWhole == PrInit => PrIInv
<1> SUFFICES ASSUME PrInit PROVE PrIInv
  OBVIOUS
<1>1. snap \in Rows
  <2>1. CASE snap = [c \in Clones |-> [branch |-> Gone, counted |-> FALSE]]
    BY <2>1 DEF Rows
  <2>2. CASE snap \in [Clones -> [branch : Branches, counted : {TRUE}]]
    <3>1. \A c \in Clones : snap[c] \in [branch : Branches \union {Gone}, counted : BOOLEAN] /\ snap[c].branch # Gone
      BY <2>2, PrLookupsAssumption
    <3>2. snap = [c \in Clones |-> snap[c]]
      BY <2>2
    <3>3. [c \in Clones |-> snap[c]] \in [Clones -> [branch : Branches \union {Gone}, counted : BOOLEAN]]
      BY <3>1
    <3> QED BY <3>1, <3>2, <3>3 DEF Rows
  <2> QED BY <2>1, <2>2 DEF PrInit
<1>2. PICK s : s = [record |-> [c \in Clones |-> NoRecord],
              answer |-> [k \in PrKeys |-> "none"], detail |-> [k \in PrKeys |-> NoDetail],
              last |-> 0, outage |-> FALSE, alert |-> FALSE, cycle |-> 0,
              host |-> [failures |-> 0, failedCycle |-> 0, okAt |-> 0],
              queue |-> <<>>, running |-> {}, asks |-> {}, asking |-> {},
              opens |-> <<>>, opening |-> {}, slots |-> 0, busy |-> 0]
  OBVIOUS
<1>3. prs = Synced(s, snap)
  BY <1>2 DEF PrInit
<1>4. DOMAIN s = Fields /\ s.alert \in BOOLEAN
  BY <1>2 DEF Fields
<1>5. RecordsFit(s, snap)
  <2>1. s.record = [c \in Clones |-> NoRecord] /\ s.outage = FALSE
    BY <1>2
  <2>2. \A c \in Clones : s.record[c] = NoRecord
    BY <2>1
  <2> QED BY <1>1, <2>1, <2>2, NoRecordShape DEF RecordsFit, Follows
<1>6. Backs(s)
  BY <1>2 DEF Backs, Hosts
<1>7. s.queue = <<>> /\ s.running = {} /\ s.opens = <<>> /\ s.opening = {} /\ s.asks = {} /\ s.asking = {}
  BY <1>2
<1>8. QueueApart(s) /\ Flying(s)
  <2>1. \A c \in Clones : s.record[c] = NoRecord
    BY <1>2
  <2>2. s.queue \in Seq(Pairs) /\ Len(s.queue) = 0
    BY <1>7
  <2>3. IsFiniteSet(s.running)
    BY <1>7, FS_EmptySet
  <2> QED BY <1>7, <2>1, <2>2, <2>3, NoRecordShape DEF QueueApart, Flying
<1>9. DetailsFit(s)
  <2>1. s.answer = [k \in PrKeys |-> "none"] /\ s.detail = [k \in PrKeys |-> NoDetail] /\ s.last = 0
    BY <1>2
  <2>2. \A k \in PrKeys : s.detail[k] = NoDetail
    BY <2>1
  <2>3. DetailTyped(s)
    BY <1>7, <2>1, NoDetailShape, FS_EmptySet DEF DetailTyped, Known
  <2> QED BY <1>7, <2>2, <2>3, NoDetailShape DEF DetailsFit, DetailsKnown, JobsFit, NotOlder, InSight
<1>10. Counted(s)
  <2>1. s.slots = 0 /\ s.busy = 0
    BY <1>2
  <2>2. Cardinality({}) = 0
    BY FS_EmptySet
  <2> QED BY <1>7, <2>1, <2>2, PrLookupsAssumption DEF Counted
<1>11. CacheFits(s, snap)
  BY <1>4, <1>5, <1>6, <1>8, <1>9, <1>10 DEF CacheFits
<1>12. CacheFits(prs, snap) /\ Flying(prs) /\ Covered(prs)
  BY <1>1, <1>3, <1>8, <1>11, SyncedFits
<1>13. prInputs \in Nat /\ watched \subseteq Clones /\ remoteOf \in Remotes
  <2>1. watched = {} /\ remoteOf \in Remotes /\ (prInputs = 0 \/ prInputs = 1)
    BY Zenon DEF PrInit
  <2> QED BY <2>1
<1> QED BY <1>12, <1>13 DEF PrIInv

\* The frame of the invariant.
LEMMA StepWhole ==
    ASSUME PrIInv, remoteOf' = remoteOf, prInputs' \in Nat, watched' \subseteq Clones, Whole(prs', snap')
    PROVE  PrIInv'
BY WholeNext DEF PrIInv

LEMMA InputCounts ==
    ASSUME PrIInv, PrInput PROVE prInputs' \in Nat
BY DEF PrIInv, PrInput

\* Statuses, and `r`.
LEMMA StatusKeeps ==
    ASSUME PrIInv, NEW c \in Clones, NEW b \in Branches \union {Gone}, NEW counted \in BOOLEAN,
           StatusApplied(c, b, counted)
    PROVE  PrIInv'
<1>1. snap' \in Rows
  <2>1. snap \in Rows
    BY DEF PrIInv, CacheFits, RecordsFit
  <2> QED BY <2>1 DEF StatusApplied, Rows
<1>2. Whole(Synced(prs, snap'), snap')
  BY <1>1, SyncedFits DEF PrIInv, Whole
<1> QED BY <1>2, StepWhole, InputCounts DEF StatusApplied, PrIInv

LEMMA ForgetKeeps ==
    ASSUME PrIInv, NEW clones \in SUBSET Clones, ForgetLookups(clones)
    PROVE  PrIInv'
<1>1. PICK s : s = prs
  OBVIOUS
<1>2. CacheFits(s, snap) /\ Flying(s) /\ Covered(s)
  BY <1>1 DEF PrIInv
<1>3. PICK marked : marked = {c \in clones : prs.record[c] # NoRecord}
  OBVIOUS
<1>4. PICK dropped : dropped = IF clones = Clones THEN PrKeys
                      ELSE {PrKey(c, prs.record[c].branch) : c \in {d \in marked : prs.record[d].remote}}
  OBVIOUS
<1>5. PICK R : R = [c \in Clones |-> [s.record[c] EXCEPT !.again = s.record[c].again \/ c \in marked]]
  OBVIOUS
<1>6. PICK D : D = [k \in PrKeys |-> IF k \in dropped THEN NoDetail ELSE s.detail[k]]
  OBVIOUS
<1>8. PICK u : u = prs'
  OBVIOUS
<1>9. DOMAIN s = Fields /\ RecordsFit(s, snap) /\ DetailsFit(s)
  BY <1>2 DEF CacheFits
<1>10. Alters(s, u, {"record", "detail"}) /\ u.record = R /\ u.detail = D
  <2> DEFINE marked0 == {c \in clones : prs.record[c] # NoRecord}
             dropped0 == IF clones = Clones THEN PrKeys
                         ELSE {PrKey(c, prs.record[c].branch) : c \in {d \in marked0 : prs.record[d].remote}}
  <2>1. prs' = [prs EXCEPT !.record = [c \in Clones |->
                                [prs.record[c] EXCEPT !.again = prs.record[c].again \/ c \in marked0]],
                           !.detail = [k \in PrKeys |-> IF k \in dropped0 THEN NoDetail ELSE prs.detail[k]]]
    BY DEF ForgetLookups
  <2>2. marked = marked0 /\ dropped = dropped0
    BY <1>3, <1>4
  <2> HIDE DEF marked0, dropped0
  <2>3. u.record = [c \in Clones |-> [s.record[c] EXCEPT !.again = s.record[c].again \/ c \in marked0]]
    BY <1>1, <1>8, <1>9, <2>1 DEF Fields
  <2>4. u.detail = [k \in PrKeys |-> IF k \in dropped0 THEN NoDetail ELSE s.detail[k]]
    BY <1>1, <1>8, <1>9, <2>1 DEF Fields
  <2>5. Alters(s, u, {"record", "detail"})
    BY <1>1, <1>8, <1>9, <2>1 DEF Alters, Fields
  <2>6. u.record = R
    BY <1>5, <2>2, <2>3
  <2>7. u.detail = D
    BY <1>6, <2>2, <2>4
  <2> QED BY <2>5, <2>6, <2>7
<1>11. /\ u.outage = s.outage /\ u.cycle = s.cycle /\ u.host = s.host /\ u.queue = s.queue
       /\ u.running = s.running /\ u.answer = s.answer /\ u.last = s.last /\ u.asks = s.asks
       /\ u.asking = s.asking /\ u.opens = s.opens /\ u.opening = s.opening /\ u.slots = s.slots
       /\ u.busy = s.busy /\ u.alert = s.alert /\ DOMAIN u = Fields
  BY <1>10 DEF Alters, Fields
<1>12. ASSUME NEW c \in Clones
       PROVE  /\ R[c] \in Records /\ R[c].branch = s.record[c].branch
              /\ R[c].remote = s.record[c].remote /\ R[c].failed = s.record[c].failed
              /\ R[c].inFlight = s.record[c].inFlight
              /\ s.record[c] = NoRecord => R[c] = NoRecord
  <2>1. s.record[c] \in Records
    BY <1>9 DEF RecordsFit
  <2>2. PICK f \in BOOLEAN : f = (s.record[c].again \/ c \in marked)
    OBVIOUS
  <2>3. R[c] = [s.record[c] EXCEPT !.again = f]
    BY <1>5, <2>2
  <2>4. /\ R[c] \in Records /\ R[c].branch = s.record[c].branch
        /\ R[c].remote = s.record[c].remote /\ R[c].failed = s.record[c].failed
        /\ R[c].inFlight = s.record[c].inFlight
    BY <2>1, <2>3 DEF Records
  <2>5. ASSUME s.record[c] = NoRecord PROVE R[c] = NoRecord
    <3>1. c \notin marked /\ s.record[c].again = FALSE
      BY <1>1, <1>3, <2>5 DEF NoRecord, Fresh
    <3>2. f = FALSE
      BY <2>2, <3>1
    <3>3. R[c] = [NoRecord EXCEPT !.again = FALSE]
      BY <2>3, <2>5, <3>2
    <3>4. [NoRecord EXCEPT !.again = FALSE] = NoRecord
      <4>1. PICK r : r = NoRecord
        OBVIOUS
      <4>2. /\ DOMAIN r = {"branch", "remote", "inFlight", "again", "cycle", "failed"}
            /\ r = [f2 \in DOMAIN r |-> r[f2]] /\ r.again = FALSE
        BY <4>1 DEF NoRecord, Fresh
      <4>3. [r EXCEPT !.again = FALSE] = [f2 \in DOMAIN r |-> r[f2]]
        BY <4>2
      <4> QED BY <4>1, <4>2, <4>3
    <3> QED BY <3>3, <3>4
  <2> QED BY <2>4, <2>5
<1>13. RecordsFit(u, snap)
  <2>1. R \in [Clones -> Records]
    BY <1>5, <1>12
  <2>2. Follows(u, snap)
    BY <1>9, <1>10, <1>12 DEF RecordsFit, Follows
  <2> QED BY <1>9, <1>10, <1>11, <1>12, <2>1, <2>2 DEF RecordsFit
<1>14. Flying(u)
  BY <1>2, <1>10, <1>11, <1>12 DEF Flying
<1>15. DetailsFit(u) /\ AwaitsLess(s, u)
  <2>1. \A k \in PrKeys : Live(s, k) => Live(u, k)
    BY <1>10, <1>12 DEF Live
  <2>2. Renews(s, u)
    BY <1>6, <1>10, <1>11, <2>1 DEF Renews
  <2>3. u.answer \in [PrKeys -> Known]
    BY <1>9, <1>11 DEF DetailsFit, DetailTyped
  <2> QED BY <1>9, <1>11, <2>2, <2>3, RenewedFits
<1>16. CacheFits(u, snap)
  <2>1. Counted(u)
    BY <1>2, <1>11 DEF CacheFits, Counted
  <2> QED BY <1>2, <1>11, <1>13, <1>15, <2>1, SameHost, SameQueue DEF CacheFits
<1>17. Covered(u)
  BY <1>2, <1>11, <1>15, <1>16, CoveredLess
<1>18. Whole(prs', snap')
  BY <1>8, <1>14, <1>16, <1>17 DEF Whole, ForgetLookups
<1> QED BY <1>18, StepWhole, InputCounts DEF ForgetLookups, PrIInv

\* The lookups of `due` start.
Launches(s, t, due) ==
    /\ Alters(s, t, {"record", "cycle", "detail"}) /\ t.cycle \in Nat
    /\ t.record = [c \in Clones |-> t.record[c]]
    /\ \A c \in Clones :
           /\ t.record[c] \in Records /\ t.record[c].branch = s.record[c].branch
           /\ t.record[c].remote = s.record[c].remote /\ t.record[c].failed = s.record[c].failed
           /\ c \notin due => t.record[c] = s.record[c]

\* A record that may be looked up is of its row.
LEMMA SettledShape ==
    ASSUME NEW s, RecordsFit(s, snap), NEW c \in Settled(s)
    PROVE  c \in Clones /\ s.record[c].branch = snap[c].branch /\ snap[c].branch \in Branches
BY DEF Settled, Counts, Current, RecordsFit, Rows

\* Queueing the lookups of records that fly from now on.
LEMMA LaunchFits ==
    ASSUME NEW s, CacheFits(s, snap), Flying(s), NEW due \in SUBSET Settled(s), NEW t,
           Launches(s, t, due), DetailsFit(t)
    PROVE  Whole(Queue(t, Targets(due)), snap)
<1>1. RecordsFit(s, snap) /\ Backs(s) /\ DOMAIN t = Fields
  BY DEF CacheFits, Launches, Alters
<1>2. \A c \in due : c \in Clones /\ s.record[c].branch = snap[c].branch /\ snap[c].branch \in Branches
  BY <1>1, SettledShape
<1>3. /\ t.outage = s.outage /\ t.host = s.host /\ t.queue = s.queue /\ t.running = s.running
      /\ t.opens = s.opens /\ t.opening = s.opening /\ t.slots = s.slots /\ t.busy = s.busy
      /\ t.alert = s.alert /\ t.asking = s.asking
  BY DEF Launches, Alters, Fields
<1>4. RecordsFit(t, snap)
  <2>1. [c \in Clones |-> t.record[c]] \in [Clones -> Records]
    BY DEF Launches
  <2>2. t.record \in [Clones -> Records]
    BY <2>1 DEF Launches
  <2>3. ASSUME NEW c \in Clones
        PROVE  t.record[c] = NoRecord \/ (t.record[c].branch = snap[c].branch /\ snap[c].branch # Gone)
    <3>1. CASE c \in due
      BY <1>2, <3>1, PrLookupsAssumption DEF Launches
    <3>2. CASE c \notin due
      BY <1>1, <3>2 DEF Launches, RecordsFit, Follows
    <3> QED BY <3>1, <3>2
  <2>4. \A c \in Clones : t.record[c].failed = s.record[c].failed
    BY DEF Launches
  <2> QED BY <1>1, <1>3, <2>2, <2>3, <2>4 DEF RecordsFit, Follows
<1>5. CacheFits(t, snap)
  <2>1. Counted(t)
    BY <1>3 DEF CacheFits, Counted
  <2>2. Backs(t)
    BY <1>1, <1>3 DEF Backs, Launches
  <2> QED BY <1>1, <1>3, <1>4, <2>1, <2>2, SameQueue DEF CacheFits
<1>6. PICK T : T = Targets(due)
  OBVIOUS
<1>7. T \in SUBSET Pairs /\ IsFiniteSet(T)
  <2>1. IsFiniteSet(due)
    BY <1>2, PrLookupsAssumption, FS_Subset
  <2>2. PICK f : f = [c \in due |-> <<c, snap[c].branch>>]
    OBVIOUS
  <2>3. T = {f[c] : c \in due} /\ DOMAIN f = due
    BY <1>6, <2>2 DEF Targets
  <2>4. T \in SUBSET Pairs
    BY <1>2, <1>6 DEF Pairs, Targets
  <2> QED BY <2>1, <2>3, <2>4, ImageIsFinite
<1>8. PICK u : u = Queue(t, T)
  OBVIOUS
<1>9. /\ CacheFits(u, snap) /\ Covered(u) /\ Alters(t, u, {"queue", "slots"})
      /\ ToSet(t.queue) \subseteq ToSet(u.queue) /\ Asked(u, T)
  BY <1>5, <1>7, <1>8, QueueFits
<1>10. u.record = t.record /\ u.running = s.running
  BY <1>3, <1>9 DEF Alters, Fields
<1>11. Flying(u)
  <2> SUFFICES ASSUME NEW c \in Clones, u.record[c].inFlight
               PROVE  <<c, u.record[c].branch>> \in ToSet(u.queue) \union u.running
    BY DEF Flying
  <2>1. CASE c \in due
    <3>1. <<c, snap[c].branch>> \in T
      BY <1>6, <2>1 DEF Targets
    <3>2. u.record[c].branch = snap[c].branch
      BY <1>2, <1>10, <2>1 DEF Launches
    <3> QED BY <1>9, <3>1, <3>2 DEF Asked
  <2>2. CASE c \notin due
    BY <1>3, <1>9, <1>10, <2>2 DEF Launches, Flying
  <2> QED BY <2>1, <2>2
<1> QED BY <1>6, <1>8, <1>9, <1>11 DEF Whole

\* Polls, refreshes, openings and popovers.
LEMMA PollKeeps ==
    ASSUME PrIInv, NEW due \in SUBSET Clones, PrPollTick(due)
    PROVE  PrIInv'
<1>1. PICK s : s = prs
  OBVIOUS
<1>2. CacheFits(s, snap) /\ Flying(s) /\ DOMAIN s = Fields /\ DetailsFit(s)
  BY <1>1 DEF PrIInv, CacheFits
<1>3. PICK now : now = s.cycle + 1
  OBVIOUS
<1>4. now \in Nat
  BY <1>2, <1>3 DEF CacheFits, Backs
<1>5. PICK R : R = [c \in Clones |-> IF c \in due
                                     THEN [s.record[c] EXCEPT !.inFlight = TRUE, !.cycle = now] ELSE s.record[c]]
  OBVIOUS
<1>6. PICK t : t = [s EXCEPT !.cycle = now, !.record = R]
  OBVIOUS
<1>7. prs' = Queue(t, Targets(due))
  BY <1>1, <1>3, <1>5, <1>6 DEF PrPollTick
<1>8. Alters(s, t, {"record", "cycle", "detail"}) /\ t.record = R /\ t.cycle = now
  BY <1>2, <1>6 DEF Alters, Fields
<1>9. ASSUME NEW c \in Clones
      PROVE  /\ R[c] \in Records /\ R[c].branch = s.record[c].branch
             /\ R[c].remote = s.record[c].remote /\ R[c].failed = s.record[c].failed
             /\ c \notin due => R[c] = s.record[c]
  <2>1. s.record[c] \in Records
    BY <1>2 DEF CacheFits, RecordsFit
  <2>2. CASE c \in due
    <3>1. R[c] = [s.record[c] EXCEPT !.inFlight = TRUE, !.cycle = now]
      BY <1>5, <2>2
    <3> QED BY <1>4, <2>1, <2>2, <3>1 DEF Records
  <2>3. CASE c \notin due
    BY <1>5, <2>1, <2>3
  <2> QED BY <2>2, <2>3
<1>10. Launches(s, t, due)
  BY <1>4, <1>5, <1>8, <1>9 DEF Launches
<1>11. DetailsFit(t)
  <2>1. SameDetailFields(s, t)
    BY <1>2, <1>6 DEF Fields, SameDetailFields
  <2>2. \A k \in PrKeys : Live(s, k) => Live(t, k)
    BY <1>8, <1>9 DEF Live
  <2> QED BY <1>2, <2>1, <2>2, SameDetails
<1>12. due \in SUBSET Settled(s)
  BY <1>1 DEF PrPollTick
<1>13. Whole(prs', snap')
  BY <1>2, <1>7, <1>10, <1>11, <1>12, LaunchFits DEF PrPollTick
<1> QED BY <1>13, StepWhole, InputCounts DEF PrPollTick, PrIInv

LEMMA RefreshKeeps ==
    ASSUME PrIInv, NEW clones \in SUBSET Clones, RefreshPrs(clones)
    PROVE  PrIInv'
<1>1. PICK s : s = prs
  OBVIOUS
<1>2. CacheFits(s, snap) /\ Flying(s) /\ DOMAIN s = Fields /\ DetailsFit(s)
  BY <1>1 DEF PrIInv, CacheFits
<1>3. PICK due : due = clones \intersect Settled(s)
  OBVIOUS
<1>4. PICK R : R = [c \in Clones |-> IF c \in due THEN [s.record[c] EXCEPT !.inFlight = TRUE] ELSE s.record[c]]
  OBVIOUS
<1>5. PICK K : K = {SnapKey(c) : c \in due}
  OBVIOUS
<1>6. PICK D : D = [k \in PrKeys |-> IF k \in K THEN MarkDetail(s.detail[k]) ELSE s.detail[k]]
  OBVIOUS
<1>7. PICK t : t = [s EXCEPT !.record = R, !.detail = D]
  OBVIOUS
<1>8. prs' = Queue(t, Targets(due))
  BY <1>1, <1>3, <1>4, <1>5, <1>6, <1>7 DEF RefreshPrs
<1>9. Alters(s, t, {"record", "cycle", "detail"}) /\ t.record = R /\ t.cycle = s.cycle /\ t.detail = D
  BY <1>2, <1>7 DEF Alters, Fields
<1>10. ASSUME NEW c \in Clones
       PROVE  /\ R[c] \in Records /\ R[c].branch = s.record[c].branch
              /\ R[c].remote = s.record[c].remote /\ R[c].failed = s.record[c].failed
              /\ c \notin due => R[c] = s.record[c]
  <2>1. s.record[c] \in Records
    BY <1>2 DEF CacheFits, RecordsFit
  <2>2. CASE c \in due
    <3>1. R[c] = [s.record[c] EXCEPT !.inFlight = TRUE]
      BY <1>4, <2>2
    <3> QED BY <2>1, <2>2, <3>1 DEF Records
  <2>3. CASE c \notin due
    BY <1>4, <2>1, <2>3
  <2> QED BY <2>2, <2>3
<1>11. Launches(s, t, due)
  BY <1>2, <1>4, <1>9, <1>10 DEF Launches, CacheFits, Backs
<1>12. DetailsFit(t)
  <2>1. t.answer = s.answer /\ t.last = s.last /\ t.asks = s.asks /\ t.asking = s.asking
    BY <1>2, <1>7 DEF Fields
  <2>2. \A k \in PrKeys : Live(s, k) => Live(t, k)
    BY <1>9, <1>10 DEF Live
  <2>3. Renews(s, t)
    BY <1>6, <1>9, <2>1, <2>2 DEF Renews
  <2>4. t.answer \in [PrKeys -> Known]
    BY <1>2, <2>1 DEF DetailsFit, DetailTyped
  <2> QED BY <1>2, <2>1, <2>3, <2>4, RenewedFits
<1>13. due \in SUBSET Settled(s)
  BY <1>3
<1>14. Whole(prs', snap')
  BY <1>2, <1>8, <1>11, <1>12, <1>13, LaunchFits DEF RefreshPrs
<1> QED BY <1>14, StepWhole, InputCounts DEF RefreshPrs, PrIInv

LEMMA OpenKeeps ==
    ASSUME PrIInv, NEW c \in Clones, OpenPr(c)
    PROVE  PrIInv'
<1>1. PICK s : s = prs
  OBVIOUS
<1>2. CacheFits(s, snap) /\ Flying(s) /\ Covered(s) /\ DOMAIN s = Fields /\ Counted(s)
  BY <1>1 DEF PrIInv, CacheFits
<1>3. PICK o : o = [id |-> prInputs, clone |-> c, branch |-> snap[c].branch]
  OBVIOUS
<1>4. o \in Opens
  BY <1>2, <1>3 DEF Opens, OpenPr, PrIInv, CacheFits, RecordsFit, Rows
<1>5. PICK u : u = [s EXCEPT !.opens = Append(s.opens, o), !.slots = s.slots + 1]
  OBVIOUS
<1>6. prs' = u
  BY <1>1, <1>3, <1>5 DEF OpenPr
<1>7. Alters(s, u, {"opens", "slots"}) /\ u.opens = Append(s.opens, o) /\ u.slots = s.slots + 1
  BY <1>2, <1>5 DEF Alters, Fields
<1>8. /\ u.record = s.record /\ u.outage = s.outage /\ u.cycle = s.cycle /\ u.host = s.host
      /\ u.queue = s.queue /\ u.running = s.running /\ SameDetailFields(s, u)
      /\ u.alert = s.alert /\ u.opening = s.opening /\ u.busy = s.busy /\ DOMAIN u = Fields
  BY <1>7 DEF Alters, Fields, SameDetailFields
<1>9. s.opens \in Seq(Opens) /\ s.slots \in Nat /\ Len(s.opens) \in Nat
  BY <1>2 DEF Counted
<1>10. u.opens \in Seq(Opens) /\ Len(u.opens) = Len(s.opens) + 1
  BY <1>4, <1>7, <1>9, AppendProperties
<1>11. CacheFits(u, snap)
  <2>1. Counted(u)
    BY <1>2, <1>7, <1>8, <1>9, <1>10 DEF Counted, SameDetailFields
  <2> QED BY <1>2, <1>8, <2>1, SameRecords, SameHost, SameQueue, SameDetails, SameLive DEF CacheFits
<1>12. Flying(u)
  BY <1>2, <1>8, SameFlying
<1>13. Covered(u)
  <2>1. StillAsked(u) = StillAsked(s)
    BY <1>8, SameAwaited DEF StillAsked, SameDetailFields
  <2>2. PICK m : m = Min({Len(s.queue) + Cardinality(StillAsked(s)), PrMax - s.busy})
    OBVIOUS
  <2>3. s.slots >= Len(s.opens) + m
    BY <1>2, <2>2 DEF Covered
  <2>4. m \in Int
    <3>1. Len(s.queue) \in Nat /\ PrMax - s.busy \in Int
      BY <1>2, PrLookupsAssumption DEF CacheFits, QueueApart, Counted
    <3>2. Cardinality(StillAsked(s)) \in Nat
      BY <1>2, StillAskedBound DEF CacheFits, DetailsFit, DetailTyped
    <3> QED BY <2>2, <3>1, <3>2, SmallerOfTwo
  <2> QED BY <1>7, <1>8, <1>9, <1>10, <2>1, <2>2, <2>3, <2>4 DEF Covered
<1>14. Whole(prs', snap')
  BY <1>6, <1>11, <1>12, <1>13 DEF Whole, OpenPr
<1> QED BY <1>14, StepWhole, InputCounts DEF OpenPr, PrIInv

LEMMA PeekKeeps ==
    ASSUME PrIInv, NEW clones \in SUBSET Clones, PeekPrs(clones)
    PROVE  PrIInv'
<1>1. CacheFits(prs, snap) /\ Flying(prs) /\ Covered(prs)
  BY DEF PrIInv
<1>2. CASE clones = {}
  BY <1>1, <1>2, StepWhole, InputCounts DEF PeekPrs, PrIInv, Whole
<1>3. CASE clones # {}
  <2>1. PICK u : u = AskDetails(prs, clones)
    OBVIOUS
  <2>2. CacheFits(u, snap) /\ Covered(u) /\ Alters(prs, u, AskedFields)
    BY <1>1, <2>1, AskFits
  <2>3. u.record = prs.record /\ u.queue = prs.queue /\ u.running = prs.running
    BY <2>2 DEF Alters, Fields, AskedFields
  <2>4. Flying(u)
    BY <1>1, <2>3, SameFlying
  <2>5. prs' = u /\ snap' = snap
    BY <1>3, <2>1 DEF PeekPrs
  <2> QED BY <2>2, <2>4, <2>5, StepWhole, InputCounts DEF PeekPrs, PrIInv, Whole
<1> QED BY <1>2, <1>3

-----------------------------------------------------------------------------
(* Slots and jobs *)

\* Jobs leave the queue or their worker; the awaited ones stay, unless others
\* share the remote.
LEMMA FewerJobsFit ==
    ASSUME NEW s, NEW u, DetailsFit(s),
           u.record = s.record, u.answer = s.answer, u.detail = s.detail, u.last = s.last,
           u.asks \subseteq s.asks, u.asking \subseteq s.asks \union s.asking,
           IsFiniteSet(u.asking), u.asks \intersect u.asking = {},
           \A j \in s.asks \union s.asking :
               Awaited(s, j) => j \in u.asks \union u.asking \/ Shared(j.key)
    PROVE  DetailsFit(u)
<1>1. DetailTyped(s) /\ IsFiniteSet(s.asks)
  BY DEF DetailsFit, DetailTyped
<1>2. DetailTyped(u)
  <2>1. IsFiniteSet(u.asks)
    BY <1>1, FS_Subset
  <2> QED BY <1>1, <2>1 DEF DetailTyped
<1>3. DetailsKnown(u) /\ NotOlder(u)
  BY DEF DetailsFit, DetailsKnown, NotOlder, Live
<1>4. JobsFit(u)
  <2>1. \A j \in s.asks \union s.asking : JobFits(u, j)
    BY SameAwaited DEF DetailsFit, JobsFit, JobFits
  <2> QED BY <2>1 DEF DetailsFit, JobsFit
<1>5. InSight(u)
  <2> SUFFICES ASSUME NEW k \in PrKeys, Loading(s.detail[k])
               PROVE  (\E j \in u.asks \union u.asking : j.key = k /\ j.req = s.detail[k].req) \/ Shared(k)
    BY DEF InSight
  <2>1. CASE Shared(k)
    BY <2>1
  <2>2. CASE ~Shared(k)
    <3>1. PICK j \in s.asks \union s.asking : j.key = k /\ j.req = s.detail[k].req
      BY <2>2 DEF DetailsFit, InSight
    <3>2. Awaited(s, j)
      BY <3>1 DEF Awaited, Loading
    <3> QED BY <2>2, <3>1, <3>2
  <2> QED BY <2>1, <2>2
<1> QED BY <1>2, <1>3, <1>4, <1>5 DEF DetailsFit

\* The numbers that Covered compares.
LEMMA CoverNumbers ==
    ASSUME NEW s, NEW n, CacheFits(s, n)
    PROVE  /\ Len(s.queue) \in Nat /\ Len(s.opens) \in Nat /\ s.slots \in Nat /\ s.busy \in Nat
           /\ PrMax \in Nat /\ s.busy <= PrMax
           /\ IsFiniteSet(StillAsked(s)) /\ Cardinality(StillAsked(s)) \in Nat
BY PrLookupsAssumption, StillAskedBound DEF CacheFits, QueueApart, Counted, DetailsFit, DetailTyped

\* A slot is used up, and with it a worker or an opening.
LEMMA CoverStep ==
    ASSUME NEW slots \in Nat, NEW opens \in Nat, NEW w \in Nat, NEW free \in Nat, NEW v \in Nat,
           slots > 0, slots >= opens + Min({w, free})
    PROVE  /\ opens > 0 => slots - 1 >= (opens - 1) + Min({w, free})
           /\ opens = 0 /\ free = 0 => slots - 1 >= opens + Min({w, free})
           /\ opens = 0 /\ free > 0 /\ v + 1 <= w => slots - 1 >= opens + Min({v, free - 1})
           /\ opens = 0 => slots - 1 >= opens + Min({0, free})
<1>1. Min({w, free}) = IF w <= free THEN w ELSE free
  BY SmallerOfTwo
<1>2. free > 0 => Min({v, free - 1}) = IF v <= free - 1 THEN v ELSE free - 1
  BY SmallerOfTwo
<1>3. Min({0, free}) = 0
  BY SmallerOfTwo
<1> QED BY <1>1, <1>2, <1>3

\* A slot used for an opening.
LEMMA SpawnOpenFits ==
    ASSUME NEW s, Whole(s, snap), s.slots > 0, s.opens # <<>>, NEW u,
           Alters(s, u, {"slots", "opens", "opening"}), u.slots = s.slots - 1,
           u.opens = Tail(s.opens), u.opening = s.opening \union {Head(s.opens)}
    PROVE  Whole(u, snap)
<1>1. CacheFits(s, snap) /\ Flying(s) /\ Covered(s) /\ DOMAIN s = Fields /\ Counted(s)
  BY DEF Whole, CacheFits
<1>3. /\ u.record = s.record /\ u.outage = s.outage /\ u.cycle = s.cycle /\ u.host = s.host
      /\ u.queue = s.queue /\ u.running = s.running /\ SameDetailFields(s, u)
      /\ u.alert = s.alert /\ u.busy = s.busy /\ DOMAIN u = Fields
  BY DEF Alters, Fields, SameDetailFields
<1>4. s.opens \in Seq(Opens) /\ s.slots \in Nat /\ s.opening \in SUBSET Opens
  BY <1>1 DEF Counted
<1>5. /\ Tail(s.opens) \in Seq(Opens) /\ Head(s.opens) \in Opens /\ Len(s.opens) \in Nat
      /\ Len(s.opens) > 0 /\ Len(Tail(s.opens)) = Len(s.opens) - 1
  BY <1>4, HeadTailProperties, LenProperties, EmptySeq
<1>6. u.slots \in Nat
  BY <1>4
<1>7. CacheFits(u, snap)
  <2>1. Counted(u)
    BY <1>1, <1>3, <1>4, <1>5, <1>6 DEF Counted, SameDetailFields
  <2> QED BY <1>1, <1>3, <2>1, SameRecords, SameHost, SameQueue, SameDetails, SameLive DEF CacheFits
<1>8. Flying(u)
  BY <1>1, <1>3, SameFlying
<1>9. Covered(u)
  <2>1. StillAsked(u) = StillAsked(s)
    BY <1>3, SameAwaited DEF StillAsked, SameDetailFields
  <2>2. PICK w : w = Len(s.queue) + Cardinality(StillAsked(s))
    OBVIOUS
  <2>3. PICK free : free = PrMax - s.busy
    OBVIOUS
  <2>4. w \in Nat /\ free \in Nat
    BY <1>1, <2>2, <2>3, CoverNumbers
  <2>5. s.slots >= Len(s.opens) + Min({w, free})
    BY <1>1, <2>2, <2>3 DEF Covered
  <2>6. s.slots - 1 >= (Len(s.opens) - 1) + Min({w, free})
    BY <1>4, <1>5, <2>4, <2>5, CoverStep
  <2> QED BY <1>3, <1>5, <2>1, <2>2, <2>3, <2>6 DEF Covered
<1> QED BY <1>7, <1>8, <1>9 DEF Whole

\* A slot given up, as all workers are busy.
LEMMA SpawnFullFits ==
    ASSUME NEW s, Whole(s, snap), s.slots > 0, s.opens = <<>>, s.busy >= PrMax, NEW u,
           Alters(s, u, {"slots"}), u.slots = s.slots - 1
    PROVE  Whole(u, snap)
<1>1. CacheFits(s, snap) /\ Flying(s) /\ Covered(s) /\ DOMAIN s = Fields /\ Counted(s)
  BY DEF Whole, CacheFits
<1>3. /\ u.record = s.record /\ u.outage = s.outage /\ u.cycle = s.cycle /\ u.host = s.host
      /\ u.queue = s.queue /\ u.running = s.running /\ SameDetailFields(s, u)
      /\ u.opens = s.opens /\ u.opening = s.opening
      /\ u.alert = s.alert /\ u.busy = s.busy /\ DOMAIN u = Fields
  BY DEF Alters, Fields, SameDetailFields
<1>4. u.slots \in Nat
  BY <1>1 DEF Counted
<1>5. CacheFits(u, snap)
  <2>1. Counted(u)
    BY <1>1, <1>3, <1>4 DEF Counted, SameDetailFields
  <2> QED BY <1>1, <1>3, <2>1, SameRecords, SameHost, SameQueue, SameDetails, SameLive DEF CacheFits
<1>6. Flying(u)
  BY <1>1, <1>3, SameFlying
<1>7. Covered(u)
  <2>1. StillAsked(u) = StillAsked(s)
    BY <1>3, SameAwaited DEF StillAsked, SameDetailFields
  <2>2. PICK w : w = Len(s.queue) + Cardinality(StillAsked(s))
    OBVIOUS
  <2>3. PICK free : free = PrMax - s.busy
    OBVIOUS
  <2>4. w \in Nat /\ free \in Nat /\ s.slots \in Nat /\ Len(s.opens) = 0 /\ free = 0
    BY <1>1, <2>2, <2>3, CoverNumbers
  <2>5. s.slots >= Len(s.opens) + Min({w, free})
    BY <1>1, <2>2, <2>3 DEF Covered
  <2>6. s.slots - 1 >= Len(s.opens) + Min({w, free})
    BY <2>4, <2>5, CoverStep
  <2> QED BY <1>3, <2>1, <2>2, <2>3, <2>6 DEF Covered
<1> QED BY <1>5, <1>6, <1>7 DEF Whole

\* A slot used for the detail asked for first: those before it are not awaited.
LEMMA SpawnDetailFits ==
    ASSUME NEW s, Whole(s, snap), s.slots > 0, s.opens = <<>>, s.busy < PrMax,
           NEW next \in StillAsked(s), \A i \in StillAsked(s) : next.req <= i.req, NEW u,
           Alters(s, u, {"slots", "asks", "asking", "busy"}), u.slots = s.slots - 1,
           u.asks = {j \in s.asks : j.req > next.req}, u.asking = s.asking \union {next},
           u.busy = s.busy + 1
    PROVE  Whole(u, snap)
<1>1. CacheFits(s, snap) /\ Flying(s) /\ Covered(s) /\ DOMAIN s = Fields /\ Counted(s) /\ DetailsFit(s)
  BY DEF Whole, CacheFits
<1>3. /\ u.record = s.record /\ u.outage = s.outage /\ u.cycle = s.cycle /\ u.host = s.host
      /\ u.queue = s.queue /\ u.running = s.running /\ u.answer = s.answer /\ u.detail = s.detail
      /\ u.last = s.last /\ u.opens = s.opens /\ u.opening = s.opening
      /\ u.alert = s.alert /\ DOMAIN u = Fields
  BY DEF Alters, Fields
<1>4. /\ s.asks \in SUBSET Jobs /\ s.asking \in SUBSET Jobs /\ s.asks \intersect s.asking = {}
      /\ IsFiniteSet(s.asking) /\ IsFiniteSet(s.asks) /\ next \in s.asks /\ next \in Jobs
      /\ \A i, j \in s.asks : i.req = j.req => i = j
  BY <1>1 DEF DetailsFit, DetailTyped, JobsFit, StillAsked
<1>5. \A j \in Jobs : j.req \in Nat
  BY DEF Jobs
<1>6. next \notin s.asking /\ next \notin u.asks
  BY <1>4, <1>5
<1>7. IsFiniteSet(u.asking) /\ Cardinality(u.asking) = Cardinality(s.asking) + 1
  <2>1. u.asking = s.asking \union {next}
    OBVIOUS
  <2>2. /\ IsFiniteSet(s.asking \union {next})
        /\ Cardinality(s.asking \union {next}) = Cardinality(s.asking) + 1
    BY <1>4, <1>6, FS_AddElement
  <2> QED BY <2>1, <2>2
<1>8. DetailsFit(u)
  <2>1. u.asks \subseteq s.asks /\ u.asking \subseteq s.asks \union s.asking /\ u.asks \intersect u.asking = {}
    BY <1>4, <1>6
  <2>2. ASSUME NEW j \in s.asks \union s.asking, Awaited(s, j) PROVE j \in u.asks \union u.asking
    <3>1. CASE j \in s.asking
      BY <3>1
    <3>2. CASE j \in s.asks
      <4>1. next.req <= j.req
        BY <2>2, <3>2 DEF StillAsked
      <4>2. CASE next.req = j.req
        BY <1>4, <3>2, <4>2
      <4>3. CASE next.req # j.req
        BY <1>4, <1>5, <3>2, <4>1, <4>3
      <4> QED BY <4>2, <4>3
    <3> QED BY <3>1, <3>2
  <2> QED BY <1>1, <1>3, <1>7, <2>1, <2>2, FewerJobsFit
<1>9. CacheFits(u, snap)
  <2>1. Cardinality(s.running) \in Nat /\ Cardinality(s.asking) \in Nat
    BY <1>1, <1>4, FS_CardinalityType DEF CacheFits, QueueApart
  <2>2. u.slots \in Nat /\ u.busy \in Nat /\ u.busy <= PrMax
        /\ u.busy = Cardinality(u.running) + Cardinality(u.asking)
    BY <1>1, <1>3, <1>7, <2>1, CoverNumbers DEF Counted
  <2>3. Counted(u)
    BY <1>1, <1>3, <2>2 DEF Counted
  <2> QED BY <1>1, <1>3, <1>8, <2>3, SameRecords, SameHost, SameQueue DEF CacheFits
<1>10. Flying(u)
  BY <1>1, <1>3, SameFlying
<1>11. Covered(u)
  <2>1. StillAsked(u) \subseteq StillAsked(s) \ {next}
    BY <1>3, <1>6, SameAwaited DEF StillAsked
  <2>2. IsFiniteSet(StillAsked(s)) /\ Cardinality(StillAsked(s)) \in Nat
    BY <1>1, CoverNumbers
  <2>3. /\ IsFiniteSet(StillAsked(s) \ {next})
        /\ Cardinality(StillAsked(s) \ {next}) = Cardinality(StillAsked(s)) - 1
    BY <2>2, FS_RemoveElement
  <2>4. Cardinality(StillAsked(u)) <= Cardinality(StillAsked(s)) - 1
    BY <2>1, <2>3, FS_Subset
  <2>5. Cardinality(StillAsked(u)) \in Nat
    BY <1>9, CoverNumbers
  <2>6. PICK w, v : w = Len(s.queue) + Cardinality(StillAsked(s)) /\ v = Len(u.queue) + Cardinality(StillAsked(u))
    OBVIOUS
  <2>7. PICK free : free = PrMax - s.busy
    OBVIOUS
  <2>8. /\ w \in Nat /\ v \in Nat /\ v + 1 <= w /\ free \in Nat /\ free > 0
        /\ s.slots \in Nat /\ Len(s.opens) = 0 /\ PrMax - u.busy = free - 1
    <3>1. Len(s.queue) \in Nat /\ s.slots \in Nat /\ s.busy \in Nat /\ PrMax \in Nat
      BY <1>1, CoverNumbers
    <3>2. u.queue = s.queue /\ u.busy = s.busy + 1 /\ Len(s.opens) = 0
      BY <1>3
    <3>3. PICK a, b : a = Cardinality(StillAsked(s)) /\ b = Cardinality(StillAsked(u))
      OBVIOUS
    <3>4. a \in Nat /\ b \in Nat /\ b <= a - 1
      BY <2>2, <2>4, <2>5, <3>3
    <3>5. w = Len(s.queue) + a /\ v = Len(s.queue) + b
      BY <2>6, <3>2, <3>3
    <3>6. w \in Nat /\ v \in Nat /\ v + 1 <= w
      BY <3>1, <3>4, <3>5
    <3>7. free \in Nat /\ free > 0 /\ PrMax - u.busy = free - 1
      BY <2>7, <3>1, <3>2
    <3> QED BY <3>1, <3>2, <3>6, <3>7
  <2>9. s.slots >= Len(s.opens) + Min({w, free})
    BY <1>1, <2>6, <2>7 DEF Covered
  <2>10. s.slots - 1 >= Len(s.opens) + Min({v, free - 1})
    BY <2>8, <2>9, CoverStep
  <2> QED BY <1>3, <2>6, <2>8, <2>10 DEF Covered
<1> QED BY <1>9, <1>10, <1>11 DEF Whole

\* The first lookup of the queue starts.
LEMMA SpawnBadgeFits ==
    ASSUME NEW s, Whole(s, snap), s.slots > 0, s.opens = <<>>, s.busy < PrMax,
           StillAsked(s) = {}, s.queue # <<>>, NEW u,
           Alters(s, u, {"slots", "asks", "queue", "running", "busy"}), u.slots = s.slots - 1,
           u.asks = {}, u.queue = Tail(s.queue), u.running = s.running \union {Head(s.queue)},
           u.busy = s.busy + 1
    PROVE  Whole(u, snap)
<1>1. /\ CacheFits(s, snap) /\ Flying(s) /\ Covered(s) /\ DOMAIN s = Fields /\ Counted(s)
      /\ DetailsFit(s) /\ QueueApart(s)
  BY DEF Whole, CacheFits
<1>2. /\ u.record = s.record /\ u.outage = s.outage /\ u.cycle = s.cycle /\ u.host = s.host
      /\ u.asking = s.asking /\ u.answer = s.answer /\ u.detail = s.detail
      /\ u.last = s.last /\ u.opens = s.opens /\ u.opening = s.opening
      /\ u.alert = s.alert /\ DOMAIN u = Fields
  BY DEF Alters, Fields
<1>3. /\ s.queue \in Seq(Pairs) /\ s.running \in SUBSET Pairs /\ IsFiniteSet(s.running)
      /\ \A i \in 1..Len(s.queue) : s.queue[i] \notin s.running
      /\ \A i, j \in 1..Len(s.queue) : s.queue[i] = s.queue[j] => i = j
  BY <1>1 DEF QueueApart
<1>4. PICK q, p, h : q = s.queue /\ p = Tail(q) /\ h = Head(q)
  OBVIOUS
<1>5. /\ q \in Seq(Pairs) /\ p \in Seq(Pairs) /\ h \in Pairs /\ Len(q) \in Nat /\ Len(q) > 0
      /\ Len(p) = Len(q) - 1 /\ h = q[1] /\ \A i \in 1..Len(p) : p[i] = q[i + 1]
  BY <1>3, <1>4, HeadTailProperties, LenProperties, EmptySeq
<1>6. u.queue = p /\ u.running = s.running \union {h}
  BY <1>4
<1>7. h \notin s.running
  BY <1>3, <1>4, <1>5
<1>8. IsFiniteSet(u.running) /\ Cardinality(u.running) = Cardinality(s.running) + 1
  BY <1>3, <1>6, <1>7, FS_AddElement
<1>9. QueueApart(u)
  <2>1. \A i \in 1..Len(p) : i + 1 \in 1..Len(q) /\ i + 1 # 1
    BY <1>5
  <2>2. \A i \in 1..Len(p) : p[i] \notin s.running /\ p[i] # h
    BY <1>3, <1>4, <1>5, <2>1
  <2>3. \A i, j \in 1..Len(p) : p[i] = p[j] => i = j
    BY <1>3, <1>4, <1>5, <2>1
  <2> QED BY <1>3, <1>5, <1>6, <1>8, <2>2, <2>3 DEF QueueApart
<1>10. ToSet(q) \subseteq ToSet(p) \union {h}
  <2> SUFFICES ASSUME NEW i \in 1..Len(q) PROVE q[i] \in ToSet(p) \union {h}
    BY <1>5, ToSetOf
  <2>1. CASE i = 1
    BY <1>5, <2>1
  <2>2. CASE i # 1
    <3>1. i - 1 \in 1..Len(p) /\ p[i - 1] = q[i]
      BY <1>5, <2>2
    <3> QED BY <1>5, <3>1, ToSetOf
  <2> QED BY <2>1, <2>2
<1>11. Flying(u)
  BY <1>1, <1>2, <1>4, <1>6, <1>10 DEF Flying
<1>12. DetailsFit(u)
  <2>1. IsFiniteSet(s.asking)
    BY <1>1 DEF DetailsFit, DetailTyped
  <2>2. \A j \in s.asks : ~Awaited(s, j)
    BY DEF StillAsked
  <2> QED BY <1>1, <1>2, <2>1, <2>2, FewerJobsFit
<1>13. CacheFits(u, snap)
  <2>1. Cardinality(s.running) \in Nat /\ Cardinality(s.asking) \in Nat
    BY <1>1, <1>3, FS_CardinalityType DEF DetailsFit, DetailTyped
  <2>2. /\ s.slots \in Nat /\ s.busy \in Nat /\ PrMax \in Nat
        /\ s.busy = Cardinality(s.running) + Cardinality(s.asking)
    BY <1>1, CoverNumbers DEF Counted
  <2>3. /\ u.slots \in Nat /\ u.busy \in Nat /\ u.busy <= PrMax
        /\ u.busy = Cardinality(u.running) + Cardinality(u.asking)
    BY <1>2, <1>8, <2>1, <2>2
  <2>4. Counted(u)
    BY <1>1, <1>2, <2>3 DEF Counted
  <2> QED BY <1>1, <1>2, <1>9, <1>12, <2>4, SameRecords, SameHost DEF CacheFits
<1>14. Covered(u)
  <2>1. StillAsked(u) = {} /\ Cardinality({}) = 0
    BY FS_EmptySet DEF StillAsked
  <2>2. PICK w, v, free : w = Len(s.queue) + Cardinality(StillAsked(s)) /\ v = Len(u.queue) + Cardinality(StillAsked(u))
                          /\ free = PrMax - s.busy
    OBVIOUS
  <2>3. /\ s.slots \in Nat /\ s.busy \in Nat /\ PrMax \in Nat /\ Len(s.opens) = 0
    BY <1>1, CoverNumbers
  <2>4. w = Len(q) /\ v = Len(p)
    BY <1>4, <1>5, <1>6, <2>1, <2>2
  <2>5. /\ w \in Nat /\ v \in Nat /\ v + 1 <= w
    BY <1>5, <2>4
  <2>6. free \in Nat /\ free > 0 /\ PrMax - u.busy = free - 1
    BY <2>2, <2>3
  <2>7. s.slots >= Len(s.opens) + Min({w, free})
    BY <1>1, <2>2 DEF Covered
  <2>8. s.slots - 1 >= Len(s.opens) + Min({v, free - 1})
    BY <2>3, <2>5, <2>6, <2>7, CoverStep
  <2> QED BY <1>2, <2>2, <2>6, <2>8 DEF Covered
<1> QED BY <1>11, <1>13, <1>14 DEF Whole

\* A slot with nothing left to start.
LEMMA SpawnNoneFits ==
    ASSUME NEW s, Whole(s, snap), s.slots > 0, s.opens = <<>>, StillAsked(s) = {}, s.queue = <<>>,
           NEW u, Alters(s, u, {"slots", "asks"}), u.slots = s.slots - 1, u.asks = {}
    PROVE  Whole(u, snap)
<1>1. /\ CacheFits(s, snap) /\ Flying(s) /\ Covered(s) /\ DOMAIN s = Fields /\ Counted(s)
      /\ DetailsFit(s) /\ QueueApart(s)
  BY DEF Whole, CacheFits
<1>2. /\ u.record = s.record /\ u.outage = s.outage /\ u.cycle = s.cycle /\ u.host = s.host
      /\ u.queue = s.queue /\ u.running = s.running
      /\ u.asking = s.asking /\ u.answer = s.answer /\ u.detail = s.detail
      /\ u.last = s.last /\ u.opens = s.opens /\ u.opening = s.opening
      /\ u.alert = s.alert /\ u.busy = s.busy /\ DOMAIN u = Fields
  BY DEF Alters, Fields
<1>3. s.slots \in Nat /\ s.busy \in Nat /\ PrMax \in Nat /\ Len(s.opens) = 0 /\ Len(s.queue) = 0
      /\ s.busy <= PrMax
  BY <1>1, CoverNumbers
<1>4. DetailsFit(u)
  <2>1. IsFiniteSet(s.asking)
    BY <1>1 DEF DetailsFit, DetailTyped
  <2>2. \A j \in s.asks : ~Awaited(s, j)
    BY DEF StillAsked
  <2> QED BY <1>1, <1>2, <2>1, <2>2, FewerJobsFit
<1>5. CacheFits(u, snap)
  <2>1. u.slots \in Nat
    BY <1>3
  <2>2. Counted(u)
    BY <1>1, <1>2, <2>1 DEF Counted
  <2> QED BY <1>1, <1>2, <1>4, <2>2, SameRecords, SameHost, SameQueue DEF CacheFits
<1>6. Flying(u)
  BY <1>1, <1>2, SameFlying
<1>7. Covered(u)
  <2>1. StillAsked(u) = {} /\ Cardinality({}) = 0
    BY FS_EmptySet DEF StillAsked
  <2>2. PICK free : free = PrMax - s.busy
    OBVIOUS
  <2>3. free \in Nat
    BY <1>3, <2>2
  <2>4. Min({0, free}) = 0
    BY <2>3, SmallerOfTwo
  <2>5. Len(u.queue) + Cardinality(StillAsked(u)) = 0 /\ PrMax - u.busy = free /\ Len(u.opens) = 0
    BY <1>2, <1>3, <2>1, <2>2
  <2>6. u.slots >= 0 + 0
    BY <1>3
  <2> QED BY <2>4, <2>5, <2>6 DEF Covered
<1> QED BY <1>5, <1>6, <1>7 DEF Whole

\* Numbers single out a job, so the least is the first to start.
LEMMA LeastJob ==
    ASSUME NEW s, DetailsFit(s), StillAsked(s) # {}
    PROVE  LET next == CHOOSE j \in StillAsked(s) : \A i \in StillAsked(s) : j.req <= i.req
           IN next \in StillAsked(s) /\ \A i \in StillAsked(s) : next.req <= i.req
<1>1. \A j \in StillAsked(s) : j.req \in Nat
  BY DEF DetailsFit, DetailTyped, Jobs, StillAsked
<1>2. PICK N : N = {j.req : j \in StillAsked(s)}
  OBVIOUS
<1>3. N \in SUBSET Nat /\ N # {}
  BY <1>1, <1>2
<1>4. PICK m \in N : \A n \in N : m <= n
  BY <1>3, LeastNatural
<1>5. PICK j \in StillAsked(s) : j.req = m
  BY <1>2, <1>4
<1>6. \A i \in StillAsked(s) : j.req <= i.req
  BY <1>2, <1>4, <1>5
<1> QED BY <1>5, <1>6

\* SpawnPr: whatever its slot is used for, the others are enough for the rest.
LEMMA SpawnKeeps ==
    ASSUME PrIInv, SpawnPr PROVE PrIInv'
<1>1. PICK s : s = prs
  OBVIOUS
<1>2. Whole(s, snap) /\ DOMAIN s = Fields /\ DetailsFit(s)
  BY <1>1 DEF PrIInv, Whole, CacheFits
<1>3. PICK t : t = [s EXCEPT !.slots = s.slots - 1]
  OBVIOUS
<1>4. Alters(s, t, {"slots"}) /\ t.slots = s.slots - 1
  BY <1>2, <1>3 DEF Alters, Fields
<1>5. /\ t.opens = s.opens /\ t.opening = s.opening /\ t.busy = s.busy /\ t.asks = s.asks
      /\ t.asking = s.asking /\ t.queue = s.queue /\ t.running = s.running /\ t.detail = s.detail
      /\ DOMAIN t = Fields
  BY <1>4 DEF Alters, Fields
<1>6. PICK left : left = StillAsked(t)
  OBVIOUS
<1>7. left = StillAsked(s)
  BY <1>5, <1>6, SameAwaited DEF StillAsked
<1>8. PICK next : next = CHOOSE j \in left : \A i \in left : j.req <= i.req
  OBVIOUS
<1>9. PICK u : u = prs'
  OBVIOUS
<1>10. s.slots > 0
  BY <1>1 DEF SpawnPr
<1>11. u = IF t.opens # <<>>
           THEN [t EXCEPT !.opens = Tail(t.opens), !.opening = t.opening \union {Head(t.opens)}]
           ELSE IF t.busy >= PrMax THEN t
           ELSE IF left # {}
           THEN [t EXCEPT !.asks = {j \in t.asks : j.req > next.req}, !.asking = t.asking \union {next},
                          !.busy = t.busy + 1]
           ELSE IF t.queue # <<>>
           THEN [t EXCEPT !.asks = {}, !.queue = Tail(t.queue), !.running = t.running \union {Head(t.queue)},
                          !.busy = t.busy + 1]
           ELSE [t EXCEPT !.asks = {}]
  BY <1>1, <1>3, <1>6, <1>8, <1>9 DEF SpawnPr
<1>12. ASSUME s.opens # <<>> PROVE Whole(u, snap)
  <2>1. u = [t EXCEPT !.opens = Tail(t.opens), !.opening = t.opening \union {Head(t.opens)}]
    BY <1>5, <1>11, <1>12
  <2>2. /\ Alters(s, u, {"slots", "opens", "opening"}) /\ u.slots = s.slots - 1
        /\ u.opens = Tail(s.opens) /\ u.opening = s.opening \union {Head(s.opens)}
    BY <1>4, <1>5, <2>1 DEF Alters, Fields
  <2> QED BY <1>2, <1>9, <1>10, <1>12, <2>2, SpawnOpenFits
<1>13. ASSUME s.opens = <<>> /\ s.busy >= PrMax PROVE Whole(u, snap)
  <2>1. u = t
    BY <1>5, <1>11, <1>13
  <2> QED BY <1>2, <1>4, <1>10, <1>13, <2>1, SpawnFullFits
<1>14. ASSUME s.opens = <<>> /\ ~(s.busy >= PrMax) /\ left # {} PROVE Whole(u, snap)
  <2>1. u = [t EXCEPT !.asks = {j \in t.asks : j.req > next.req}, !.asking = t.asking \union {next},
                      !.busy = t.busy + 1]
    BY <1>5, <1>11, <1>14
  <2>2. /\ Alters(s, u, {"slots", "asks", "asking", "busy"}) /\ u.slots = s.slots - 1
        /\ u.asks = {j \in s.asks : j.req > next.req} /\ u.asking = s.asking \union {next}
        /\ u.busy = s.busy + 1
    BY <1>4, <1>5, <2>1 DEF Alters, Fields
  <2>3. next \in StillAsked(s) /\ \A i \in StillAsked(s) : next.req <= i.req
    BY <1>2, <1>7, <1>8, <1>14, LeastJob
  <2>4. s.busy < PrMax
    BY <1>2, <1>14, CoverNumbers DEF Whole
  <2> QED BY <1>2, <1>10, <1>14, <2>2, <2>3, <2>4, SpawnDetailFits
<1>15. ASSUME s.opens = <<>> /\ ~(s.busy >= PrMax) /\ left = {} /\ s.queue # <<>> PROVE Whole(u, snap)
  <2>1. u = [t EXCEPT !.asks = {}, !.queue = Tail(t.queue), !.running = t.running \union {Head(t.queue)},
                      !.busy = t.busy + 1]
    BY <1>5, <1>11, <1>15
  <2>2. /\ Alters(s, u, {"slots", "asks", "queue", "running", "busy"}) /\ u.slots = s.slots - 1
        /\ u.asks = {} /\ u.queue = Tail(s.queue) /\ u.running = s.running \union {Head(s.queue)}
        /\ u.busy = s.busy + 1
    BY <1>4, <1>5, <2>1 DEF Alters, Fields
  <2>3. s.busy < PrMax
    BY <1>2, <1>15, CoverNumbers DEF Whole
  <2> QED BY <1>2, <1>7, <1>10, <1>15, <2>2, <2>3, SpawnBadgeFits
<1>16. ASSUME s.opens = <<>> /\ ~(s.busy >= PrMax) /\ left = {} /\ s.queue = <<>> PROVE Whole(u, snap)
  <2>1. u = [t EXCEPT !.asks = {}]
    BY <1>5, <1>11, <1>16
  <2>2. Alters(s, u, {"slots", "asks"}) /\ u.slots = s.slots - 1 /\ u.asks = {}
    BY <1>4, <1>5, <2>1 DEF Alters, Fields
  <2> QED BY <1>2, <1>7, <1>10, <1>16, <2>2, SpawnNoneFits
<1>17. Whole(u, snap)
  BY <1>7, <1>12, <1>13, <1>14, <1>15, <1>16
<1>18. Whole(prs', snap')
  BY <1>9, <1>17 DEF SpawnPr
<1> QED BY <1>18, StepWhole DEF SpawnPr, PrIInv

-----------------------------------------------------------------------------
(* Lookups end *)

\* The lookup `t` gives its worker back: what flies else is still in sight.
LEMMA ReleasedFits ==
    ASSUME NEW s, CacheFits(s, snap), Flying(s), NEW t \in s.running
    PROVE  /\ CacheFits(Released(s, t), snap) /\ Alters(s, Released(s, t), {"running", "busy"})
           /\ \A c \in Clones : s.record[c].inFlight /\ <<c, s.record[c].branch>> # t =>
                  <<c, s.record[c].branch>> \in ToSet(s.queue) \union Released(s, t).running
<1>1. PICK u : u = Released(s, t)
  OBVIOUS
<1>2. DOMAIN s = Fields /\ QueueApart(s) /\ Counted(s)
  BY DEF CacheFits
<1>3. Alters(s, u, {"running", "busy"}) /\ u.running = s.running \ {t} /\ u.busy = s.busy - 1
  BY <1>1, <1>2 DEF Released, Alters, Fields
<1>4. /\ u.record = s.record /\ u.outage = s.outage /\ u.cycle = s.cycle /\ u.host = s.host
      /\ u.queue = s.queue /\ SameDetailFields(s, u) /\ u.alert = s.alert
      /\ u.opens = s.opens /\ u.opening = s.opening /\ u.slots = s.slots /\ DOMAIN u = Fields
  BY <1>3 DEF Alters, Fields, SameDetailFields
<1>5. IsFiniteSet(s.running) /\ s.running \in SUBSET Pairs
  BY <1>2 DEF QueueApart
<1>6. IsFiniteSet(u.running) /\ Cardinality(u.running) = Cardinality(s.running) - 1
  <2>1. /\ IsFiniteSet(s.running \ {t})
        /\ Cardinality(s.running \ {t}) = Cardinality(s.running) - 1
    BY <1>5, FS_RemoveElement
  <2> QED BY <1>3, <2>1
<1>7. QueueApart(u)
  BY <1>2, <1>3, <1>4, <1>5, <1>6 DEF QueueApart
<1>8. Counted(u)
  <2>1. Cardinality(u.running) \in Nat /\ Cardinality(s.asking) \in Nat /\ Cardinality(s.running) \in Nat
    BY <1>5, <1>6, FS_CardinalityType DEF CacheFits, DetailsFit, DetailTyped
  <2>2. /\ s.busy \in Nat /\ s.busy <= PrMax /\ PrMax \in Nat
        /\ s.busy = Cardinality(s.running) + Cardinality(s.asking)
    BY <1>2, CoverNumbers DEF Counted
  <2>3. u.busy \in Nat /\ u.busy <= PrMax /\ u.busy = Cardinality(u.running) + Cardinality(s.asking)
    BY <1>3, <1>6, <2>1, <2>2
  <2> QED BY <1>2, <1>4, <2>3 DEF Counted, SameDetailFields
<1>9. CacheFits(u, snap)
  BY <1>4, <1>7, <1>8, SameRecords, SameHost, SameDetails, SameLive DEF CacheFits
<1> QED BY <1>1, <1>3, <1>9 DEF Flying

\* The record of `c` flies no more.
Rests(s, u, c) ==
    /\ Alters(s, u, {"record"})
    /\ u.record = [s.record EXCEPT ![c] = [@ EXCEPT !.inFlight = FALSE, !.cycle = 0]]

Rested(s, u, c) ==
    /\ ~u.record[c].inFlight /\ u.record[c].remote = s.record[c].remote
    /\ \A x \in Clones : u.record[x].branch = s.record[x].branch
    /\ \A x \in Clones \ {c} : u.record[x] = s.record[x]

\* How the code writes it.
LEMMA RestsOf ==
    ASSUME NEW s, DOMAIN s = Fields, s.record \in [Clones -> Records], NEW c \in Clones
    PROVE  Rests(s, [s EXCEPT !.record[c].inFlight = FALSE, !.record[c].cycle = 0], c)
<1>1. PICK u : u = [s EXCEPT !.record[c].inFlight = FALSE, !.record[c].cycle = 0]
  OBVIOUS
<1>2. Alters(s, u, {"record"})
  BY <1>1 DEF Alters, Fields
<1>3. u.record = [[s.record EXCEPT ![c].inFlight = FALSE] EXCEPT ![c].cycle = 0]
  BY <1>1 DEF Fields
<1>4. u.record = [s.record EXCEPT ![c] = [@ EXCEPT !.inFlight = FALSE, !.cycle = 0]]
  BY <1>3
<1> QED BY <1>1, <1>2, <1>4 DEF Rests

\* A record may rest whenever its row is on a branch.
LEMMA RestsFits ==
    ASSUME NEW s, CacheFits(s, snap), NEW c \in Clones, s.record[c].branch \in Branches,
           NEW u, Rests(s, u, c)
    PROVE  CacheFits(u, snap) /\ Rested(s, u, c)
<1>1. RecordsFit(s, snap) /\ s.record \in [Clones -> Records] /\ s.record[c] \in Records
  BY DEF CacheFits, RecordsFit
<1>2. PICK r : r = [s.record[c] EXCEPT !.inFlight = FALSE, !.cycle = 0]
  OBVIOUS
<1>3. /\ r \in Records /\ ~r.inFlight /\ r.failed = s.record[c].failed
      /\ r.remote = s.record[c].remote /\ r.branch = s.record[c].branch
  BY <1>1, <1>2 DEF Records
<1>4. u.record = [s.record EXCEPT ![c] = r]
  BY <1>2 DEF Rests
<1>5. u.record[c] = r /\ \A x \in Clones \ {c} : u.record[x] = s.record[x]
  BY <1>1, <1>4
<1>6. u.record \in [Clones -> Records]
  BY <1>1, <1>3, <1>4
<1>7. /\ u.outage = s.outage /\ u.cycle = s.cycle /\ u.host = s.host /\ u.queue = s.queue
      /\ u.running = s.running /\ SameDetailFields(s, u) /\ u.alert = s.alert /\ u.busy = s.busy
      /\ u.opens = s.opens /\ u.opening = s.opening /\ u.slots = s.slots /\ DOMAIN u = Fields
  BY DEF Rests, Alters, Fields, SameDetailFields
<1>8. Rested(s, u, c)
  BY <1>3, <1>5 DEF Rested
<1>9. RecordsFit(u, snap)
  <2>1. snap[c].branch = s.record[c].branch /\ snap[c].branch # Gone
    BY <1>1, PrLookupsAssumption, NoRecordShape DEF RecordsFit, Follows
  <2>2. Follows(u, snap)
    BY <1>1, <1>3, <1>5, <2>1 DEF RecordsFit, Follows
  <2>3. \A x \in Clones : u.record[x].failed = s.record[x].failed
    BY <1>3, <1>5
  <2> QED BY <1>1, <1>6, <1>7, <2>2, <2>3 DEF RecordsFit
<1>10. \A k \in PrKeys : Live(s, k) => Live(u, k)
  <2>1. \A x \in Clones : u.record[x].remote = s.record[x].remote /\ u.record[x].branch = s.record[x].branch
    BY <1>3, <1>5
  <2> QED BY <2>1 DEF Live
<1>11. CacheFits(u, snap)
  <2>1. Counted(u)
    BY <1>7 DEF CacheFits, Counted, SameDetailFields
  <2> QED BY <1>7, <1>9, <1>10, <2>1, SameHost, SameQueue, SameDetails DEF CacheFits
<1> QED BY <1>8, <1>11

\* release_pr_badge and after_pr_badge.
LEMMA AfterBadgeFits ==
    ASSUME NEW s, CacheFits(s, snap), Flying(s)
    PROVE  Whole(AfterBadge(s), snap) /\ Alters(s, AfterBadge(s), {"alert", "slots"})
<1>1. PICK al \in BOOLEAN : al = (s.alert /\ (s.queue # <<>> \/ s.running # {}))
  OBVIOUS
<1>2. PICK t : t = [s EXCEPT !.alert = al]
  OBVIOUS
<1>3. PICK u : u = Fill(t)
  OBVIOUS
<1>4. AfterBadge(s) = u
  BY <1>1, <1>2, <1>3 DEF AfterBadge
<1>5. Alters(s, t, {"alert"}) /\ t.alert = al
  BY <1>2 DEF Alters, Fields, CacheFits
<1>6. /\ t.record = s.record /\ t.outage = s.outage /\ t.cycle = s.cycle /\ t.host = s.host
      /\ t.queue = s.queue /\ t.running = s.running /\ SameDetailFields(s, t) /\ t.busy = s.busy
      /\ t.opens = s.opens /\ t.opening = s.opening /\ t.slots = s.slots /\ DOMAIN t = Fields
  BY <1>5 DEF Alters, Fields, SameDetailFields
<1>7. CacheFits(t, snap)
  <2>1. Counted(t)
    BY <1>6 DEF CacheFits, Counted, SameDetailFields
  <2> QED BY <1>5, <1>6, <2>1, SameRecords, SameHost, SameQueue, SameDetails, SameLive DEF CacheFits
<1>8. CacheFits(u, snap) /\ Covered(u) /\ Alters(t, u, {"slots"})
  BY <1>3, <1>7, FillFits
<1>9. Alters(s, u, {"alert", "slots"})
  BY <1>5, <1>8 DEF Alters, Fields
<1>10. u.record = s.record /\ u.queue = s.queue /\ u.running = s.running
  BY <1>9 DEF Alters, Fields
<1>11. Flying(u)
  BY <1>10, SameFlying
<1> QED BY <1>4, <1>8, <1>9, <1>11 DEF Whole

\* The lookup of a record that rests is not needed in sight.
LEMMA RestedFlies ==
    ASSUME NEW s, NEW r, NEW u, NEW c \in Clones, NEW t, t = <<c, s.record[c].branch>>,
           r.record = s.record, Rested(r, u, c), u.queue = s.queue, u.running = r.running,
           \A x \in Clones : s.record[x].inFlight /\ <<x, s.record[x].branch>> # t =>
               <<x, s.record[x].branch>> \in ToSet(s.queue) \union r.running
    PROVE  Flying(u)
BY DEF Flying, Rested

\* A lookup is a clone and a branch.
LEMMA PairParts ==
    ASSUME NEW t \in Pairs
    PROVE  t[1] \in Clones /\ t[2] \in Branches /\ t = <<t[1], t[2]>>
BY DEF Pairs

\* A panic gives the worker back and lets the record rest.
LEMMA PanicsKeep ==
    ASSUME PrIInv, NEW t \in prs.running, BadgePanics(t)
    PROVE  PrIInv' /\ prs'.answer = prs.answer
<1>1. PICK s : s = prs
  OBVIOUS
<1>2. CacheFits(s, snap) /\ Flying(s) /\ t \in s.running /\ t \in Pairs
  BY <1>1 DEF PrIInv, CacheFits, QueueApart
<1>3. PICK r : r = Released(s, t)
  OBVIOUS
<1>4. /\ CacheFits(r, snap) /\ Alters(s, r, {"running", "busy"})
      /\ \A x \in Clones : s.record[x].inFlight /\ <<x, s.record[x].branch>> # t =>
             <<x, s.record[x].branch>> \in ToSet(s.queue) \union r.running
  BY <1>2, <1>3, ReleasedFits
<1>5. r.record = s.record /\ r.queue = s.queue /\ r.answer = s.answer
  BY <1>4 DEF Alters, Fields
<1>6. PICK c : c = t[1]
  OBVIOUS
<1>7. c \in Clones /\ t[2] \in Branches /\ t = <<c, t[2]>>
  BY <1>2, <1>6, PairParts
<1>8. PICK u : u = IF r.record[c].branch = t[2]
                   THEN [r EXCEPT !.record[c].inFlight = FALSE, !.record[c].cycle = 0]
                   ELSE r
  OBVIOUS
<1>9. prs' = AfterBadge(u) /\ snap' = snap
  BY <1>1, <1>3, <1>6, <1>8 DEF BadgePanics
<1>10. CacheFits(u, snap) /\ Flying(u) /\ u.answer = s.answer
  <2>1. CASE r.record[c].branch = t[2]
    <3>1. u = [r EXCEPT !.record[c].inFlight = FALSE, !.record[c].cycle = 0]
      BY <1>8, <2>1
    <3>2. Rests(r, u, c)
      BY <1>4, <1>7, <3>1, RestsOf DEF CacheFits, RecordsFit
    <3>3. CacheFits(u, snap) /\ Rested(r, u, c)
      BY <1>4, <1>7, <2>1, <3>2, RestsFits
    <3>4. u.queue = s.queue /\ u.running = r.running /\ u.answer = s.answer
      BY <1>5, <3>2 DEF Rests, Alters, Fields
    <3>5. t = <<c, s.record[c].branch>>
      BY <1>5, <1>7, <2>1
    <3>6. Flying(u)
      BY <1>4, <1>5, <1>7, <3>3, <3>4, <3>5, RestedFlies
    <3> QED BY <3>3, <3>4, <3>6
  <2>2. CASE r.record[c].branch # t[2]
    <3>1. u = r
      BY <1>8, <2>2
    <3>2. \A x \in Clones : <<x, s.record[x].branch>> # t
      BY <1>5, <1>7, <2>2
    <3> QED BY <1>4, <1>5, <3>1, <3>2 DEF Flying
  <2> QED BY <2>1, <2>2
<1>11. Whole(prs', snap') /\ Alters(u, prs', {"alert", "slots"})
  BY <1>9, <1>10, AfterBadgeFits
<1>12. prs'.answer = prs.answer
  BY <1>1, <1>10, <1>11 DEF Alters, Fields
<1> QED BY <1>11, <1>12, StepWhole DEF BadgePanics, PrIInv

\* A cache on which an answer landed is whole again once details are asked
\* for and slots filled up.
LEMMA LandsFits ==
    ASSUME NEW s, CacheFits(s, snap), Flying(s), NEW u, NEW c, NEW k, NEW a, Lands(s, u, snap, c, k, a)
    PROVE  /\ CacheFits(u, snap) /\ Flying(u)
           /\ u.queue = s.queue /\ u.running = s.running /\ u.slots = s.slots
           /\ u.opens = s.opens /\ u.busy = s.busy /\ u.asks = s.asks
<1>1. /\ u.queue = s.queue /\ u.running = s.running /\ u.opens = s.opens /\ u.opening = s.opening
      /\ u.slots = s.slots /\ u.busy = s.busy /\ u.asking = s.asking /\ u.asks = s.asks
      /\ DOMAIN u = Fields
  BY DEF Lands, Alters, LandedFields, Fields
<1>2. RecordsFit(u, snap) /\ Backs(u) /\ DetailsFit(u) /\ Steers(s, u) /\ u.alert \in BOOLEAN
  BY DEF Lands
<1>3. Counted(u) /\ QueueApart(u)
  BY <1>1, SameQueue DEF CacheFits, Counted
<1>4. CacheFits(u, snap)
  BY <1>1, <1>2, <1>3 DEF CacheFits
<1>5. Flying(u)
  BY <1>1, <1>2 DEF Flying, Steers
<1> QED BY <1>1, <1>4, <1>5

\* A badge that another clone keeps does not fail.
Stays(c) == Mark(c) \in Ready /\ Mark(c)' = "failed" => Shared(SnapKey(c))

\* Where a mark comes from.
LEMMA MarkShape ==
    ASSUME PrIInv, NEW c \in Clones, Mark(c) \in Ready
    PROVE  /\ prs.record[c].branch = snap[c].branch /\ prs.record[c].remote /\ snap[c].branch \in Branches
           /\ SnapKey(c) \in PrKeys /\ prs.answer[SnapKey(c)] \in Ready
           /\ Mark(c) = prs.answer[SnapKey(c)] /\ SnapKey(c)[1] = remoteOf[c]
<1>1. "none" \notin Ready
  BY PrLookupsAssumption DEF Ready
<1>2. prs.record[c] # NoRecord /\ Current(prs, c) /\ prs.record[c].remote
  BY <1>1 DEF Mark
<1>3. RecordsFit(prs, snap)
  BY DEF PrIInv, CacheFits
<1>4. prs.record[c].branch = snap[c].branch /\ snap[c].branch \in Branches
  BY <1>2, <1>3 DEF RecordsFit, Follows, Rows
<1>5. SnapKey(c) \in PrKeys /\ SnapKey(c)[1] = remoteOf[c]
  BY <1>4 DEF SnapKey, PrKey, PrKeys
<1>6. Mark(c) = prs.answer[SnapKey(c)]
  BY <1>2 DEF Mark
<1> QED BY <1>2, <1>4, <1>5, <1>6

\* The answers of one key change, and the badge of the clone it is of stays.
LEMMA OneKeyStays ==
    ASSUME PrIInv, snap' = snap, remoteOf' = remoteOf, NEW c \in Clones, NEW b, NEW k, k = PrKey(c, b),
           \A l \in PrKeys : l # k => prs'.answer[l] = prs.answer[l],
           Mark(c) \in Ready /\ SnapKey(c) = k => prs'.answer[k] # "failed",
           NEW x \in Clones
    PROVE  Stays(x)
<1> SUFFICES ASSUME Mark(x) \in Ready, Mark(x)' = "failed" PROVE Shared(SnapKey(x))
  BY DEF Stays
<1>1. /\ SnapKey(x) \in PrKeys /\ prs.answer[SnapKey(x)] \in Ready /\ SnapKey(x)[1] = remoteOf[x]
  BY MarkShape
<1>2. "failed" \notin Ready
  BY PrLookupsAssumption DEF Ready
<1>3. prs'.answer[SnapKey(x)] = "failed"
  <2>1. SnapKey(x)' = SnapKey(x)
    BY DEF SnapKey, PrKey
  <2> QED BY <2>1 DEF Mark
<1>4. SnapKey(x) = k
  BY <1>1, <1>2, <1>3
<1>5. x # c
  BY <1>3, <1>4
<1>6. k[1] = remoteOf[c]
  BY DEF PrKey
<1> QED BY <1>1, <1>4, <1>5, <1>6 DEF Shared

\* BadgeLands: an answer for a record that has moved on is dropped, and any
\* other lands; either way the worker is given back.
LEMMA LandsKeep ==
    ASSUME PrIInv, NEW t \in prs.running, NEW a \in Answers, BadgeLands(t, a)
    PROVE  PrIInv' /\ \A x \in Clones : Stays(x)
<1>1. PICK s : s = prs
  OBVIOUS
<1>2. CacheFits(s, snap) /\ Flying(s) /\ t \in s.running /\ t \in Pairs /\ watched \in SUBSET Clones
  BY <1>1 DEF PrIInv, CacheFits, QueueApart
<1>3. PICK r : r = Released(s, t)
  OBVIOUS
<1>4. /\ CacheFits(r, snap) /\ Alters(s, r, {"running", "busy"})
      /\ \A x \in Clones : s.record[x].inFlight /\ <<x, s.record[x].branch>> # t =>
             <<x, s.record[x].branch>> \in ToSet(s.queue) \union r.running
  BY <1>2, <1>3, ReleasedFits
<1>5. r.record = s.record /\ r.queue = s.queue /\ r.answer = s.answer
  BY <1>4 DEF Alters, Fields
<1>6. PICK c, b : c = t[1] /\ b = t[2]
  OBVIOUS
<1>7. c \in Clones /\ b \in Branches /\ t = <<c, b>>
  BY <1>2, <1>6, PairParts
<1>8. PICK k : k = PrKey(c, b)
  OBVIOUS
<1>9. PICK taken : taken = [r EXCEPT !.record[c].inFlight = FALSE, !.record[c].cycle = 0]
  OBVIOUS
<1>10. PICK cycle : cycle = r.record[c].cycle
  OBVIOUS
<1>11. PICK l : l = PrLand(taken, c, b, a, cycle)
  OBVIOUS
<1>12. PICK u : u = IF snap[c].branch = b /\ r.record[c].branch = b THEN AskDetails(l, watched) ELSE r
  OBVIOUS
<1>13. prs' = AfterBadge(u) /\ snap' = snap /\ remoteOf' = remoteOf
  BY <1>1, <1>3, <1>6, <1>9, <1>10, <1>11, <1>12 DEF BadgeLands
<1>14. ASSUME snap[c].branch = b, r.record[c].branch = b
       PROVE  /\ CacheFits(u, snap) /\ Flying(u)
              /\ \A m \in PrKeys : m # k => u.answer[m] = s.answer[m]
              /\ s.record[c].remote /\ s.answer[k] \in Ready => u.answer[k] # "failed"
  <2>1. Rests(r, taken, c)
    BY <1>4, <1>7, <1>9, RestsOf DEF CacheFits, RecordsFit
  <2>2. CacheFits(taken, snap) /\ Rested(r, taken, c)
    BY <1>4, <1>7, <1>14, <2>1, RestsFits
  <2>3. taken.queue = s.queue /\ taken.running = r.running /\ taken.answer = s.answer
    BY <1>5, <2>1 DEF Rests, Alters, Fields
  <2>4. t = <<c, s.record[c].branch>>
    BY <1>5, <1>7, <1>14
  <2>5. Flying(taken)
    BY <1>4, <1>5, <1>7, <2>2, <2>3, <2>4, RestedFlies
  <2>6. cycle \in Nat
    BY <1>4, <1>7, <1>10 DEF CacheFits, RecordsFit, Records
  <2>7. taken.record[c].branch = b /\ taken.record[c].remote = s.record[c].remote
    BY <1>5, <1>7, <1>14, <2>2 DEF Rested
  <2>8. Lands(taken, l, snap, c, k, a)
    BY <1>7, <1>8, <1>11, <1>14, <2>2, <2>6, <2>7, PrLandFits DEF CacheFits
  <2>9. CacheFits(l, snap) /\ Flying(l)
    BY <2>2, <2>5, <2>8, LandsFits
  <2>10. u = AskDetails(l, watched)
    BY <1>12, <1>14
  <2>11. CacheFits(u, snap) /\ Alters(l, u, AskedFields)
    BY <1>2, <2>9, <2>10, AskFits
  <2>12. u.record = l.record /\ u.queue = l.queue /\ u.running = l.running /\ u.answer = l.answer
    BY <2>11 DEF Alters, AskedFields, Fields
  <2>13. Flying(u)
    BY <2>9, <2>12, SameFlying
  <2> QED BY <2>3, <2>7, <2>8, <2>11, <2>12, <2>13 DEF Lands
<1>15. ASSUME ~(snap[c].branch = b /\ r.record[c].branch = b)
       PROVE  CacheFits(u, snap) /\ Flying(u) /\ u.answer = s.answer
  <2>1. u = r
    BY <1>12, <1>15
  <2>2. s.record[c].branch # b
    BY <1>2, <1>5, <1>7, <1>15, PrLookupsAssumption, NoRecordShape DEF CacheFits, RecordsFit, Follows
  <2>3. \A x \in Clones : <<x, s.record[x].branch>> # t
    BY <1>7, <2>2
  <2> QED BY <1>4, <1>5, <2>1, <2>3 DEF Flying
<1>16. CacheFits(u, snap) /\ Flying(u)
  BY <1>14, <1>15
<1>17. Whole(prs', snap') /\ Alters(u, prs', {"alert", "slots"})
  BY <1>13, <1>16, AfterBadgeFits
<1>18. prs'.answer = u.answer
  BY <1>17 DEF Alters, Fields
<1>19. \A m \in PrKeys : m # k => prs'.answer[m] = prs.answer[m]
  BY <1>1, <1>14, <1>15, <1>18
<1>20. ASSUME Mark(c) \in Ready, SnapKey(c) = k PROVE prs'.answer[k] # "failed"
  <2>1. /\ prs.record[c].remote /\ prs.answer[k] \in Ready
    BY <1>7, <1>20, MarkShape
  <2>2. "failed" \notin Ready
    BY PrLookupsAssumption DEF Ready
  <2> QED BY <1>1, <1>14, <1>15, <1>18, <2>1, <2>2
<1>21. \A x \in Clones : Stays(x)
  BY <1>7, <1>8, <1>13, <1>19, <1>20, OneKeyStays
<1> QED BY <1>17, <1>21, StepWhole DEF BadgeLands, PrIInv

-----------------------------------------------------------------------------
(* Details land *)

\* A worker is given back by the detail fetch `j`.
Yields(s, r, j) ==
    Alters(s, r, {"asking", "busy"}) /\ r.asking = s.asking \ {j} /\ r.busy = s.busy - 1

\* The workers are counted right.
LEMMA YieldCounts ==
    ASSUME NEW s, CacheFits(s, snap), NEW j \in s.asking, NEW r, Yields(s, r, j)
    PROVE  Counted(r) /\ IsFiniteSet(r.asking)
<1>1. IsFiniteSet(s.asking) /\ IsFiniteSet(s.running)
  BY DEF CacheFits, DetailsFit, DetailTyped, QueueApart
<1>2. IsFiniteSet(r.asking) /\ Cardinality(r.asking) = Cardinality(s.asking) - 1
  <2>1. /\ IsFiniteSet(s.asking \ {j})
        /\ Cardinality(s.asking \ {j}) = Cardinality(s.asking) - 1
    BY <1>1, FS_RemoveElement
  <2> QED BY <2>1 DEF Yields
<1>3. Cardinality(r.asking) \in Nat /\ Cardinality(s.asking) \in Nat /\ Cardinality(s.running) \in Nat
  BY <1>1, <1>2, FS_CardinalityType
<1>4. /\ s.busy \in Nat /\ s.busy <= PrMax /\ PrMax \in Nat
      /\ s.busy = Cardinality(s.running) + Cardinality(s.asking)
  BY CoverNumbers DEF CacheFits, Counted
<1>5. r.running = s.running /\ r.opens = s.opens /\ r.opening = s.opening /\ r.slots = s.slots
  BY DEF Yields, Alters, Fields
<1>6. r.busy \in Nat /\ r.busy <= PrMax /\ r.busy = Cardinality(r.running) + Cardinality(r.asking)
  BY <1>2, <1>3, <1>4, <1>5 DEF Yields
<1>7. Counted(r)
  BY <1>5, <1>6 DEF CacheFits, Counted
<1> QED BY <1>2, <1>7

\* What is loading is known.
LEMMA AwaitedKnown ==
    ASSUME NEW s, DetailsFit(s), NEW j \in s.asking, Awaited(s, j)
    PROVE  /\ j.key \in PrKeys /\ s.detail[j.key] \in Details /\ Loading(s.detail[j.key])
           /\ s.detail[j.key].has # "none" /\ s.answer[j.key] \in Facts /\ Live(s, j.key)
           /\ remoteOf[j.clone] = j.key[1] /\ j.of \in Known
           /\ j.of = s.answer[j.key] \/ Outdated(s.detail[j.key])
<1>1. j \in Jobs /\ s.detail \in [PrKeys -> Details]
  BY DEF DetailsFit, DetailTyped
<1>2. j.key \in PrKeys /\ j.of \in Known /\ s.detail[j.key] \in Details
  BY <1>1 DEF Jobs
<1>3. Loading(s.detail[j.key])
  BY DEF Awaited, Loading
<1>4. s.detail[j.key].has # "none"
  <2>1. s.detail[j.key] # NoDetail
    BY <1>3, NoDetailShape
  <2> QED BY <1>2, <2>1 DEF DetailsFit, DetailsKnown
<1>5. s.answer[j.key] \in Facts /\ Live(s, j.key)
  BY <1>2, <1>4 DEF DetailsFit, DetailsKnown
<1>6. JobFits(s, j)
  BY DEF DetailsFit, JobsFit
<1> QED BY <1>2, <1>3, <1>4, <1>5, <1>6 DEF JobFits

\* A detail that landed is not loading; unless it is due, nothing outdated it.
LEMMA DetailLandedShape ==
    ASSUME NEW d \in Details, NEW j, j.of \in Known, NEW ok \in BOOLEAN
    PROVE  /\ DetailLanded(d, j, ok) \in Details /\ ~Loading(DetailLanded(d, j, ok))
           /\ DetailLanded(d, j, ok).has # "none"
           /\ DetailLanded(d, j, ok).due = "no" => ~Outdated(d)
           /\ DetailLanded(d, j, ok).of \in {j.of, "failed"}
<1>1. PICK h, due, of : /\ h = IF ok \/ (d.due = "loading" /\ d.has = "ready") THEN "ready" ELSE "failed"
                        /\ due = IF d.due = "due" \/ d.again THEN "due" ELSE "no"
                        /\ of = IF ok THEN j.of ELSE "failed"
  OBVIOUS
<1>2. DetailLanded(d, j, ok) = [d EXCEPT !.has = h, !.due = due, !.again = FALSE, !.of = of]
  BY <1>1 DEF DetailLanded
<1>3. h \in {"ready", "failed"} /\ due \in {"due", "no"} /\ of \in {j.of, "failed"} /\ of \in Known
  BY <1>1 DEF Known
<1>4. due = "no" => ~Outdated(d)
  BY <1>1 DEF Outdated
<1> QED BY <1>2, <1>3, <1>4 DEF Details, Loading

\* The awaited fetch lands on its detail.
LEMMA DetailLandFits ==
    ASSUME NEW s, DetailsFit(s), NEW j \in s.asking, Awaited(s, j), NEW ok \in BOOLEAN, NEW u,
           u.record = s.record, u.answer = s.answer, u.last = s.last, u.asks = s.asks,
           u.asking = s.asking \ {j}, IsFiniteSet(u.asking),
           u.detail = [s.detail EXCEPT ![j.key] = DetailLanded(s.detail[j.key], j, ok)]
    PROVE  DetailsFit(u)
<1>1. PICK k, d, e : k = j.key /\ d = s.detail[k] /\ e = DetailLanded(d, j, ok)
  OBVIOUS
<1>2. /\ k \in PrKeys /\ d \in Details /\ s.answer[k] \in Facts /\ Live(s, k)
      /\ j.of \in Known /\ (j.of = s.answer[k] \/ Outdated(d))
  BY <1>1, AwaitedKnown
<1>3. /\ e \in Details /\ ~Loading(e) /\ e.has # "none" /\ (e.due = "no" => ~Outdated(d))
      /\ e.of \in {j.of, "failed"}
  BY <1>1, <1>2, DetailLandedShape
<1>4. DetailTyped(s) /\ s.detail \in [PrKeys -> Details] /\ u.detail = [s.detail EXCEPT ![k] = e]
  BY <1>1 DEF DetailsFit, DetailTyped
<1>5. u.detail[k] = e /\ \A l \in PrKeys : l # k => u.detail[l] = s.detail[l]
  BY <1>2, <1>4
<1>6. DetailTyped(u)
  <2>1. u.detail \in [PrKeys -> Details]
    BY <1>3, <1>4
  <2> QED BY <1>4, <2>1 DEF DetailTyped
<1>7. DetailsKnown(u)
  <2>1. Live(u, k) /\ \A l \in PrKeys : Live(s, l) => Live(u, l)
    BY <1>2, SameLive
  <2> QED BY <1>2, <1>3, <1>5, <2>1 DEF DetailsFit, DetailsKnown
<1>8. JobsFit(u)
  <2> SUFFICES ASSUME NEW i \in s.asks \union s.asking PROVE JobFits(u, i)
    BY DEF DetailsFit, JobsFit
  <2>1. i.key \in PrKeys /\ JobFits(s, i)
    BY <1>4 DEF DetailsFit, DetailTyped, JobsFit, Jobs
  <2>2. CASE i.key = k
    <3>1. ~Awaited(u, i)
      BY <1>3, <1>5, <2>2 DEF Awaited, Loading
    <3> QED BY <2>1, <3>1 DEF JobFits
  <2>3. CASE i.key # k
    BY <1>5, <2>1, <2>3 DEF JobFits, Awaited
  <2> QED BY <2>2, <2>3
<1>9. NotOlder(u)
  <2> SUFFICES ASSUME NEW l \in PrKeys, u.detail[l].has = "ready", u.detail[l].due = "no"
               PROVE  u.detail[l].of \in {u.answer[l], "failed"}
    BY DEF NotOlder
  <2>1. CASE l = k
    BY <1>2, <1>3, <1>5, <2>1
  <2>2. CASE l # k
    BY <1>5, <2>2 DEF DetailsFit, NotOlder
  <2> QED BY <2>1, <2>2
<1>10. InSight(u)
  <2> SUFFICES ASSUME NEW l \in PrKeys, Loading(u.detail[l])
               PROVE  (\E i \in u.asks \union u.asking : i.key = l /\ i.req = u.detail[l].req) \/ Shared(l)
    BY DEF InSight
  <2>1. l # k /\ u.detail[l] = s.detail[l]
    BY <1>3, <1>5
  <2>2. (\E i \in s.asks \union s.asking : i.key = l /\ i.req = s.detail[l].req) \/ Shared(l)
    BY <2>1 DEF DetailsFit, InSight
  <2> QED BY <1>1, <2>1, <2>2
<1> QED BY <1>6, <1>7, <1>8, <1>9, <1>10 DEF DetailsFit

\* DetailLands: a fetch that is awaited but not taken is of a branch that another
\* clone shows.
LEMMA DetailKeeps ==
    ASSUME PrIInv, NEW j \in prs.asking, NEW ok \in BOOLEAN, DetailLands(j, ok)
    PROVE  PrIInv' /\ prs'.answer = prs.answer
<1>1. PICK s : s = prs
  OBVIOUS
<1>2. /\ CacheFits(s, snap) /\ Flying(s) /\ j \in s.asking /\ watched \in SUBSET Clones
      /\ DOMAIN s = Fields /\ DetailsFit(s) /\ j \in Jobs /\ RecordsFit(s, snap)
  BY <1>1 DEF PrIInv, CacheFits, DetailsFit, DetailTyped
<1>3. PICK r : r = [s EXCEPT !.asking = s.asking \ {j}, !.busy = s.busy - 1]
  OBVIOUS
<1>4. Yields(s, r, j)
  BY <1>2, <1>3 DEF Yields, Alters, Fields
<1>5. /\ r.record = s.record /\ r.outage = s.outage /\ r.cycle = s.cycle /\ r.host = s.host
      /\ r.queue = s.queue /\ r.running = s.running /\ r.answer = s.answer /\ r.detail = s.detail
      /\ r.last = s.last /\ r.asks = s.asks /\ r.opens = s.opens /\ r.opening = s.opening
      /\ r.slots = s.slots /\ r.alert = s.alert /\ DOMAIN r = Fields
  BY <1>4 DEF Yields, Alters, Fields
<1>6. Counted(r) /\ IsFiniteSet(r.asking) /\ r.asking = s.asking \ {j}
  BY <1>2, <1>4, YieldCounts DEF Yields
<1>7. PICK c : c = j.clone
  OBVIOUS
<1>8. PICK v : v = [r EXCEPT !.detail[j.key] = DetailLanded(r.detail[j.key], j, ok)]
  OBVIOUS
<1>9. PICK u : u = IF Shows(r, c) /\ PrKey(c, r.record[c].branch) = j.key /\ Awaited(r, j)
                   THEN AskDetails(v, watched) ELSE r
  OBVIOUS
<1>10. prs' = Fill(u) /\ snap' = snap
  BY <1>1, <1>3, <1>7, <1>8, <1>9 DEF DetailLands
<1>11. Awaited(r, j) = Awaited(s, j)
  BY <1>5, SameAwaited
<1>12. ASSUME Shows(r, c), PrKey(c, r.record[c].branch) = j.key, Awaited(r, j)
       PROVE  CacheFits(u, snap) /\ Flying(u) /\ u.answer = s.answer
  <2>1. Alters(r, v, {"detail"}) /\ v.detail = [s.detail EXCEPT ![j.key] = DetailLanded(s.detail[j.key], j, ok)]
    BY <1>5, <1>8 DEF Alters, Fields
  <2>2. /\ v.record = s.record /\ v.outage = s.outage /\ v.cycle = s.cycle /\ v.host = s.host
        /\ v.queue = s.queue /\ v.running = s.running /\ v.answer = s.answer /\ v.alert = s.alert
        /\ v.last = s.last /\ v.asks = s.asks /\ v.asking = r.asking /\ v.opens = s.opens
        /\ v.opening = s.opening /\ v.slots = s.slots /\ v.busy = r.busy /\ DOMAIN v = Fields
    BY <1>5, <2>1 DEF Alters, Fields
  <2>3. Awaited(s, j)
    BY <1>11, <1>12
  <2>4. DetailsFit(v)
    BY <1>2, <1>6, <2>1, <2>2, <2>3, DetailLandFits
  <2>5. Counted(v)
    BY <1>5, <1>6, <2>2 DEF Counted
  <2>6. CacheFits(v, snap)
    BY <1>2, <2>2, <2>4, <2>5, SameRecords, SameHost, SameQueue DEF CacheFits
  <2>7. Flying(v)
    BY <1>2, <2>2, SameFlying
  <2>8. u = AskDetails(v, watched)
    BY <1>9, <1>12
  <2>9. CacheFits(u, snap) /\ Alters(v, u, AskedFields)
    BY <1>2, <2>6, <2>8, AskFits
  <2>10. u.record = v.record /\ u.queue = v.queue /\ u.running = v.running /\ u.answer = v.answer
    BY <2>9 DEF Alters, AskedFields, Fields
  <2> QED BY <2>2, <2>7, <2>9, <2>10, SameFlying
<1>13. ASSUME ~(Shows(r, c) /\ PrKey(c, r.record[c].branch) = j.key /\ Awaited(r, j))
       PROVE  CacheFits(u, snap) /\ Flying(u) /\ u.answer = s.answer
  <2>1. u = r
    BY <1>9, <1>13
  <2>2. ASSUME Awaited(s, j) PROVE Shared(j.key)
    <3>1. s.answer[j.key] \in Facts /\ Live(s, j.key) /\ remoteOf[c] = j.key[1]
      BY <1>2, <1>7, <2>2, AwaitedKnown
    <3>2. PICK x \in Clones : s.record[x].remote /\ PrKey(x, s.record[x].branch) = j.key
      BY <3>1 DEF Live
    <3>3. s.record[x].branch = snap[x].branch /\ s.record[x] # NoRecord
      BY <1>2, <3>2, NoRecordShape DEF RecordsFit, Follows
    <3>4. x # c
      BY <1>5, <1>11, <1>13, <2>2, <3>1, <3>2, <3>3 DEF Shows, Current, SnapKey
    <3>5. remoteOf[x] = j.key[1] /\ c \in Clones
      BY <1>2, <1>7, <3>2 DEF PrKey, Jobs
    <3> QED BY <3>1, <3>4, <3>5 DEF Shared
  <2>3. DetailsFit(r)
    <3>1. r.asks \intersect r.asking = {}
      BY <1>2, <1>5, <1>6 DEF DetailsFit, DetailTyped
    <3>2. \A i \in s.asks \union s.asking : Awaited(s, i) => i \in r.asks \union r.asking \/ Shared(i.key)
      BY <1>5, <1>6, <2>2
    <3> QED BY <1>2, <1>5, <1>6, <3>1, <3>2, FewerJobsFit
  <2>4. CacheFits(r, snap)
    BY <1>2, <1>5, <1>6, <2>3, SameRecords, SameHost, SameQueue DEF CacheFits
  <2>5. Flying(r)
    BY <1>2, <1>5, SameFlying
  <2> QED BY <1>5, <2>1, <2>4, <2>5
<1>14. CacheFits(u, snap) /\ Flying(u) /\ u.answer = s.answer
  BY <1>12, <1>13
<1>15. CacheFits(prs', snap) /\ Covered(prs') /\ Alters(u, prs', {"slots"})
  BY <1>10, <1>14, FillFits
<1>16. prs'.record = u.record /\ prs'.queue = u.queue /\ prs'.running = u.running /\ prs'.answer = u.answer
  BY <1>15 DEF Alters, Fields
<1>17. Flying(prs')
  BY <1>14, <1>16, SameFlying
<1>18. Whole(prs', snap')
  BY <1>10, <1>15, <1>17 DEF Whole
<1> QED BY <1>1, <1>14, <1>16, <1>18, StepWhole DEF DetailLands, PrIInv

-----------------------------------------------------------------------------
(* Openings *)

\* Neither the openings on workers nor the alert touch the rest.
LEMMA SideFits ==
    ASSUME NEW s, CacheFits(s, snap), Flying(s), NEW u, Alters(s, u, {"opening", "alert"}),
           u.alert \in BOOLEAN, u.opening \in SUBSET Opens
    PROVE  /\ CacheFits(u, snap) /\ Flying(u) /\ (Covered(s) => Covered(u))
           /\ u.answer = s.answer /\ u.record = s.record /\ SameDetailFields(s, u)
           /\ u.queue = s.queue /\ u.opens = s.opens /\ u.slots = s.slots /\ u.busy = s.busy
           /\ u.running = s.running
<1>1. /\ u.record = s.record /\ u.outage = s.outage /\ u.cycle = s.cycle /\ u.host = s.host
      /\ u.queue = s.queue /\ u.running = s.running /\ SameDetailFields(s, u)
      /\ u.opens = s.opens /\ u.slots = s.slots /\ u.busy = s.busy /\ DOMAIN u = Fields
  BY DEF Alters, Fields, SameDetailFields
<1>2. Counted(u)
  BY <1>1 DEF CacheFits, Counted, SameDetailFields
<1>3. CacheFits(u, snap)
  BY <1>1, <1>2, SameRecords, SameHost, SameQueue, SameDetails, SameLive DEF CacheFits
<1>4. Flying(u)
  BY <1>1, SameFlying
<1>5. Covered(s) => Covered(u)
  <2>1. AwaitsLess(s, u)
    BY <1>1, SameAwaited DEF AwaitsLess, SameDetailFields
  <2> QED BY <1>1, <1>3, <2>1, CoveredLess DEF SameDetailFields
<1> QED BY <1>1, <1>3, <1>4, <1>5 DEF SameDetailFields

\* A clone without a record gets one.
LEMMA NewRecordFits ==
    ASSUME NEW s, CacheFits(s, snap), Flying(s), NEW c \in Clones, s.record[c] = NoRecord,
           snap[c].branch \in Branches, NEW u, Alters(s, u, {"record"}),
           u.record = [s.record EXCEPT ![c] = Fresh(snap[c].branch, FALSE)]
    PROVE  CacheFits(u, snap) /\ Flying(u)
<1>1. /\ u.outage = s.outage /\ u.cycle = s.cycle /\ u.host = s.host
      /\ u.queue = s.queue /\ u.running = s.running /\ SameDetailFields(s, u) /\ u.alert = s.alert
      /\ u.opens = s.opens /\ u.opening = s.opening /\ u.slots = s.slots /\ u.busy = s.busy
      /\ DOMAIN u = Fields
  BY DEF Alters, Fields, SameDetailFields
<1>2. RecordsFit(s, snap) /\ s.record \in [Clones -> Records]
  BY DEF CacheFits, RecordsFit
<1>3. PICK r : r = Fresh(snap[c].branch, FALSE)
  OBVIOUS
<1>4. r \in Records /\ r.branch = snap[c].branch /\ ~r.inFlight /\ ~r.failed
  BY <1>3, FreshShape
<1>5. u.record \in [Clones -> Records]
  BY <1>2, <1>3, <1>4
<1>6. u.record[c] = r /\ \A x \in Clones \ {c} : u.record[x] = s.record[x]
  BY <1>2, <1>3
<1>7. RecordsFit(u, snap)
  <2>1. Follows(u, snap)
    BY <1>2, <1>4, <1>6, PrLookupsAssumption DEF RecordsFit, Follows
  <2>2. \A x \in Clones : u.record[x].failed <=> s.record[x].failed
    BY <1>4, <1>6, NoRecordShape
  <2> QED BY <1>1, <1>2, <1>5, <2>1, <2>2 DEF RecordsFit
<1>8. Flying(u)
  BY <1>1, <1>4, <1>6 DEF Flying
<1>9. \A k \in PrKeys : Live(s, k) => Live(u, k)
  <2>1. \A x \in Clones : s.record[x].remote => u.record[x] = s.record[x]
    BY <1>6, NoRecordShape
  <2> QED BY <2>1 DEF Live
<1>10. CacheFits(u, snap)
  <2>1. Counted(u)
    BY <1>1 DEF CacheFits, Counted, SameDetailFields
  <2> QED BY <1>1, <1>7, <1>9, <2>1, SameHost, SameQueue, SameDetails DEF CacheFits
<1> QED BY <1>8, <1>10

\* An answer is kept for a branch the clone has left.
LEMMA KeptAnswerFits ==
    ASSUME NEW s, CacheFits(s, snap), Flying(s), NEW k \in PrKeys, NEW a \in Answers
    PROVE  LET u == SetAnswer(s, k, a)
           IN /\ CacheFits(u, snap) /\ Flying(u) /\ AwaitsLess(s, u) /\ AnswerSet(s, u, k, a)
              /\ u.queue = s.queue /\ u.opens = s.opens /\ u.slots = s.slots /\ u.busy = s.busy
              /\ u.asks = s.asks /\ u.opening = s.opening
<1>1. PICK u : u = SetAnswer(s, k, a)
  OBVIOUS
<1>2. a \in Known
  BY DEF Answers, Known
<1>3. DetailsFit(u) /\ AwaitsLess(s, u) /\ Alters(s, u, {"answer", "detail"}) /\ AnswerSet(s, u, k, a)
  BY <1>1, <1>2, SetAnswerFits DEF CacheFits
<1>4. /\ u.record = s.record /\ u.outage = s.outage /\ u.cycle = s.cycle /\ u.host = s.host
      /\ u.queue = s.queue /\ u.running = s.running /\ u.alert = s.alert /\ u.asking = s.asking
      /\ u.asks = s.asks /\ u.opens = s.opens /\ u.opening = s.opening /\ u.slots = s.slots
      /\ u.busy = s.busy /\ DOMAIN u = Fields
  BY <1>3 DEF Alters, Fields
<1>5. Counted(u)
  BY <1>4 DEF CacheFits, Counted
<1>6. CacheFits(u, snap)
  BY <1>3, <1>4, <1>5, SameRecords, SameHost, SameQueue DEF CacheFits
<1>7. Flying(u)
  BY <1>4, SameFlying
<1> QED BY <1>1, <1>3, <1>4, <1>6, <1>7

\* OpenLands, for a clone with a record, without one, or on another branch.
LEMMA OpenLandsKeep ==
    ASSUME PrIInv, NEW o \in prs.opening, NEW a \in Answers, OpenLands(o, a)
    PROVE  PrIInv' /\ \A x \in Clones : Stays(x)
<1>1. PICK s : s = prs
  OBVIOUS
<1>2. /\ CacheFits(s, snap) /\ Flying(s) /\ Covered(s) /\ DOMAIN s = Fields /\ RecordsFit(s, snap)
      /\ s.opening \in SUBSET Opens /\ o \in Opens
  BY <1>1 DEF PrIInv, CacheFits, Counted
<1>3. PICK c, b : c = o.clone /\ b = o.branch
  OBVIOUS
<1>4. PICK k : k = PrKey(c, b)
  OBVIOUS
<1>5. c \in Clones /\ b \in Branches /\ k \in PrKeys
  BY <1>2, <1>3, <1>4 DEF Opens, PrKeys
<1>6. PICK r : r = [s EXCEPT !.opening = s.opening \ {o}]
  OBVIOUS
<1>7. Alters(s, r, {"opening", "alert"}) /\ r.opening = s.opening \ {o} /\ r.alert = s.alert
  BY <1>2, <1>6 DEF Alters, Fields
<1>8. /\ CacheFits(r, snap) /\ Flying(r) /\ Covered(r) /\ r.answer = s.answer /\ r.record = s.record
      /\ SameDetailFields(s, r) /\ r.queue = s.queue /\ r.running = s.running /\ DOMAIN r = Fields
  <2>1. r.alert \in BOOLEAN /\ r.opening \in SUBSET Opens
    BY <1>2, <1>7 DEF CacheFits
  <2> QED BY <1>2, <1>7, <2>1, SideFits DEF CacheFits
<1>9. PICK t : t = IF r.record[c].branch = b THEN r ELSE [r EXCEPT !.record[c] = Fresh(b, FALSE)]
  OBVIOUS
<1>10. PICK p : p = PrLand(t, c, b, a, 0)
  OBVIOUS
<1>11. PICK landed : landed = IF snap[c].branch = b
                              THEN IF r.record[c] \notin {t.record[c], NoRecord} THEN Settle(p) ELSE p
                              ELSE SetAnswer(r, k, a)
  OBVIOUS
<1>12. PICK al \in BOOLEAN : al = (landed.alert /\ (r.queue # <<>> \/ r.running # {}))
  OBVIOUS
<1>13. PICK u : u = [landed EXCEPT !.alert = al]
  OBVIOUS
<1>14. prs' = u /\ snap' = snap /\ remoteOf' = remoteOf
  <2> DEFINE c0 == o.clone
             s0 == [prs EXCEPT !.opening = prs.opening \ {o}]
             t0 == IF s0.record[c0].branch = o.branch THEN s0
                   ELSE [s0 EXCEPT !.record[c0] = Fresh(o.branch, FALSE)]
             p0 == PrLand(t0, c0, o.branch, a, 0)
             landed0 == IF snap[c0].branch = o.branch
                        THEN IF s0.record[c0] \notin {t0.record[c0], NoRecord} THEN Settle(p0) ELSE p0
                        ELSE SetAnswer(s0, PrKey(c0, o.branch), a)
  <2>1. /\ prs' = [landed0 EXCEPT !.alert = landed0.alert /\ (s0.queue # <<>> \/ s0.running # {})]
        /\ snap' = snap /\ remoteOf' = remoteOf
    BY DEF OpenLands
  <2>2. c0 = c /\ o.branch = b
    BY <1>3
  <2>3. s0 = r
    BY <1>1, <1>6
  <2>4. t0 = t
    <3> HIDE DEF s0, c0
    <3> QED BY <1>9, <2>2, <2>3
  <2>5. p0 = p
    <3> HIDE DEF t0, c0
    <3> QED BY <1>10, <2>2, <2>4
  <2>6. landed0 = landed
    <3> HIDE DEF p0, t0, s0, c0
    <3> QED BY <1>4, <1>11, <2>2, <2>3, <2>4, <2>5
  <2> HIDE DEF landed0, p0, t0, s0, c0
  <2> QED BY <1>12, <1>13, <2>1, <2>3, <2>6
<1>15. ASSUME snap[c].branch = b
       PROVE  /\ CacheFits(landed, snap) /\ Flying(landed) /\ AwaitsLess(r, landed)
              /\ landed.queue = r.queue /\ landed.opens = r.opens /\ landed.slots = r.slots
              /\ landed.busy = r.busy /\ landed.asks = r.asks
              /\ \A m \in PrKeys : m # k => landed.answer[m] = s.answer[m]
              /\ s.record[c].branch = b /\ s.record[c].remote /\ s.answer[k] \in Ready => landed.answer[k] # "failed"
  <2>1. /\ CacheFits(t, snap) /\ Flying(t) /\ Alters(r, t, {"record"}) /\ t.record[c].branch = b
        /\ r.record[c] \in {t.record[c], NoRecord}
        /\ s.record[c].branch = b => t.record[c] = s.record[c]
    <3>1. CASE r.record[c].branch = b
      <4>1. t = r
        BY <1>9, <3>1
      <4> QED BY <1>8, <3>1, <4>1 DEF Alters
    <3>2. CASE r.record[c].branch # b
      <4>1. r.record[c] = NoRecord
        BY <1>2, <1>5, <1>8, <1>15, <3>2 DEF RecordsFit, Follows
      <4>2. t = [r EXCEPT !.record[c] = Fresh(b, FALSE)]
        BY <1>9, <3>2
      <4>3. Alters(r, t, {"record"}) /\ t.record = [r.record EXCEPT ![c] = Fresh(snap[c].branch, FALSE)]
        BY <1>8, <1>15, <4>2 DEF Alters, Fields
      <4>4. CacheFits(t, snap) /\ Flying(t)
        BY <1>5, <1>8, <1>15, <4>1, <4>3, NewRecordFits
      <4>5. t.record[c] = Fresh(b, FALSE)
        BY <1>5, <1>8, <1>15, <4>3 DEF CacheFits, RecordsFit
      <4> QED BY <1>5, <1>8, <3>2, <4>1, <4>3, <4>4, <4>5, FreshShape
    <3> QED BY <3>1, <3>2
  <2>2. /\ SameDetailFields(r, t) /\ t.queue = r.queue /\ t.opens = r.opens /\ t.slots = r.slots
        /\ t.busy = r.busy
    BY <2>1 DEF Alters, Fields, SameDetailFields
  <2>3. Lands(t, p, snap, c, k, a)
    BY <1>4, <1>5, <1>10, <1>15, <2>1, PrLandFits DEF CacheFits
  <2>4. /\ CacheFits(p, snap) /\ Flying(p) /\ p.queue = t.queue /\ p.slots = t.slots
        /\ p.opens = t.opens /\ p.busy = t.busy /\ p.asks = t.asks
    BY <2>1, <2>3, LandsFits
  <2>5. landed = p
    BY <1>11, <1>15, <2>1
  <2>6. AwaitsLess(r, p)
    BY <2>2, <2>3, AwaitsLessTrans DEF SameDetailFields, Lands
  <2>7. \A m \in PrKeys : m # k => p.answer[m] = s.answer[m]
    BY <1>8, <2>2, <2>3 DEF Lands, SameDetailFields
  <2>8. s.record[c].branch = b /\ s.record[c].remote /\ s.answer[k] \in Ready => p.answer[k] # "failed"
    BY <1>8, <2>1, <2>2, <2>3 DEF Lands, SameDetailFields
  <2> QED BY <2>2, <2>4, <2>5, <2>6, <2>7, <2>8 DEF SameDetailFields
<1>16. ASSUME snap[c].branch # b
       PROVE  /\ CacheFits(landed, snap) /\ Flying(landed) /\ AwaitsLess(r, landed)
              /\ landed.queue = r.queue /\ landed.opens = r.opens /\ landed.slots = r.slots
              /\ landed.busy = r.busy /\ landed.asks = r.asks
              /\ \A m \in PrKeys : m # k => landed.answer[m] = s.answer[m]
  <2>1. landed = SetAnswer(r, k, a)
    BY <1>11, <1>16
  <2> QED BY <1>5, <1>8, <2>1, KeptAnswerFits DEF AnswerSet
<1>17. /\ CacheFits(landed, snap) /\ Flying(landed) /\ AwaitsLess(r, landed)
       /\ landed.queue = r.queue /\ landed.opens = r.opens /\ landed.slots = r.slots
       /\ landed.busy = r.busy /\ landed.asks = r.asks
       /\ \A m \in PrKeys : m # k => landed.answer[m] = s.answer[m]
  BY <1>15, <1>16
<1>18. Covered(landed)
  BY <1>8, <1>17, CoveredLess
<1>19. Alters(landed, u, {"opening", "alert"}) /\ u.alert = al /\ u.opening = landed.opening
  BY <1>13, <1>17 DEF CacheFits, Alters, Fields
<1>20. CacheFits(u, snap) /\ Flying(u) /\ Covered(u) /\ u.answer = landed.answer
  <2>1. u.alert \in BOOLEAN /\ u.opening \in SUBSET Opens
    BY <1>12, <1>17, <1>19 DEF CacheFits, Counted
  <2> QED BY <1>17, <1>18, <1>19, <2>1, SideFits
<1>21. Whole(prs', snap')
  BY <1>14, <1>20 DEF Whole
<1>22. \A m \in PrKeys : m # k => prs'.answer[m] = prs.answer[m]
  BY <1>1, <1>14, <1>17, <1>20
<1>23. ASSUME Mark(c) \in Ready, SnapKey(c) = k PROVE prs'.answer[k] # "failed"
  <2>1. /\ prs.record[c].branch = snap[c].branch /\ prs.record[c].remote /\ prs.answer[k] \in Ready
    BY <1>5, <1>23, MarkShape
  <2>2. snap[c].branch = b
    BY <1>4, <1>23 DEF SnapKey, PrKey
  <2> QED BY <1>1, <1>14, <1>15, <1>20, <2>1, <2>2
<1>24. \A x \in Clones : Stays(x)
  BY <1>4, <1>5, <1>14, <1>22, <1>23, OneKeyStays
<1> QED BY <1>21, <1>24, StepWhole DEF OpenLands, PrIInv

\* A panicked opening is forgotten.
LEMMA OpenPanicsKeep ==
    ASSUME PrIInv, NEW o \in prs.opening, OpenPanics(o)
    PROVE  PrIInv' /\ prs'.answer = prs.answer
<1>1. CacheFits(prs, snap) /\ Flying(prs) /\ Covered(prs) /\ prs.opening \in SUBSET Opens
  BY DEF PrIInv, CacheFits, Counted
<1>2. PICK s, u : s = prs /\ u = [s EXCEPT !.opening = s.opening \ {o}]
  OBVIOUS
<1>3. prs' = u /\ snap' = snap
  BY <1>2 DEF OpenPanics
<1>4. Alters(s, u, {"opening", "alert"}) /\ u.opening = s.opening \ {o} /\ u.alert = s.alert
  BY <1>1, <1>2 DEF Alters, Fields, CacheFits
<1>5. CacheFits(u, snap) /\ Flying(u) /\ Covered(u) /\ u.answer = s.answer
  <2>1. u.alert \in BOOLEAN /\ u.opening \in SUBSET Opens
    BY <1>1, <1>2, <1>4 DEF CacheFits
  <2>2. CacheFits(s, snap) /\ Flying(s) /\ Covered(s)
    BY <1>1, <1>2
  <2> QED BY <1>4, <2>1, <2>2, SideFits
<1> QED BY <1>2, <1>3, <1>5, StepWhole DEF Whole, OpenPanics, PrIInv

-----------------------------------------------------------------------------
(* Steps that keep every answer cost no badge. *)

LEMMA KeptStays ==
    ASSUME PrIInv, snap' = snap, remoteOf' = remoteOf, prs'.answer = prs.answer, NEW x \in Clones
    PROVE  Stays(x)
<1> SUFFICES ASSUME Mark(x) \in Ready, Mark(x)' = "failed" PROVE FALSE
  BY DEF Stays
<1>1. prs.answer[SnapKey(x)] \in Ready
  BY MarkShape
<1>2. prs'.answer[SnapKey(x)] = "failed"
  <2>1. SnapKey(x)' = SnapKey(x)
    BY DEF SnapKey, PrKey
  <2> QED BY <2>1 DEF Mark
<1> QED BY <1>1, <1>2, PrLookupsAssumption DEF Ready

\* Queueing lookups changes no answer.
LEMMA QueueKeepsAnswers ==
    ASSUME NEW s, DOMAIN s = Fields, NEW T
    PROVE  Queue(s, T).answer = s.answer
<1>1. PICK q : q = s.queue \o SetToSeq(T \ (ToSet(s.queue) \union s.running))
  OBVIOUS
<1>2. PICK t : t = [s EXCEPT !.queue = q]
  OBVIOUS
<1>3. PICK m : m = Max({t.slots, Len(t.opens) + Min({Len(t.queue) + Cardinality(t.asks), PrMax - t.busy})})
  OBVIOUS
<1>4. Queue(s, T) = [t EXCEPT !.slots = m]
  BY <1>1, <1>2, <1>3 DEF Queue, Fill
<1>5. t.answer = s.answer /\ DOMAIN t = Fields
  BY <1>2 DEF Fields
<1> QED BY <1>4, <1>5 DEF Fields

\* A status drops answers and marks no failure.
LEMMA StatusStays ==
    ASSUME PrIInv, NEW c \in Clones, NEW b \in Branches \union {Gone}, NEW counted \in BOOLEAN,
           StatusApplied(c, b, counted), NEW x \in Clones
    PROVE  Stays(x)
<1> SUFFICES ASSUME Mark(x) \in Ready, Mark(x)' = "failed" PROVE FALSE
  BY DEF Stays
<1>1. /\ prs.record[x].branch = snap[x].branch /\ SnapKey(x) \in PrKeys
      /\ prs.answer[SnapKey(x)] \in Ready
  BY MarkShape
<1>2. "failed" \notin Ready
  BY PrLookupsAssumption DEF Ready
<1>3. prs' = Synced(prs, snap') /\ remoteOf' = remoteOf
  BY DEF StatusApplied
<1>4. CacheFits(prs, snap) /\ Flying(prs)
  BY DEF PrIInv
<1>5. snap' \in Rows
  <2>1. snap \in Rows
    BY <1>4 DEF CacheFits, RecordsFit
  <2> QED BY <2>1 DEF StatusApplied, Rows
<1>6. /\ \A k \in PrKeys : prs'.answer[k] \in {prs.answer[k], "none"}
      /\ prs'.record[x].branch = prs.record[x].branch \/ ~prs'.record[x].remote
  BY <1>3, <1>4, <1>5, SyncedFits
<1>7. /\ prs'.record[x].branch = snap'[x].branch /\ prs'.record[x].remote
      /\ prs'.answer[SnapKey(x)'] = "failed"
  BY DEF Mark, Current
<1>8. snap'[x].branch = snap[x].branch
  BY <1>1, <1>6, <1>7
<1>9. SnapKey(x)' = SnapKey(x)
  BY <1>3, <1>8 DEF SnapKey, PrKey
<1> QED BY <1>1, <1>2, <1>6, <1>7, <1>9

\* Handlers that only ask or start keep every answer.
LEMMA InputsKeepAnswers ==
    ASSUME PrIInv, \/ \E clones \in SUBSET Clones : ForgetLookups(clones) \/ RefreshPrs(clones) \/ PeekPrs(clones)
                   \/ \E due \in SUBSET Clones : PrPollTick(due)
                   \/ \E c \in Clones : OpenPr(c)
                   \/ SpawnPr
    PROVE  prs'.answer = prs.answer /\ snap' = snap /\ remoteOf' = remoteOf
<1>1. PICK s : s = prs
  OBVIOUS
<1>2. CacheFits(s, snap) /\ DOMAIN s = Fields
  BY <1>1 DEF PrIInv, CacheFits
<1>3. ASSUME NEW clones \in SUBSET Clones, ForgetLookups(clones)
      PROVE  prs'.answer = prs.answer /\ snap' = snap /\ remoteOf' = remoteOf
  <2>1. PICK R, D : prs' = [s EXCEPT !.record = R, !.detail = D]
    BY <1>1, <1>3 DEF ForgetLookups
  <2> QED BY <1>1, <1>2, <1>3, <2>1 DEF ForgetLookups, Fields
<1>4. ASSUME NEW clones \in SUBSET Clones, RefreshPrs(clones)
      PROVE  prs'.answer = prs.answer /\ snap' = snap /\ remoteOf' = remoteOf
  <2>1. PICK R, D, T : prs' = Queue([s EXCEPT !.record = R, !.detail = D], T)
    BY <1>1, <1>4 DEF RefreshPrs
  <2>2. PICK t : t = [s EXCEPT !.record = R, !.detail = D]
    OBVIOUS
  <2>3. t.answer = s.answer /\ DOMAIN t = Fields
    BY <1>2, <2>2 DEF Fields
  <2>4. Queue(t, T).answer = t.answer
    BY <2>3, QueueKeepsAnswers
  <2>5. snap' = snap /\ remoteOf' = remoteOf
    BY <1>4 DEF RefreshPrs
  <2> QED BY <1>1, <2>1, <2>2, <2>3, <2>4, <2>5
<1>5. ASSUME NEW clones \in SUBSET Clones, PeekPrs(clones)
      PROVE  prs'.answer = prs.answer /\ snap' = snap /\ remoteOf' = remoteOf
  <2>1. PICK u : u = AskDetails(s, clones)
    OBVIOUS
  <2>2. Alters(s, u, AskedFields)
    BY <1>2, <2>1, AskFits
  <2>3. u.answer = s.answer
    BY <2>2 DEF Alters, AskedFields, Fields
  <2> QED BY <1>1, <1>5, <2>1, <2>3 DEF PeekPrs
<1>6. ASSUME NEW due \in SUBSET Clones, PrPollTick(due)
      PROVE  prs'.answer = prs.answer /\ snap' = snap /\ remoteOf' = remoteOf
  <2>1. PICK R, now, T : prs' = Queue([s EXCEPT !.cycle = now, !.record = R], T)
    BY <1>1, <1>6 DEF PrPollTick
  <2>2. PICK t : t = [s EXCEPT !.cycle = now, !.record = R]
    OBVIOUS
  <2>3. t.answer = s.answer /\ DOMAIN t = Fields
    BY <1>2, <2>2 DEF Fields
  <2>4. Queue(t, T).answer = t.answer
    BY <2>3, QueueKeepsAnswers
  <2>5. snap' = snap /\ remoteOf' = remoteOf
    BY <1>6 DEF PrPollTick
  <2> QED BY <1>1, <2>1, <2>2, <2>3, <2>4, <2>5
<1>7. ASSUME NEW c \in Clones, OpenPr(c)
      PROVE  prs'.answer = prs.answer /\ snap' = snap /\ remoteOf' = remoteOf
  <2>1. PICK q : prs' = [s EXCEPT !.opens = q, !.slots = s.slots + 1]
    BY <1>1, <1>7 DEF OpenPr
  <2> QED BY <1>1, <1>2, <1>7, <2>1 DEF OpenPr, Fields
<1>8. ASSUME SpawnPr
      PROVE  prs'.answer = prs.answer /\ snap' = snap /\ remoteOf' = remoteOf
  <2>1. PICK t : t = [s EXCEPT !.slots = s.slots - 1]
    OBVIOUS
  <2>2. t.answer = s.answer /\ DOMAIN t = Fields
    BY <1>2, <2>1 DEF Fields
  <2>3. \E A, B, C, D, E, F, G : prs' \in {[t EXCEPT !.opens = A, !.opening = B], t,
                                           [t EXCEPT !.asks = C, !.asking = D, !.busy = E],
                                           [t EXCEPT !.asks = C, !.queue = F, !.running = G, !.busy = E],
                                           [t EXCEPT !.asks = C]}
    <3>1. PICK left : left = StillAsked(t)
      OBVIOUS
    <3>2. PICK next : next = CHOOSE j \in left : \A i \in left : j.req <= i.req
      OBVIOUS
    <3>3. prs' = IF t.opens # <<>>
           THEN [t EXCEPT !.opens = Tail(t.opens), !.opening = t.opening \union {Head(t.opens)}]
           ELSE IF t.busy >= PrMax THEN t
           ELSE IF left # {}
           THEN [t EXCEPT !.asks = {j \in t.asks : j.req > next.req}, !.asking = t.asking \union {next},
                          !.busy = t.busy + 1]
           ELSE IF t.queue # <<>>
           THEN [t EXCEPT !.asks = {}, !.queue = Tail(t.queue), !.running = t.running \union {Head(t.queue)},
                          !.busy = t.busy + 1]
           ELSE [t EXCEPT !.asks = {}]
      BY <1>1, <1>8, <2>1, <3>1, <3>2 DEF SpawnPr
    <3> QED BY <3>3
  <2>4. prs'.answer = t.answer
    BY <2>2, <2>3 DEF Fields
  <2> QED BY <1>1, <1>8, <2>2, <2>4 DEF SpawnPr
<1> QED BY <1>3, <1>4, <1>5, <1>6, <1>7, <1>8

\* Every step keeps the invariant, and costs no badge that is not shared.
LEMMA NextKeeps ==
    ASSUME PrIInv, [PrNext]_prVars
    PROVE  PrIInv' /\ \A x \in Clones : Stays(x)
<1>1. \A c \in Clones : {c} \in SUBSET Clones
  OBVIOUS
<1>2. Clones \in SUBSET Clones /\ {} \in SUBSET Clones
  OBVIOUS
<1>3. ASSUME NEW c \in Clones, NEW b \in Branches \union {Gone}, NEW counted \in BOOLEAN,
             StatusApplied(c, b, counted)
      PROVE  PrIInv' /\ \A x \in Clones : Stays(x)
  BY <1>3, StatusKeeps, StatusStays
<1>4. ASSUME NEW clones \in SUBSET Clones,
             ForgetLookups(clones) \/ RefreshPrs(clones) \/ PeekPrs(clones) \/ PrPollTick(clones)
      PROVE  PrIInv' /\ \A x \in Clones : Stays(x)
  <2>1. PrIInv'
    BY <1>4, ForgetKeeps, RefreshKeeps, PeekKeeps, PollKeeps
  <2>2. prs'.answer = prs.answer /\ snap' = snap /\ remoteOf' = remoteOf
    BY <1>4, InputsKeepAnswers
  <2> QED BY <2>1, <2>2, KeptStays
<1>5. ASSUME NEW c \in Clones, OpenPr(c)
      PROVE  PrIInv' /\ \A x \in Clones : Stays(x)
  <2>1. prs'.answer = prs.answer /\ snap' = snap /\ remoteOf' = remoteOf
    BY <1>5, InputsKeepAnswers
  <2> QED BY <1>5, <2>1, OpenKeeps, KeptStays
<1>6. ASSUME SpawnPr
      PROVE  PrIInv' /\ \A x \in Clones : Stays(x)
  <2>1. prs'.answer = prs.answer /\ snap' = snap /\ remoteOf' = remoteOf
    BY <1>6, InputsKeepAnswers
  <2> QED BY <1>6, <2>1, SpawnKeeps, KeptStays
<1>7. ASSUME NEW t \in prs.running, NEW a \in Answers, BadgeLands(t, a)
      PROVE  PrIInv' /\ \A x \in Clones : Stays(x)
  BY <1>7, LandsKeep
<1>8. ASSUME NEW t \in prs.running, BadgePanics(t)
      PROVE  PrIInv' /\ \A x \in Clones : Stays(x)
  <2>1. snap' = snap /\ remoteOf' = remoteOf
    BY <1>8 DEF BadgePanics
  <2> QED BY <1>8, <2>1, PanicsKeep, KeptStays
<1>9. ASSUME NEW j \in prs.asking, NEW ok \in BOOLEAN, DetailLands(j, ok)
      PROVE  PrIInv' /\ \A x \in Clones : Stays(x)
  <2>1. snap' = snap /\ remoteOf' = remoteOf
    BY <1>9 DEF DetailLands
  <2> QED BY <1>9, <2>1, DetailKeeps, KeptStays
<1>10. ASSUME NEW o \in prs.opening, NEW a \in Answers, OpenLands(o, a)
       PROVE  PrIInv' /\ \A x \in Clones : Stays(x)
  BY <1>10, OpenLandsKeep
<1>11. ASSUME NEW o \in prs.opening, OpenPanics(o)
       PROVE  PrIInv' /\ \A x \in Clones : Stays(x)
  <2>1. snap' = snap /\ remoteOf' = remoteOf
    BY <1>11 DEF OpenPanics
  <2> QED BY <1>11, <2>1, OpenPanicsKeep, KeptStays
<1>12. ASSUME UNCHANGED prVars
       PROVE  PrIInv' /\ \A x \in Clones : Stays(x)
  <2>1. /\ prs' = prs /\ snap' = snap /\ remoteOf' = remoteOf /\ watched' = watched
        /\ prInputs' = prInputs
    BY <1>12 DEF prVars
  <2>2. Whole(prs', snap')
    BY <2>1 DEF Whole, PrIInv
  <2>3. prs'.answer = prs.answer
    BY <2>1
  <2> QED BY <2>1, <2>2, <2>3, StepWhole, KeptStays DEF PrIInv
<1>13. CASE PrNext
  <2>1. CASE \E c \in Clones, b \in Branches \union {Gone}, counted \in BOOLEAN : StatusApplied(c, b, counted)
    BY <1>3, <2>1
  <2>2. CASE \/ \E clones \in {{c} : c \in Clones} \union {Clones} : ForgetLookups(clones)
             \/ \E due \in SUBSET Clones : PrPollTick(due)
             \/ \E clones \in {{c} : c \in Clones} \union {Clones} : RefreshPrs(clones)
             \/ \E clones \in {{c} : c \in Clones} \union {Clones, {}} : PeekPrs(clones)
    BY <1>1, <1>2, <1>4, <2>2
  <2>3. CASE (\E c \in Clones : OpenPr(c)) \/ SpawnPr
    BY <1>5, <1>6, <2>3
  <2>4. CASE \/ \E t \in prs.running, a \in Answers : BadgeLands(t, a)
             \/ \E t \in prs.running : BadgePanics(t)
             \/ \E j \in prs.asking, ok \in BOOLEAN : DetailLands(j, ok)
             \/ \E o \in prs.opening, a \in Answers : OpenLands(o, a)
             \/ \E o \in prs.opening : OpenPanics(o)
    BY <1>7, <1>8, <1>9, <1>10, <1>11, <2>4
  <2> QED BY <1>13, <2>1, <2>2, <2>3, <2>4 DEF PrNext
<1> QED BY <1>12, <1>13

-----------------------------------------------------------------------------
(* Theorems *)

\* Two clones of the same remote are more than one.
LEMMA SharedCounts ==
    ASSUME NEW k, Shared(k)
    PROVE  Cardinality(Sharing(k)) > 1
<1>1. PICK c \in Clones, d \in Clones : c # d /\ remoteOf[c] = k[1] /\ remoteOf[d] = k[1]
  BY DEF Shared
<1>2. {c} \union {d} \subseteq Sharing(k) /\ Sharing(k) \subseteq Clones
  BY <1>1 DEF Sharing
<1>3. IsFiniteSet(Sharing(k))
  BY <1>2, PrLookupsAssumption, FS_Subset
<1>4. IsFiniteSet({c}) /\ Cardinality({c}) = 1
  BY FS_Singleton
<1>5. Cardinality({c} \union {d}) = 2
  <2>1. d \notin {c}
    BY <1>1
  <2>2. Cardinality({c} \union {d}) = Cardinality({c}) + 1
    BY <1>4, <2>1, FS_AddElement
  <2> QED BY <1>4, <2>2
<1>6. Cardinality({c} \union {d}) <= Cardinality(Sharing(k))
  BY <1>2, <1>3, FS_Subset
<1>7. Cardinality(Sharing(k)) \in Nat
  BY <1>3, FS_CardinalityType
<1> QED BY <1>5, <1>6, <1>7

\* The records, answers, details, queues and counts of the cache fit together
\* in every reachable state.
THEOREM CacheIsWhole == PrSpec => []PrIInv
<1>1. PrInit => PrIInv
  BY InitWhole
<1>2. PrIInv /\ [PrNext]_prVars => PrIInv'
  BY NextKeeps
<1> QED BY <1>1, <1>2, PTL DEF PrSpec

\* What is shown as under way is under way, and has a slot.
THEOREM LookupsAreInSight == PrSpec => []LookupsInSight
<1>1. PrIInv => LookupsInSight
  <2> SUFFICES ASSUME PrIInv PROVE LookupsInSight
    OBVIOUS
  <2>1. CacheFits(prs, snap) /\ Flying(prs) /\ Covered(prs)
    BY DEF PrIInv
  <2>2. BadgesInSight
    BY <2>1 DEF Flying, BadgesInSight
  <2>3. DetailsInSight
    <3>1. InSight(prs)
      BY <2>1 DEF CacheFits, DetailsFit
    <3> QED BY <3>1, SharedCounts DEF InSight, Loading, DetailsInSight
  <2>4. SlotsInSight
    BY <2>1 DEF CacheFits, Counted, Covered, SlotsInSight
  <2> QED BY <2>2, <2>3, <2>4 DEF LookupsInSight
<1> QED BY <1>1, CacheIsWhole, PTL

\* The outage shows exactly while a record's last lookup failed, and a cycle
\* backs the host off once at most.
THEOREM HostJudged == PrSpec => []HostIsJudged
<1>1. PrIInv => HostIsJudged
  BY DEF PrIInv, CacheFits, RecordsFit, Backs, HostIsJudged, OutageIsShown, BackoffPerCycle
<1> QED BY <1>1, CacheIsWhole, PTL

\* A detail that is not due was fetched for the answer that the badge shows.
THEOREM DetailsNotOlder == PrSpec => []DetailNotOlder
<1>1. PrIInv => DetailNotOlder
  BY DEF PrIInv, CacheFits, DetailsFit, NotOlder, DetailNotOlder
<1> QED BY <1>1, CacheIsWhole, PTL

\* A failed lookup costs no known badge of another record.
THEOREM BadgesStay == PrSpec => BadgeStays
<1>1. PrIInv /\ [PrNext]_prVars =>
        [\A c \in Clones : Mark(c) \in Ready /\ Mark(c)' = "failed" =>
             Cardinality(Sharing(SnapKey(c))) > 1]_prVars
  <2> SUFFICES ASSUME PrIInv, [PrNext]_prVars, NEW c \in Clones, Mark(c) \in Ready, Mark(c)' = "failed"
               PROVE  Cardinality(Sharing(SnapKey(c))) > 1
    OBVIOUS
  <2>1. Stays(c)
    BY NextKeeps
  <2> QED BY <2>1, SharedCounts DEF Stays
<1> QED BY <1>1, CacheIsWhole, PTL DEF PrSpec, BadgeStays
====
