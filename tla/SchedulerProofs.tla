--------------------------- MODULE SchedulerProofs ---------------------------
(***************************************************************************)
(* What the scheduler's queues keep, for any checkouts, caps and numbers   *)
(* of requests: the order of each lane, the write gate, the pane, and that *)
(* they implement StatusCollect.                                           *)
(*                                                                         *)
(* spawn_next takes the first startable job of a queue; that this is the   *)
(* first of its lane needs that a lane is open for all of its jobs or for  *)
(* none.  The gate needs to know where writes and switches can be          *)
(* (GateInv), the pane what may leave it behind (PaneIInv), and the        *)
(* refinement that no work is outstanding twice (Fit).                     *)
(***************************************************************************)
EXTENDS PaneLoad, QueueProofs, FiniteSetTheorems

-----------------------------------------------------------------------------
(* Numbers and sequences *)

\* The first of some positions.
LEMMA FirstIsLeast ==
    ASSUME NEW S \in SUBSET Nat, S # {}
    PROVE  First(S) \in S /\ \A k \in S : First(S) <= k
BY LeastNatural DEF First

-----------------------------------------------------------------------------
(* Bags: the jobs in flight *)

\* Every job a scheduler can hold.
AnyJob == {Discover(g) : g \in Nat}
          \union {ProcessRepo(g, p, f) : g \in Nat, p \in Paths, f \in BOOLEAN}
          \union {LoadPane(r) : r \in Nat}
          \union {UserWork(t) : t \in Tags}

JobBags == UNION {[S -> Nat \ {0}] : S \in SUBSET AnyJob}

Copies(b, j) == IF j \in DOMAIN b THEN b[j] ELSE 0

\* A job goes to a worker.
LEMMA BagAdds ==
    ASSUME NEW b \in JobBags, NEW j \in AnyJob
    PROVE  LET c == b (+) SetToBag({j})
           IN  /\ c \in JobBags
               /\ DOMAIN c = DOMAIN b \union {j}
               /\ \A k : Copies(c, k) = Copies(b, k) + (IF k = j THEN 1 ELSE 0)
<1> DEFINE one == SetToBag({j})
           c == b (+) one
<1>1. PICK S \in SUBSET AnyJob : b \in [S -> Nat \ {0}]
  BY DEF JobBags
<1>2. one = [e \in {j} |-> 1]
  BY DEF SetToBag
<1>3. DOMAIN one = {j} /\ one[j] = 1
  BY <1>2
<1>4. DOMAIN b = S /\ \A e \in S : b[e] \in Nat \ {0}
  BY <1>1
<1>5. c = [e \in S \union {j} |-> (IF e \in S THEN b[e] ELSE 0)
                                  + (IF e \in {j} THEN one[e] ELSE 0)]
  BY <1>3, <1>4 DEF (+)
<1> HIDE DEF one
<1>6. DOMAIN c = S \union {j}
  BY <1>5, Zenon
<1>7. \A e \in S \union {j} : c[e] = (IF e \in S THEN b[e] ELSE 0)
                                     + (IF e \in {j} THEN one[e] ELSE 0)
  BY <1>5
<1> HIDE DEF c
<1>8. \A e \in S \union {j} : c[e] \in Nat \ {0}
  BY <1>3, <1>4, <1>7
<1>9. c \in [S \union {j} -> Nat \ {0}]
  BY <1>5, <1>6, <1>7, <1>8 DEF c
<1>10. c \in JobBags
  BY <1>9 DEF JobBags
<1>11. \A k : Copies(c, k) = Copies(b, k) + (IF k = j THEN 1 ELSE 0)
  BY <1>3, <1>4, <1>6, <1>7 DEF Copies
<1> QED BY <1>4, <1>6, <1>10, <1>11 DEF c, one

\* A worker's job ends.
LEMMA BagDrops ==
    ASSUME NEW b \in JobBags, NEW j \in AnyJob
    PROVE  LET c == b (-) SetToBag({j})
           IN  /\ c \in JobBags
               /\ DOMAIN c \subseteq DOMAIN b /\ DOMAIN b \subseteq DOMAIN c \union {j}
               /\ \A k : Copies(c, k) <= Copies(b, k)
               /\ Copies(b, j) = 1 => DOMAIN c = DOMAIN b \ {j}
<1> DEFINE one == SetToBag({j})
           less == [e \in DOMAIN b |-> IF e \in DOMAIN one THEN b[e] - one[e] ELSE b[e]]
           c == b (-) one
<1>1. PICK S \in SUBSET AnyJob : b \in [S -> Nat \ {0}]
  BY DEF JobBags
<1>2. one = [e \in {j} |-> 1]
  BY DEF SetToBag
<1>3. DOMAIN one = {j} /\ one[j] = 1
  BY <1>2
<1>4. DOMAIN b = S /\ \A e \in S : b[e] \in Nat \ {0}
  BY <1>1
<1>5. c = [e \in {d \in DOMAIN less : less[d] > 0} |-> less[e]]
  BY DEF (-)
<1> HIDE DEF one
<1>6. DOMAIN less = S /\ \A e \in S : less[e] = IF e = j THEN b[e] - 1 ELSE b[e]
  BY <1>3, <1>4
<1> DEFINE left == {d \in S : less[d] > 0}
<1> HIDE DEF less, c
<1>7. c = [e \in left |-> less[e]]
  BY <1>5, <1>6
<1>8. \A e \in S : e # j => e \in left
  BY <1>4, <1>6
<1>9. left \subseteq S /\ \A e \in left : less[e] \in Nat \ {0} /\ less[e] <= b[e]
  BY <1>4, <1>6
<1>10. S \in SUBSET AnyJob /\ left \in SUBSET AnyJob
  BY <1>9
<1>11. ASSUME Copies(b, j) = 1 PROVE left = S \ {j}
  BY <1>4, <1>6, <1>8, <1>11 DEF Copies
<1> HIDE DEF left
<1>12. DOMAIN c = left /\ \A e \in left : c[e] = less[e]
  BY <1>7
<1>13. c \in [left -> Nat \ {0}]
  BY <1>7, <1>9
<1>14. c \in JobBags
  BY <1>10, <1>13 DEF JobBags
<1>15. \A k : Copies(c, k) <= Copies(b, k)
  BY <1>4, <1>9, <1>12 DEF Copies
<1> QED BY <1>4, <1>8, <1>9, <1>11, <1>12, <1>14, <1>15 DEF c, one

-----------------------------------------------------------------------------
(* Types: every method returns a scheduler *)

ColRecord == [gen : Nat, pending : SUBSET Paths, discovered : BOOLEAN,
              focused : Paths \union {NoPath}]

SchedRecord ==
    [nextGen : Nat \ {0}, col : ColRecord, latched : BOOLEAN,
     user : Seq(AnyJob), status : Seq(AnyJob), inflight : JobBags,
     paneLatest : Nat, paneInflight : Nat, panePending : BOOLEAN,
     exclusive : BOOLEAN, pathGen : [Paths -> Nat]]

LEMMA JobsAreJobs ==
    /\ \A g \in Nat : Discover(g) \in AnyJob /\ Discover(g).kind = "discover" /\ Discover(g).gen = g
    /\ \A g \in Nat, p \in Paths, f \in BOOLEAN :
           /\ ProcessRepo(g, p, f) \in AnyJob /\ ProcessRepo(g, p, f).kind = "status"
           /\ ProcessRepo(g, p, f).gen = g /\ ProcessRepo(g, p, f).path = p
    /\ \A r \in Nat : LoadPane(r) \in AnyJob /\ LoadPane(r).kind = "pane" /\ LoadPane(r).req = r
    /\ \A t \in Tags : UserWork(t) \in AnyJob /\ UserWork(t).kind = "user" /\ UserWork(t).tag = t
<1>1. \A g \in Nat : Discover(g) \in AnyJob /\ Discover(g).kind = "discover" /\ Discover(g).gen = g
  BY DEF AnyJob, Discover
<1>2. \A g \in Nat, p \in Paths, f \in BOOLEAN : ProcessRepo(g, p, f) \in AnyJob
  BY DEF AnyJob
<1>3. \A g \in Nat, p \in Paths, f \in BOOLEAN :
           /\ ProcessRepo(g, p, f).kind = "status"
           /\ ProcessRepo(g, p, f).gen = g /\ ProcessRepo(g, p, f).path = p
  BY DEF ProcessRepo
<1>4. \A r \in Nat : LoadPane(r) \in AnyJob /\ LoadPane(r).kind = "pane" /\ LoadPane(r).req = r
  BY DEF AnyJob, LoadPane
<1>5. \A t \in Tags : UserWork(t) \in AnyJob /\ UserWork(t).kind = "user" /\ UserWork(t).tag = t
  BY DEF AnyJob, UserWork
<1> QED BY <1>1, <1>2, <1>3, <1>4, <1>5

LEMMA StatusJobIsJob ==
    ASSUME NEW g \in Nat, NEW p \in Paths, NEW f \in BOOLEAN
    PROVE  /\ ProcessRepo(g, p, f) \in AnyJob /\ ProcessRepo(g, p, f).kind = "status"
           /\ ProcessRepo(g, p, f).gen = g /\ ProcessRepo(g, p, f).path = p
BY JobsAreJobs

\* A job is what its kind says.
LEMMA KindsOfJob ==
    ASSUME NEW j \in AnyJob
    PROVE  /\ j.kind \in {"discover", "status", "pane", "user"}
           /\ j.kind = "discover" => j.gen \in Nat /\ j = Discover(j.gen)
           /\ j.kind = "status" => /\ j.gen \in Nat /\ j.path \in Paths /\ j.focused \in BOOLEAN
                                   /\ j = ProcessRepo(j.gen, j.path, j.focused)
           /\ j.kind = "pane" => j.req \in Nat /\ j = LoadPane(j.req)
           /\ j.kind = "user" => j.tag \in Tags /\ j = UserWork(j.tag)
<1>1. CASE \E g \in Nat : j = Discover(g)
  BY <1>1 DEF Discover
<1>2. CASE \E g \in Nat, p \in Paths, f \in BOOLEAN : j = ProcessRepo(g, p, f)
  BY <1>2 DEF ProcessRepo
<1>3. CASE \E r \in Nat : j = LoadPane(r)
  BY <1>3 DEF LoadPane
<1>4. CASE \E t \in Tags : j = UserWork(t)
  BY <1>4 DEF UserWork
<1> QED BY <1>1, <1>2, <1>3, <1>4 DEF AnyJob

LEMMA InitSchedTyped == InitSched \in SchedRecord
<1>1. EmptyBag \in JobBags
  <2>1. EmptyBag = [e \in {} |-> 1]
    BY DEF EmptyBag, SetToBag
  <2>2. EmptyBag \in [{} -> Nat \ {0}]
    BY <2>1
  <2>3. {} \in SUBSET AnyJob
    OBVIOUS
  <2> QED BY <2>2, <2>3 DEF JobBags
<1>2. <<>> \in Seq(AnyJob)
  BY EmptySeq
<1>3. NoCollection \in ColRecord
  BY DEF NoCollection, ColRecord
<1> QED BY <1>1, <1>2, <1>3 DEF InitSched, SchedRecord

\* What a queue holds are jobs.
LEMMA QueueTyped ==
    ASSUME NEW q \in Seq(AnyJob)
    PROVE  ToSet(q) \subseteq AnyJob /\ DOMAIN q = 1..Len(q) /\ Len(q) \in Nat
BY LenProperties, ElementOfSeq DEF ToSet

LEMMA BagTyped ==
    ASSUME NEW b \in JobBags
    PROVE  BagToSet(b) \subseteq AnyJob
BY DEF JobBags, BagToSet

LEMMA StartCollectionTyped ==
    ASSUME NEW s \in SchedRecord, NEW focus \in Paths \union {NoPath}
    PROVE  StartCollection(s, focus) \in SchedRecord
<1>1. s.nextGen \in Nat \ {0} /\ s.user \in Seq(AnyJob)
  BY DEF SchedRecord
<1>2. Append(s.user, Discover(s.nextGen)) \in Seq(AnyJob)
  BY <1>1, JobsAreJobs, BackHolds
<1>3. [NoCollection EXCEPT !.gen = s.nextGen, !.focused = focus] \in ColRecord
  BY <1>1 DEF NoCollection, ColRecord
<1>4. s.nextGen + 1 \in Nat \ {0}
  BY <1>1
<1> QED BY <1>2, <1>3, <1>4 DEF StartCollection, SchedRecord

LEMMA FinishCollectionTyped ==
    ASSUME NEW s \in SchedRecord
    PROVE  FinishCollection(s) \in SchedRecord
<1>1. NoCollection \in ColRecord
  BY DEF NoCollection, ColRecord
<1>2. PICK idle \in SchedRecord : idle = [s EXCEPT !.col = NoCollection]
  BY <1>1 DEF SchedRecord
<1>3. s.col.focused \in Paths \union {NoPath}
  BY DEF SchedRecord, ColRecord
<1>4. StartCollection(idle, s.col.focused) \in SchedRecord
  BY <1>2, <1>3, StartCollectionTyped
<1> QED BY <1>2, <1>4, Zenon DEF FinishCollection

LEMMA NoteRepoDoneTyped ==
    ASSUME NEW s \in SchedRecord, NEW p \in Paths
    PROVE  NoteRepoDone(s, p) \in SchedRecord
<1>1. PICK noted \in SchedRecord : noted = [s EXCEPT !.col.pending = @ \ {p}]
  BY DEF SchedRecord, ColRecord
<1>2. FinishCollection(noted) \in SchedRecord
  BY <1>1, FinishCollectionTyped
<1> QED BY <1>1, <1>2, Zenon DEF NoteRepoDone

LEMMA AbandonCollectionTyped ==
    ASSUME NEW s \in SchedRecord, NEW g
    PROVE  AbandonCollection(s, g) \in SchedRecord
BY FinishCollectionTyped DEF AbandonCollection

LEMMA RequestCollectTyped ==
    ASSUME NEW s \in SchedRecord, NEW focus \in Paths \union {NoPath}
    PROVE  RequestCollect(s, focus) \in SchedRecord
<1>1. [s EXCEPT !.latched = TRUE] \in SchedRecord
  BY DEF SchedRecord
<1> QED BY <1>1, StartCollectionTyped DEF RequestCollect

LEMMA OnReloadRepoTyped ==
    ASSUME NEW s \in SchedRecord, NEW p \in Paths
    PROVE  OnReloadRepo(s, p) \in SchedRecord
<1>1. s.nextGen \in Nat \ {0} /\ s.user \in Seq(AnyJob) /\ s.pathGen \in [Paths -> Nat]
  BY DEF SchedRecord
<1>2. ProcessRepo(s.nextGen, p, TRUE) \in AnyJob
  BY <1>1, JobsAreJobs
<1>3. <<ProcessRepo(s.nextGen, p, TRUE)>> \o s.user \in Seq(AnyJob)
  BY <1>1, <1>2, FrontHolds
<1>4. s.nextGen + 1 \in Nat \ {0} /\ [s.pathGen EXCEPT ![p] = s.nextGen] \in [Paths -> Nat]
  BY <1>1
<1> QED BY <1>3, <1>4 DEF OnReloadRepo, SchedRecord

LEMMA SingleHasNoTwins == ASSUME NEW j \in AnyJob PROVE NoTwins(<<j>>)
<1>1. DOMAIN <<j>> = 1..1
  BY SingletonHolds, LenProperties
<1> QED BY <1>1 DEF NoTwins

\* The order of a walk: checkouts, the same ones.
LEMMA FocusFirstHolds ==
    ASSUME NEW found \in Seq(Paths), NEW focus \in Paths \union {NoPath}
    PROVE  FocusFirst(found, focus) \in Seq(Paths) /\ ToSet(FocusFirst(found, focus)) = ToSet(found)
<1>1. CASE Contains(found, focus)
  <2>1. focus \in ToSet(found) /\ ToSet(found) \subseteq Paths
    BY <1>1, LenProperties, ElementOfSeq DEF Contains, ToSet
  <2>2. PICK r \in Seq(Paths) : /\ r = Retain(found, Paths \ {focus})
                                /\ ToSet(r) = ToSet(found) \intersect (Paths \ {focus})
    BY RetainHolds
  <2>3. <<focus>> \o r \in Seq(Paths) /\ ToSet(<<focus>> \o r) = ToSet(r) \union {focus}
    <3>1. focus \in Paths
      BY <2>1
    <3> QED BY <3>1, FrontHolds
  <2>4. FocusFirst(found, focus) = <<focus>> \o r
    BY <1>1, <2>2, Zenon DEF FocusFirst
  <2>5. ToSet(r) \union {focus} = ToSet(found)
    BY <2>1, <2>2
  <2> QED BY <2>3, <2>4, <2>5, Zenon
<1>2. CASE ~Contains(found, focus)
  BY <1>2, Zenon DEF FocusFirst
<1> QED BY <1>1, <1>2

LEMMA FrontDistinct ==
    ASSUME NEW T, NEW q \in Seq(T), Distinct(q), NEW e \in T, e \notin ToSet(q)
    PROVE  Distinct(<<e>> \o q)
<1>1. PICK u \in Seq(T) : u = <<e>> /\ Len(u) = 1 /\ u[1] = e
  <2>1. <<e>> \in Seq(T) /\ Len(<<e>>) = 1 /\ <<e>>[1] = e
    BY SingletonHolds
  <2> QED BY <2>1, Zenon
<1>2. PICK r \in Seq(T) : r = u \o q
  BY ConcatHolds
<1>3. /\ Len(r) = 1 + Len(q) /\ Len(q) \in Nat /\ DOMAIN q = 1..Len(q)
      /\ \A i \in 1..(1 + Len(q)) : r[i] = IF i <= 1 THEN u[i] ELSE q[i - 1]
  BY <1>1, <1>2, ConcatProperties, LenProperties
<1>4. \A i \in 1..Len(r) : i = 1 \/ i - 1 \in 1..Len(q)
  BY <1>3
<1>5. \A i \in 1..Len(r) : r[i] = IF i = 1 THEN e ELSE q[i - 1]
  BY <1>1, <1>3
<1>6. \A i \in 1..Len(q) : q[i] # e
  BY <1>3 DEF ToSet
<1>7. ASSUME NEW i \in 1..Len(r), NEW k \in 1..Len(r), i # k PROVE r[i] # r[k]
  <2>1. CASE i = 1
    BY <1>4, <1>5, <1>6, <1>7, <2>1
  <2>2. CASE k = 1
    BY <1>4, <1>5, <1>6, <1>7, <2>2
  <2>3. CASE i # 1 /\ k # 1
    <3>1. i - 1 \in 1..Len(q) /\ k - 1 \in 1..Len(q)
      BY <1>4, <2>3
    <3>2. i - 1 # k - 1
      BY <1>7
    <3>3. q[i - 1] # q[k - 1]
      BY <1>3, <3>1, <3>2 DEF Distinct
    <3> QED BY <1>5, <2>3, <3>3
  <2> QED BY <2>1, <2>2, <2>3
<1>8. Distinct(r)
  BY <1>7 DEF Distinct
<1> QED BY <1>1, <1>2, <1>8

LEMMA FocusFirstDistinct ==
    ASSUME NEW found \in Seq(Paths), Distinct(found), NEW focus \in Paths \union {NoPath}
    PROVE  Distinct(FocusFirst(found, focus))
<1>1. CASE Contains(found, focus)
  <2>1. focus \in Paths
    BY <1>1, LenProperties, ElementOfSeq DEF Contains
  <2>2. PICK r \in Seq(Paths) : /\ r = Retain(found, Paths \ {focus}) /\ Distinct(r)
                                /\ ToSet(r) = ToSet(found) \intersect (Paths \ {focus})
    BY RetainHolds, RetainDistinct
  <2>3. focus \notin ToSet(r)
    BY <2>2
  <2>4. Distinct(<<focus>> \o r)
    BY <2>1, <2>2, <2>3, FrontDistinct
  <2> QED BY <1>1, <2>2, <2>4, Zenon DEF FocusFirst
<1>2. CASE ~Contains(found, focus)
  BY <1>2, Zenon DEF FocusFirst
<1> QED BY <1>1, <1>2

\* The status jobs of some checkouts.
LEMMA JobsOfPaths ==
    ASSUME NEW q \in Seq(Paths), NEW g \in Nat
    PROVE  LET r == [i \in 1..Len(q) |-> ProcessRepo(g, q[i], FALSE)]
           IN  /\ r \in Seq(AnyJob) /\ ToSet(r) = {ProcessRepo(g, p, FALSE) : p \in ToSet(q)}
               /\ Distinct(q) => NoTwins(r)
<1> DEFINE r == [i \in 1..Len(q) |-> ProcessRepo(g, q[i], FALSE)]
<1>1. Len(q) \in Nat /\ DOMAIN q = 1..Len(q) /\ \A i \in 1..Len(q) : q[i] \in Paths
  BY LenProperties, ElementOfSeq
<1>2. \A i \in 1..Len(q) : ProcessRepo(g, q[i], FALSE) \in AnyJob
  BY <1>1, JobsAreJobs
<1>3. r \in [1..Len(q) -> AnyJob] /\ DOMAIN r = 1..Len(q)
  BY <1>2
<1>4. r \in Seq(AnyJob)
  BY <1>1, <1>3, SeqDef
<1>5. \A i \in 1..Len(q) : r[i] = ProcessRepo(g, q[i], FALSE)
  OBVIOUS
<1> HIDE DEF r
<1>6. ToSet(r) = {ProcessRepo(g, p, FALSE) : p \in ToSet(q)}
  BY <1>1, <1>3, <1>5 DEF ToSet
<1>7. ASSUME Distinct(q) PROVE NoTwins(r)
  <2>1. ASSUME NEW i \in DOMAIN r
        PROVE  i \in 1..Len(q) /\ r[i].kind = "status" /\ r[i].path = q[i]
    <3>1. i \in 1..Len(q) /\ q[i] \in Paths
      BY <1>1, <1>3
    <3>2. PICK j : j = ProcessRepo(g, q[i], FALSE) /\ j.kind = "status" /\ j.path = q[i]
      <4>1. \A p : ProcessRepo(g, p, FALSE).kind = "status" /\ ProcessRepo(g, p, FALSE).path = p
        BY DEF ProcessRepo
      <4> QED BY <4>1
    <3> QED BY <1>5, <3>1, <3>2
  <2> QED BY <1>7, <2>1, Zenon DEF Distinct, NoTwins, SameWork
<1> QED BY <1>4, <1>6, <1>7 DEF r

\* What a walk queues: for every checkout found that no newer reload owns, one
\* status job of the walk's generation, the focused one in front.
WalkQueues(s, g, found, front, back, queued, focus) ==
    /\ queued = {p \in ToSet(found) : s.pathGen[p] <= g}
    /\ ToSet(front) = {ProcessRepo(g, p, TRUE) : p \in queued \intersect {focus}}
    /\ ToSet(back) = {ProcessRepo(g, p, FALSE) : p \in queued \ {focus}}
    /\ NoTwins(front) /\ (Distinct(found) => NoTwins(back))
    /\ OnDiscovered(s, g, found) =
          [s EXCEPT !.col.discovered = TRUE,
                    !.col.pending = queued,
                    !.pathGen = [p \in Paths |-> IF p \in queued THEN g ELSE @[p]],
                    !.user = front \o @,
                    !.status = @ \o back]

LEMMA OnDiscoveredQueues ==
    ASSUME NEW s \in SchedRecord, NEW g \in Nat, NEW found \in Seq(Paths), s.col.gen = g
    PROVE  \E front \in Seq(AnyJob), back \in Seq(AnyJob), queued \in SUBSET Paths,
              focus \in Paths \union {NoPath} :
               WalkQueues(s, g, found, front, back, queued, focus)
<1> DEFINE focus  == s.col.focused
           all    == Retain(FocusFirst(found, focus), {p \in Paths : s.pathGen[p] <= g})
           queued == ToSet(all)
           others == Retain(all, Paths \ {focus})
           front  == IF Contains(all, focus) THEN <<ProcessRepo(g, focus, TRUE)>> ELSE <<>>
           back   == [i \in 1..Len(others) |-> ProcessRepo(g, others[i], FALSE)]
<1>1. OnDiscovered(s, g, found) =
                     [s EXCEPT !.col.discovered = TRUE,
                               !.col.pending = queued,
                               !.pathGen = [p \in Paths |-> IF p \in queued THEN g ELSE @[p]],
                               !.user = front \o @,
                               !.status = @ \o back]
  BY Zenon DEF OnDiscovered
<1>2. focus \in Paths \union {NoPath}
  BY DEF SchedRecord, ColRecord
<1> HIDE DEF focus
<1>3. PICK order \in Seq(Paths) : order = FocusFirst(found, focus) /\ ToSet(order) = ToSet(found)
                               /\ (Distinct(found) => Distinct(order))
  BY <1>2, FocusFirstHolds, FocusFirstDistinct
<1>4. /\ all \in Seq(Paths)
      /\ queued = ToSet(found) \intersect {p \in Paths : s.pathGen[p] <= g}
      /\ Distinct(found) => Distinct(all)
  <2>1. /\ Retain(order, {p \in Paths : s.pathGen[p] <= g}) \in Seq(Paths)
        /\ ToSet(Retain(order, {p \in Paths : s.pathGen[p] <= g})) =
              ToSet(order) \intersect {p \in Paths : s.pathGen[p] <= g}
        /\ Distinct(order) => Distinct(Retain(order, {p \in Paths : s.pathGen[p] <= g}))
    BY RetainHolds, RetainDistinct
  <2> QED BY <1>3, <2>1, Zenon
<1> HIDE DEF all
<1>5. ToSet(found) \subseteq Paths
  BY LenProperties, ElementOfSeq DEF ToSet
<1>6. queued = {p \in ToSet(found) : s.pathGen[p] <= g} /\ queued \in SUBSET Paths
  BY <1>4, <1>5
<1>7. /\ others \in Seq(Paths) /\ ToSet(others) = queued \intersect (Paths \ {focus})
      /\ Distinct(found) => Distinct(others)
  BY <1>4, RetainHolds, RetainDistinct
<1> HIDE DEF others
<1>8. ToSet(others) = queued \ {focus}
  BY <1>6, <1>7
<1>9. /\ back \in Seq(AnyJob) /\ ToSet(back) = {ProcessRepo(g, p, FALSE) : p \in queued \ {focus}}
      /\ Distinct(found) => NoTwins(back)
  <2>1. /\ back \in Seq(AnyJob) /\ ToSet(back) = {ProcessRepo(g, p, FALSE) : p \in ToSet(others)}
        /\ Distinct(others) => NoTwins(back)
    BY <1>7, JobsOfPaths
  <2> HIDE DEF back
  <2> QED BY <1>7, <1>8, <2>1
<1>10. Contains(all, focus) <=> focus \in queued
  BY <1>4, LenProperties DEF Contains, ToSet
<1>11. /\ front \in Seq(AnyJob) /\ ToSet(front) = {ProcessRepo(g, p, TRUE) : p \in queued \intersect {focus}}
       /\ NoTwins(front)
  <2>1. CASE Contains(all, focus)
    <3>1. focus \in Paths /\ queued \intersect {focus} = {focus}
      BY <1>6, <1>10, <2>1
    <3>2. PICK j \in AnyJob : j = ProcessRepo(g, focus, TRUE)
      BY <3>1, JobsAreJobs
    <3>3. <<j>> \in Seq(AnyJob) /\ ToSet(<<j>>) = {j} /\ NoTwins(<<j>>)
      BY SingletonHolds, SingleHasNoTwins
    <3>4. {ProcessRepo(g, p, TRUE) : p \in queued \intersect {focus}} = {j}
      BY <3>1, <3>2
    <3> QED BY <2>1, <3>2, <3>3, <3>4, Zenon
  <2>2. CASE ~Contains(all, focus)
    <3>1. <<>> \in Seq(AnyJob) /\ ToSet(<<>>) = {} /\ NoTwins(<<>>)
      BY EmptySeq DEF ToSet, NoTwins
    <3>2. {ProcessRepo(g, p, TRUE) : p \in queued \intersect {focus}} = {}
      BY <1>10, <2>2
    <3> QED BY <2>2, <3>1, <3>2, Zenon
  <2> QED BY <2>1, <2>2
<1> HIDE DEF queued, front, back
<1>12. WalkQueues(s, g, found, front, back, queued, focus)
  BY <1>1, <1>6, <1>9, <1>11 DEF WalkQueues
<1> QED BY <1>2, <1>6, <1>9, <1>11, <1>12

LEMMA OnDiscoveredTyped ==
    ASSUME NEW s \in SchedRecord, NEW g \in Nat, NEW found \in Seq(Paths)
    PROVE  OnDiscovered(s, g, found) \in SchedRecord
<1>1. CASE s.col.gen # g
  BY <1>1 DEF OnDiscovered
<1>2. CASE s.col.gen = g
  <2>1. PICK front \in Seq(AnyJob), back \in Seq(AnyJob), queued \in SUBSET Paths,
             focus \in Paths \union {NoPath} :
               WalkQueues(s, g, found, front, back, queued, focus)
    BY <1>2, OnDiscoveredQueues
  <2>2. s.user \in Seq(AnyJob) /\ s.status \in Seq(AnyJob) /\ s.col \in ColRecord
        /\ s.pathGen \in [Paths -> Nat]
    BY DEF SchedRecord
  <2>3. front \o s.user \in Seq(AnyJob) /\ s.status \o back \in Seq(AnyJob)
    BY <2>2, ConcatHolds
  <2>4. [p \in Paths |-> IF p \in queued THEN g ELSE s.pathGen[p]] \in [Paths -> Nat]
    BY <2>2
  <2>5. [s.col EXCEPT !.discovered = TRUE, !.pending = queued] \in ColRecord
    BY <2>2 DEF ColRecord
  <2> QED BY <2>1, <2>3, <2>4, <2>5 DEF WalkQueues, SchedRecord
<1> QED BY <1>1, <1>2

LEMMA WithoutPaneHolds ==
    ASSUME NEW q \in Seq(AnyJob)
    PROVE  /\ WithoutPane(q) \in Seq(AnyJob)
           /\ ToSet(WithoutPane(q)) = {j \in ToSet(q) : ~IsPane(j)}
<1> DEFINE S == {j \in ToSet(q) : ~IsPane(j)}
<1>1. Retain(q, S) \in Seq(AnyJob) /\ ToSet(Retain(q, S)) = ToSet(q) \intersect S
  BY RetainHolds
<1>2. ToSet(q) \intersect S = S
  OBVIOUS
<1> QED BY <1>1, <1>2 DEF WithoutPane

\* What a request does to the queue: the pane's job in front, if none is on a
\* worker, and no other.
LEMMA RequestPaneHolds ==
    ASSUME NEW s \in SchedRecord
    PROVE  /\ RequestPane(s) \in SchedRecord
           /\ RequestPane(s) = [s EXCEPT !.paneLatest = s.paneLatest + 1,
                                         !.panePending = s.paneInflight # 0,
                                         !.user = RequestPane(s).user]
           /\ ToSet(RequestPane(s).user) =
                  {j \in ToSet(s.user) : ~IsPane(j)}
                  \union (IF s.paneInflight # 0 THEN {} ELSE {LoadPane(s.paneLatest + 1)})
<1> DEFINE id   == s.paneLatest + 1
           rest == WithoutPane(s.user)
           user == IF s.paneInflight # 0 THEN rest ELSE <<LoadPane(id)>> \o rest
<1>1. s.user \in Seq(AnyJob) /\ s.paneLatest \in Nat /\ s.paneInflight \in Nat
  BY DEF SchedRecord
<1>2. rest \in Seq(AnyJob) /\ ToSet(rest) = {j \in ToSet(s.user) : ~IsPane(j)}
  BY <1>1, WithoutPaneHolds
<1>3. LoadPane(id) \in AnyJob
  BY <1>1, JobsAreJobs
<1>4. RequestPane(s) = [s EXCEPT !.paneLatest = id, !.panePending = s.paneInflight # 0, !.user = user]
  BY DEF RequestPane
<1> HIDE DEF rest
<1>5. <<LoadPane(id)>> \o rest \in Seq(AnyJob)
      /\ ToSet(<<LoadPane(id)>> \o rest) = ToSet(rest) \union {LoadPane(id)}
  BY <1>2, <1>3, FrontHolds
<1>6. /\ user \in Seq(AnyJob)
      /\ ToSet(user) = ToSet(rest) \union (IF s.paneInflight # 0 THEN {} ELSE {LoadPane(id)})
  <2>1. CASE s.paneInflight # 0
    BY <1>2, <2>1
  <2>2. CASE ~(s.paneInflight # 0)
    BY <1>5, <2>2, Zenon
  <2> QED BY <2>1, <2>2
<1> HIDE DEF user
<1>7. id \in Nat /\ (s.paneInflight # 0) \in BOOLEAN
  BY <1>1
<1>8. RequestPane(s) \in SchedRecord /\ RequestPane(s).user = user
  BY <1>4, <1>6, <1>7 DEF SchedRecord
<1>9. RequestPane(s) = [s EXCEPT !.paneLatest = id, !.panePending = s.paneInflight # 0,
                                 !.user = RequestPane(s).user]
  BY <1>4, <1>8
<1> QED BY <1>2, <1>6, <1>8, <1>9

\* The end of a load frees the slot; a request that came meanwhile is queued in
\* front.
LEMMA AcceptPaneResultHolds ==
    ASSUME NEW s \in SchedRecord, NEW r \in Nat
    PROVE  LET again == r # s.paneLatest \/ s.panePending
               s2    == AcceptPaneResult(s, r)
           IN  /\ s2 \in SchedRecord
               /\ s2 = [s EXCEPT !.paneInflight = 0, !.panePending = s2.panePending, !.user = s2.user]
               /\ s2.panePending = FALSE
               /\ again => ToSet(s2.user) = {j \in ToSet(s.user) : ~IsPane(j)}
                                            \union {LoadPane(s.paneLatest)}
               /\ ~again => s2.user = s.user
<1> DEFINE again == r # s.paneLatest \/ s.panePending
           rest  == WithoutPane(s.user)
           s2    == AcceptPaneResult(s, r)
<1>1. s.user \in Seq(AnyJob) /\ s.paneLatest \in Nat /\ s.panePending \in BOOLEAN
  BY DEF SchedRecord
<1>2. rest \in Seq(AnyJob) /\ ToSet(rest) = {j \in ToSet(s.user) : ~IsPane(j)}
  BY <1>1, WithoutPaneHolds
<1>3. LoadPane(s.paneLatest) \in AnyJob
  BY <1>1, JobsAreJobs
<1>4. s2 = [s EXCEPT !.paneInflight = 0,
                     !.panePending = IF again THEN FALSE ELSE s.panePending,
                     !.user = IF again THEN <<LoadPane(s.paneLatest)>> \o rest ELSE s.user]
  BY DEF AcceptPaneResult, PaneAccepted
<1> HIDE DEF rest
<1>5. <<LoadPane(s.paneLatest)>> \o rest \in Seq(AnyJob)
      /\ ToSet(<<LoadPane(s.paneLatest)>> \o rest) = ToSet(rest) \union {LoadPane(s.paneLatest)}
  BY <1>2, <1>3, FrontHolds
<1> HIDE DEF s2
<1>6. CASE again
  <2>1. s2 = [s EXCEPT !.paneInflight = 0, !.panePending = FALSE,
                       !.user = <<LoadPane(s.paneLatest)>> \o rest]
    BY <1>4, <1>6
  <2>2. /\ s2 \in SchedRecord /\ s2.user = <<LoadPane(s.paneLatest)>> \o rest
        /\ s2.panePending = FALSE
    BY <1>5, <2>1 DEF SchedRecord
  <2>3. s2 = [s EXCEPT !.paneInflight = 0, !.panePending = s2.panePending, !.user = s2.user]
    BY <2>1, <2>2
  <2>4. ToSet(s2.user) = ToSet(rest) \union {LoadPane(s.paneLatest)}
    BY <1>5, <2>2, Zenon
  <2> QED BY <1>2, <1>6, <2>2, <2>3, <2>4 DEF s2
<1>7. CASE ~again
  <2>1. s.panePending = FALSE
    BY <1>1, <1>7
  <2>2. s2 = [s EXCEPT !.paneInflight = 0, !.panePending = FALSE, !.user = s.user]
    BY <1>4, <1>7, <2>1
  <2>3. s2 \in SchedRecord /\ s2.user = s.user /\ s2.panePending = FALSE
    BY <1>1, <2>2 DEF SchedRecord
  <2>4. s2 = [s EXCEPT !.paneInflight = 0, !.panePending = s2.panePending, !.user = s2.user]
    BY <2>2, <2>3
  <2> QED BY <1>7, <2>3, <2>4 DEF s2
<1> QED BY <1>6, <1>7

LEMMA EnqueueHolds ==
    ASSUME NEW s \in SchedRecord, NEW t \in Tags
    PROVE  /\ EnqueueUser(s, t) \in SchedRecord
           /\ ToSet(EnqueueUser(s, t).user) = ToSet(s.user) \union {UserWork(t)}
           /\ EnqueueUserFront(s, t) \in SchedRecord
           /\ ToSet(EnqueueUserFront(s, t).user) = ToSet(s.user) \union {UserWork(t)}
           /\ EnqueueBackground(s, t) \in SchedRecord
           /\ ToSet(EnqueueBackground(s, t).status) = ToSet(s.status) \union {UserWork(t)}
<1>1. s.user \in Seq(AnyJob) /\ s.status \in Seq(AnyJob) /\ s.exclusive \in BOOLEAN
  BY DEF SchedRecord
<1>2. PICK j \in AnyJob : j = UserWork(t)
  BY JobsAreJobs
<1>3. Append(s.user, j) \in Seq(AnyJob) /\ ToSet(Append(s.user, j)) = ToSet(s.user) \union {j}
  BY <1>1, BackHolds
<1>4. <<j>> \o s.user \in Seq(AnyJob) /\ ToSet(<<j>> \o s.user) = ToSet(s.user) \union {j}
  BY <1>1, FrontHolds
<1>5. Append(s.status, j) \in Seq(AnyJob) /\ ToSet(Append(s.status, j)) = ToSet(s.status) \union {j}
  BY <1>1, BackHolds
<1>6. (s.exclusive \/ t = "Write") \in BOOLEAN
  BY <1>1
<1>7. /\ EnqueueUser(s, t) = [s EXCEPT !.exclusive = s.exclusive \/ t = "Write",
                                       !.user = Append(s.user, j)]
      /\ EnqueueUserFront(s, t) = [s EXCEPT !.exclusive = s.exclusive \/ t = "Write",
                                            !.user = <<j>> \o s.user]
      /\ EnqueueBackground(s, t) = [s EXCEPT !.status = Append(s.status, j)]
  BY <1>2 DEF EnqueueUser, EnqueueUserFront, EnqueueBackground
<1>8. EnqueueUser(s, t) \in SchedRecord /\ EnqueueUser(s, t).user = Append(s.user, j)
  BY <1>3, <1>6, <1>7 DEF SchedRecord
<1>9. EnqueueUserFront(s, t) \in SchedRecord /\ EnqueueUserFront(s, t).user = <<j>> \o s.user
  BY <1>4, <1>6, <1>7 DEF SchedRecord
<1>10. EnqueueBackground(s, t) \in SchedRecord /\ EnqueueBackground(s, t).status = Append(s.status, j)
  BY <1>5, <1>7 DEF SchedRecord
<1> QED BY <1>2, <1>3, <1>4, <1>5, <1>8, <1>9, <1>10, Zenon

LEMMA NoteUserDoneTyped ==
    ASSUME NEW s \in SchedRecord, NEW t
    PROVE  NoteUserDone(s, t) \in SchedRecord
<1>1. (s.exclusive /\ t # "Write") \in BOOLEAN
  BY DEF SchedRecord
<1> QED BY <1>1 DEF NoteUserDone, SchedRecord

LEMMA NoteJobFinishedTyped ==
    ASSUME NEW s \in SchedRecord, NEW j \in AnyJob
    PROVE  NoteJobFinished(s, j) \in SchedRecord
<1>1. s.inflight (-) SetToBag({j}) \in JobBags
  BY BagDrops DEF SchedRecord
<1> QED BY <1>1 DEF NoteJobFinished, SchedRecord

-----------------------------------------------------------------------------
(* spawn_next *)

FirstOfLane(q, i) == \A k \in 1..(i - 1) : IsBulkRemote(q[k]) # IsBulkRemote(q[i])

TakesUser(s, i)   == TakeInflight([s EXCEPT !.user = RemoveAt(@, i)], s.user[i])
TakesStatus(s, i) == TakeInflight([s EXCEPT !.status = RemoveAt(@, i)], s.status[i])

\* A lane is open for every job of it or for none.
LEMMA SameLane ==
    ASSUME NEW s, NEW j, NEW k, IsBulkRemote(j) = IsBulkRemote(k), LaneOpen(s, k)
    PROVE  LaneOpen(s, j)
BY Zenon DEF LaneOpen

\* A held switch holds back every local job behind it, so the first startable
\* job is the first of its lane.
LEMMA SpawnNextTakesFirst ==
    ASSUME NEW s \in SchedRecord, CanSpawn(s)
    PROVE  \/ \E i \in 1..Len(s.user) : SpawnNext(s) = TakesUser(s, i) /\ FirstOfLane(s.user, i)
           \/ \E i \in 1..Len(s.status) : SpawnNext(s) = TakesStatus(s, i) /\ FirstOfLane(s.status, i)
<1>1. /\ s.user \in Seq(AnyJob) /\ s.status \in Seq(AnyJob)
      /\ DOMAIN s.user = 1..Len(s.user) /\ DOMAIN s.status = 1..Len(s.status)
      /\ Len(s.user) \in Nat /\ Len(s.status) \in Nat
  BY LenProperties DEF SchedRecord
<1>2. CASE UserStartable(s) # {}
  <2>1. UserStartable(s) \in SUBSET Nat /\ UserStartable(s) \subseteq 1..Len(s.user)
    BY <1>1 DEF UserStartable
  <2>2. PICK i \in UserStartable(s) : i = First(UserStartable(s)) /\ \A k \in UserStartable(s) : i <= k
    BY <1>2, <2>1, FirstIsLeast
  <2>3. SpawnNext(s) = TakesUser(s, i)
    BY <1>2, <2>2, Zenon DEF SpawnNext, TakesUser
  <2>4. ASSUME NEW k \in 1..(i - 1), IsBulkRemote(s.user[k]) = IsBulkRemote(s.user[i])
        PROVE  FALSE
    <3>1. k \in 1..Len(s.user) /\ ~(i <= k) /\ i \in 1..Len(s.user)
      BY <1>1, <2>1
    <3>2. LaneOpen(s, s.user[i]) /\ (IsBulkRemote(s.user[i]) \/ \A m \in 1..(i - 1) : ~HeldSwitch(s, s.user[m]))
      BY <2>2 DEF UserStartable
    <3>3. LaneOpen(s, s.user[k])
      BY <2>4, <3>2, SameLane
    <3>4. IsBulkRemote(s.user[k]) => ~HeldSwitch(s, s.user[k])
      BY DEF IsBulkRemote, HeldSwitch, IsTag
    <3>5. IsBulkRemote(s.user[k]) <=> IsBulkRemote(s.user[i])
      BY <2>4, Zenon
    <3>6. ~HeldSwitch(s, s.user[k])
      BY <3>2, <3>4, <3>5
    <3>7. \A m \in 1..(k - 1) : m \in 1..(i - 1)
      BY <2>1, <3>1
    <3>8. IsBulkRemote(s.user[k]) \/ \A m \in 1..(k - 1) : ~HeldSwitch(s, s.user[m])
      BY <3>2, <3>5, <3>7
    <3>9. k \in UserStartable(s)
      BY <1>1, <3>1, <3>3, <3>6, <3>8 DEF UserStartable
    <3> QED BY <2>2, <3>1, <3>9
  <2>5. FirstOfLane(s.user, i)
    BY <2>4 DEF FirstOfLane
  <2> QED BY <2>1, <2>3, <2>5
<1>3. CASE UserStartable(s) = {}
  <2>1. StatusStartable(s) \in SUBSET Nat /\ StatusStartable(s) \subseteq 1..Len(s.status)
        /\ StatusStartable(s) # {}
    BY <1>1, <1>3 DEF StatusStartable, CanSpawn
  <2>2. PICK i \in StatusStartable(s) : i = First(StatusStartable(s)) /\ \A k \in StatusStartable(s) : i <= k
    BY <2>1, FirstIsLeast
  <2>3. SpawnNext(s) = TakesStatus(s, i)
    BY <1>3, <2>2, Zenon DEF SpawnNext, TakesStatus
  <2>4. ASSUME NEW k \in 1..(i - 1), IsBulkRemote(s.status[k]) = IsBulkRemote(s.status[i])
        PROVE  FALSE
    <3>1. k \in 1..Len(s.status) /\ ~(i <= k) /\ i \in 1..Len(s.status)
      BY <1>1, <2>1
    <3>2. LaneOpen(s, s.status[i])
      BY <2>2 DEF StatusStartable
    <3>3. LaneOpen(s, s.status[k])
      BY <2>4, <3>2, SameLane
    <3>4. k \in StatusStartable(s)
      BY <1>1, <3>1, <3>3 DEF StatusStartable
    <3> QED BY <2>2, <3>1, <3>4
  <2>5. FirstOfLane(s.status, i)
    BY <2>4 DEF FirstOfLane
  <2> QED BY <2>1, <2>3, <2>5
<1> QED BY <1>2, <1>3

\* A job that starts leaves its queue for the bag of jobs in flight.
LEMMA TakesUserHolds ==
    ASSUME NEW s \in SchedRecord, NEW i \in 1..Len(s.user)
    PROVE  LET t == TakesUser(s, i)
               j == s.user[i]
           IN  /\ j \in AnyJob /\ t \in SchedRecord
               /\ t.user = RemoveAt(s.user, i) /\ t.status = s.status
               /\ t.inflight = s.inflight (+) SetToBag({j})
               /\ t.paneInflight = IF IsPane(j) THEN j.req ELSE s.paneInflight
               /\ t = [s EXCEPT !.user = t.user, !.status = t.status, !.inflight = t.inflight,
                                !.paneInflight = t.paneInflight]
<1>1. /\ s.user \in Seq(AnyJob) /\ s.status \in Seq(AnyJob) /\ s.inflight \in JobBags
      /\ s.paneInflight \in Nat
  BY DEF SchedRecord
<1>2. PICK j \in AnyJob : j = s.user[i]
  BY <1>1, ElementOfSeq
<1>3. PICK q \in Seq(AnyJob) : q = RemoveAt(s.user, i)
  BY <1>1, RemoveAtHolds
<1>4. PICK b \in JobBags : b = s.inflight (+) SetToBag({j})
  BY <1>1, BagAdds
<1>5. PICK r \in Nat : r = IF IsPane(j) THEN j.req ELSE s.paneInflight
  <2>1. IsPane(j) => j.req \in Nat
    BY KindsOfJob DEF IsPane
  <2> QED BY <1>1, <2>1
<1>6. PICK t : t = TakesUser(s, i)
  OBVIOUS
<1>7. t = [s EXCEPT !.user = q, !.inflight = b, !.paneInflight = r]
  BY <1>2, <1>3, <1>4, <1>5, <1>6 DEF TakesUser, TakeInflight, SchedRecord
<1>8. /\ t \in SchedRecord /\ t.user = q /\ t.status = s.status /\ t.inflight = b /\ t.paneInflight = r
  BY <1>7 DEF SchedRecord
<1>9. t = [s EXCEPT !.user = t.user, !.status = t.status, !.inflight = t.inflight,
                    !.paneInflight = t.paneInflight]
  BY <1>7, <1>8 DEF SchedRecord
<1> QED BY <1>2, <1>3, <1>4, <1>5, <1>6, <1>8, <1>9, Zenon

LEMMA TakesStatusHolds ==
    ASSUME NEW s \in SchedRecord, NEW i \in 1..Len(s.status)
    PROVE  LET t == TakesStatus(s, i)
               j == s.status[i]
           IN  /\ j \in AnyJob /\ t \in SchedRecord
               /\ t.status = RemoveAt(s.status, i) /\ t.user = s.user
               /\ t.inflight = s.inflight (+) SetToBag({j})
               /\ t.paneInflight = IF IsPane(j) THEN j.req ELSE s.paneInflight
               /\ t = [s EXCEPT !.user = t.user, !.status = t.status, !.inflight = t.inflight,
                                !.paneInflight = t.paneInflight]
<1>1. /\ s.user \in Seq(AnyJob) /\ s.status \in Seq(AnyJob) /\ s.inflight \in JobBags
      /\ s.paneInflight \in Nat
  BY DEF SchedRecord
<1>2. PICK j \in AnyJob : j = s.status[i]
  BY <1>1, ElementOfSeq
<1>3. PICK q \in Seq(AnyJob) : q = RemoveAt(s.status, i)
  BY <1>1, RemoveAtHolds
<1>4. PICK b \in JobBags : b = s.inflight (+) SetToBag({j})
  BY <1>1, BagAdds
<1>5. PICK r \in Nat : r = IF IsPane(j) THEN j.req ELSE s.paneInflight
  <2>1. IsPane(j) => j.req \in Nat
    BY KindsOfJob DEF IsPane
  <2> QED BY <1>1, <2>1
<1>6. PICK t : t = TakesStatus(s, i)
  OBVIOUS
<1>7. t = [s EXCEPT !.status = q, !.inflight = b, !.paneInflight = r]
  BY <1>2, <1>3, <1>4, <1>5, <1>6 DEF TakesStatus, TakeInflight, SchedRecord
<1>8. /\ t \in SchedRecord /\ t.status = q /\ t.user = s.user /\ t.inflight = b /\ t.paneInflight = r
  BY <1>7 DEF SchedRecord
<1>9. t = [s EXCEPT !.user = t.user, !.status = t.status, !.inflight = t.inflight,
                    !.paneInflight = t.paneInflight]
  BY <1>7, <1>8 DEF SchedRecord
<1> QED BY <1>2, <1>3, <1>4, <1>5, <1>6, <1>8, <1>9, Zenon

LEMMA SpawnNextTyped ==
    ASSUME NEW s \in SchedRecord, CanSpawn(s)
    PROVE  SpawnNext(s) \in SchedRecord
<1>1. CASE \E i \in 1..Len(s.user) : SpawnNext(s) = TakesUser(s, i) /\ FirstOfLane(s.user, i)
  BY <1>1, TakesUserHolds, Zenon
<1>2. CASE \E i \in 1..Len(s.status) : SpawnNext(s) = TakesStatus(s, i) /\ FirstOfLane(s.status, i)
  BY <1>2, TakesStatusHolds, Zenon
<1> QED BY <1>1, <1>2, SpawnNextTakesFirst

-----------------------------------------------------------------------------
(* The order of the lanes *)

\* What LaneOrder says of one step.
LaneStep(s, s2) ==
    \A j \in InFlight(s2) :
          s2.inflight = s.inflight (+) SetToBag({j}) =>
              \/ \E i \in DOMAIN s.user :
                    /\ j = s.user[i] /\ s2.user = RemoveAt(s.user, i)
                    /\ \A k \in 1..(i - 1) : IsBulkRemote(s.user[k]) # IsBulkRemote(j)
              \/ \E i \in DOMAIN s.status :
                    /\ j = s.status[i] /\ s2.status = RemoveAt(s.status, i)
                    /\ \A k \in 1..(i - 1) : IsBulkRemote(s.status[k]) # IsBulkRemote(j)

LEMMA CopiesAreNumbers == ASSUME NEW b \in JobBags, NEW j PROVE Copies(b, j) \in Nat
BY DEF JobBags, Copies

\* The job that joined a bag can be told from the bag.
LEMMA JoinedIsKnown ==
    ASSUME NEW b \in JobBags, NEW j \in AnyJob, NEW k \in AnyJob,
           b (+) SetToBag({j}) = b (+) SetToBag({k})
    PROVE  j = k
<1>1. PICK c : c = b (+) SetToBag({j})
  OBVIOUS
<1>2. Copies(c, j) = Copies(b, j) + (IF j = j THEN 1 ELSE 0)
  BY <1>1, BagAdds
<1>3. Copies(c, j) = Copies(b, j) + (IF j = k THEN 1 ELSE 0)
  <2>1. c = b (+) SetToBag({k})
    BY <1>1
  <2> QED BY <2>1, BagAdds
<1>4. Copies(b, j) \in Nat
  BY CopiesAreNumbers
<1> QED BY <1>2, <1>3, <1>4

LEMMA SpawnInOrder ==
    ASSUME NEW s \in SchedRecord, CanSpawn(s)
    PROVE  LaneStep(s, SpawnNext(s))
<1> DEFINE s2 == SpawnNext(s)
<1>1. s2 \in SchedRecord /\ s.inflight \in JobBags
  BY SpawnNextTyped DEF SchedRecord
<1>2. DOMAIN s.user = 1..Len(s.user) /\ DOMAIN s.status = 1..Len(s.status)
  BY LenProperties DEF SchedRecord
<1>3. InFlight(s2) \subseteq AnyJob
  BY <1>1, BagTyped DEF InFlight, SchedRecord
<1>4. SUFFICES ASSUME NEW j \in InFlight(s2), s2.inflight = s.inflight (+) SetToBag({j})
               PROVE  \/ \E i \in DOMAIN s.user :
                           /\ j = s.user[i] /\ s2.user = RemoveAt(s.user, i)
                           /\ \A k \in 1..(i - 1) : IsBulkRemote(s.user[k]) # IsBulkRemote(j)
                      \/ \E i \in DOMAIN s.status :
                           /\ j = s.status[i] /\ s2.status = RemoveAt(s.status, i)
                           /\ \A k \in 1..(i - 1) : IsBulkRemote(s.status[k]) # IsBulkRemote(j)
  BY Zenon DEF LaneStep
<1>5. j \in AnyJob
  BY <1>3, <1>4
<1>6. CASE \E i \in 1..Len(s.user) : SpawnNext(s) = TakesUser(s, i) /\ FirstOfLane(s.user, i)
  <2>1. PICK i \in 1..Len(s.user) : SpawnNext(s) = TakesUser(s, i) /\ FirstOfLane(s.user, i)
    BY <1>6
  <2>2. PICK k \in AnyJob : k = s.user[i]
    BY TakesUserHolds
  <2>3. s2.user = RemoveAt(s.user, i) /\ s2.inflight = s.inflight (+) SetToBag({k})
    BY <2>1, <2>2, TakesUserHolds
  <2>4. j = k
    BY <1>1, <1>4, <1>5, <2>3, JoinedIsKnown
  <2> HIDE DEF s2
  <2> QED BY <1>2, <2>1, <2>2, <2>3, <2>4, Zenon DEF FirstOfLane
<1>7. CASE \E i \in 1..Len(s.status) : SpawnNext(s) = TakesStatus(s, i) /\ FirstOfLane(s.status, i)
  <2>1. PICK i \in 1..Len(s.status) : SpawnNext(s) = TakesStatus(s, i) /\ FirstOfLane(s.status, i)
    BY <1>7
  <2>2. PICK k \in AnyJob : k = s.status[i]
    BY TakesStatusHolds
  <2>3. s2.status = RemoveAt(s.status, i) /\ s2.inflight = s.inflight (+) SetToBag({k})
    BY <2>1, <2>2, TakesStatusHolds
  <2>4. j = k
    BY <1>1, <1>4, <1>5, <2>3, JoinedIsKnown
  <2> HIDE DEF s2
  <2> QED BY <1>2, <2>1, <2>2, <2>3, <2>4, Zenon DEF FirstOfLane
<1> QED BY <1>6, <1>7, SpawnNextTakesFirst

\* A step that puts nothing in flight is in order.
LEMMA StartsNothing ==
    ASSUME NEW b \in JobBags, NEW s, NEW s2, b = s.inflight,
           s2.inflight = b \/ \E k \in AnyJob : s2.inflight = b (-) SetToBag({k})
    PROVE  LaneStep(s, s2)
<1>1. PICK c \in JobBags : c = s2.inflight /\ \A k : Copies(c, k) <= Copies(b, k)
  <2>1. CASE s2.inflight = b
    <3>1. \A k : Copies(b, k) <= Copies(b, k)
      BY CopiesAreNumbers
    <3> QED BY <2>1, <3>1
  <2>2. CASE \E k \in AnyJob : s2.inflight = b (-) SetToBag({k})
    <3>1. PICK k \in AnyJob : s2.inflight = b (-) SetToBag({k})
      BY <2>2
    <3>2. b (-) SetToBag({k}) \in JobBags /\ \A m : Copies(b (-) SetToBag({k}), m) <= Copies(b, m)
      BY BagDrops
    <3> QED BY <3>1, <3>2, Zenon
  <2> QED BY <2>1, <2>2
<1>2. SUFFICES ASSUME NEW j \in InFlight(s2), s2.inflight = s.inflight (+) SetToBag({j}) PROVE FALSE
  BY Zenon DEF LaneStep
<1>3. j \in AnyJob
  BY <1>1, BagTyped DEF InFlight
<1>4. Copies(c, j) = Copies(b, j) + (IF j = j THEN 1 ELSE 0)
  <2>1. c = b (+) SetToBag({j})
    BY <1>1, <1>2
  <2> QED BY <1>3, <2>1, BagAdds
<1>5. Copies(b, j) \in Nat /\ Copies(c, j) \in Nat /\ Copies(c, j) <= Copies(b, j)
  BY <1>1, CopiesAreNumbers
<1> QED BY <1>4, <1>5

-----------------------------------------------------------------------------
(* Collects queue collect jobs and leave user work and workers alone *)

CollectJobs == {j \in AnyJob : j.kind \in {"discover", "status"}}

\* The queues gain the jobs U and B; nothing starts or ends.
QueuesGain(s, s2, U, B) ==
    /\ ToSet(s2.user) = ToSet(s.user) \union U
    /\ ToSet(s2.status) = ToSet(s.status) \union B
    /\ s2.inflight = s.inflight /\ s2.exclusive = s.exclusive

OnlyCollects(s, s2) == \E U, B \in SUBSET CollectJobs : QueuesGain(s, s2, U, B)

LEMMA GainsNothing == ASSUME NEW s, NEW s2, s2.user = s.user, s2.status = s.status,
                             s2.inflight = s.inflight, s2.exclusive = s.exclusive
                      PROVE  QueuesGain(s, s2, {}, {}) /\ OnlyCollects(s, s2)
<1>1. QueuesGain(s, s2, {}, {})
  BY DEF QueuesGain
<1>2. {} \in SUBSET CollectJobs
  OBVIOUS
<1> QED BY <1>1, <1>2 DEF OnlyCollects

LEMMA StartCollectionGains ==
    ASSUME NEW s \in SchedRecord, NEW focus
    PROVE  /\ QueuesGain(s, StartCollection(s, focus), {Discover(s.nextGen)}, {})
           /\ OnlyCollects(s, StartCollection(s, focus))
<1>1. s.nextGen \in Nat /\ s.user \in Seq(AnyJob)
  BY DEF SchedRecord
<1>2. PICK j \in AnyJob : j = Discover(s.nextGen) /\ j.kind = "discover"
  BY <1>1, JobsAreJobs
<1>3. ToSet(Append(s.user, j)) = ToSet(s.user) \union {j}
  BY <1>1, BackHolds
<1>4. PICK s2 : s2 = StartCollection(s, focus)
  OBVIOUS
<1>5. s2.user = Append(s.user, j) /\ s2.status = s.status /\ s2.inflight = s.inflight
      /\ s2.exclusive = s.exclusive
  BY <1>2, <1>4 DEF StartCollection, SchedRecord
<1>6. ToSet(s2.user) = ToSet(s.user) \union {j} /\ ToSet(s2.status) = ToSet(s.status) \union {}
  BY <1>3, <1>5
<1>7. QueuesGain(s, s2, {j}, {})
  BY <1>5, <1>6 DEF QueuesGain
<1>8. {j} \in SUBSET CollectJobs /\ {} \in SUBSET CollectJobs
  BY <1>2 DEF CollectJobs
<1>9. OnlyCollects(s, s2)
  BY <1>7, <1>8 DEF OnlyCollects
<1> QED BY <1>2, <1>4, <1>7, <1>9, Zenon

LEMMA FinishCollectionGains ==
    ASSUME NEW s \in SchedRecord
    PROVE  OnlyCollects(s, FinishCollection(s))
<1>1. NoCollection \in ColRecord
  BY DEF NoCollection, ColRecord
<1>2. PICK idle \in SchedRecord : idle = [s EXCEPT !.col = NoCollection]
  BY <1>1 DEF SchedRecord
<1>3. /\ idle.user = s.user /\ idle.status = s.status /\ idle.inflight = s.inflight
      /\ idle.exclusive = s.exclusive
  BY <1>2 DEF SchedRecord
<1>4. CASE s.latched
  <2>1. OnlyCollects(idle, StartCollection(idle, s.col.focused))
    BY StartCollectionGains
  <2>2. FinishCollection(s) = StartCollection(idle, s.col.focused)
    BY <1>2, <1>4, Zenon DEF FinishCollection
  <2>3. OnlyCollects(s, StartCollection(idle, s.col.focused))
    BY <1>3, <2>1, Zenon DEF OnlyCollects, QueuesGain
  <2> QED BY <2>2, <2>3, Zenon
<1>5. CASE ~s.latched
  <2>1. FinishCollection(s) = idle
    BY <1>2, <1>5, Zenon DEF FinishCollection
  <2>2. OnlyCollects(s, idle)
    BY <1>3, GainsNothing
  <2> QED BY <2>1, <2>2, Zenon
<1> QED BY <1>4, <1>5

LEMMA NoteRepoDoneGains ==
    ASSUME NEW s \in SchedRecord, NEW p \in Paths
    PROVE  OnlyCollects(s, NoteRepoDone(s, p))
<1>1. PICK noted \in SchedRecord : noted = [s EXCEPT !.col.pending = @ \ {p}]
  BY DEF SchedRecord, ColRecord
<1>2. /\ noted.user = s.user /\ noted.status = s.status /\ noted.inflight = s.inflight
      /\ noted.exclusive = s.exclusive
  BY <1>1 DEF SchedRecord
<1>3. OnlyCollects(noted, FinishCollection(noted))
  BY FinishCollectionGains
<1>4. OnlyCollects(s, FinishCollection(noted))
  BY <1>2, <1>3, Zenon DEF OnlyCollects, QueuesGain
<1>5. OnlyCollects(s, noted)
  BY <1>2, GainsNothing
<1>6. NoteRepoDone(s, p) = noted \/ NoteRepoDone(s, p) = FinishCollection(noted)
  BY <1>1, Zenon DEF NoteRepoDone
<1> QED BY <1>4, <1>5, <1>6, Zenon

LEMMA AbandonCollectionGains ==
    ASSUME NEW s \in SchedRecord, NEW g
    PROVE  OnlyCollects(s, AbandonCollection(s, g))
BY FinishCollectionGains, GainsNothing, Zenon DEF AbandonCollection

LEMMA RequestCollectGains ==
    ASSUME NEW s \in SchedRecord, NEW focus \in Paths \union {NoPath}
    PROVE  OnlyCollects(s, RequestCollect(s, focus))
<1>1. PICK s2 : s2 = [s EXCEPT !.latched = TRUE]
  OBVIOUS
<1>2. s2.user = s.user /\ s2.status = s.status /\ s2.inflight = s.inflight
      /\ s2.exclusive = s.exclusive
  BY <1>1 DEF SchedRecord
<1>3. OnlyCollects(s, s2)
  BY <1>2, GainsNothing
<1> QED BY <1>1, <1>3, StartCollectionGains, Zenon DEF RequestCollect

LEMMA OnReloadRepoGains ==
    ASSUME NEW s \in SchedRecord, NEW p \in Paths
    PROVE  /\ QueuesGain(s, OnReloadRepo(s, p), {ProcessRepo(s.nextGen, p, TRUE)}, {})
           /\ OnlyCollects(s, OnReloadRepo(s, p))
<1>1. s.nextGen \in Nat /\ s.user \in Seq(AnyJob)
  BY DEF SchedRecord
<1>2. PICK j \in AnyJob : j = ProcessRepo(s.nextGen, p, TRUE) /\ j.kind = "status"
  BY <1>1, StatusJobIsJob
<1>3. ToSet(<<j>> \o s.user) = ToSet(s.user) \union {j}
  BY <1>1, FrontHolds
<1>4. PICK s2 : s2 = OnReloadRepo(s, p)
  OBVIOUS
<1>5. s2.user = <<j>> \o s.user /\ s2.status = s.status /\ s2.inflight = s.inflight
      /\ s2.exclusive = s.exclusive
  BY <1>2, <1>4 DEF OnReloadRepo, SchedRecord
<1>6. ToSet(s2.user) = ToSet(s.user) \union {j} /\ ToSet(s2.status) = ToSet(s.status) \union {}
  BY <1>3, <1>5
<1>7. QueuesGain(s, s2, {j}, {})
  BY <1>5, <1>6 DEF QueuesGain
<1>8. {j} \in SUBSET CollectJobs /\ {} \in SUBSET CollectJobs
  BY <1>2 DEF CollectJobs
<1>9. OnlyCollects(s, s2)
  BY <1>7, <1>8 DEF OnlyCollects
<1> QED BY <1>2, <1>4, <1>7, <1>9, Zenon

LEMMA OnDiscoveredGains ==
    ASSUME NEW s \in SchedRecord, NEW g \in Nat, NEW found \in Seq(Paths)
    PROVE  OnlyCollects(s, OnDiscovered(s, g, found))
<1>1. CASE s.col.gen # g
  <2>1. OnDiscovered(s, g, found) = s
    BY <1>1, Zenon DEF OnDiscovered
  <2>2. OnlyCollects(s, s)
    BY GainsNothing
  <2> QED BY <2>1, <2>2, Zenon
<1>2. CASE s.col.gen = g
  <2>1. PICK front \in Seq(AnyJob), back \in Seq(AnyJob), queued \in SUBSET Paths,
             focus \in Paths \union {NoPath} :
               WalkQueues(s, g, found, front, back, queued, focus)
    BY <1>2, OnDiscoveredQueues
  <2>2. s.user \in Seq(AnyJob) /\ s.status \in Seq(AnyJob)
    BY DEF SchedRecord
  <2>3. PICK s2 : s2 = OnDiscovered(s, g, found)
    OBVIOUS
  <2>4. /\ s2.user = front \o s.user /\ s2.status = s.status \o back
        /\ s2.inflight = s.inflight /\ s2.exclusive = s.exclusive
    BY <2>1, <2>3 DEF WalkQueues, SchedRecord
  <2>5. ToSet(front \o s.user) = ToSet(front) \union ToSet(s.user)
        /\ ToSet(s.status \o back) = ToSet(s.status) \union ToSet(back)
    BY <2>2, ConcatHolds
  <2>6. QueuesGain(s, s2, ToSet(front), ToSet(back))
    BY <2>4, <2>5 DEF QueuesGain
  <2>7. ToSet(front) \in SUBSET CollectJobs /\ ToSet(back) \in SUBSET CollectJobs
    <3>1. \A p \in queued : ProcessRepo(g, p, TRUE) \in CollectJobs /\ ProcessRepo(g, p, FALSE) \in CollectJobs
      BY StatusJobIsJob DEF CollectJobs
    <3> QED BY <2>1, <3>1 DEF WalkQueues
  <2> QED BY <2>3, <2>6, <2>7 DEF OnlyCollects
<1> QED BY <1>1, <1>2

-----------------------------------------------------------------------------
(* The write gate *)

\* The flag names a write that waits or runs, and the background queue holds
\* neither a write nor a switch.
GateInv(s) ==
    /\ s.exclusive => \E j \in ToSet(s.user) \union InFlight(s) : IsTag(j, "Write")
    /\ \A j \in ToSet(s.status) : ~IsTag(j, "Write") /\ ~IsTag(j, "DefaultBranch")

Sound(s) == s \in SchedRecord /\ GateInv(s)

LEMMA GateInvIsEnough ==
    ASSUME Sound(sched) PROVE WriteGate
BY Zenon DEF WriteGate, BusyForWrites, Live, Queued, Sound, GateInv

LEMMA CollectsKeepGate ==
    ASSUME NEW s, GateInv(s), NEW s2, OnlyCollects(s, s2)
    PROVE  GateInv(s2)
<1>1. PICK U \in SUBSET CollectJobs, B \in SUBSET CollectJobs : QueuesGain(s, s2, U, B)
  BY DEF OnlyCollects
<1>2. \A j \in B : ~IsTag(j, "Write") /\ ~IsTag(j, "DefaultBranch")
  BY DEF CollectJobs, IsTag
<1>3. s2.exclusive => \E j \in ToSet(s2.user) \union InFlight(s2) : IsTag(j, "Write")
  BY <1>1, Zenon DEF GateInv, QueuesGain, InFlight
<1>4. \A j \in ToSet(s2.status) : ~IsTag(j, "Write") /\ ~IsTag(j, "DefaultBranch")
  BY <1>1, <1>2, Zenon DEF GateInv, QueuesGain
<1> QED BY <1>3, <1>4 DEF GateInv

\* The end of a job that is no write.
LEMMA FinishKeepsGate ==
    ASSUME NEW s, Sound(s), NEW j \in AnyJob, ~IsTag(j, "Write")
    PROVE  Sound(NoteJobFinished(s, j))
<1>1. s \in SchedRecord /\ GateInv(s) /\ s.inflight \in JobBags
  BY DEF Sound, SchedRecord
<1>2. PICK s2 \in SchedRecord : s2 = NoteJobFinished(s, j)
  BY <1>1, NoteJobFinishedTyped
<1>3. /\ s2.user = s.user /\ s2.status = s.status /\ s2.exclusive = s.exclusive
      /\ s2.inflight = s.inflight (-) SetToBag({j})
  BY <1>1, <1>2 DEF NoteJobFinished, SchedRecord
<1>4. DOMAIN s.inflight \subseteq DOMAIN (s.inflight (-) SetToBag({j})) \union {j}
  BY <1>1, BagDrops
<1>5. \A k \in InFlight(s) : IsTag(k, "Write") => k \in InFlight(s2)
  BY <1>3, <1>4, Zenon DEF InFlight, BagToSet
<1>6. GateInv(s2)
  BY <1>1, <1>3, <1>5, Zenon DEF GateInv
<1> QED BY <1>2, <1>6, Zenon DEF Sound

LEMMA SpawnKeepsGate ==
    ASSUME NEW s, Sound(s), CanSpawn(s)
    PROVE  Sound(SpawnNext(s))
<1>1. s \in SchedRecord /\ GateInv(s) /\ s.inflight \in JobBags
      /\ s.user \in Seq(AnyJob) /\ s.status \in Seq(AnyJob)
  BY DEF Sound, SchedRecord
<1>2. ASSUME NEW t \in SchedRecord, NEW j \in AnyJob, t.exclusive = s.exclusive,
             t.inflight = s.inflight (+) SetToBag({j}),
             ToSet(s.user) \subseteq ToSet(t.user) \union {j},
             ToSet(t.status) \subseteq ToSet(s.status)
      PROVE  Sound(t)
  <2>1. DOMAIN (s.inflight (+) SetToBag({j})) = DOMAIN s.inflight \union {j}
    BY <1>1, BagAdds
  <2>2. InFlight(t) = InFlight(s) \union {j}
    BY <1>2, <2>1, Zenon DEF InFlight, BagToSet
  <2>3. ToSet(s.user) \union InFlight(s) \subseteq ToSet(t.user) \union InFlight(t)
    BY <1>2, <2>2
  <2>4. GateInv(t)
    BY <1>1, <1>2, <2>3 DEF GateInv
  <2> QED BY <2>4 DEF Sound
<1>3. CASE \E i \in 1..Len(s.user) : SpawnNext(s) = TakesUser(s, i) /\ FirstOfLane(s.user, i)
  <2>1. PICK i \in 1..Len(s.user) : SpawnNext(s) = TakesUser(s, i)
    BY <1>3
  <2>2. PICK t \in SchedRecord : t = TakesUser(s, i)
    BY <1>1, TakesUserHolds
  <2>3. PICK j \in AnyJob : j = s.user[i]
    BY <1>1, TakesUserHolds
  <2>4. /\ t.user = RemoveAt(s.user, i) /\ t.status = s.status
        /\ t.inflight = s.inflight (+) SetToBag({j})
        /\ t = [s EXCEPT !.user = t.user, !.status = t.status, !.inflight = t.inflight,
                         !.paneInflight = t.paneInflight]
    BY <1>1, <2>2, <2>3, TakesUserHolds
  <2>5. ToSet(s.user) = ToSet(t.user) \union {j}
    BY <1>1, <2>3, <2>4, RemoveAtHolds
  <2>6. t.exclusive = s.exclusive
    BY <1>1, <2>4 DEF SchedRecord
  <2>7. Sound(t)
    BY <1>2, <2>4, <2>5, <2>6
  <2> QED BY <2>1, <2>2, <2>7, Zenon
<1>4. CASE \E i \in 1..Len(s.status) : SpawnNext(s) = TakesStatus(s, i) /\ FirstOfLane(s.status, i)
  <2>1. PICK i \in 1..Len(s.status) : SpawnNext(s) = TakesStatus(s, i)
    BY <1>4
  <2>2. PICK t \in SchedRecord : t = TakesStatus(s, i)
    BY <1>1, TakesStatusHolds
  <2>3. PICK j \in AnyJob : j = s.status[i]
    BY <1>1, TakesStatusHolds
  <2>4. /\ t.status = RemoveAt(s.status, i) /\ t.user = s.user
        /\ t.inflight = s.inflight (+) SetToBag({j})
        /\ t = [s EXCEPT !.user = t.user, !.status = t.status, !.inflight = t.inflight,
                         !.paneInflight = t.paneInflight]
    BY <1>1, <2>2, <2>3, TakesStatusHolds
  <2>5. ToSet(s.status) = ToSet(t.status) \union {j}
    BY <1>1, <2>3, <2>4, RemoveAtHolds
  <2>6. t.exclusive = s.exclusive
    BY <1>1, <2>4 DEF SchedRecord
  <2>7. Sound(t)
    BY <1>2, <2>4, <2>5, <2>6
  <2> QED BY <2>1, <2>2, <2>7, Zenon
<1> QED BY <1>1, <1>3, <1>4, SpawnNextTakesFirst

\* Changes of the user queue that drop no write.
LEMMA QueueKeepsGate ==
    ASSUME NEW s, GateInv(s), NEW s2 \in SchedRecord,
           s2.status = s.status, s2.inflight = s.inflight,
           s2.exclusive => s.exclusive \/ \E j \in ToSet(s2.user) : IsTag(j, "Write"),
           \A j \in ToSet(s.user) : IsTag(j, "Write") => j \in ToSet(s2.user)
    PROVE  Sound(s2)
<1>1. GateInv(s2)
  BY Zenon DEF GateInv, InFlight
<1> QED BY <1>1 DEF Sound

LEMMA RequestPaneKeepsGate ==
    ASSUME NEW s, Sound(s)
    PROVE  Sound(RequestPane(s))
<1>1. s \in SchedRecord /\ GateInv(s)
  BY DEF Sound
<1>2. PICK s2 \in SchedRecord : s2 = RequestPane(s)
  BY <1>1, RequestPaneHolds
<1>3. s2 = [s EXCEPT !.paneLatest = s.paneLatest + 1, !.panePending = s.paneInflight # 0,
                     !.user = s2.user]
  BY <1>1, <1>2, RequestPaneHolds
<1>4. s2.status = s.status /\ s2.inflight = s.inflight /\ s2.exclusive = s.exclusive
  BY <1>1, <1>3 DEF SchedRecord
<1>5. {j \in ToSet(s.user) : ~IsPane(j)} \subseteq ToSet(s2.user)
  <2>1. ToSet(RequestPane(s).user) =
                  {j \in ToSet(s.user) : ~IsPane(j)}
                  \union (IF s.paneInflight # 0 THEN {} ELSE {LoadPane(s.paneLatest + 1)})
    BY <1>1, RequestPaneHolds
  <2> QED BY <1>2, <2>1
<1>6. \A j : IsTag(j, "Write") => ~IsPane(j)
  BY DEF IsTag, IsPane
<1>7. \A j \in ToSet(s.user) : IsTag(j, "Write") => j \in ToSet(s2.user)
  BY <1>5, <1>6, Zenon
<1>8. Sound(s2)
  BY <1>1, <1>4, <1>7, QueueKeepsGate
<1> QED BY <1>2, <1>8, Zenon

LEMMA AcceptPaneResultKeepsGate ==
    ASSUME NEW s, Sound(s), NEW r \in Nat
    PROVE  Sound(AcceptPaneResult(s, r))
<1>1. s \in SchedRecord /\ GateInv(s)
  BY DEF Sound
<1>2. PICK s2 \in SchedRecord : s2 = AcceptPaneResult(s, r)
  BY <1>1, AcceptPaneResultHolds
<1>3. s2 = [s EXCEPT !.paneInflight = 0, !.panePending = s2.panePending, !.user = s2.user]
  BY <1>1, <1>2, AcceptPaneResultHolds
<1>4. s2.status = s.status /\ s2.inflight = s.inflight /\ s2.exclusive = s.exclusive
  BY <1>1, <1>3 DEF SchedRecord
<1> DEFINE again == r # s.paneLatest \/ s.panePending
<1>5. /\ again => ToSet(s2.user) = {j \in ToSet(s.user) : ~IsPane(j)} \union {LoadPane(s.paneLatest)}
      /\ ~again => s2.user = s.user
  BY <1>1, <1>2, AcceptPaneResultHolds, Zenon
<1> HIDE DEF again
<1>6. \A j : IsTag(j, "Write") => ~IsPane(j)
  BY DEF IsTag, IsPane
<1>7. \A j \in ToSet(s.user) : IsTag(j, "Write") => j \in ToSet(s2.user)
  BY <1>5, <1>6
<1>8. Sound(s2)
  BY <1>1, <1>4, <1>7, QueueKeepsGate
<1> QED BY <1>2, <1>8, Zenon

LEMMA WorkIsTagged == ASSUME NEW t \in Tags, NEW u PROVE IsTag(UserWork(t), u) <=> t = u
BY DEF IsTag, UserWork

LEMMA EnqueueKeepsGate ==
    ASSUME NEW s, Sound(s), NEW t \in Tags
    PROVE  /\ Sound(EnqueueUser(s, t)) /\ Sound(EnqueueUserFront(s, t))
           /\ t = "Other" => Sound(EnqueueBackground(s, t))
<1>1. s \in SchedRecord /\ GateInv(s)
  BY DEF Sound
<1>2. ASSUME NEW s2 \in SchedRecord, s2.status = s.status, s2.inflight = s.inflight,
             ToSet(s2.user) = ToSet(s.user) \union {UserWork(t)},
             s2.exclusive <=> s.exclusive \/ t = "Write"
      PROVE  Sound(s2)
  <2>1. t = "Write" => \E j \in ToSet(s2.user) : IsTag(j, "Write")
    <3>1. t = "Write" => IsTag(UserWork(t), "Write")
      BY WorkIsTagged
    <3>2. UserWork(t) \in ToSet(s2.user)
      BY <1>2
    <3> QED BY <3>1, <3>2
  <2>2. \A j \in ToSet(s.user) : IsTag(j, "Write") => j \in ToSet(s2.user)
    BY <1>2
  <2>3. s2.exclusive => s.exclusive \/ \E j \in ToSet(s2.user) : IsTag(j, "Write")
    BY <1>2, <2>1
  <2> QED BY <1>1, <1>2, <2>2, <2>3, QueueKeepsGate
<1>3. Sound(EnqueueUser(s, t))
  <2>1. PICK s2 \in SchedRecord : s2 = EnqueueUser(s, t)
    BY <1>1, EnqueueHolds
  <2>2. ToSet(s2.user) = ToSet(s.user) \union {UserWork(t)}
    BY <1>1, <2>1, EnqueueHolds
  <2>3. /\ s2.status = s.status /\ s2.inflight = s.inflight
        /\ s2.exclusive <=> s.exclusive \/ t = "Write"
    BY <1>1, <2>1 DEF EnqueueUser, SchedRecord
  <2> QED BY <1>2, <2>1, <2>2, <2>3
<1>4. Sound(EnqueueUserFront(s, t))
  <2>1. PICK s2 \in SchedRecord : s2 = EnqueueUserFront(s, t)
    BY <1>1, EnqueueHolds
  <2>2. ToSet(s2.user) = ToSet(s.user) \union {UserWork(t)}
    BY <1>1, <2>1, EnqueueHolds
  <2>3. /\ s2.status = s.status /\ s2.inflight = s.inflight
        /\ s2.exclusive <=> s.exclusive \/ t = "Write"
    BY <1>1, <2>1 DEF EnqueueUserFront, SchedRecord
  <2> QED BY <1>2, <2>1, <2>2, <2>3
<1>5. ASSUME t = "Other" PROVE Sound(EnqueueBackground(s, t))
  <2>1. PICK s2 \in SchedRecord : s2 = EnqueueBackground(s, t)
    BY <1>1, EnqueueHolds
  <2>2. ToSet(s2.status) = ToSet(s.status) \union {UserWork(t)}
    BY <1>1, <2>1, EnqueueHolds
  <2>3. /\ s2.user = s.user /\ s2.inflight = s.inflight /\ s2.exclusive = s.exclusive
    BY <1>1, <2>1 DEF EnqueueBackground, SchedRecord
  <2>4. ~IsTag(UserWork(t), "Write") /\ ~IsTag(UserWork(t), "DefaultBranch")
    BY <1>5, WorkIsTagged
  <2>5. GateInv(s2)
    BY <1>1, <2>2, <2>3, <2>4, Zenon DEF GateInv, InFlight
  <2> QED BY <2>1, <2>5, Zenon DEF Sound
<1> QED BY <1>3, <1>4, <1>5

\* The end of user work: only a write opens the gate.
LEMMA UserEndsKeepsGate ==
    ASSUME NEW s, Sound(s), NEW t \in Tags
    PROVE  Sound(NoteUserDone(NoteJobFinished(s, UserWork(t)), t))
<1>1. s \in SchedRecord /\ GateInv(s)
  BY DEF Sound
<1>2. PICK j \in AnyJob : j = UserWork(t)
  BY JobsAreJobs
<1>3. PICK s1 \in SchedRecord : s1 = NoteJobFinished(s, j)
  BY <1>1, NoteJobFinishedTyped
<1>4. PICK s2 \in SchedRecord : s2 = NoteUserDone(s1, t)
  BY NoteUserDoneTyped
<1>5. /\ s2.user = s1.user /\ s2.status = s1.status /\ s2.inflight = s1.inflight
      /\ s2.exclusive <=> s1.exclusive /\ t # "Write"
  BY <1>4 DEF NoteUserDone, SchedRecord
<1>6. s1.status = s.status
  BY <1>1, <1>3 DEF NoteJobFinished, SchedRecord
<1>7. CASE t = "Write"
  <2>1. ~s2.exclusive
    BY <1>5, <1>7
  <2>2. GateInv(s2)
    BY <1>1, <1>5, <1>6, <2>1 DEF GateInv
  <2> QED BY <1>2, <1>3, <1>4, <2>2, Zenon DEF Sound
<1>8. CASE t # "Write"
  <2>1. ~IsTag(j, "Write")
    BY <1>2, <1>8, WorkIsTagged
  <2>2. Sound(s1)
    BY <1>1, <1>3, <2>1, FinishKeepsGate
  <2>3. GateInv(s2)
    <3>1. GateInv(s1) /\ (s2.exclusive <=> s1.exclusive)
      BY <1>5, <1>8, <2>2 DEF Sound
    <3> QED BY <1>5, <3>1, Zenon DEF GateInv, InFlight
  <2> QED BY <1>2, <1>3, <1>4, <2>3, Zenon DEF Sound
<1> QED BY <1>7, <1>8

-----------------------------------------------------------------------------
(* Collects alone: Spec *)

\* A walk finds checkouts, each once.
LEMMA WalksAreSequences ==
    ASSUME NEW found \in Walks
    PROVE  /\ found \in Seq(Paths) /\ ToSet(found) \in SUBSET Paths
           /\ \A i, k \in 1..Len(found) : i # k => found[i] # found[k]
<1>1. PICK S \in SUBSET Paths : found \in SetToSeqs(S)
  BY DEF Walks
<1>2. IsFiniteSet(S)
  BY SchedulerAssumption, FS_Subset DEF SchedulerAssumption
<1>3. PICK n \in Nat : n = Cardinality(S)
  BY <1>2, FS_CardinalityType
<1>4. found \in [1..n -> S] /\ \A i, k \in 1..n : i # k => found[i] # found[k]
  BY <1>1, <1>3, Zenon DEF SetToSeqs
<1>5. found \in [1..n -> Paths]
  BY <1>4
<1>6. found \in Seq(Paths) /\ Len(found) = n /\ DOMAIN found = 1..n
  BY <1>5, SeqDef, LenProperties
<1> QED BY <1>4, <1>5, <1>6 DEF ToSet

TypeInv == /\ Sound(sched)
           /\ shown \in SUBSET Paths
           /\ row \in [Paths -> Nat]

LEMMA InitTyped == ASSUME Init PROVE TypeInv
<1>1. ToSet(<<>>) = {}
  BY DEF ToSet
<1>2. /\ InitSched.exclusive = FALSE /\ InitSched.status = <<>>
  BY DEF InitSched
<1>3. GateInv(InitSched)
  BY <1>1, <1>2 DEF GateInv
<1> QED BY <1>3, InitSchedTyped DEF Init, TypeInv, Sound

\* A method of the collects, after a worker's job ended: the scheduler stays
\* sound and nothing starts.
LEMMA CollectMethodKeeps ==
    ASSUME NEW s, Sound(s), NEW j \in AnyJob, j.kind # "user",
           NEW s2 \in SchedRecord, OnlyCollects(NoteJobFinished(s, j), s2)
    PROVE  Sound(s2) /\ LaneStep(s, s2)
<1>1. s \in SchedRecord /\ s.inflight \in JobBags
  BY DEF Sound, SchedRecord
<1>2. ~IsTag(j, "Write")
  BY DEF IsTag
<1>3. Sound(NoteJobFinished(s, j))
  BY <1>2, FinishKeepsGate
<1>4. GateInv(s2)
  <2>1. PICK s1 : s1 = NoteJobFinished(s, j)
    OBVIOUS
  <2> QED BY <1>3, <2>1, CollectsKeepGate DEF Sound
<1>5. s2.inflight = NoteJobFinished(s, j).inflight
  BY Zenon DEF OnlyCollects, QueuesGain
<1>6. NoteJobFinished(s, j).inflight = s.inflight (-) SetToBag({j})
  BY <1>1 DEF NoteJobFinished, SchedRecord
<1>7. LaneStep(s, s2)
  BY <1>1, <1>5, <1>6, StartsNothing
<1> QED BY <1>4, <1>7 DEF Sound

LEMMA NextKeeps ==
    ASSUME TypeInv, [Next]_vars
    PROVE  TypeInv' /\ LaneStep(sched, sched')
<1>1. /\ sched \in SchedRecord /\ GateInv(sched) /\ Sound(sched)
      /\ shown \in SUBSET Paths /\ row \in [Paths -> Nat] /\ sched.inflight \in JobBags
  BY DEF TypeInv, Sound, SchedRecord
<1>2. \A g \in 1..MaxGen : g \in Nat /\ Discover(g) \in AnyJob /\ Discover(g).kind # "user"
  BY JobsAreJobs
<1>3. InFlight(sched) \subseteq AnyJob
  BY <1>1, BagTyped DEF InFlight
<1>4. CASE \E focus \in shown \union {NoPath} : Tick(focus)
  <2>1. PICK focus \in Paths \union {NoPath} : Tick(focus)
    BY <1>1, <1>4
  <2>2. sched' = RequestCollect(sched, focus) /\ UNCHANGED <<row, shown>>
    BY <2>1 DEF Tick
  <2>3. sched' \in SchedRecord /\ OnlyCollects(sched, sched')
    BY <1>1, <2>2, RequestCollectTyped, RequestCollectGains
  <2>4. GateInv(sched')
    BY <1>1, <2>3, CollectsKeepGate
  <2>5. sched'.inflight = sched.inflight
    BY <2>3, Zenon DEF OnlyCollects, QueuesGain
  <2>6. LaneStep(sched, sched')
    BY <1>1, <2>5, StartsNothing
  <2> QED BY <1>1, <2>2, <2>3, <2>4, <2>6 DEF TypeInv, Sound
<1>5. CASE \E p \in shown : ReloadRepo(p)
  <2>1. PICK p \in Paths : ReloadRepo(p)
    BY <1>1, <1>5
  <2>2. sched' = OnReloadRepo(sched, p) /\ UNCHANGED <<row, shown>>
    BY <2>1 DEF ReloadRepo
  <2>3. sched' \in SchedRecord /\ OnlyCollects(sched, sched')
    BY <1>1, <2>2, OnReloadRepoTyped, OnReloadRepoGains
  <2>4. GateInv(sched')
    BY <1>1, <2>3, CollectsKeepGate
  <2>5. sched'.inflight = sched.inflight
    BY <2>3, Zenon DEF OnlyCollects, QueuesGain
  <2>6. LaneStep(sched, sched')
    BY <1>1, <2>5, StartsNothing
  <2> QED BY <1>1, <2>2, <2>3, <2>4, <2>6 DEF TypeInv, Sound
<1>6. CASE Spawn
  <2>1. CanSpawn(sched) /\ sched' = SpawnNext(sched) /\ UNCHANGED <<row, shown>>
    BY <1>6 DEF Spawn
  <2>2. Sound(sched') /\ LaneStep(sched, sched')
    BY <1>1, <2>1, SpawnKeepsGate, SpawnInOrder, Zenon
  <2> QED BY <1>1, <2>1, <2>2 DEF TypeInv, Sound
<1>7. CASE \E g \in 1..MaxGen, found \in Walks : WalkLands(g, found)
  <2>1. PICK g \in 1..MaxGen, found \in Walks : WalkLands(g, found)
    BY <1>7
  <2>2. PICK s1 \in SchedRecord : s1 = NoteJobFinished(sched, Discover(g))
    BY <1>1, <1>2, NoteJobFinishedTyped
  <2>3. sched' = OnDiscovered(s1, g, found) /\ row' = row /\ shown' \subseteq shown
    BY <2>1, <2>2 DEF WalkLands, DropUndiscovered
  <2>4. found \in Seq(Paths)
    BY WalksAreSequences
  <2>5. sched' \in SchedRecord /\ OnlyCollects(s1, sched')
    BY <1>2, <2>3, <2>4, OnDiscoveredTyped, OnDiscoveredGains
  <2>6. OnlyCollects(NoteJobFinished(sched, Discover(g)), sched')
    BY <2>2, <2>5, Zenon
  <2>7. Sound(sched') /\ LaneStep(sched, sched')
    BY <1>1, <1>2, <2>5, <2>6, CollectMethodKeeps
  <2> QED BY <1>1, <2>3, <2>7 DEF TypeInv, Sound
<1>8. CASE \E g \in 1..MaxGen : WalkPanics(g)
  <2>1. PICK g \in 1..MaxGen : WalkPanics(g)
    BY <1>8
  <2>2. PICK s1 \in SchedRecord : s1 = NoteJobFinished(sched, Discover(g))
    BY <1>1, <1>2, NoteJobFinishedTyped
  <2>3. sched' = AbandonCollection(s1, g) /\ row' = row /\ shown' = shown
    BY <2>1, <2>2 DEF WalkPanics
  <2>4. sched' \in SchedRecord /\ OnlyCollects(s1, sched')
    BY <2>3, AbandonCollectionTyped, AbandonCollectionGains
  <2>5. OnlyCollects(NoteJobFinished(sched, Discover(g)), sched')
    BY <2>2, <2>4, Zenon
  <2>6. Sound(sched') /\ LaneStep(sched, sched')
    BY <1>1, <1>2, <2>4, <2>5, CollectMethodKeeps
  <2> QED BY <1>1, <2>3, <2>6 DEF TypeInv, Sound
<1>9. ASSUME NEW j \in StatusJobs,
             StatusPanics(j) \/ \E there \in BOOLEAN : StatusLands(j, there)
      PROVE  TypeInv' /\ LaneStep(sched, sched')
  <2>1. /\ j \in AnyJob /\ j.kind = "status" /\ j.kind # "user"
        /\ j.gen \in Nat /\ j.path \in Paths
    BY <1>3, <1>9, KindsOfJob DEF StatusJobs
  <2>2. PICK s1 \in SchedRecord : s1 = NoteJobFinished(sched, j)
    BY <1>1, <2>1, NoteJobFinishedTyped
  <2>3. sched' = s1 \/ sched' = NoteRepoDone(s1, j.path)
    BY <1>9, <2>2 DEF StatusPanics, StatusLands
  <2>4. sched' \in SchedRecord /\ OnlyCollects(s1, sched')
    BY <2>1, <2>3, NoteRepoDoneTyped, NoteRepoDoneGains, GainsNothing
  <2>5. OnlyCollects(NoteJobFinished(sched, j), sched')
    BY <2>2, <2>4, Zenon
  <2>6. Sound(sched') /\ LaneStep(sched, sched')
    BY <1>1, <2>1, <2>4, <2>5, CollectMethodKeeps
  <2>7. row' \in [Paths -> Nat] /\ shown' \in SUBSET Paths
    BY <1>1, <1>9, <2>1 DEF StatusPanics, StatusLands, ApplyOneRepo
  <2> QED BY <2>6, <2>7 DEF TypeInv, Sound
<1>10. CASE UNCHANGED vars
  <2>1. sched' = sched /\ row' = row /\ shown' = shown
    BY <1>10 DEF vars
  <2>2. LaneStep(sched, sched')
    BY <1>1, <2>1, StartsNothing
  <2> QED BY <1>1, <2>1, <2>2 DEF TypeInv
<1> QED BY <1>4, <1>5, <1>6, <1>7, <1>8, <1>9, <1>10 DEF Next

\* Fairness aside, every behaviour of Spec is typed and its gate is sound.
LEMMA TypeInvHolds == Spec => []TypeInv
<1>1. Init => TypeInv
  BY InitTyped
<1>2. TypeInv /\ [Next]_vars => TypeInv'
  BY NextKeeps
<1> QED BY <1>1, <1>2, PTL DEF Spec

\* Collects: the job that starts was the first of its lane in its queue.
\* (scheduler.rs spawn_next)
THEOREM CollectsStartInOrder == Spec => LaneOrder
<1>1. TypeInv /\ [Next]_vars => [LaneStep(sched, sched')]_vars
  BY NextKeeps
<1>2. LaneStep(sched, sched') <=>
        \A j \in InFlight(sched') :
          sched'.inflight = sched.inflight (+) SetToBag({j}) =>
              \/ \E i \in DOMAIN sched.user :
                    /\ j = sched.user[i] /\ sched'.user = RemoveAt(sched.user, i)
                    /\ \A k \in 1..(i - 1) : IsBulkRemote(sched.user[k]) # IsBulkRemote(j)
              \/ \E i \in DOMAIN sched.status :
                    /\ j = sched.status[i] /\ sched'.status = RemoveAt(sched.status, i)
                    /\ \A k \in 1..(i - 1) : IsBulkRemote(sched.status[k]) # IsBulkRemote(j)
  BY DEF LaneStep
<1> QED BY <1>1, <1>2, TypeInvHolds, PTL DEF Spec, LaneOrder, LaneStep

-----------------------------------------------------------------------------
(* The pane: what the scheduler's methods keep of PaneShape *)

OnePane(q) == \A i, k \in DOMAIN q : IsPane(q[i]) /\ IsPane(q[k]) => i = k

Shaped(s) == Sound(s) /\ PaneShape(s) /\ NoCollects(s)

LEMMA NoPaneInRest ==
    ASSUME NEW q \in Seq(AnyJob)
    PROVE  OnePane(WithoutPane(q))
<1>1. PICK r \in Seq(AnyJob) : r = WithoutPane(q) /\ ToSet(r) = {j \in ToSet(q) : ~IsPane(j)}
  BY WithoutPaneHolds
<1>2. \A i \in DOMAIN r : ~IsPane(r[i])
  BY <1>1 DEF ToSet
<1> QED BY <1>1, <1>2, Zenon DEF OnePane

LEMMA OnePaneInFront ==
    ASSUME NEW q \in Seq(AnyJob), \A j \in ToSet(q) : ~IsPane(j), NEW e \in AnyJob
    PROVE  OnePane(<<e>> \o q)
<1>1. PICK u \in Seq(AnyJob) : u = <<e>> /\ Len(u) = 1
  <2>1. <<e>> \in Seq(AnyJob) /\ Len(<<e>>) = 1
    BY SingletonHolds
  <2> QED BY <2>1, Zenon
<1>2. PICK r \in Seq(AnyJob) : r = u \o q
  BY ConcatHolds
<1>3. /\ Len(r) = 1 + Len(q) /\ Len(q) \in Nat
      /\ \A i \in 1..(1 + Len(q)) : r[i] = IF i <= 1 THEN u[i] ELSE q[i - 1]
  BY <1>1, <1>2, ConcatProperties, LenProperties
<1>4. DOMAIN r = 1..(1 + Len(q)) /\ DOMAIN q = 1..Len(q)
  BY <1>3, LenProperties
<1>5. ASSUME NEW i \in DOMAIN r, IsPane(r[i]) PROVE i = 1
  <2>1. SUFFICES ASSUME i # 1 PROVE FALSE
    OBVIOUS
  <2>2. i - 1 \in 1..Len(q) /\ ~(i <= 1)
    BY <1>3, <1>4, <2>1
  <2>3. r[i] = q[i - 1] /\ q[i - 1] \in ToSet(q)
    BY <1>3, <1>4, <2>2 DEF ToSet
  <2> QED BY <1>5, <2>3
<1>6. OnePane(r)
  BY <1>5 DEF OnePane
<1> QED BY <1>1, <1>2, <1>6

LEMMA OnePaneRemoved ==
    ASSUME NEW q \in Seq(AnyJob), OnePane(q), NEW i \in 1..Len(q)
    PROVE  /\ OnePane(RemoveAt(q, i))
           /\ IsPane(q[i]) => \A j \in ToSet(RemoveAt(q, i)) : ~IsPane(j)
<1>1. PICK r \in Seq(AnyJob) : r = RemoveAt(q, i)
  BY RemoveAtHolds
<1>2. /\ Len(r) = Len(q) - 1
      /\ \A k \in 1..(Len(q) - 1) : r[k] = IF k < i THEN q[k] ELSE q[k + 1]
  BY <1>1, RemoveAtHolds
<1>3. Len(q) \in Nat /\ DOMAIN q = 1..Len(q) /\ DOMAIN r = 1..(Len(q) - 1)
  BY <1>2, LenProperties
<1> DEFINE old(k) == IF k < i THEN k ELSE k + 1
<1>4. \A k \in DOMAIN r : old(k) \in DOMAIN q /\ r[k] = q[old(k)] /\ old(k) # i
  BY <1>2, <1>3
<1>5. \A k, m \in DOMAIN r : old(k) = old(m) => k = m
  BY <1>3
<1>6. i \in DOMAIN q
  BY <1>3
<1> HIDE DEF old
<1>7. OnePane(r)
  BY <1>4, <1>5 DEF OnePane
<1>8. ASSUME IsPane(q[i]), NEW j \in ToSet(r) PROVE ~IsPane(j)
  <2>1. PICK k \in DOMAIN r : j = r[k]
    BY DEF ToSet
  <2> QED BY <1>4, <1>6, <1>8, <2>1 DEF OnePane
<1> QED BY <1>1, <1>7, <1>8

LEMMA OnePaneKept ==
    ASSUME NEW q \in Seq(AnyJob), OnePane(q), NEW e \in AnyJob, ~IsPane(e)
    PROVE  OnePane(Append(q, e)) /\ OnePane(<<e>> \o q)
<1>1. Len(q) \in Nat /\ DOMAIN q = 1..Len(q)
  BY LenProperties
<1>2. OnePane(Append(q, e))
  <2>1. PICK r \in Seq(AnyJob) : r = Append(q, e)
    BY BackHolds
  <2>2. Len(r) = Len(q) + 1 /\ (\A i \in 1..Len(q) : r[i] = q[i]) /\ r[Len(q) + 1] = e
    BY <2>1, AppendProperties
  <2>3. DOMAIN r = 1..(Len(q) + 1)
    BY <2>2, LenProperties
  <2>4. \A i \in DOMAIN r : i \in DOMAIN q \/ i = Len(q) + 1
    BY <1>1, <2>3
  <2>5. \A i \in DOMAIN r : IsPane(r[i]) => i \in DOMAIN q /\ r[i] = q[i]
    BY <1>1, <2>2, <2>4
  <2> QED BY <2>1, <2>5, Zenon DEF OnePane
<1>3. OnePane(<<e>> \o q)
  <2>1. PICK u \in Seq(AnyJob) : u = <<e>> /\ Len(u) = 1 /\ u[1] = e
    <3>1. <<e>> \in Seq(AnyJob) /\ Len(<<e>>) = 1 /\ <<e>>[1] = e
      BY SingletonHolds
    <3> QED BY <3>1, Zenon
  <2>2. PICK r \in Seq(AnyJob) : r = u \o q
    BY ConcatHolds
  <2>3. /\ Len(r) = 1 + Len(q)
        /\ \A i \in 1..(1 + Len(q)) : r[i] = IF i <= 1 THEN u[i] ELSE q[i - 1]
    BY <2>1, <2>2, ConcatProperties
  <2>4. DOMAIN r = 1..(1 + Len(q))
    BY <2>3, LenProperties
  <2>5. ASSUME NEW i \in DOMAIN r, IsPane(r[i]) PROVE i - 1 \in DOMAIN q /\ r[i] = q[i - 1]
    <3>1. i # 1
      <4>1. i = 1 => r[i] = e
        BY <1>1, <2>1, <2>3, <2>4
      <4> QED BY <2>5, <4>1
    <3>2. i - 1 \in 1..Len(q) /\ ~(i <= 1)
      BY <1>1, <2>4, <3>1
    <3> QED BY <1>1, <2>3, <2>4, <3>2
  <2>6. ASSUME NEW i \in DOMAIN r, NEW k \in DOMAIN r, IsPane(r[i]), IsPane(r[k]) PROVE i = k
    <3>1. i - 1 = k - 1
      BY <2>5, <2>6 DEF OnePane
    <3> QED BY <1>1, <2>4, <3>1
  <2>7. OnePane(r)
    BY <2>6 DEF OnePane
  <2> QED BY <2>1, <2>2, <2>7
<1> QED BY <1>2, <1>3

\* The parts of PaneShape, one by one.
LEMMA ShapeParts ==
    ASSUME NEW s
    PROVE  PaneShape(s) <=>
             /\ OnePane(s.user)
             /\ \A j \in ToSet(s.user) :
                    IsPane(j) => j = LoadPane(s.paneLatest) /\ s.paneInflight = 0 /\ s.paneLatest # 0
             /\ \A j \in ToSet(s.status) : ~IsPane(j)
             /\ \A j \in InFlight(s) :
                    IsPane(j) => j = LoadPane(s.paneInflight) /\ s.paneInflight # 0 /\ s.inflight[j] = 1
             /\ s.paneInflight # 0 => LoadPane(s.paneInflight) \in InFlight(s)
             /\ s.paneInflight <= s.paneLatest
             /\ s.panePending <=> s.paneInflight # 0 /\ s.paneInflight # s.paneLatest
             /\ \A j \in ToSet(s.user) \union ToSet(s.status) \union InFlight(s) :
                    j.kind \in {"pane", "user"}
BY Zenon DEF PaneShape, OnePane, Live, Queued

LEMMA PaneIsPane == \A r : IsPane(LoadPane(r)) /\ LoadPane(r).kind = "pane" /\ LoadPane(r).req = r
BY DEF IsPane, LoadPane

LEMMA RequestPaneShaped ==
    ASSUME NEW s, Shaped(s)
    PROVE  LET s2 == RequestPane(s)
           IN  /\ Shaped(s2)
               /\ s2.paneLatest = s.paneLatest + 1 /\ s2.paneInflight = s.paneInflight
               /\ QueuedPane(s2) <=> s.paneInflight = 0
<1>1. s \in SchedRecord /\ PaneShape(s) /\ NoCollects(s) /\ Sound(s)
  BY DEF Shaped, Sound
<1>2. PICK s2 \in SchedRecord : s2 = RequestPane(s)
  BY <1>1, RequestPaneHolds
<1> DEFINE rest == WithoutPane(s.user)
<1>3. s.user \in Seq(AnyJob) /\ s.paneLatest \in Nat /\ s.paneInflight \in Nat
  BY <1>1 DEF SchedRecord
<1>4. rest \in Seq(AnyJob) /\ ToSet(rest) = {j \in ToSet(s.user) : ~IsPane(j)} /\ OnePane(rest)
  BY <1>3, WithoutPaneHolds, NoPaneInRest
<1>5. LoadPane(s.paneLatest + 1) \in AnyJob
  BY <1>3, JobsAreJobs
<1>6. s2 = [s EXCEPT !.paneLatest = s.paneLatest + 1, !.panePending = s.paneInflight # 0,
                     !.user = s2.user]
  BY <1>1, <1>2, RequestPaneHolds
<1>7. /\ s2.paneLatest = s.paneLatest + 1 /\ s2.paneInflight = s.paneInflight
      /\ s2.panePending <=> s.paneInflight # 0
      /\ s2.status = s.status /\ s2.inflight = s.inflight
      /\ s2.nextGen = s.nextGen /\ s2.col = s.col /\ s2.latched = s.latched /\ s2.pathGen = s.pathGen
  BY <1>1, <1>6 DEF SchedRecord
<1>8. s2.user = IF s.paneInflight # 0 THEN rest ELSE <<LoadPane(s.paneLatest + 1)>> \o rest
  BY <1>1, <1>2 DEF RequestPane, SchedRecord
<1>9. ToSet(s2.user) = {j \in ToSet(s.user) : ~IsPane(j)}
                       \union (IF s.paneInflight # 0 THEN {} ELSE {LoadPane(s.paneLatest + 1)})
  BY <1>1, <1>2, RequestPaneHolds
<1> HIDE DEF rest
<1>10. OnePane(s2.user)
  <2>1. \A j \in ToSet(rest) : ~IsPane(j)
    BY <1>4
  <2>2. OnePane(<<LoadPane(s.paneLatest + 1)>> \o rest)
    BY <1>4, <1>5, <2>1, OnePaneInFront
  <2> QED BY <1>4, <1>8, <2>2, Zenon
<1>11. /\ \A j \in ToSet(s2.user) :
              IsPane(j) => j = LoadPane(s2.paneLatest) /\ s2.paneInflight = 0 /\ s2.paneLatest # 0
       /\ \A j \in ToSet(s2.user) : j.kind \in {"pane", "user"}
       /\ QueuedPane(s2) <=> s.paneInflight = 0
  <2>1. \A j \in ToSet(s.user) : j.kind \in {"pane", "user"}
    BY <1>1, ShapeParts
  <2>2. s.paneLatest + 1 # 0
    BY <1>3
  <2>3. CASE s.paneInflight # 0
    <3>1. ToSet(s2.user) = {j \in ToSet(s.user) : ~IsPane(j)}
      BY <1>9, <2>3
    <3> QED BY <2>1, <2>3, <3>1 DEF QueuedPane
  <2>4. CASE s.paneInflight = 0
    <3>1. ToSet(s2.user) = {j \in ToSet(s.user) : ~IsPane(j)} \union {LoadPane(s.paneLatest + 1)}
      BY <1>9, <2>4
    <3>2. QueuedPane(s2)
      BY <3>1, PaneIsPane DEF QueuedPane
    <3>3. \A j \in ToSet(s2.user) : IsPane(j) => j = LoadPane(s.paneLatest + 1)
      BY <3>1
    <3>4. \A j \in ToSet(s2.user) : j.kind \in {"pane", "user"}
      BY <2>1, <3>1, PaneIsPane
    <3> QED BY <1>7, <2>2, <2>4, <3>2, <3>3, <3>4
  <2> QED BY <2>3, <2>4
<1>12. InFlight(s2) = InFlight(s)
  BY <1>7 DEF InFlight
<1>13. s2.paneInflight <= s2.paneLatest
       /\ (s2.panePending <=> s2.paneInflight # 0 /\ s2.paneInflight # s2.paneLatest)
  <2>1. s.paneInflight <= s.paneLatest
    BY <1>1, ShapeParts
  <2> QED BY <1>3, <1>7, <2>1
<1>14. /\ \A j \in ToSet(s2.status) : ~IsPane(j)
       /\ \A j \in InFlight(s2) :
              IsPane(j) => j = LoadPane(s2.paneInflight) /\ s2.paneInflight # 0 /\ s2.inflight[j] = 1
       /\ s2.paneInflight # 0 => LoadPane(s2.paneInflight) \in InFlight(s2)
       /\ \A j \in ToSet(s2.status) \union InFlight(s2) : j.kind \in {"pane", "user"}
  <2>1. /\ \A j \in ToSet(s.status) : ~IsPane(j)
        /\ \A j \in InFlight(s) :
              IsPane(j) => j = LoadPane(s.paneInflight) /\ s.paneInflight # 0 /\ s.inflight[j] = 1
        /\ s.paneInflight # 0 => LoadPane(s.paneInflight) \in InFlight(s)
        /\ \A j \in ToSet(s.status) \union InFlight(s) : j.kind \in {"pane", "user"}
    BY <1>1, ShapeParts
  <2> QED BY <1>7, <1>12, <2>1
<1>15. PaneShape(s2)
  BY <1>10, <1>11, <1>13, <1>14, ShapeParts
<1>16. NoCollects(s2)
  BY <1>1, <1>7 DEF NoCollects
<1>17. Sound(s2)
  BY <1>1, <1>2, RequestPaneKeepsGate
<1>18. Shaped(s2)
  BY <1>15, <1>16, <1>17 DEF Shaped
<1> QED BY <1>2, <1>7, <1>11, <1>18, Zenon

\* A load that ends was the one on a worker; it is asked for again exactly when
\* a request came meanwhile.
LEMMA PaneEndsShaped ==
    ASSUME NEW s, Shaped(s), NEW r \in Nat, LoadPane(r) \in InFlight(s)
    PROVE  LET s2 == AcceptPaneResult(NoteJobFinished(s, LoadPane(r)), r)
           IN  /\ Shaped(s2)
               /\ r = s.paneInflight /\ s.paneInflight # 0
               /\ s2.paneLatest = s.paneLatest /\ s2.paneInflight = 0 /\ s2.panePending = FALSE
               /\ QueuedPane(s2) <=> s.panePending
               /\ s.panePending <=> r # s.paneLatest
<1>1. s \in SchedRecord /\ PaneShape(s) /\ NoCollects(s) /\ Sound(s)
  BY DEF Shaped, Sound
<1>2. PICK j \in AnyJob : j = LoadPane(r) /\ j.kind = "pane" /\ j.req = r
  BY JobsAreJobs
<1>3. /\ s.user \in Seq(AnyJob) /\ s.paneLatest \in Nat /\ s.paneInflight \in Nat
      /\ s.panePending \in BOOLEAN /\ s.inflight \in JobBags
  BY <1>1 DEF SchedRecord
<1>4. /\ OnePane(s.user)
      /\ \A k \in ToSet(s.user) :
             IsPane(k) => k = LoadPane(s.paneLatest) /\ s.paneInflight = 0 /\ s.paneLatest # 0
      /\ \A k \in ToSet(s.status) : ~IsPane(k)
      /\ \A k \in InFlight(s) :
             IsPane(k) => k = LoadPane(s.paneInflight) /\ s.paneInflight # 0 /\ s.inflight[k] = 1
      /\ s.paneInflight <= s.paneLatest
      /\ s.panePending <=> s.paneInflight # 0 /\ s.paneInflight # s.paneLatest
      /\ \A k \in ToSet(s.user) \union ToSet(s.status) \union InFlight(s) :
             k.kind \in {"pane", "user"}
  BY <1>1, ShapeParts
<1>5. r = s.paneInflight /\ s.paneInflight # 0 /\ s.inflight[j] = 1 /\ j \in InFlight(s)
  <2>1. j = LoadPane(s.paneInflight) /\ s.paneInflight # 0 /\ s.inflight[j] = 1
    BY <1>2, <1>4, PaneIsPane
  <2> QED BY <1>2, <2>1, PaneIsPane
<1>6. PICK s1 \in SchedRecord : s1 = NoteJobFinished(s, j)
  BY <1>1, NoteJobFinishedTyped
<1>7. /\ s1.user = s.user /\ s1.status = s.status /\ s1.inflight = s.inflight (-) SetToBag({j})
      /\ s1.paneLatest = s.paneLatest /\ s1.panePending = s.panePending
      /\ s1.nextGen = s.nextGen /\ s1.col = s.col /\ s1.latched = s.latched /\ s1.pathGen = s.pathGen
  BY <1>1, <1>6 DEF NoteJobFinished, SchedRecord
<1>8. PICK s2 \in SchedRecord : s2 = AcceptPaneResult(s1, r)
  BY AcceptPaneResultHolds
<1>9. /\ s2 = [s1 EXCEPT !.paneInflight = 0, !.panePending = s2.panePending, !.user = s2.user]
      /\ s2.panePending = FALSE
  BY <1>8, AcceptPaneResultHolds
<1>10. /\ s2.paneInflight = 0 /\ s2.status = s.status /\ s2.inflight = s.inflight (-) SetToBag({j})
       /\ s2.paneLatest = s.paneLatest
       /\ s2.nextGen = s.nextGen /\ s2.col = s.col /\ s2.latched = s.latched /\ s2.pathGen = s.pathGen
  BY <1>7, <1>9 DEF SchedRecord
<1>11. DOMAIN s2.inflight = DOMAIN s.inflight \ {j} /\ InFlight(s2) = InFlight(s) \ {j}
  <2>1. Copies(s.inflight, j) = 1
    BY <1>5 DEF Copies, InFlight, BagToSet
  <2>2. DOMAIN (s.inflight (-) SetToBag({j})) = DOMAIN s.inflight \ {j}
    BY <1>3, <2>1, BagDrops
  <2> QED BY <1>10, <2>2, Zenon DEF InFlight, BagToSet
<1>12. \A k \in InFlight(s2) : ~IsPane(k) /\ k \in InFlight(s)
  BY <1>2, <1>4, <1>5, <1>11
<1>13. s.panePending <=> r # s.paneLatest
  BY <1>4, <1>5
<1>14. \A k \in ToSet(s.user) : ~IsPane(k)
  BY <1>4, <1>5
<1> DEFINE again == r # s1.paneLatest \/ s1.panePending
<1>15. /\ again => ToSet(s2.user) = {k \in ToSet(s1.user) : ~IsPane(k)} \union {LoadPane(s1.paneLatest)}
       /\ ~again => s2.user = s1.user
  BY <1>8, AcceptPaneResultHolds, Zenon
<1>16. again => s2.user = <<LoadPane(s1.paneLatest)>> \o WithoutPane(s1.user)
  BY <1>8 DEF AcceptPaneResult, PaneAccepted, SchedRecord
<1>17. again <=> s.panePending
  BY <1>7, <1>13
<1> HIDE DEF again
<1>18. s.panePending => s.paneLatest # 0
  BY <1>3, <1>4
<1>19. /\ OnePane(s2.user)
       /\ \A k \in ToSet(s2.user) : IsPane(k) => k = LoadPane(s2.paneLatest) /\ s2.paneLatest # 0
       /\ \A k \in ToSet(s2.user) : k.kind \in {"pane", "user"}
       /\ QueuedPane(s2) <=> s.panePending
  <2>1. CASE again
    <3>1. ToSet(s2.user) = {k \in ToSet(s.user) : ~IsPane(k)} \union {LoadPane(s.paneLatest)}
      BY <1>7, <1>15, <2>1, Zenon
    <3>2. PICK e \in AnyJob : e = LoadPane(s.paneLatest)
      BY <1>3, JobsAreJobs
    <3>3. PICK rest \in Seq(AnyJob) : rest = WithoutPane(s.user) /\ ToSet(rest) = {k \in ToSet(s.user) : ~IsPane(k)}
      BY <1>3, WithoutPaneHolds
    <3>4. OnePane(<<e>> \o rest)
      BY <3>3, OnePaneInFront
    <3>5. OnePane(s2.user)
      BY <1>7, <1>16, <2>1, <3>2, <3>3, <3>4, Zenon
    <3>6. \A k \in ToSet(s2.user) : IsPane(k) => k = LoadPane(s.paneLatest)
      BY <3>1
    <3>7. \A k \in ToSet(s2.user) : k.kind \in {"pane", "user"}
      BY <1>4, <3>1, PaneIsPane
    <3>8. QueuedPane(s2)
      BY <3>1, PaneIsPane DEF QueuedPane
    <3> QED BY <1>10, <1>17, <1>18, <2>1, <3>5, <3>6, <3>7, <3>8
  <2>2. CASE ~again
    <3>1. s2.user = s.user
      BY <1>7, <1>15, <2>2, Zenon
    <3> QED BY <1>4, <1>14, <1>17, <2>2, <3>1 DEF QueuedPane
  <2> QED BY <2>1, <2>2
<1>20. PaneShape(s2)
  <2>1. /\ \A k \in ToSet(s2.status) : ~IsPane(k)
        /\ \A k \in ToSet(s2.user) \union ToSet(s2.status) \union InFlight(s2) :
             k.kind \in {"pane", "user"}
    BY <1>4, <1>10, <1>12, <1>19
  <2>2. /\ s2.paneInflight <= s2.paneLatest
        /\ s2.panePending <=> s2.paneInflight # 0 /\ s2.paneInflight # s2.paneLatest
    BY <1>3, <1>9, <1>10
  <2> QED BY <1>10, <1>12, <1>19, <2>1, <2>2, ShapeParts
<1>21. NoCollects(s2)
  BY <1>1, <1>10 DEF NoCollects
<1>22. Sound(s2)
  <2>1. ~IsTag(j, "Write")
    BY <1>2 DEF IsTag
  <2>2. Sound(s1)
    BY <1>1, <1>6, <2>1, FinishKeepsGate
  <2> QED BY <1>8, <2>2, AcceptPaneResultKeepsGate
<1>23. Shaped(s2)
  BY <1>20, <1>21, <1>22 DEF Shaped
<1>24. s2 = AcceptPaneResult(NoteJobFinished(s, LoadPane(r)), r)
  BY <1>2, <1>6, <1>8, Zenon
<1> QED BY <1>5, <1>9, <1>10, <1>13, <1>19, <1>23, <1>24, Zenon

\* Any other job may start: the pane's state stays.
LEMMA OtherStartsShaped ==
    ASSUME NEW s, Shaped(s), NEW j \in AnyJob, ~IsPane(j), j.kind \in {"pane", "user"},
           NEW t \in SchedRecord, Sound(t),
           t = [s EXCEPT !.user = t.user, !.status = t.status, !.inflight = t.inflight,
                         !.paneInflight = t.paneInflight],
           t.inflight = s.inflight (+) SetToBag({j}), t.paneInflight = s.paneInflight,
           OnePane(t.user), ToSet(t.user) \subseteq ToSet(s.user),
           ToSet(s.user) \subseteq ToSet(t.user) \union {j},
           ToSet(t.status) \subseteq ToSet(s.status)
    PROVE  /\ Shaped(t) /\ t.paneLatest = s.paneLatest
           /\ t.panePending = s.panePending /\ (QueuedPane(t) <=> QueuedPane(s))
<1>1. s \in SchedRecord /\ PaneShape(s) /\ NoCollects(s) /\ s.inflight \in JobBags
  BY DEF Shaped, Sound, SchedRecord
<1>2. /\ \A k \in ToSet(s.user) :
             IsPane(k) => k = LoadPane(s.paneLatest) /\ s.paneInflight = 0 /\ s.paneLatest # 0
      /\ \A k \in ToSet(s.status) : ~IsPane(k)
      /\ \A k \in InFlight(s) :
             IsPane(k) => k = LoadPane(s.paneInflight) /\ s.paneInflight # 0 /\ s.inflight[k] = 1
      /\ s.paneInflight # 0 => LoadPane(s.paneInflight) \in InFlight(s)
      /\ s.paneInflight <= s.paneLatest
      /\ s.panePending <=> s.paneInflight # 0 /\ s.paneInflight # s.paneLatest
      /\ \A k \in ToSet(s.user) \union ToSet(s.status) \union InFlight(s) :
             k.kind \in {"pane", "user"}
  BY <1>1, ShapeParts
<1>3. /\ t.paneLatest = s.paneLatest /\ t.panePending = s.panePending
      /\ t.nextGen = s.nextGen /\ t.col = s.col /\ t.latched = s.latched /\ t.pathGen = s.pathGen
  BY <1>1 DEF SchedRecord
<1>4. DOMAIN t.inflight = DOMAIN s.inflight \union {j} /\ InFlight(t) = InFlight(s) \union {j}
  <2>1. DOMAIN (s.inflight (+) SetToBag({j})) = DOMAIN s.inflight \union {j}
    BY <1>1, BagAdds
  <2> QED BY <2>1, Zenon DEF InFlight, BagToSet
<1>5. ASSUME NEW k \in InFlight(s), k # j, s.inflight[k] = 1 PROVE t.inflight[k] = 1
  <2>1. PICK c : c = s.inflight (+) SetToBag({j})
    OBVIOUS
  <2>2. Copies(c, k) = Copies(s.inflight, k) + (IF k = j THEN 1 ELSE 0)
    <3>1. \A m : Copies(s.inflight (+) SetToBag({j}), m) =
                    Copies(s.inflight, m) + (IF m = j THEN 1 ELSE 0)
      BY <1>1, BagAdds
    <3> QED BY <2>1, <3>1, Zenon
  <2>3. Copies(s.inflight, k) = 1 /\ k \in DOMAIN c
    BY <1>4, <1>5, <2>1 DEF Copies, InFlight, BagToSet
  <2>4. Copies(c, k) = 1
    BY <1>5, <2>2, <2>3
  <2>5. c[k] = 1
    BY <2>3, <2>4 DEF Copies
  <2> QED BY <2>1, <2>5
<1>6. \A k \in InFlight(t) :
             IsPane(k) => k = LoadPane(t.paneInflight) /\ t.paneInflight # 0 /\ t.inflight[k] = 1
  BY <1>2, <1>4, <1>5
<1>7. \A k \in ToSet(t.user) \union ToSet(t.status) \union InFlight(t) : k.kind \in {"pane", "user"}
  BY <1>2, <1>4
<1>8. PaneShape(t)
  BY <1>2, <1>3, <1>4, <1>6, <1>7, ShapeParts
<1>9. QueuedPane(t) <=> QueuedPane(s)
  BY DEF QueuedPane
<1>10. NoCollects(t)
  BY <1>1, <1>3 DEF NoCollects
<1> QED BY <1>3, <1>8, <1>9, <1>10 DEF Shaped

\* The pane's load starts: the queue held it, and holds no other.
LEMMA PaneStartsShaped ==
    ASSUME NEW s, Shaped(s), NEW j \in AnyJob, IsPane(j),
           NEW t \in SchedRecord, Sound(t),
           t = [s EXCEPT !.user = t.user, !.status = t.status, !.inflight = t.inflight,
                         !.paneInflight = t.paneInflight],
           t.inflight = s.inflight (+) SetToBag({j}), t.paneInflight = j.req,
           j \in ToSet(s.user), \A k \in ToSet(t.user) : ~IsPane(k),
           ToSet(t.user) \subseteq ToSet(s.user), t.status = s.status
    PROVE  /\ Shaped(t) /\ t.paneLatest = s.paneLatest
           /\ QueuedPane(s) /\ s.paneInflight = 0 /\ ~s.panePending
           /\ s.paneLatest # 0 /\ t.paneInflight = s.paneLatest
           /\ ~QueuedPane(t) /\ ~t.panePending
<1>1. s \in SchedRecord /\ PaneShape(s) /\ NoCollects(s) /\ s.inflight \in JobBags
      /\ s.paneLatest \in Nat
  BY DEF Shaped, Sound, SchedRecord
<1>2. /\ \A k \in ToSet(s.user) :
             IsPane(k) => k = LoadPane(s.paneLatest) /\ s.paneInflight = 0 /\ s.paneLatest # 0
      /\ \A k \in ToSet(s.status) : ~IsPane(k)
      /\ \A k \in InFlight(s) :
             IsPane(k) => k = LoadPane(s.paneInflight) /\ s.paneInflight # 0 /\ s.inflight[k] = 1
      /\ s.panePending <=> s.paneInflight # 0 /\ s.paneInflight # s.paneLatest
      /\ \A k \in ToSet(s.user) \union ToSet(s.status) \union InFlight(s) :
             k.kind \in {"pane", "user"}
  BY <1>1, ShapeParts
<1>3. /\ t.paneLatest = s.paneLatest /\ t.panePending = s.panePending
      /\ t.nextGen = s.nextGen /\ t.col = s.col /\ t.latched = s.latched /\ t.pathGen = s.pathGen
  BY <1>1 DEF SchedRecord
<1>4. j = LoadPane(s.paneLatest) /\ s.paneInflight = 0 /\ s.paneLatest # 0 /\ ~s.panePending
      /\ t.paneInflight = s.paneLatest /\ QueuedPane(s)
  BY <1>2, PaneIsPane DEF QueuedPane
<1>5. \A k \in InFlight(s) : ~IsPane(k)
  BY <1>2, <1>4
<1>6. DOMAIN t.inflight = DOMAIN s.inflight \union {j} /\ InFlight(t) = InFlight(s) \union {j}
  <2>1. DOMAIN (s.inflight (+) SetToBag({j})) = DOMAIN s.inflight \union {j}
    BY <1>1, BagAdds
  <2> QED BY <2>1, Zenon DEF InFlight, BagToSet
<1>7. t.inflight[j] = 1
  <2>1. PICK c : c = s.inflight (+) SetToBag({j})
    OBVIOUS
  <2>2. Copies(c, j) = Copies(s.inflight, j) + (IF j = j THEN 1 ELSE 0)
    BY <1>1, <2>1, BagAdds
  <2>3. Copies(s.inflight, j) = 0 /\ j \in DOMAIN c
    BY <1>5, <1>6, <2>1 DEF Copies, InFlight, BagToSet
  <2>4. Copies(c, j) = 1
    BY <2>2, <2>3
  <2>5. c[j] = 1
    BY <2>3, <2>4 DEF Copies
  <2> QED BY <2>1, <2>5
<1>8. /\ \A k \in InFlight(t) :
              IsPane(k) => k = LoadPane(t.paneInflight) /\ t.paneInflight # 0 /\ t.inflight[k] = 1
      /\ LoadPane(t.paneInflight) \in InFlight(t)
  BY <1>4, <1>5, <1>6, <1>7
<1>9. \A k \in ToSet(t.user) \union ToSet(t.status) \union InFlight(t) : k.kind \in {"pane", "user"}
  BY <1>2, <1>6
<1>10. OnePane(t.user)
  BY DEF OnePane, ToSet
<1>11. t.paneInflight <= t.paneLatest
       /\ (t.panePending <=> t.paneInflight # 0 /\ t.paneInflight # t.paneLatest)
  BY <1>1, <1>3, <1>4
<1>12. PaneShape(t)
  BY <1>2, <1>8, <1>9, <1>10, <1>11, ShapeParts
<1>13. ~QueuedPane(t)
  BY DEF QueuedPane
<1>14. NoCollects(t)
  BY <1>1, <1>3 DEF NoCollects
<1> QED BY <1>3, <1>4, <1>12, <1>13, <1>14 DEF Shaped

\* What a turn of spawn_next does to the pane.
LEMMA SpawnShaped ==
    ASSUME NEW s, Shaped(s), CanSpawn(s)
    PROVE  LET t == SpawnNext(s)
           IN  /\ Shaped(t) /\ t.paneLatest = s.paneLatest
               /\ \/ /\ t.paneInflight = s.paneInflight /\ t.panePending = s.panePending
                     /\ QueuedPane(t) <=> QueuedPane(s)
                  \/ /\ QueuedPane(s) /\ s.paneInflight = 0 /\ ~s.panePending
                     /\ s.paneLatest # 0 /\ t.paneInflight = s.paneLatest
                     /\ ~QueuedPane(t) /\ ~t.panePending
<1>1. s \in SchedRecord /\ PaneShape(s) /\ Sound(s)
      /\ s.user \in Seq(AnyJob) /\ s.status \in Seq(AnyJob)
  BY DEF Shaped, Sound, SchedRecord
<1>2. /\ OnePane(s.user) /\ \A j \in ToSet(s.status) : ~IsPane(j)
      /\ \A j \in ToSet(s.user) \union ToSet(s.status) : j.kind \in {"pane", "user"}
  BY <1>1, ShapeParts
<1>3. PICK t \in SchedRecord : t = SpawnNext(s)
  BY <1>1, SpawnNextTyped
<1>4. Sound(t)
  BY <1>1, <1>3, SpawnKeepsGate
<1>5. CASE \E i \in 1..Len(s.user) : SpawnNext(s) = TakesUser(s, i) /\ FirstOfLane(s.user, i)
  <2>1. PICK i \in 1..Len(s.user) : t = TakesUser(s, i)
    BY <1>3, <1>5
  <2>2. PICK j \in AnyJob : j = s.user[i]
    BY <1>1, TakesUserHolds
  <2>3. /\ t.user = RemoveAt(s.user, i) /\ t.status = s.status
        /\ t.inflight = s.inflight (+) SetToBag({j})
        /\ t.paneInflight = IF IsPane(j) THEN j.req ELSE s.paneInflight
        /\ t = [s EXCEPT !.user = t.user, !.status = t.status, !.inflight = t.inflight,
                         !.paneInflight = t.paneInflight]
    BY <1>1, <2>1, <2>2, TakesUserHolds
  <2>4. ToSet(s.user) = ToSet(t.user) \union {j}
    BY <1>1, <2>2, <2>3, RemoveAtHolds
  <2>5. OnePane(t.user) /\ (IsPane(j) => \A k \in ToSet(t.user) : ~IsPane(k))
    BY <1>1, <1>2, <2>2, <2>3, OnePaneRemoved
  <2>6. CASE IsPane(j)
    <3>1. t.paneInflight = j.req
      BY <2>3, <2>6
    <3>2. j \in ToSet(s.user) /\ ToSet(t.user) \subseteq ToSet(s.user)
      BY <2>4
    <3>3. \A k \in ToSet(t.user) : ~IsPane(k)
      BY <2>5, <2>6
    <3>4. /\ Shaped(t) /\ t.paneLatest = s.paneLatest
          /\ QueuedPane(s) /\ s.paneInflight = 0 /\ ~s.panePending
          /\ s.paneLatest # 0 /\ t.paneInflight = s.paneLatest
          /\ ~QueuedPane(t) /\ ~t.panePending
      BY <1>4, <2>3, <2>6, <3>1, <3>2, <3>3, PaneStartsShaped
    <3> QED BY <1>3, <3>4, Zenon
  <2>7. CASE ~IsPane(j)
    <3>1. t.paneInflight = s.paneInflight
      BY <2>3, <2>7
    <3>2. j.kind \in {"pane", "user"} /\ ToSet(t.user) \subseteq ToSet(s.user)
          /\ ToSet(s.user) \subseteq ToSet(t.user) \union {j} /\ ToSet(t.status) \subseteq ToSet(s.status)
      BY <1>2, <2>3, <2>4
    <3>3. /\ Shaped(t) /\ t.paneLatest = s.paneLatest
          /\ t.panePending = s.panePending /\ (QueuedPane(t) <=> QueuedPane(s))
      BY <1>4, <2>3, <2>5, <2>7, <3>1, <3>2, OtherStartsShaped
    <3> QED BY <1>3, <3>1, <3>3, Zenon
  <2> QED BY <2>6, <2>7
<1>6. CASE \E i \in 1..Len(s.status) : SpawnNext(s) = TakesStatus(s, i) /\ FirstOfLane(s.status, i)
  <2>1. PICK i \in 1..Len(s.status) : t = TakesStatus(s, i)
    BY <1>3, <1>6
  <2>2. PICK j \in AnyJob : j = s.status[i]
    BY <1>1, TakesStatusHolds
  <2>3. /\ t.status = RemoveAt(s.status, i) /\ t.user = s.user
        /\ t.inflight = s.inflight (+) SetToBag({j})
        /\ t.paneInflight = IF IsPane(j) THEN j.req ELSE s.paneInflight
        /\ t = [s EXCEPT !.user = t.user, !.status = t.status, !.inflight = t.inflight,
                         !.paneInflight = t.paneInflight]
    BY <1>1, <2>1, <2>2, TakesStatusHolds
  <2>4. ToSet(s.status) = ToSet(t.status) \union {j}
    BY <1>1, <2>2, <2>3, RemoveAtHolds
  <2>5. ~IsPane(j) /\ j.kind \in {"pane", "user"} /\ OnePane(t.user)
        /\ ToSet(t.user) \subseteq ToSet(s.user)
        /\ ToSet(s.user) \subseteq ToSet(t.user) \union {j} /\ ToSet(t.status) \subseteq ToSet(s.status)
    BY <1>2, <2>3, <2>4
  <2>6. t.paneInflight = s.paneInflight
    BY <2>3, <2>5
  <2>7. /\ Shaped(t) /\ t.paneLatest = s.paneLatest
        /\ t.panePending = s.panePending /\ (QueuedPane(t) <=> QueuedPane(s))
    BY <1>4, <2>3, <2>5, <2>6, OtherStartsShaped
  <2> QED BY <1>3, <2>6, <2>7, Zenon
<1> QED BY <1>1, <1>5, <1>6, SpawnNextTakesFirst

\* User work that is queued or ends leaves the pane's state.
LEMMA WorkShaped ==
    ASSUME NEW s, Shaped(s), NEW t \in SchedRecord, Sound(t),
           OnePane(t.user),
           \A j \in ToSet(t.user) \union ToSet(t.status) : j.kind \in {"pane", "user"},
           \A j : IsPane(j) => /\ j \in ToSet(t.user) <=> j \in ToSet(s.user)
                               /\ j \notin ToSet(t.status)
                               /\ j \in InFlight(t) <=> j \in InFlight(s)
                               /\ j \in InFlight(s) /\ s.inflight[j] = 1 => t.inflight[j] = 1,
           InFlight(t) \subseteq InFlight(s),
           t.paneLatest = s.paneLatest, t.paneInflight = s.paneInflight, t.panePending = s.panePending,
           t.nextGen = s.nextGen, t.col = s.col, t.latched = s.latched, t.pathGen = s.pathGen
    PROVE  Shaped(t) /\ (QueuedPane(t) <=> QueuedPane(s))
<1>1. s \in SchedRecord /\ PaneShape(s) /\ NoCollects(s)
  BY DEF Shaped, Sound
<1>2. /\ \A k \in ToSet(s.user) :
             IsPane(k) => k = LoadPane(s.paneLatest) /\ s.paneInflight = 0 /\ s.paneLatest # 0
      /\ \A k \in InFlight(s) :
             IsPane(k) => k = LoadPane(s.paneInflight) /\ s.paneInflight # 0 /\ s.inflight[k] = 1
      /\ s.paneInflight # 0 => LoadPane(s.paneInflight) \in InFlight(s)
      /\ s.paneInflight <= s.paneLatest
      /\ s.panePending <=> s.paneInflight # 0 /\ s.paneInflight # s.paneLatest
      /\ \A k \in InFlight(s) : k.kind \in {"pane", "user"}
  BY <1>1, ShapeParts
<1>3. /\ \A k \in ToSet(t.user) :
             IsPane(k) => k = LoadPane(t.paneLatest) /\ t.paneInflight = 0 /\ t.paneLatest # 0
      /\ \A k \in InFlight(t) :
             IsPane(k) => k = LoadPane(t.paneInflight) /\ t.paneInflight # 0 /\ t.inflight[k] = 1
      /\ t.paneInflight # 0 => LoadPane(t.paneInflight) \in InFlight(t)
      /\ \A k \in ToSet(t.status) : ~IsPane(k)
      /\ \A k \in ToSet(t.user) \union ToSet(t.status) \union InFlight(t) : k.kind \in {"pane", "user"}
  BY <1>2, PaneIsPane
<1>4. /\ t.paneInflight <= t.paneLatest
      /\ t.panePending <=> t.paneInflight # 0 /\ t.paneInflight # t.paneLatest
  BY <1>2
<1>5. PaneShape(t)
  BY <1>3, <1>4, ShapeParts
<1>6. NoCollects(t)
  BY <1>1 DEF NoCollects
<1>7. QueuedPane(t) <=> QueuedPane(s)
  BY DEF QueuedPane
<1> QED BY <1>5, <1>6, <1>7 DEF Shaped

\* What the pane's properties see of the scheduler.
SamePane(s, t) ==
    /\ t.paneLatest = s.paneLatest /\ t.paneInflight = s.paneInflight
    /\ t.panePending = s.panePending /\ (QueuedPane(t) <=> QueuedPane(s))

LEMMA EnqueueShaped ==
    ASSUME NEW s, Shaped(s), NEW u \in Tags, NEW t,
           t = EnqueueUser(s, u) \/ t = EnqueueUserFront(s, u)
               \/ (u = "Other" /\ t = EnqueueBackground(s, u))
    PROVE  Shaped(t) /\ SamePane(s, t)
<1>1. s \in SchedRecord /\ PaneShape(s) /\ Sound(s)
      /\ s.user \in Seq(AnyJob) /\ s.status \in Seq(AnyJob)
  BY DEF Shaped, Sound, SchedRecord
<1>2. PICK j \in AnyJob : j = UserWork(u) /\ j.kind = "user"
  BY JobsAreJobs
<1>3. ~IsPane(j)
  BY <1>2 DEF IsPane
<1>4. /\ OnePane(s.user) /\ \A k \in ToSet(s.status) : ~IsPane(k)
      /\ \A k \in ToSet(s.user) \union ToSet(s.status) : k.kind \in {"pane", "user"}
  BY <1>1, ShapeParts
<1>5. t \in SchedRecord /\ Sound(t)
  BY <1>1, EnqueueHolds, EnqueueKeepsGate
<1>6. /\ t.inflight = s.inflight
      /\ t.paneLatest = s.paneLatest /\ t.paneInflight = s.paneInflight /\ t.panePending = s.panePending
      /\ t.nextGen = s.nextGen /\ t.col = s.col /\ t.latched = s.latched /\ t.pathGen = s.pathGen
  BY <1>1 DEF EnqueueUser, EnqueueUserFront, EnqueueBackground, SchedRecord
<1>7. /\ OnePane(t.user)
      /\ ToSet(t.user) \subseteq ToSet(s.user) \union {j} /\ ToSet(s.user) \subseteq ToSet(t.user)
      /\ ToSet(t.status) \subseteq ToSet(s.status) \union {j} /\ ToSet(s.status) \subseteq ToSet(t.status)
  <2>1. CASE t = EnqueueUser(s, u)
    <3>1. t.user = Append(s.user, j) /\ t.status = s.status
      BY <1>1, <1>2, <2>1 DEF EnqueueUser, SchedRecord
    <3>2. OnePane(Append(s.user, j)) /\ ToSet(Append(s.user, j)) = ToSet(s.user) \union {j}
      <4>1. PICK q \in Seq(AnyJob) : q = s.user
        BY <1>1
      <4>2. OnePane(Append(q, j))
        BY <1>3, <1>4, <4>1, OnePaneKept
      <4>3. ToSet(Append(q, j)) = ToSet(q) \union {j}
        BY BackHolds
      <4> QED BY <4>1, <4>2, <4>3
    <3> QED BY <3>1, <3>2
  <2>2. CASE t = EnqueueUserFront(s, u)
    <3>1. t.user = <<j>> \o s.user /\ t.status = s.status
      BY <1>1, <1>2, <2>2 DEF EnqueueUserFront, SchedRecord
    <3>2. OnePane(<<j>> \o s.user) /\ ToSet(<<j>> \o s.user) = ToSet(s.user) \union {j}
      BY <1>1, <1>3, <1>4, FrontHolds, OnePaneKept
    <3> QED BY <3>1, <3>2
  <2>3. CASE t = EnqueueBackground(s, u)
    <3>1. t.status = Append(s.status, j) /\ t.user = s.user
      BY <1>1, <1>2, <2>3 DEF EnqueueBackground, SchedRecord
    <3>2. ToSet(Append(s.status, j)) = ToSet(s.status) \union {j}
      BY <1>1, BackHolds
    <3> QED BY <1>4, <3>1, <3>2
  <2> QED BY <2>1, <2>2, <2>3
<1>8. \A k \in ToSet(t.user) \union ToSet(t.status) : k.kind \in {"pane", "user"}
  BY <1>2, <1>4, <1>7
<1>9. \A k : IsPane(k) => /\ k \in ToSet(t.user) <=> k \in ToSet(s.user)
                          /\ k \notin ToSet(t.status)
  BY <1>3, <1>4, <1>7
<1>10. InFlight(t) = InFlight(s)
  BY <1>6 DEF InFlight
<1>11. Shaped(t) /\ (QueuedPane(t) <=> QueuedPane(s))
  BY <1>5, <1>6, <1>7, <1>8, <1>9, <1>10, WorkShaped
<1> QED BY <1>6, <1>11 DEF SamePane

LEMMA UserEndsShaped ==
    ASSUME NEW s, Shaped(s), NEW u \in Tags, NEW t,
           t = NoteUserDone(NoteJobFinished(s, UserWork(u)), u)
    PROVE  Shaped(t) /\ SamePane(s, t)
<1>1. s \in SchedRecord /\ PaneShape(s) /\ Sound(s) /\ s.inflight \in JobBags
  BY DEF Shaped, Sound, SchedRecord
<1>2. PICK j \in AnyJob : j = UserWork(u) /\ j.kind = "user"
  BY JobsAreJobs
<1>3. ~IsPane(j)
  BY <1>2 DEF IsPane
<1>4. /\ OnePane(s.user) /\ \A k \in ToSet(s.status) : ~IsPane(k)
      /\ \A k \in ToSet(s.user) \union ToSet(s.status) : k.kind \in {"pane", "user"}
  BY <1>1, ShapeParts
<1>5. PICK s1 \in SchedRecord : s1 = NoteJobFinished(s, j)
  BY <1>1, NoteJobFinishedTyped
<1>6. t = NoteUserDone(s1, u)
  BY <1>2, <1>5
<1>7. t \in SchedRecord /\ Sound(t)
  BY <1>1, UserEndsKeepsGate DEF Sound
<1>8. /\ t.user = s.user /\ t.status = s.status /\ t.inflight = s.inflight (-) SetToBag({j})
      /\ t.paneLatest = s.paneLatest /\ t.paneInflight = s.paneInflight /\ t.panePending = s.panePending
      /\ t.nextGen = s.nextGen /\ t.col = s.col /\ t.latched = s.latched /\ t.pathGen = s.pathGen
  BY <1>1, <1>5, <1>6 DEF NoteUserDone, NoteJobFinished, SchedRecord
<1>9. PICK c \in JobBags : /\ c = t.inflight
                           /\ DOMAIN c \subseteq DOMAIN s.inflight
                           /\ DOMAIN s.inflight \subseteq DOMAIN c \union {j}
                           /\ \A k : Copies(c, k) <= Copies(s.inflight, k)
  <2>1. LET d == s.inflight (-) SetToBag({j})
        IN  /\ d \in JobBags
            /\ DOMAIN d \subseteq DOMAIN s.inflight /\ DOMAIN s.inflight \subseteq DOMAIN d \union {j}
            /\ \A k : Copies(d, k) <= Copies(s.inflight, k)
    BY <1>1, BagDrops
  <2> QED BY <1>8, <2>1, Zenon
<1>10. InFlight(t) \subseteq InFlight(s) /\ InFlight(s) \subseteq InFlight(t) \union {j}
  BY <1>9, Zenon DEF InFlight, BagToSet
<1>11. ASSUME NEW k, IsPane(k), k \in InFlight(s), s.inflight[k] = 1 PROVE t.inflight[k] = 1
  <2>1. k \in DOMAIN c
    BY <1>3, <1>9, <1>11 DEF InFlight, BagToSet
  <2>2. c[k] \in Nat \ {0}
    BY <2>1 DEF JobBags
  <2>3. Copies(c, k) = c[k] /\ Copies(s.inflight, k) = 1
    BY <1>11, <2>1 DEF Copies, InFlight, BagToSet
  <2>4. c[k] <= 1
    BY <1>9, <2>3
  <2> QED BY <1>9, <2>2, <2>4
<1>12. \A k : IsPane(k) => /\ k \in ToSet(t.user) <=> k \in ToSet(s.user)
                           /\ k \notin ToSet(t.status)
                           /\ k \in InFlight(t) <=> k \in InFlight(s)
                           /\ k \in InFlight(s) /\ s.inflight[k] = 1 => t.inflight[k] = 1
  BY <1>3, <1>4, <1>8, <1>10, <1>11
<1>13. Shaped(t) /\ (QueuedPane(t) <=> QueuedPane(s))
  BY <1>4, <1>7, <1>8, <1>10, <1>12, WorkShaped
<1> QED BY <1>8, <1>13 DEF SamePane

-----------------------------------------------------------------------------
(* Cursor moves and user work: PaneSpec *)

PInv == /\ Shaped(sched) /\ PaneIInv
        /\ shown \in SUBSET Paths /\ row \in [Paths -> 0..MaxGen]

\* The scheduler's numbers, and what PaneShape says of them.
LEMMA PaneNumbers ==
    ASSUME NEW s, Shaped(s)
    PROVE  /\ s \in SchedRecord /\ s.paneLatest \in Nat /\ s.paneInflight \in Nat
           /\ s.paneInflight <= s.paneLatest
           /\ s.panePending <=> s.paneInflight # 0 /\ s.paneInflight # s.paneLatest
           /\ QueuedPane(s) => s.paneInflight = 0 /\ s.paneLatest # 0
<1>1. s \in SchedRecord /\ PaneShape(s)
  BY DEF Shaped, Sound
<1>2. s.paneLatest \in Nat /\ s.paneInflight \in Nat
  BY <1>1 DEF SchedRecord
<1>3. /\ \A j \in ToSet(s.user) : IsPane(j) => s.paneInflight = 0 /\ s.paneLatest # 0
      /\ s.paneInflight <= s.paneLatest
      /\ s.panePending <=> s.paneInflight # 0 /\ s.paneInflight # s.paneLatest
  BY <1>1, ShapeParts
<1> QED BY <1>1, <1>2, <1>3 DEF QueuedPane

LEMMA PaneInitHolds == ASSUME PaneInit PROVE PInv
<1>1. Shaped(InitSched)
  <2>1. ToSet(<<>>) = {} /\ DOMAIN <<>> = {}
    <3>1. DOMAIN <<>> = {}
      OBVIOUS
    <3> QED BY <3>1 DEF ToSet
  <2>2. /\ InitSched.user = <<>> /\ InitSched.status = <<>> /\ InitSched.inflight = EmptyBag
        /\ InitSched.paneLatest = 0 /\ InitSched.paneInflight = 0 /\ InitSched.panePending = FALSE
        /\ InitSched.exclusive = FALSE /\ InitSched.nextGen = 1 /\ InitSched.col = NoCollection
        /\ InitSched.latched = FALSE /\ InitSched.pathGen = [p \in Paths |-> 0]
    BY DEF InitSched
  <2>3. InFlight(InitSched) = {}
    BY <2>2 DEF InFlight, BagToSet, EmptyBag, SetToBag
  <2>4. PaneShape(InitSched)
    <3>1. OnePane(InitSched.user)
      BY <2>1, <2>2 DEF OnePane
    <3> QED BY <2>1, <2>2, <2>3, <3>1, ShapeParts
  <2>5. NoCollects(InitSched)
    BY <2>2 DEF NoCollects
  <2>6. GateInv(InitSched)
    BY <2>1, <2>2 DEF GateInv
  <2> QED BY <2>4, <2>5, <2>6, InitSchedTyped DEF Shaped, Sound
<1>2. /\ Shaped(sched) /\ sched.paneLatest = InitSched.paneLatest + 1
      /\ sched.paneInflight = InitSched.paneInflight
      /\ QueuedPane(sched) <=> InitSched.paneInflight = 0
  BY <1>1, RequestPaneShaped, Zenon DEF PaneInit
<1>3. sched.paneLatest = 1 /\ sched.paneInflight = 0 /\ QueuedPane(sched)
  BY <1>2 DEF InitSched
<1>4. ~sched.panePending
  BY <1>2, <1>3, PaneNumbers
<1>5. asked = 0 /\ paneReq = cursor /\ shown = {} /\ row = [p \in Paths |-> 0]
  BY DEF PaneInit
<1>6. ~AsksAgain
  BY <1>3, <1>4, <1>5 DEF AsksAgain
<1>7. PaneIInv
  <2>1. PaneShape(sched) /\ NoCollects(sched)
    BY <1>2 DEF Shaped
  <2>2. asked \in 0..MaxUser
    BY <1>5, SchedulerAssumption DEF SchedulerAssumption
  <2>3. sched.paneLatest + (IF AsksAgain THEN 1 ELSE 0) <= 2 * asked + 1
    BY <1>3, <1>5, <1>6
  <2> QED BY <1>3, <1>5, <2>1, <2>2, <2>3 DEF PaneIInv
<1>8. row \in [Paths -> 0..MaxGen]
  BY <1>5, SchedulerAssumption DEF SchedulerAssumption
<1> QED BY <1>2, <1>5, <1>7, <1>8 DEF PInv

\* A request: whatever was outstanding is outdated now, and the pane's load is
\* queued or will be.
LEMMA AskKeeps ==
    ASSUME NEW s, Shaped(s), AskFor(s, cursor'),
           shown' \in SUBSET Paths, row' \in [Paths -> 0..MaxGen], asked' \in 0..MaxUser,
           \/ s.paneLatest + 2 <= 2 * asked' + 1
           \/ s.paneLatest + 1 <= 2 * asked' + 1 /\ s.paneInflight = 0
    PROVE  PInv'
<1>1. sched' = RequestPane(s) /\ paneReq' = cursor' /\ excused' = {}
  BY DEF AskFor
<1>2. /\ Shaped(sched') /\ sched'.paneLatest = s.paneLatest + 1 /\ sched'.paneInflight = s.paneInflight
      /\ QueuedPane(sched') <=> s.paneInflight = 0
  BY <1>1, RequestPaneShaped, Zenon
<1>3. s.paneLatest \in Nat /\ s.paneInflight \in Nat /\ s.paneInflight <= s.paneLatest
  BY PaneNumbers
<1>4. PaneShape(sched') /\ NoCollects(sched')
  BY <1>2 DEF Shaped
<1>5. s.paneInflight = 0 => ~AsksAgain'
  BY <1>1, <1>2 DEF AsksAgain
<1>6. sched'.paneLatest + (IF AsksAgain' THEN 1 ELSE 0) <= 2 * asked' + 1
  <2>1. asked' \in Nat
    BY SchedulerAssumption DEF SchedulerAssumption
  <2>2. CASE s.paneInflight = 0
    BY <1>2, <1>3, <1>5, <2>1, <2>2
  <2>3. CASE s.paneInflight # 0
    BY <1>2, <1>3, <2>1, <2>3
  <2> QED BY <2>2, <2>3
<1>7. sched'.paneInflight # sched'.paneLatest
  BY <1>2, <1>3
<1>8. QueuedPane(sched') \/ sched'.paneInflight # 0
  BY <1>2
<1>9. PaneIInv'
  BY <1>1, <1>4, <1>6, <1>7, <1>8 DEF PaneIInv
<1> QED BY <1>2, <1>9 DEF PInv

\* A step that asks for nothing and leaves the pane's part of the scheduler: it
\* may move the cursor, if it says so.
LEMMA QuietKeeps ==
    ASSUME PInv, Shaped(sched'), SamePane(sched, sched'),
           UNCHANGED <<paneReq, loading, pane, shown, row>>, asked' \in 0..MaxUser,
           \/ excused' # {}
           \/ UNCHANGED <<cursor, revision, excused>>,
           \/ asked' = asked + 1
           \/ asked' = asked /\ cursor' = cursor
    PROVE  PInv'
<1>1. /\ PaneIInv /\ shown \in SUBSET Paths /\ row \in [Paths -> 0..MaxGen]
      /\ asked \in Nat /\ asked' \in Nat
  BY SchedulerAssumption DEF PInv, PaneIInv, SchedulerAssumption
<1>2. /\ sched'.paneLatest = sched.paneLatest /\ sched'.paneInflight = sched.paneInflight
      /\ sched'.panePending <=> sched.panePending
      /\ QueuedPane(sched') <=> QueuedPane(sched)
  BY DEF SamePane
<1>3. sched.paneLatest \in Nat
  BY PaneNumbers DEF PInv
<1>4. cursor' = cursor => (AsksAgain' <=> AsksAgain)
  BY <1>2 DEF AsksAgain
<1>5. sched.paneLatest + (IF AsksAgain THEN 1 ELSE 0) <= 2 * asked + 1
  BY <1>1 DEF PaneIInv
<1>6. sched'.paneLatest + (IF AsksAgain' THEN 1 ELSE 0) <= 2 * asked' + 1
  <2>1. CASE asked' = asked + 1
    BY <1>1, <1>2, <1>3, <1>5, <2>1
  <2>2. CASE asked' = asked /\ cursor' = cursor
    BY <1>1, <1>2, <1>3, <1>4, <1>5, <2>2
  <2> QED BY <2>1, <2>2
<1>7. PaneShape(sched') /\ NoCollects(sched')
  BY DEF Shaped
<1>8. /\ excused' = {} => paneReq' = cursor'
      /\ excused' = {} /\ sched'.paneInflight # 0 /\ sched'.paneInflight = sched'.paneLatest
          => loading' = Load(cursor', revision')
      /\ excused' = {} /\ ~QueuedPane(sched') /\ sched'.paneInflight = 0
          => pane' = Load(cursor', revision')
  BY <1>1, <1>2 DEF PaneIInv
<1>9. PaneIInv'
  BY <1>6, <1>7, <1>8 DEF PaneIInv
<1> QED BY <1>1, <1>9 DEF PInv

LEMMA SamePaneRefl == ASSUME NEW s PROVE SamePane(s, s)
BY DEF SamePane

\* A load ends without a request of its own.
LEMMA LandKeeps ==
    ASSUME PInv, NEW r \in Nat, LoadPane(r) \in InFlight(sched),
           sched' = AcceptPaneResult(NoteJobFinished(sched, LoadPane(r)), r),
           UNCHANGED <<cursor, revision, paneReq, loading, shown, row, asked>>,
           \/ excused' # {}
           \/ excused' = excused /\ r # sched.paneLatest
           \/ excused' = excused /\ r = sched.paneLatest /\ pane' = loading
    PROVE  PInv'
<1>1. /\ PaneIInv /\ shown \in SUBSET Paths /\ row \in [Paths -> 0..MaxGen] /\ Shaped(sched)
      /\ asked \in 0..MaxUser /\ asked \in Nat
  BY SchedulerAssumption DEF PInv, PaneIInv, SchedulerAssumption
<1>2. /\ Shaped(sched')
      /\ r = sched.paneInflight /\ sched.paneInflight # 0
      /\ sched'.paneLatest = sched.paneLatest /\ sched'.paneInflight = 0 /\ sched'.panePending = FALSE
      /\ QueuedPane(sched') <=> sched.panePending
      /\ sched.panePending <=> r # sched.paneLatest
  BY <1>1, PaneEndsShaped, Zenon
<1>3. sched.paneLatest \in Nat
  BY <1>1, PaneNumbers
<1>4. AsksAgain' => AsksAgain
  BY <1>2 DEF AsksAgain
<1>5. sched.paneLatest + (IF AsksAgain THEN 1 ELSE 0) <= 2 * asked + 1
  BY <1>1 DEF PaneIInv
<1>6. sched'.paneLatest + (IF AsksAgain' THEN 1 ELSE 0) <= 2 * asked' + 1
  BY <1>1, <1>2, <1>3, <1>4, <1>5
<1>7. PaneShape(sched') /\ NoCollects(sched')
  BY <1>2 DEF Shaped
<1>8. excused' = {} /\ ~QueuedPane(sched') => pane' = Load(cursor', revision')
  <2>1. SUFFICES ASSUME excused' = {}, ~QueuedPane(sched') PROVE pane' = Load(cursor', revision')
    OBVIOUS
  <2>2. r = sched.paneLatest /\ excused = {} /\ pane' = loading
    BY <1>2, <2>1
  <2>3. loading = Load(cursor, revision)
    BY <1>1, <1>2, <2>2 DEF PaneIInv
  <2> QED BY <2>2, <2>3
<1>9. excused' = {} => paneReq' = cursor'
  BY <1>1 DEF PaneIInv
<1>10. PaneIInv'
  BY <1>1, <1>2, <1>6, <1>7, <1>8, <1>9 DEF PaneIInv
<1> QED BY <1>1, <1>2, <1>10 DEF PInv

LEMMA SpawnPaneKeeps == ASSUME PInv, SpawnPane PROVE PInv'
<1>1. /\ PaneIInv /\ shown \in SUBSET Paths /\ row \in [Paths -> 0..MaxGen] /\ Shaped(sched)
      /\ asked \in 0..MaxUser
  BY DEF PInv, PaneIInv
<1>2. /\ CanSpawn(sched) /\ sched' = SpawnNext(sched)
      /\ loading' = IF sched'.paneInflight # sched.paneInflight THEN Load(paneReq, revision) ELSE loading
      /\ UNCHANGED <<cursor, revision, paneReq, pane, excused, row, shown, asked>>
  BY DEF SpawnPane
<1>3. /\ Shaped(sched') /\ sched'.paneLatest = sched.paneLatest
      /\ \/ /\ sched'.paneInflight = sched.paneInflight /\ sched'.panePending = sched.panePending
            /\ QueuedPane(sched') <=> QueuedPane(sched)
         \/ /\ QueuedPane(sched) /\ sched.paneInflight = 0 /\ ~sched.panePending
            /\ sched.paneLatest # 0 /\ sched'.paneInflight = sched.paneLatest
            /\ ~QueuedPane(sched') /\ ~sched'.panePending
  BY <1>1, <1>2, SpawnShaped, Zenon
<1>4. CASE /\ sched'.paneInflight = sched.paneInflight /\ sched'.panePending = sched.panePending
           /\ QueuedPane(sched') <=> QueuedPane(sched)
  <2>1. SamePane(sched, sched')
    BY <1>3, <1>4 DEF SamePane
  <2>2. UNCHANGED <<paneReq, loading, pane, shown, row>> /\ UNCHANGED <<cursor, revision, excused>>
        /\ asked' = asked /\ asked' \in 0..MaxUser
    BY <1>1, <1>2, <1>4
  <2> QED BY <1>3, <2>1, <2>2, QuietKeeps
<1>5. CASE /\ QueuedPane(sched) /\ sched.paneInflight = 0 /\ ~sched.panePending
           /\ sched.paneLatest # 0 /\ sched'.paneInflight = sched.paneLatest
           /\ ~QueuedPane(sched') /\ ~sched'.panePending
  <2>1. loading' = Load(paneReq, revision)
    BY <1>2, <1>5
  <2>2. loading'.target = paneReq
    BY <2>1 DEF Load
  <2>3. AsksAgain' => AsksAgain
    BY <1>2, <1>5, <2>2 DEF AsksAgain
  <2>4. sched.paneLatest + (IF AsksAgain THEN 1 ELSE 0) <= 2 * asked + 1
        /\ sched.paneLatest \in Nat /\ asked \in Nat
    BY <1>1, PaneNumbers, SchedulerAssumption DEF PaneIInv, SchedulerAssumption
  <2>5. sched'.paneLatest + (IF AsksAgain' THEN 1 ELSE 0) <= 2 * asked' + 1
    BY <1>2, <1>3, <2>3, <2>4
  <2>6. PaneShape(sched') /\ NoCollects(sched')
    BY <1>3 DEF Shaped
  <2>7. excused' = {} => paneReq' = cursor' /\ loading' = Load(cursor', revision')
    BY <1>1, <1>2, <2>1 DEF PaneIInv
  <2>8. sched'.paneInflight # 0
    BY <1>5
  <2>9. PaneIInv'
    BY <1>1, <1>2, <2>5, <2>6, <2>7, <2>8 DEF PaneIInv
  <2> QED BY <1>1, <1>2, <1>3, <2>9 DEF PInv
<1> QED BY <1>3, <1>4, <1>5

LEMMA PaneLandsKeeps == ASSUME PInv, NEW r \in 1..MaxPane, PaneLands(r) PROVE PInv'
<1>1. /\ PaneIInv /\ shown \in SUBSET Paths /\ row \in [Paths -> 0..MaxGen] /\ Shaped(sched)
      /\ asked \in 0..MaxUser /\ asked \in Nat
  BY SchedulerAssumption DEF PInv, PaneIInv, SchedulerAssumption
<1>2. r \in Nat /\ LoadPane(r) \in InFlight(sched)
  BY DEF PaneLands
<1> DEFINE s1 == NoteJobFinished(sched, LoadPane(r))
           landed == AcceptPaneResult(s1, r)
<1>3. s1.paneLatest = sched.paneLatest
  BY <1>1, PaneNumbers DEF NoteJobFinished, SchedRecord
<1>4. PaneAccepted(s1, r) <=> r = sched.paneLatest
  BY <1>3 DEF PaneAccepted
<1>5. UNCHANGED <<cursor, onWorkspace, revision, loading, row, shown, asked>>
  BY DEF PaneLands
<1>6. CASE ~onWorkspace
  <2>1. /\ sched' = landed /\ UNCHANGED <<pane, paneReq>>
        /\ excused' = IF PaneAccepted(s1, r) THEN excused \union {"parked"} ELSE excused
    BY <1>6 DEF PaneLands
  <2>2. excused' # {} \/ (excused' = excused /\ r # sched.paneLatest)
    BY <1>4, <2>1
  <2> QED BY <1>2, <1>5, <2>1, <2>2, LandKeeps
<1>7. CASE onWorkspace /\ loading.target # cursor
  <2>1. AskFor(landed, cursor)
    BY <1>7 DEF PaneLands
  <2>2. /\ Shaped(landed) /\ landed.paneLatest = sched.paneLatest /\ landed.paneInflight = 0
        /\ sched.paneInflight # 0
    BY <1>1, <1>2, PaneEndsShaped, Zenon
  <2>3. AsksAgain
    BY <1>7, <2>2 DEF AsksAgain
  <2>4. sched.paneLatest + 1 <= 2 * asked + 1
    BY <1>1, <2>3 DEF PaneIInv
  <2>5. PICK s \in SchedRecord : s = landed
    BY <2>2, PaneNumbers
  <2>6. /\ Shaped(s) /\ AskFor(s, cursor') /\ s.paneInflight = 0
        /\ s.paneLatest + 1 <= 2 * asked' + 1
        /\ shown' \in SUBSET Paths /\ row' \in [Paths -> 0..MaxGen] /\ asked' \in 0..MaxUser
    <3>1. AskFor(landed, cursor')
      BY <1>5, <2>1, Zenon
    <3> HIDE DEF landed
    <3> QED BY <1>1, <1>5, <2>2, <2>4, <2>5, <3>1
  <2> HIDE DEF landed
  <2> QED BY <2>6, AskKeeps
<1>8. CASE onWorkspace /\ loading.target = cursor
  <2>1. /\ sched' = landed /\ UNCHANGED <<paneReq, excused>>
        /\ pane' = IF PaneAccepted(s1, r) THEN loading ELSE pane
    BY <1>8 DEF PaneLands
  <2>2. excused' = excused /\ (r # sched.paneLatest \/ pane' = loading)
    BY <1>4, <2>1
  <2> QED BY <1>2, <1>5, <2>1, <2>2, LandKeeps
<1> QED BY <1>6, <1>7, <1>8

LEMMA PanePanicsKeeps == ASSUME PInv, NEW r \in 1..MaxPane, PanePanics(r) PROVE PInv'
<1>1. /\ r \in Nat /\ LoadPane(r) \in InFlight(sched)
      /\ sched' = AcceptPaneResult(NoteJobFinished(sched, LoadPane(r)), r)
      /\ excused' = IF PaneAccepted(sched, r) THEN excused \union {"panic"} ELSE excused
      /\ UNCHANGED <<cursor, revision, paneReq, loading, shown, row, asked>>
  BY DEF PanePanics
<1>2. excused' # {} \/ (excused' = excused /\ r # sched.paneLatest)
  BY <1>1 DEF PaneAccepted
<1> QED BY <1>1, <1>2, LandKeeps

LEMMA InputsKeep ==
    ASSUME PInv,
           \/ \E t \in Targets : MoveCursor(t)
           \/ StatusChanged
           \/ \E t \in Targets : CheckoutVanishes(t)
           \/ SwitchTab
    PROVE  PInv'
<1>1. /\ PaneIInv /\ shown \in SUBSET Paths /\ row \in [Paths -> 0..MaxGen] /\ Shaped(sched)
      /\ asked \in Nat /\ MaxUser \in Nat
  BY SchedulerAssumption DEF PInv, PaneIInv, SchedulerAssumption
<1>2. Input /\ UNCHANGED <<row, shown>>
  BY DEF MoveCursor, StatusChanged, CheckoutVanishes, SwitchTab
<1>3. /\ asked' = asked + 1 /\ asked' \in 0..MaxUser
      /\ shown' \in SUBSET Paths /\ row' \in [Paths -> 0..MaxGen]
  BY <1>1, <1>2 DEF Input
<1>4. sched.paneLatest + 2 <= 2 * asked' + 1
  <2>1. sched.paneLatest \in Nat
    BY <1>1, PaneNumbers
  <2>2. sched.paneLatest + (IF AsksAgain THEN 1 ELSE 0) <= 2 * asked + 1
    BY <1>1 DEF PaneIInv
  <2> QED BY <1>1, <1>3, <2>1, <2>2
<1>5. CASE \E t \in Targets : MoveCursor(t)
  <2>1. AskFor(sched, cursor')
    BY <1>5 DEF MoveCursor
  <2> QED BY <1>1, <1>3, <1>4, <2>1, AskKeeps
<1>6. CASE StatusChanged
  <2>1. CASE onWorkspace
    <3>1. AskFor(sched, cursor')
      BY <1>6, <2>1 DEF StatusChanged
    <3> QED BY <1>1, <1>3, <1>4, <3>1, AskKeeps
  <2>2. CASE ~onWorkspace
    <3>1. sched' = sched /\ UNCHANGED <<paneReq, loading, pane>> /\ excused' # {}
      BY <1>6, <2>2 DEF StatusChanged
    <3> QED BY <1>1, <1>2, <1>3, <3>1, QuietKeeps, SamePaneRefl
  <2> QED BY <2>1, <2>2
<1>7. CASE \E t \in Targets : CheckoutVanishes(t)
  <2>1. sched' = sched /\ UNCHANGED <<paneReq, loading, pane>> /\ excused' # {}
    BY <1>7 DEF CheckoutVanishes
  <2> QED BY <1>1, <1>2, <1>3, <2>1, QuietKeeps, SamePaneRefl
<1>8. CASE SwitchTab
  <2>1. sched' = sched /\ UNCHANGED <<paneReq, loading, pane>> /\ UNCHANGED <<cursor, revision, excused>>
    BY <1>8 DEF SwitchTab
  <2> QED BY <1>1, <1>2, <1>3, <2>1, QuietKeeps, SamePaneRefl
<1> QED BY <1>5, <1>6, <1>7, <1>8

LEMMA WorkKeeps ==
    ASSUME PInv, NEW t \in Tags, Enqueue(t) \/ UserLands(t), UNCHANGED paneVars
    PROVE  PInv'
<1>1. Shaped(sched) /\ asked \in 0..MaxUser /\ MaxUser \in Nat
  BY SchedulerAssumption DEF PInv, PaneIInv, SchedulerAssumption
<1>2. UNCHANGED <<cursor, revision, paneReq, loading, pane, excused>>
  BY DEF paneVars
<1>3. CASE Enqueue(t)
  <2>1. asked < MaxUser /\ asked' = asked + 1 /\ UNCHANGED <<row, shown>>
    BY <1>3 DEF Enqueue
  <2>2. Shaped(sched') /\ SamePane(sched, sched')
    BY <1>1, <1>3, EnqueueShaped DEF Enqueue
  <2>3. asked' \in 0..MaxUser
    BY <1>1, <2>1
  <2> QED BY <1>2, <2>1, <2>2, <2>3, QuietKeeps
<1>4. CASE UserLands(t)
  <2>1. UNCHANGED <<row, shown, asked>>
        /\ sched' = NoteUserDone(NoteJobFinished(sched, UserWork(t)), t)
    BY <1>4 DEF UserLands
  <2>2. Shaped(sched') /\ SamePane(sched, sched')
    BY <1>1, <2>1, UserEndsShaped
  <2> QED BY <1>1, <1>2, <2>1, <2>2, QuietKeeps
<1> QED BY <1>3, <1>4

\* What a request, and the end of a load, do to the workers.
LEMMA RequestsStartNothing ==
    ASSUME NEW s \in SchedRecord
    PROVE  RequestPane(s).inflight = s.inflight
BY DEF RequestPane, SchedRecord

LEMMA LandingStartsNothing ==
    ASSUME NEW s \in SchedRecord, NEW r \in Nat
    PROVE  /\ AcceptPaneResult(NoteJobFinished(s, LoadPane(r)), r) \in SchedRecord
           /\ AcceptPaneResult(NoteJobFinished(s, LoadPane(r)), r).inflight
                = s.inflight (-) SetToBag({LoadPane(r)})
<1>1. LoadPane(r) \in AnyJob
  BY DEF AnyJob
<1>2. PICK s1 \in SchedRecord : s1 = NoteJobFinished(s, LoadPane(r))
  BY <1>1, NoteJobFinishedTyped
<1>3. s1.inflight = s.inflight (-) SetToBag({LoadPane(r)})
  BY <1>2 DEF NoteJobFinished, SchedRecord
<1>4. AcceptPaneResult(s1, r) \in SchedRecord
  BY AcceptPaneResultHolds
<1>5. AcceptPaneResult(s1, r).inflight = s1.inflight
  BY DEF AcceptPaneResult, SchedRecord
<1> QED BY <1>2, <1>3, <1>4, <1>5, Zenon

\* Only spawn_next puts a job on a worker.
LEMMA PaneStepsInOrder ==
    ASSUME PInv, [PaneNext]_<<vars, paneVars>>
    PROVE  LaneStep(sched, sched')
<1>1. sched \in SchedRecord /\ sched.inflight \in JobBags
  BY DEF PInv, Shaped, Sound, SchedRecord
<1>2. ASSUME sched'.inflight = sched.inflight
      PROVE  LaneStep(sched, sched')
  BY <1>1, <1>2, StartsNothing
<1>3. ASSUME NEW j \in AnyJob, sched'.inflight = sched.inflight (-) SetToBag({j})
      PROVE  LaneStep(sched, sched')
  BY <1>1, <1>3, StartsNothing
<1>4. ASSUME sched' = sched \/ sched' = RequestPane(sched)
      PROVE  LaneStep(sched, sched')
  BY <1>1, <1>2, <1>4, RequestsStartNothing
<1>5. CASE \/ \E t \in Targets : MoveCursor(t)
           \/ StatusChanged
           \/ \E t \in Targets : CheckoutVanishes(t)
           \/ SwitchTab
           \/ UNCHANGED <<vars, paneVars>>
  BY <1>4, <1>5 DEF MoveCursor, StatusChanged, CheckoutVanishes, SwitchTab, AskFor, vars
<1>6. CASE SpawnPane
  BY <1>1, <1>6, SpawnInOrder, Zenon DEF SpawnPane
<1>7. ASSUME NEW r \in 1..MaxPane, PaneLands(r) \/ PanePanics(r)
      PROVE  LaneStep(sched, sched')
  <2>1. r \in Nat /\ LoadPane(r) \in AnyJob
    BY DEF AnyJob
  <2>2. PICK s2 \in SchedRecord :
            /\ s2 = AcceptPaneResult(NoteJobFinished(sched, LoadPane(r)), r)
            /\ s2.inflight = sched.inflight (-) SetToBag({LoadPane(r)})
    BY <1>1, <2>1, LandingStartsNothing
  <2>3. sched' = s2 \/ sched' = RequestPane(s2)
    BY <1>7, <2>2 DEF PaneLands, PanePanics, AskFor
  <2>4. sched'.inflight = sched.inflight (-) SetToBag({LoadPane(r)})
    BY <2>2, <2>3, RequestsStartNothing
  <2> QED BY <1>3, <2>1, <2>4
<1>8. ASSUME NEW t \in Tags, Enqueue(t)
      PROVE  LaneStep(sched, sched')
  <2>1. sched'.inflight = sched.inflight
    BY <1>1, <1>8 DEF Enqueue, EnqueueUser, EnqueueUserFront, EnqueueBackground, SchedRecord
  <2> QED BY <1>2, <2>1
<1>9. ASSUME NEW t \in Tags, UserLands(t)
      PROVE  LaneStep(sched, sched')
  <2>1. UserWork(t) \in AnyJob
    BY DEF AnyJob
  <2>2. PICK s1 \in SchedRecord : s1 = NoteJobFinished(sched, UserWork(t))
    BY <1>1, <2>1, NoteJobFinishedTyped
  <2>3. s1.inflight = sched.inflight (-) SetToBag({UserWork(t)})
    BY <1>1, <2>2 DEF NoteJobFinished, SchedRecord
  <2>4. sched' = NoteUserDone(s1, t)
    BY <1>9, <2>2 DEF UserLands
  <2>5. sched'.inflight = s1.inflight
    BY <2>4 DEF NoteUserDone, SchedRecord
  <2> QED BY <1>3, <2>1, <2>3, <2>5
<1> QED BY <1>5, <1>6, <1>7, <1>8, <1>9 DEF PaneNext

LEMMA PaneNextKeeps ==
    ASSUME PInv, [PaneNext]_<<vars, paneVars>>
    PROVE  PInv'
<1>1. CASE UNCHANGED <<vars, paneVars>>
  <2>1. UNCHANGED <<sched, row, shown, asked, cursor, revision, paneReq, loading, pane, excused>>
    BY <1>1 DEF vars, paneVars
  <2>2. Shaped(sched') /\ asked' \in 0..MaxUser
    BY <2>1 DEF PInv, PaneIInv
  <2>3. SamePane(sched, sched')
    BY <2>1, SamePaneRefl
  <2> QED BY <2>1, <2>2, <2>3, QuietKeeps
<1>2. CASE \E t \in Tags : Enqueue(t) /\ UNCHANGED paneVars
  BY <1>2, WorkKeeps
<1>3. CASE \E t \in Tags : UserLands(t) /\ UNCHANGED paneVars
  BY <1>3, WorkKeeps
<1> QED BY <1>1, <1>2, <1>3, InputsKeep, SpawnPaneKeeps, PaneLandsKeeps, PanePanicsKeeps DEF PaneNext

LEMMA PaneInvHolds == PaneSpec => []PInv
<1>1. PaneInit => PInv
  BY PaneInitHolds
<1>2. PInv /\ [PaneNext]_<<vars, paneVars>> => PInv'
  BY PaneNextKeeps
<1> QED BY <1>1, <1>2, PTL DEF PaneSpec

\* User work too: within a lane, jobs start in the order of their queue, while
\* the pane's loads are dropped and queued again in front.
\* (scheduler.rs spawn_next, request_pane)
THEOREM JobsStartInOrder == PaneSpec => LaneOrder
<1>1. PInv /\ [PaneNext]_<<vars, paneVars>> => [LaneStep(sched, sched')]_vars
  BY PaneStepsInOrder
<1>2. LaneStep(sched, sched') <=>
        \A j \in InFlight(sched') :
          sched'.inflight = sched.inflight (+) SetToBag({j}) =>
              \/ \E i \in DOMAIN sched.user :
                    /\ j = sched.user[i] /\ sched'.user = RemoveAt(sched.user, i)
                    /\ \A k \in 1..(i - 1) : IsBulkRemote(sched.user[k]) # IsBulkRemote(j)
              \/ \E i \in DOMAIN sched.status :
                    /\ j = sched.status[i] /\ sched'.status = RemoveAt(sched.status, i)
                    /\ \A k \in 1..(i - 1) : IsBulkRemote(sched.status[k]) # IsBulkRemote(j)
  BY DEF LaneStep
<1> QED BY <1>1, <1>2, PaneInvHolds, PTL DEF PaneSpec, LaneOrder, LaneStep

\* However many writes and switches are queued, run and end in any order, the
\* gate is shut exactly while one of them is there.
\* (scheduler.rs busy_for_writes, note_user_done)
THEOREM GateFollowsWrites == PaneSpec => []WriteGate
<1>1. PInv => WriteGate
  BY GateInvIsEnough DEF PInv, Shaped
<1> QED BY <1>1, PaneInvHolds, PTL

\* The jobs of a session of keys are the user's and the pane's, and the pane's
\* requests stay within the bound.
LEMMA PaneJobsBounded ==
    ASSUME PInv
    PROVE  /\ Live(sched) \subseteq Jobs
           /\ sched.paneLatest \in 0..MaxPane /\ sched.paneInflight \in 0..MaxPane
<1>1. /\ sched \in SchedRecord /\ PaneShape(sched)
      /\ asked \in 0..MaxUser /\ MaxUser \in Nat /\ MaxPane \in Nat /\ MaxPane >= 2 * MaxUser + 1
  BY SchedulerAssumption, PaneAssumption
     DEF PInv, Shaped, Sound, PaneIInv, SchedulerAssumption, PaneAssumption
<1>2. sched.paneLatest \in Nat /\ sched.paneInflight \in Nat /\ sched.paneInflight <= sched.paneLatest
  BY PaneNumbers DEF PInv
<1>3. sched.paneLatest <= MaxPane
  <2>1. sched.paneLatest + (IF AsksAgain THEN 1 ELSE 0) <= 2 * asked + 1
    BY DEF PInv, PaneIInv
  <2> QED BY <1>1, <1>2, <2>1
<1>4. /\ \A j \in ToSet(sched.user) : IsPane(j) => j = LoadPane(sched.paneLatest) /\ sched.paneLatest # 0
      /\ \A j \in ToSet(sched.status) : ~IsPane(j)
      /\ \A j \in InFlight(sched) : IsPane(j) => j = LoadPane(sched.paneInflight) /\ sched.paneInflight # 0
      /\ \A j \in Live(sched) : j.kind \in {"pane", "user"}
  BY <1>1, ShapeParts DEF Live, Queued
<1>5. Live(sched) \subseteq AnyJob
  BY <1>1, QueueTyped, BagTyped DEF SchedRecord, Live, Queued, InFlight
<1>6. ASSUME NEW j \in Live(sched) PROVE j \in Jobs
  <2>1. CASE IsPane(j)
    <3>1. \/ j = LoadPane(sched.paneLatest) /\ sched.paneLatest # 0
          \/ j = LoadPane(sched.paneInflight) /\ sched.paneInflight # 0
      BY <1>4, <1>6, <2>1, Zenon DEF Live, Queued
    <3>2. \A n \in Nat : n # 0 /\ n <= sched.paneLatest => n \in 1..MaxPane
      BY <1>1, <1>2, <1>3
    <3>3. sched.paneLatest <= sched.paneLatest
      BY <1>2
    <3>4. \E r \in 1..MaxPane : j = LoadPane(r)
      BY <1>2, <3>1, <3>2, <3>3, Zenon
    <3> QED BY <3>4 DEF Jobs
  <2>2. CASE ~IsPane(j)
    <3>1. j.kind = "user"
      BY <1>4, <2>2 DEF IsPane
    <3>2. \E t \in Tags : j = UserWork(t)
      BY <1>5, <1>6, <3>1, KindsOfJob
    <3> QED BY <3>2 DEF Jobs
  <2> QED BY <2>1, <2>2
<1> QED BY <1>1, <1>2, <1>3, <1>6

LEMMA PaneTyped == ASSUME PInv PROVE TypeOK
<1>1. /\ sched \in SchedRecord /\ NoCollects(sched) /\ asked \in 0..MaxUser
      /\ shown \in SUBSET Paths /\ row \in [Paths -> 0..MaxGen]
      /\ MaxGen \in Nat
  BY SchedulerAssumption DEF PInv, Shaped, Sound, PaneIInv, SchedulerAssumption
<1>2. sched.nextGen \in 1..(MaxGen + 1)
  BY <1>1 DEF NoCollects
<1>3. sched.col \in [gen : 0..MaxGen, pending : SUBSET Paths, discovered : BOOLEAN,
                     focused : Paths \union {NoPath}]
  BY <1>1 DEF NoCollects, NoCollection
<1>4. {sched.latched, sched.panePending, sched.exclusive} \subseteq BOOLEAN
  BY <1>1 DEF SchedRecord
<1>5. sched.pathGen \in [Paths -> 0..MaxGen]
  <2>1. sched.pathGen = [p \in Paths |-> 0]
    BY <1>1 DEF NoCollects
  <2> QED BY <1>1, <2>1
<1> QED BY <1>1, <1>2, <1>3, <1>4, <1>5, PaneJobsBounded DEF TypeOK

LEMMA OnePaneLoadHolds == ASSUME PInv PROVE OnePaneLoad
<1>1. /\ sched \in SchedRecord /\ PaneShape(sched)
      /\ asked \in Nat
      /\ sched.paneLatest + (IF AsksAgain THEN 1 ELSE 0) <= 2 * asked + 1
  BY SchedulerAssumption DEF PInv, Shaped, Sound, PaneIInv, SchedulerAssumption
<1>2. /\ sched.paneLatest \in Nat /\ sched.paneInflight \in Nat
      /\ sched.panePending => sched.paneInflight # 0
  BY PaneNumbers DEF PInv
<1>3. /\ OnePane(sched.user)
      /\ \A j \in ToSet(sched.user) : IsPane(j) => sched.paneInflight = 0
      /\ \A j \in InFlight(sched) : IsPane(j) => j = LoadPane(sched.paneInflight) /\ sched.paneInflight # 0
      /\ sched.paneInflight # 0 => LoadPane(sched.paneInflight) \in InFlight(sched)
  BY <1>1, ShapeParts
<1> DEFINE A == {i \in DOMAIN sched.user : IsPane(sched.user[i])}
           B == {j \in InFlight(sched) : IsPane(j)}
<1>4. sched.paneInflight # 0 <=> \E j \in InFlight(sched) : IsPane(j)
  BY <1>3, PaneIsPane
<1>5. Cardinality(A) + Cardinality(B) <= 1
  <2>1. CASE sched.paneInflight # 0
    <3>1. A = {}
      BY <1>3, <2>1 DEF ToSet
    <3>2. B = {LoadPane(sched.paneInflight)}
      BY <1>3, <2>1, PaneIsPane
    <3>3. Cardinality(A) = 0 /\ Cardinality(B) = 1
      BY <3>1, <3>2, FS_EmptySet, FS_Singleton
    <3> QED BY <3>3
  <2>2. CASE sched.paneInflight = 0
    <3>1. Cardinality(B) = 0
      <4>1. B = {}
        BY <1>3, <2>2
      <4> QED BY <4>1, FS_EmptySet
    <3>2. A = {} \/ \E i \in A : A = {i}
      BY <1>3 DEF OnePane
    <3>3. Cardinality(A) = 0 \/ Cardinality(A) = 1
      <4> HIDE DEF A
      <4> QED BY <3>2, FS_EmptySet, FS_Singleton
    <3> QED BY <3>1, <3>3
  <2> QED BY <2>1, <2>2
<1>6. sched.paneLatest <= 2 * asked + 1
  BY <1>1, <1>2
<1>7. TypeOK
  BY PaneTyped
<1> QED BY <1>2, <1>4, <1>5, <1>6, <1>7 DEF OnePaneLoad

\* Cursor moves, changes, panics, vanished checkouts and tab switches in any
\* order, whatever user work the lanes hold: the pane has one load at most,
\* and when none is outstanding it shows the row under the cursor as it is.
\* (effect.rs, effect/job_release.rs, scheduler.rs accept_pane_result)
THEOREM PaneFollowsCursor == PaneSpec => []PaneSettled
<1>1. ASSUME PInv PROVE PaneSettled
  <2>1. OnePaneLoad
    BY <1>1, OnePaneLoadHolds
  <2>2. PaneIInv /\ PaneShape(sched)
    BY <1>1 DEF PInv, PaneIInv
  <2>3. QueuedPane(sched) \/ sched.paneInflight # 0 => PaneLive
    <3>1. QueuedPane(sched) => PaneLive
      BY DEF QueuedPane, PaneLive, Live, Queued
    <3>2. sched.paneInflight # 0 => PaneLive
      BY <2>1 DEF OnePaneLoad, PaneLive, Live
    <3> QED BY <3>1, <3>2
  <2> QED BY <2>1, <2>2, <2>3 DEF PaneSettled, PaneIInv
<1> QED BY <1>1, PaneInvHolds, PTL

-----------------------------------------------------------------------------
(* Collects alone: no walk and no status is outstanding twice *)

LEMMA SameWorkIsEquivalence ==
    \A j, k, m : /\ SameWork(j, j)
                 /\ SameWork(j, k) => SameWork(k, j)
                 /\ SameWork(j, k) /\ SameWork(k, m) => SameWork(j, m)
BY DEF SameWork

\* Two queues, one behind the other.
LEMMA ConcatHasNoTwins ==
    ASSUME NEW q \in Seq(AnyJob), NEW r \in Seq(AnyJob), NoTwins(q), NoTwins(r),
           \A j \in ToSet(q), k \in ToSet(r) : ~SameWork(j, k)
    PROVE  NoTwins(q \o r)
<1>1. PICK u \in Seq(AnyJob) :
          /\ u = q \o r /\ Len(u) = Len(q) + Len(r)
          /\ \A i \in 1..(Len(q) + Len(r)) : u[i] = IF i <= Len(q) THEN q[i] ELSE r[i - Len(q)]
  <2>1. PICK u \in Seq(AnyJob) : u = q \o r
    BY ConcatHolds
  <2> QED BY <2>1, ConcatProperties
<1>2. /\ Len(q) \in Nat /\ Len(r) \in Nat
      /\ DOMAIN q = 1..Len(q) /\ DOMAIN r = 1..Len(r) /\ DOMAIN u = 1..(Len(q) + Len(r))
  BY <1>1, LenProperties
<1>3. \A i \in DOMAIN u : i <= Len(q) => i \in DOMAIN q /\ u[i] = q[i] /\ u[i] \in ToSet(q)
  BY <1>1, <1>2 DEF ToSet
<1>4. \A i \in DOMAIN u : ~(i <= Len(q)) =>
          i - Len(q) \in DOMAIN r /\ u[i] = r[i - Len(q)] /\ u[i] \in ToSet(r)
  <2>1. \A i \in DOMAIN u : ~(i <= Len(q)) => i - Len(q) \in 1..Len(r)
    BY <1>2
  <2> QED BY <1>1, <1>2, <2>1 DEF ToSet
<1>5. ASSUME NEW i \in DOMAIN u, NEW k \in DOMAIN u, SameWork(u[i], u[k]) PROVE i = k
  <2>1. CASE i <= Len(q) /\ k <= Len(q)
    BY <1>3, <1>5, <2>1 DEF NoTwins
  <2>2. CASE ~(i <= Len(q)) /\ ~(k <= Len(q))
    <3>1. i - Len(q) = k - Len(q)
      BY <1>4, <1>5, <2>2 DEF NoTwins
    <3> QED BY <1>2, <3>1
  <2>3. CASE i <= Len(q) /\ ~(k <= Len(q))
    BY <1>3, <1>4, <1>5, <2>3
  <2>4. CASE ~(i <= Len(q)) /\ k <= Len(q)
    BY <1>3, <1>4, <1>5, <2>4, SameWorkIsEquivalence
  <2> QED BY <2>1, <2>2, <2>3, <2>4
<1>6. NoTwins(u)
  BY <1>5 DEF NoTwins
<1> QED BY <1>1, <1>6

\* A queue that a job leaves has nothing left of it.
LEMMA RemovedHasNoTwins ==
    ASSUME NEW q \in Seq(AnyJob), NoTwins(q), NEW i \in 1..Len(q)
    PROVE  /\ NoTwins(RemoveAt(q, i))
           /\ \A j \in ToSet(RemoveAt(q, i)) : ~SameWork(j, q[i])
<1>1. PICK r \in Seq(AnyJob) : r = RemoveAt(q, i)
  BY RemoveAtHolds
<1>2. /\ Len(r) = Len(q) - 1
      /\ \A k \in 1..(Len(q) - 1) : r[k] = IF k < i THEN q[k] ELSE q[k + 1]
  BY <1>1, RemoveAtHolds
<1>3. Len(q) \in Nat /\ DOMAIN q = 1..Len(q) /\ DOMAIN r = 1..(Len(q) - 1)
  BY <1>2, LenProperties
<1> DEFINE old(k) == IF k < i THEN k ELSE k + 1
<1>4. \A k \in DOMAIN r : old(k) \in DOMAIN q /\ r[k] = q[old(k)] /\ old(k) # i
  BY <1>2, <1>3
<1>5. \A k, m \in DOMAIN r : old(k) = old(m) => k = m
  BY <1>3
<1>6. i \in DOMAIN q
  BY <1>3
<1> HIDE DEF old
<1>7. NoTwins(r)
  BY <1>4, <1>5 DEF NoTwins
<1>8. ASSUME NEW j \in ToSet(r) PROVE ~SameWork(j, q[i])
  <2>1. PICK k \in DOMAIN r : j = r[k]
    BY DEF ToSet
  <2> QED BY <1>4, <1>6, <1>8, <2>1 DEF NoTwins
<1> QED BY <1>1, <1>7, <1>8

Fit(s) == s \in SchedRecord /\ JobsApart(s) /\ GensKnown(s)

\* The walks and the statuses that are outstanding, as StatusCollect has them.
WalksOf(s)    == {j.gen : j \in {k \in Live(s) : k.kind = "discover"}}
StatusesOf(s) == {<<j.gen, j.path>> : j \in {k \in Live(s) : k.kind = "status"}}

\* Jobs of a generation in which no walk, and no status of their checkouts, is
\* outstanding join the queues.
Join(s, s2, U, B) ==
    /\ QueuesGain(s, s2, U, B) /\ U \union B \subseteq CollectJobs
    /\ NoTwins(s2.user) /\ NoTwins(s2.status)
    /\ s.nextGen <= s2.nextGen
    /\ \A j \in U, k \in B : ~SameWork(j, k)
    /\ \A j, k \in U \union B : j.kind = k.kind
    /\ \A j \in U \union B : j.gen < s2.nextGen
    /\ \A j \in U \union B, k \in Live(s) :
           j.gen = k.gen => j.kind = "status" /\ k.kind = "status" /\ j.path # k.path

LEMMA GainsFit ==
    ASSUME NEW s, Fit(s), NEW s2 \in SchedRecord, NEW U, NEW B, Join(s, s2, U, B)
    PROVE  Fit(s2) /\ Live(s2) = Live(s) \union U \union B
<1>0. /\ QueuesGain(s, s2, U, B) /\ U \union B \subseteq CollectJobs
      /\ NoTwins(s2.user) /\ NoTwins(s2.status)
      /\ s.nextGen <= s2.nextGen
      /\ \A j \in U, k \in B : ~SameWork(j, k)
      /\ \A j, k \in U \union B : j.kind = k.kind
      /\ \A j \in U \union B : j.gen < s2.nextGen
      /\ \A j \in U \union B, k \in Live(s) :
             j.gen = k.gen => j.kind = "status" /\ k.kind = "status" /\ j.path # k.path
  BY DEF Join
<1>1. /\ ToSet(s2.user) = ToSet(s.user) \union U
      /\ ToSet(s2.status) = ToSet(s.status) \union B
      /\ s2.inflight = s.inflight
  BY <1>0 DEF QueuesGain
<1>2. InFlight(s2) = InFlight(s)
  BY <1>1 DEF InFlight
<1>3. Live(s2) = Live(s) \union U \union B
  BY <1>1, <1>2 DEF Live, Queued
<1>4. JobsApart(s) /\ GensKnown(s)
  BY DEF Fit
<1>5. \A j \in U \union B, k \in Live(s) : ~SameWork(j, k) /\ ~SameWork(k, j)
  BY <1>0 DEF SameWork
<1>6. JobsApart(s2)
  <2>1. \A j \in ToSet(s2.user), k \in ToSet(s2.status) : ~SameWork(j, k)
    <3>1. \A j \in ToSet(s.user), k \in ToSet(s.status) : ~SameWork(j, k)
      BY <1>4 DEF JobsApart
    <3> QED BY <1>0, <1>1, <1>5, <3>1 DEF Live, Queued
  <2>2. \A j \in Queued(s2), k \in InFlight(s2) : ~SameWork(j, k)
    <3>1. \A j \in Queued(s), k \in InFlight(s) : ~SameWork(j, k)
      BY <1>4 DEF JobsApart
    <3> QED BY <1>1, <1>2, <1>5, <3>1 DEF Live, Queued
  <2>3. /\ \A j, k \in InFlight(s2) : SameWork(j, k) => j = k
        /\ \A j \in InFlight(s2) : s2.inflight[j] = 1
    BY <1>1, <1>2, <1>4 DEF JobsApart
  <2> QED BY <1>0, <2>1, <2>2, <2>3 DEF JobsApart
<1>7. GensKnown(s2)
  <2>1. \A j \in Live(s) : j.kind \in {"discover", "status"} /\ j.gen < s.nextGen /\ j.gen \in Nat
    <3>1. Live(s) \subseteq AnyJob
      BY QueueTyped, BagTyped DEF Fit, SchedRecord, Live, Queued, InFlight
    <3> QED BY <1>4, <3>1, KindsOfJob DEF GensKnown
  <2>2. s.nextGen \in Nat /\ s2.nextGen \in Nat
    BY DEF Fit, SchedRecord
  <2>3. \A j \in Live(s2) : j.kind \in {"discover", "status"} /\ j.gen < s2.nextGen
    BY <1>0, <1>3, <2>1, <2>2 DEF CollectJobs
  <2>4. \A j, k \in Live(s2) : j.kind = "discover" /\ k.kind = "status" => j.gen # k.gen
    BY <1>0, <1>3, <1>4 DEF GensKnown
  <2> QED BY <2>3, <2>4 DEF GensKnown
<1> QED BY <1>3, <1>6, <1>7 DEF Fit

\* The job that ends was the only one of its work.
LEMMA EndsFit ==
    ASSUME NEW s, Fit(s), NEW j \in InFlight(s)
    PROVE  LET t == NoteJobFinished(s, j)
           IN  /\ Fit(t) /\ Live(t) = Live(s) \ {j}
               /\ \A k \in Live(t) : ~SameWork(k, j)
               /\ t = [s EXCEPT !.inflight = t.inflight]
<1>1. /\ s \in SchedRecord /\ JobsApart(s) /\ GensKnown(s) /\ s.inflight \in JobBags
      /\ Queued(s) \union InFlight(s) = Live(s)
  BY DEF Fit, SchedRecord, Live
<1>2. j \in AnyJob /\ j \in DOMAIN s.inflight
  BY <1>1, BagTyped DEF InFlight, BagToSet
<1>3. PICK t \in SchedRecord : t = NoteJobFinished(s, j)
  BY <1>1, <1>2, NoteJobFinishedTyped
<1>4. /\ t.inflight = s.inflight (-) SetToBag({j})
      /\ t.user = s.user /\ t.status = s.status /\ t.nextGen = s.nextGen
      /\ t = [s EXCEPT !.inflight = t.inflight]
  BY <1>1, <1>3 DEF NoteJobFinished, SchedRecord
<1>5. Copies(s.inflight, j) = 1
  BY <1>1, <1>2 DEF JobsApart, Copies
<1>6. PICK c \in JobBags : /\ c = t.inflight /\ DOMAIN c = DOMAIN s.inflight \ {j}
                           /\ \A k : Copies(c, k) <= Copies(s.inflight, k)
  <2>1. LET d == s.inflight (-) SetToBag({j})
        IN  /\ d \in JobBags /\ DOMAIN d = DOMAIN s.inflight \ {j}
            /\ \A k : Copies(d, k) <= Copies(s.inflight, k)
    BY <1>1, <1>2, <1>5, BagDrops
  <2> QED BY <1>4, <2>1, Zenon
<1>7. InFlight(t) = InFlight(s) \ {j} /\ Queued(t) = Queued(s)
  BY <1>4, <1>6 DEF InFlight, BagToSet, Queued
<1>8. /\ \A k \in Queued(s), m \in InFlight(s) : ~SameWork(k, m)
      /\ \A k, m \in InFlight(s) : SameWork(k, m) => k = m
  BY <1>1 DEF JobsApart
<1>9. j \notin Queued(s)
  BY <1>8, SameWorkIsEquivalence
<1>10. Live(t) = Live(s) \ {j}
  BY <1>7, <1>9 DEF Live
<1>11. \A k \in Live(t) : ~SameWork(k, j)
  BY <1>7, <1>8 DEF Live
<1>12. ASSUME NEW k \in InFlight(t) PROVE t.inflight[k] = 1
  <2>1. k \in DOMAIN c /\ k \in InFlight(s) /\ k \in DOMAIN s.inflight
    BY <1>6, <1>7, <1>12 DEF InFlight, BagToSet
  <2>2. c[k] \in Nat \ {0} /\ Copies(c, k) = c[k]
    BY <2>1 DEF JobBags, Copies
  <2>3. Copies(s.inflight, k) = 1
    BY <1>1, <2>1 DEF JobsApart, Copies
  <2>4. c[k] <= 1
    BY <1>6, <2>2, <2>3
  <2> QED BY <1>6, <2>2, <2>4
<1>13. JobsApart(t)
  <2>1. /\ NoTwins(t.user) /\ NoTwins(t.status)
        /\ \A k \in ToSet(t.user), m \in ToSet(t.status) : ~SameWork(k, m)
    BY <1>1, <1>4 DEF JobsApart
  <2>2. /\ \A k \in Queued(t), m \in InFlight(t) : ~SameWork(k, m)
        /\ \A k, m \in InFlight(t) : SameWork(k, m) => k = m
    BY <1>7, <1>8
  <2> QED BY <1>12, <2>1, <2>2 DEF JobsApart
<1>14. GensKnown(t)
  BY <1>1, <1>4, <1>10 DEF GensKnown
<1> QED BY <1>3, <1>4, <1>10, <1>11, <1>13, <1>14, Zenon DEF Fit

\* A job that leaves its queue for a worker stays the only one of its work.
LEMMA StartsFit ==
    ASSUME NEW s, Fit(s), NEW t \in SchedRecord, NEW j \in AnyJob,
           t.inflight = s.inflight (+) SetToBag({j}), t.nextGen = s.nextGen,
           NoTwins(t.user), NoTwins(t.status),
           ToSet(t.user) \subseteq ToSet(s.user), ToSet(t.status) \subseteq ToSet(s.status),
           Queued(s) = Queued(t) \union {j},
           \A k \in Queued(t) : ~SameWork(k, j)
    PROVE  Fit(t) /\ Live(t) = Live(s)
<1>1. /\ s \in SchedRecord /\ JobsApart(s) /\ GensKnown(s) /\ s.inflight \in JobBags
  BY DEF Fit, SchedRecord
<1>2. /\ \A k \in Queued(s), m \in InFlight(s) : ~SameWork(k, m)
      /\ \A k, m \in InFlight(s) : SameWork(k, m) => k = m
      /\ \A k \in InFlight(s) : s.inflight[k] = 1
  BY <1>1 DEF JobsApart
<1>3. j \notin InFlight(s) /\ \A k \in InFlight(s) : ~SameWork(k, j) /\ ~SameWork(j, k)
  BY <1>2, SameWorkIsEquivalence
<1>4. PICK c \in JobBags : /\ c = t.inflight /\ DOMAIN c = DOMAIN s.inflight \union {j}
                           /\ \A k : Copies(c, k) = Copies(s.inflight, k) + (IF k = j THEN 1 ELSE 0)
  <2>1. LET d == s.inflight (+) SetToBag({j})
        IN  /\ d \in JobBags /\ DOMAIN d = DOMAIN s.inflight \union {j}
            /\ \A k : Copies(d, k) = Copies(s.inflight, k) + (IF k = j THEN 1 ELSE 0)
    BY <1>1, BagAdds
  <2> QED BY <2>1, Zenon
<1>5. InFlight(t) = InFlight(s) \union {j}
  BY <1>4 DEF InFlight, BagToSet
<1>6. Live(t) = Live(s)
  BY <1>5 DEF Live
<1>7. ASSUME NEW k \in InFlight(t) PROVE t.inflight[k] = 1
  <2>1. k \in DOMAIN c
    BY <1>4, <1>7 DEF InFlight, BagToSet
  <2>2. Copies(c, k) = c[k]
    BY <2>1 DEF Copies
  <2>3. CASE k = j
    <3>1. Copies(s.inflight, k) = 0
      BY <1>3, <2>3 DEF Copies, InFlight, BagToSet
    <3> QED BY <1>4, <2>2, <2>3, <3>1
  <2>4. CASE k # j
    <3>1. Copies(s.inflight, k) = 1
      BY <1>2, <1>5, <2>4 DEF Copies, InFlight, BagToSet
    <3> QED BY <1>4, <2>2, <2>4, <3>1
  <2> QED BY <2>3, <2>4
<1>8. JobsApart(t)
  <2>1. \A k \in ToSet(t.user), m \in ToSet(t.status) : ~SameWork(k, m)
    BY <1>1 DEF JobsApart
  <2>2. \A k \in Queued(t), m \in InFlight(t) : ~SameWork(k, m)
    BY <1>2, <1>5
  <2>3. \A k, m \in InFlight(t) : SameWork(k, m) => k = m
    BY <1>2, <1>3, <1>5
  <2> QED BY <1>7, <2>1, <2>2, <2>3 DEF JobsApart
<1>9. GensKnown(t)
  BY <1>1, <1>6 DEF GensKnown
<1> QED BY <1>6, <1>8, <1>9 DEF Fit

LEMMA SpawnFit ==
    ASSUME NEW s, Fit(s), CanSpawn(s)
    PROVE  /\ Fit(SpawnNext(s)) /\ Live(SpawnNext(s)) = Live(s)
           /\ SpawnNext(s).nextGen = s.nextGen /\ SpawnNext(s).col = s.col
           /\ SpawnNext(s).latched = s.latched /\ SpawnNext(s).pathGen = s.pathGen
<1>1. /\ s \in SchedRecord /\ JobsApart(s)
      /\ s.user \in Seq(AnyJob) /\ s.status \in Seq(AnyJob)
  BY DEF Fit, SchedRecord
<1>2. /\ NoTwins(s.user) /\ NoTwins(s.status)
      /\ \A j \in ToSet(s.user), k \in ToSet(s.status) : ~SameWork(j, k) /\ ~SameWork(k, j)
  BY <1>1, SameWorkIsEquivalence DEF JobsApart
<1>3. CASE \E i \in 1..Len(s.user) : SpawnNext(s) = TakesUser(s, i) /\ FirstOfLane(s.user, i)
  <2>1. PICK i \in 1..Len(s.user) : SpawnNext(s) = TakesUser(s, i)
    BY <1>3
  <2>2. PICK j \in AnyJob : j = s.user[i]
    BY <1>1, TakesUserHolds
  <2>3. PICK t \in SchedRecord :
            /\ t = SpawnNext(s) /\ t.user = RemoveAt(s.user, i) /\ t.status = s.status
            /\ t.inflight = s.inflight (+) SetToBag({j})
            /\ t = [s EXCEPT !.user = t.user, !.status = t.status, !.inflight = t.inflight,
                             !.paneInflight = t.paneInflight]
    BY <1>1, <2>1, <2>2, TakesUserHolds
  <2>4. /\ ToSet(s.user) = ToSet(t.user) \union {j}
        /\ NoTwins(t.user) /\ \A k \in ToSet(t.user) : ~SameWork(k, j)
    BY <1>1, <1>2, <2>2, <2>3, RemoveAtHolds, RemovedHasNoTwins
  <2>5. t.nextGen = s.nextGen /\ t.col = s.col /\ t.latched = s.latched /\ t.pathGen = s.pathGen
    BY <1>1, <2>3 DEF SchedRecord
  <2>6. Queued(s) = Queued(t) \union {j} /\ \A k \in Queued(t) : ~SameWork(k, j)
    BY <1>2, <2>3, <2>4 DEF Queued
  <2>7. Fit(t) /\ Live(t) = Live(s)
    BY <1>2, <2>3, <2>4, <2>5, <2>6, StartsFit
  <2> QED BY <2>3, <2>5, <2>7, Zenon
<1>4. CASE \E i \in 1..Len(s.status) : SpawnNext(s) = TakesStatus(s, i) /\ FirstOfLane(s.status, i)
  <2>1. PICK i \in 1..Len(s.status) : SpawnNext(s) = TakesStatus(s, i)
    BY <1>4
  <2>2. PICK j \in AnyJob : j = s.status[i]
    BY <1>1, TakesStatusHolds
  <2>3. PICK t \in SchedRecord :
            /\ t = SpawnNext(s) /\ t.status = RemoveAt(s.status, i) /\ t.user = s.user
            /\ t.inflight = s.inflight (+) SetToBag({j})
            /\ t = [s EXCEPT !.user = t.user, !.status = t.status, !.inflight = t.inflight,
                             !.paneInflight = t.paneInflight]
    BY <1>1, <2>1, <2>2, TakesStatusHolds
  <2>4. /\ ToSet(s.status) = ToSet(t.status) \union {j}
        /\ NoTwins(t.status) /\ \A k \in ToSet(t.status) : ~SameWork(k, j)
    BY <1>1, <1>2, <2>2, <2>3, RemoveAtHolds, RemovedHasNoTwins
  <2>5. t.nextGen = s.nextGen /\ t.col = s.col /\ t.latched = s.latched /\ t.pathGen = s.pathGen
    BY <1>1, <2>3 DEF SchedRecord
  <2>6. Queued(s) = Queued(t) \union {j} /\ \A k \in Queued(t) : ~SameWork(k, j)
    BY <1>2, <2>3, <2>4 DEF Queued
  <2>7. Fit(t) /\ Live(t) = Live(s)
    BY <1>2, <2>3, <2>4, <2>5, <2>6, StartsFit
  <2> QED BY <2>3, <2>5, <2>7, Zenon
<1> QED BY <1>1, <1>3, <1>4, SpawnNextTakesFirst

\* What the collects see of the scheduler, jobs aside.
SameCollect(s, t) ==
    /\ t.nextGen = s.nextGen /\ t.col = s.col /\ t.latched = s.latched /\ t.pathGen = s.pathGen

\* A collect begins, and a collect is over.
Begins(s, t) ==
    /\ t.nextGen = s.nextGen + 1 /\ t.latched = FALSE /\ t.pathGen = s.pathGen
    /\ t.col.gen = s.nextGen /\ t.col.discovered = FALSE /\ t.col.pending = {}
    /\ Live(t) = Live(s) \union {Discover(s.nextGen)}

Finishes(s, t) ==
    IF s.latched THEN Begins(s, t)
    ELSE /\ t.nextGen = s.nextGen /\ t.latched = s.latched /\ t.pathGen = s.pathGen
         /\ t.col.gen = 0 /\ t.col.discovered = FALSE /\ t.col.pending = {}
         /\ Live(t) = Live(s)

LEMMA LiveJobs ==
    ASSUME NEW s, Fit(s), NEW j \in Live(s)
    PROVE  /\ j \in AnyJob /\ j.gen \in Nat /\ s.nextGen \in Nat /\ j.gen < s.nextGen
           /\ \/ j.kind = "discover" /\ j = Discover(j.gen)
              \/ j.kind = "status" /\ j.path \in Paths
<1>1. Live(s) \subseteq AnyJob
  BY QueueTyped, BagTyped DEF Fit, SchedRecord, Live, Queued, InFlight
<1>2. j.kind \in {"discover", "status"} /\ j.gen < s.nextGen /\ s.nextGen \in Nat
  BY DEF Fit, GensKnown, SchedRecord
<1> QED BY <1>1, <1>2, KindsOfJob

\* Other fields change nothing of the jobs.
LEMMA CollectFieldsFit ==
    ASSUME NEW s, Fit(s), NEW t \in SchedRecord,
           t.user = s.user, t.status = s.status, t.inflight = s.inflight, t.nextGen = s.nextGen
    PROVE  Fit(t) /\ Live(t) = Live(s)
<1>1. Queued(t) = Queued(s) /\ InFlight(t) = InFlight(s) /\ Live(t) = Live(s)
  BY DEF Queued, InFlight, Live
<1>2. JobsApart(t)
  BY <1>1, Zenon DEF Fit, JobsApart
<1>3. GensKnown(t)
  BY <1>1 DEF Fit, GensKnown
<1> QED BY <1>1, <1>2, <1>3 DEF Fit

LEMMA StartCollectionFit ==
    ASSUME NEW s, Fit(s), NEW focus \in Paths \union {NoPath}
    PROVE  Fit(StartCollection(s, focus)) /\ Begins(s, StartCollection(s, focus))
<1>1. s \in SchedRecord /\ s.nextGen \in Nat /\ s.user \in Seq(AnyJob) /\ JobsApart(s)
  BY DEF Fit, SchedRecord
<1>2. PICK j \in AnyJob : j = Discover(s.nextGen) /\ j.kind = "discover" /\ j.gen = s.nextGen
  BY <1>1, JobsAreJobs
<1>3. PICK t \in SchedRecord : t = StartCollection(s, focus)
  BY <1>1, StartCollectionTyped
<1>4. /\ t.nextGen = s.nextGen + 1 /\ t.latched = FALSE /\ t.pathGen = s.pathGen
      /\ t.col.gen = s.nextGen /\ t.col.discovered = FALSE /\ t.col.pending = {}
      /\ t.user = Append(s.user, j) /\ t.status = s.status
  BY <1>1, <1>2, <1>3 DEF StartCollection, SchedRecord, NoCollection
<1>5. QueuesGain(s, t, {j}, {})
  BY <1>1, <1>2, <1>3, StartCollectionGains
<1>6. \A k \in Live(s) : k.gen < s.nextGen /\ k.gen \in Nat
  BY LiveJobs
<1>7. NoTwins(t.user)
  <2>1. <<j>> \in Seq(AnyJob) /\ ToSet(<<j>>) = {j} /\ NoTwins(<<j>>)
    BY SingletonHolds, SingleHasNoTwins
  <2>2. \A k \in ToSet(s.user) : ~SameWork(k, j)
    BY <1>1, <1>2, <1>6 DEF SameWork, Live, Queued
  <2>3. NoTwins(s.user \o <<j>>)
    BY <1>1, <2>1, <2>2, ConcatHasNoTwins DEF JobsApart
  <2>4. Append(s.user, j) = s.user \o <<j>>
    BY <1>1, AppendIsConcat
  <2> QED BY <1>4, <2>3, <2>4, Zenon
<1>8. NoTwins(t.status)
  BY <1>1, <1>4 DEF JobsApart
<1>9. {j} \in SUBSET CollectJobs /\ {} \in SUBSET CollectJobs
  BY <1>2 DEF CollectJobs
<1>10. Fit(t) /\ Live(t) = Live(s) \union {j} \union {}
  <2>1. s.nextGen <= t.nextGen /\ j.gen < t.nextGen
    BY <1>1, <1>2, <1>4
  <2>2. \A k \in Live(s) : j.gen # k.gen
    BY <1>1, <1>2, <1>6
  <2>3. /\ {j} \union {} \subseteq CollectJobs
        /\ \A k \in {j}, m \in {} : ~SameWork(k, m)
        /\ \A k, m \in {j} \union {} : k.kind = m.kind
        /\ \A k \in {j} \union {} : k.gen < t.nextGen
        /\ \A k \in {j} \union {}, m \in Live(s) :
               k.gen = m.gen => k.kind = "status" /\ m.kind = "status" /\ k.path # m.path
    BY <1>9, <2>1, <2>2
  <2>4. Join(s, t, {j}, {})
    BY <1>5, <1>7, <1>8, <2>1, <2>3 DEF Join
  <2> QED BY <2>4, GainsFit
<1>11. Begins(s, t)
  BY <1>2, <1>4, <1>10 DEF Begins
<1> QED BY <1>3, <1>10, <1>11

LEMMA FinishCollectionFit ==
    ASSUME NEW s, Fit(s)
    PROVE  Fit(FinishCollection(s)) /\ Finishes(s, FinishCollection(s))
<1>1. s \in SchedRecord /\ s.col.focused \in Paths \union {NoPath} /\ s.latched \in BOOLEAN
  BY DEF Fit, SchedRecord, ColRecord
<1>2. NoCollection \in ColRecord
  BY DEF NoCollection, ColRecord
<1>3. PICK idle \in SchedRecord : idle = [s EXCEPT !.col = NoCollection]
  BY <1>1, <1>2 DEF SchedRecord
<1>4. /\ idle.user = s.user /\ idle.status = s.status /\ idle.inflight = s.inflight
      /\ idle.nextGen = s.nextGen /\ idle.latched = s.latched /\ idle.pathGen = s.pathGen
      /\ idle.col.gen = 0 /\ idle.col.discovered = FALSE /\ idle.col.pending = {}
  BY <1>1, <1>3 DEF SchedRecord, NoCollection
<1>5. Fit(idle) /\ Live(idle) = Live(s)
  BY <1>4, CollectFieldsFit
<1>6. CASE s.latched
  <2>1. PICK t : t = StartCollection(idle, s.col.focused) /\ Fit(t) /\ Begins(idle, t)
    BY <1>1, <1>5, StartCollectionFit
  <2>2. FinishCollection(s) = t
    BY <1>3, <1>6, <2>1, Zenon DEF FinishCollection
  <2>3. Finishes(s, t)
    BY <1>4, <1>5, <1>6, <2>1 DEF Begins, Finishes
  <2> QED BY <2>1, <2>2, <2>3
<1>7. CASE ~s.latched
  <2>1. FinishCollection(s) = idle
    BY <1>3, <1>7, Zenon DEF FinishCollection
  <2>2. Finishes(s, idle)
    BY <1>4, <1>5, <1>7 DEF Finishes
  <2> QED BY <1>5, <2>1, <2>2
<1> QED BY <1>6, <1>7

\* A checkout is done.
LEMMA NoteRepoDoneFit ==
    ASSUME NEW s, Fit(s), NEW p \in Paths
    PROVE  LET t == NoteRepoDone(s, p)
           IN  /\ Fit(t)
               /\ IF s.col.gen # 0 /\ s.col.discovered /\ s.col.pending \ {p} = {}
                  THEN Finishes(s, t)
                  ELSE /\ t.nextGen = s.nextGen /\ t.latched = s.latched /\ t.pathGen = s.pathGen
                       /\ t.col.gen = s.col.gen /\ t.col.discovered = s.col.discovered
                       /\ t.col.pending = s.col.pending \ {p}
                       /\ Live(t) = Live(s)
<1>1. s \in SchedRecord /\ s.col \in ColRecord /\ s.col.discovered \in BOOLEAN
  BY DEF Fit, SchedRecord, ColRecord
<1>2. PICK noted \in SchedRecord : noted = [s EXCEPT !.col.pending = @ \ {p}]
  BY <1>1 DEF SchedRecord, ColRecord
<1>3. /\ noted.user = s.user /\ noted.status = s.status /\ noted.inflight = s.inflight
      /\ noted.nextGen = s.nextGen /\ noted.latched = s.latched /\ noted.pathGen = s.pathGen
      /\ noted.col.gen = s.col.gen /\ noted.col.discovered = s.col.discovered
      /\ noted.col.pending = s.col.pending \ {p}
  BY <1>1, <1>2 DEF SchedRecord, ColRecord
<1>4. Fit(noted) /\ Live(noted) = Live(s)
  BY <1>3, CollectFieldsFit
<1>5. CASE s.col.gen # 0 /\ s.col.discovered /\ s.col.pending \ {p} = {}
  <2>1. PICK t : t = FinishCollection(noted) /\ Fit(t) /\ Finishes(noted, t)
    BY <1>4, FinishCollectionFit
  <2>2. NoteRepoDone(s, p) = t
    <3>1. Collecting(s) /\ s.col.discovered /\ noted.col.pending = {}
      BY <1>3, <1>5 DEF Collecting
    <3> QED BY <1>2, <2>1, <3>1, Zenon DEF NoteRepoDone
  <2>3. Finishes(s, t)
    BY <1>3, <1>4, <2>1 DEF Finishes, Begins
  <2> QED BY <1>5, <2>1, <2>2, <2>3
<1>6. CASE ~(s.col.gen # 0 /\ s.col.discovered /\ s.col.pending \ {p} = {})
  <2>1. NoteRepoDone(s, p) = noted
    <3>1. ~(Collecting(s) /\ s.col.discovered /\ noted.col.pending = {})
      BY <1>3, <1>6 DEF Collecting
    <3> QED BY <1>2, <3>1, Zenon DEF NoteRepoDone
  <2> QED BY <1>3, <1>4, <1>6, <2>1
<1> QED BY <1>5, <1>6

LEMMA StatusJobsOf ==
    ASSUME NEW g \in Nat, NEW f \in BOOLEAN, NEW p \in Paths
    PROVE  /\ ProcessRepo(g, p, f) \in CollectJobs /\ ProcessRepo(g, p, f).kind = "status"
           /\ ProcessRepo(g, p, f).gen = g /\ ProcessRepo(g, p, f).path = p
BY StatusJobIsJob DEF CollectJobs

LEMMA OnReloadRepoFit ==
    ASSUME NEW s, Fit(s), NEW p \in Paths
    PROVE  LET t == OnReloadRepo(s, p)
           IN  /\ Fit(t) /\ Live(t) = Live(s) \union {ProcessRepo(s.nextGen, p, TRUE)}
               /\ t.nextGen = s.nextGen + 1 /\ t.col = s.col /\ t.latched = s.latched
               /\ t.pathGen = [s.pathGen EXCEPT ![p] = s.nextGen]
<1>1. s \in SchedRecord /\ s.nextGen \in Nat /\ s.user \in Seq(AnyJob) /\ JobsApart(s)
  BY DEF Fit, SchedRecord
<1>a. PICK j \in AnyJob : j = ProcessRepo(s.nextGen, p, TRUE)
  BY <1>1, JobsAreJobs, Zenon
<1>2. j.kind = "status" /\ j.gen = s.nextGen
  <2>1. TRUE \in BOOLEAN
    OBVIOUS
  <2>2. \A f \in BOOLEAN : ProcessRepo(s.nextGen, p, f).kind = "status" /\ ProcessRepo(s.nextGen, p, f).gen = s.nextGen
    BY <1>1, JobsAreJobs
  <2> QED BY <1>a, <2>1, <2>2, Zenon
<1>3. PICK t \in SchedRecord : t = OnReloadRepo(s, p)
  BY <1>1, OnReloadRepoTyped
<1>4. /\ t.nextGen = s.nextGen + 1 /\ t.latched = s.latched /\ t.col = s.col
      /\ t.pathGen = [s.pathGen EXCEPT ![p] = s.nextGen]
      /\ t.user = <<j>> \o s.user /\ t.status = s.status
  BY <1>1, <1>a, <1>3 DEF OnReloadRepo, SchedRecord
<1>5. QueuesGain(s, t, {j}, {})
  BY <1>1, <1>a, <1>3, OnReloadRepoGains, Zenon
<1>6. \A k \in Live(s) : k.gen < s.nextGen /\ k.gen \in Nat
  BY LiveJobs
<1>7. NoTwins(t.user)
  <2>1. <<j>> \in Seq(AnyJob) /\ ToSet(<<j>>) = {j} /\ NoTwins(<<j>>)
    BY SingletonHolds, SingleHasNoTwins
  <2>2. \A k \in ToSet(s.user) : ~SameWork(j, k)
    BY <1>1, <1>2, <1>6 DEF SameWork, Live, Queued
  <2>3. NoTwins(<<j>> \o s.user)
    BY <1>1, <2>1, <2>2, ConcatHasNoTwins DEF JobsApart
  <2> QED BY <1>4, <2>3, Zenon
<1>8. NoTwins(t.status)
  BY <1>1, <1>4 DEF JobsApart
<1>9. Fit(t) /\ Live(t) = Live(s) \union {j} \union {}
  <2>1. s.nextGen <= t.nextGen /\ j.gen < t.nextGen
    BY <1>1, <1>2, <1>4
  <2>2. \A k \in Live(s) : j.gen # k.gen
    BY <1>1, <1>2, <1>6
  <2>3. /\ {j} \union {} \subseteq CollectJobs
        /\ \A k \in {j}, m \in {} : ~SameWork(k, m)
        /\ \A k, m \in {j} \union {} : k.kind = m.kind
        /\ \A k \in {j} \union {} : k.gen < t.nextGen
        /\ \A k \in {j} \union {}, m \in Live(s) :
               k.gen = m.gen => k.kind = "status" /\ m.kind = "status" /\ k.path # m.path
    BY <1>2, <2>1, <2>2 DEF CollectJobs
  <2>4. Join(s, t, {j}, {})
    BY <1>5, <1>7, <1>8, <2>1, <2>3 DEF Join
  <2> QED BY <2>4, GainsFit
<1> QED BY <1>a, <1>3, <1>4, <1>9, Zenon

\* The collect of generation g now waits for these checkouts.
Awaits(s, s2, g, owed) ==
    /\ s2.nextGen = s.nextGen /\ s2.latched = s.latched /\ s2.col.gen = s.col.gen
    /\ s2.col.discovered = TRUE /\ s2.col.pending = owed
    /\ s2.pathGen = [p \in Paths |-> IF p \in owed THEN g ELSE s.pathGen[p]]
    /\ \E S : /\ Live(s2) = Live(s) \union S
              /\ \A j \in S : j.kind = "status" /\ j.gen = g /\ j.path \in owed
              /\ \A p \in owed : \E j \in S : j.path = p

\* A walk that lands hands its generation to the statuses it queues; nothing
\* else of that generation is outstanding.
LEMMA OnDiscoveredFit ==
    ASSUME NEW s, Fit(s), NEW g \in Nat, NEW found \in Seq(Paths), Distinct(found),
           s.col.gen = g, g < s.nextGen, \A k \in Live(s) : k.gen # g,
           NEW owed, owed = {p \in ToSet(found) : s.pathGen[p] <= g},
           NEW s2, s2 = OnDiscovered(s, g, found)
    PROVE  Fit(s2) /\ Awaits(s, s2, g, owed)
<1>1. /\ s \in SchedRecord /\ JobsApart(s) /\ s.user \in Seq(AnyJob) /\ s.status \in Seq(AnyJob)
      /\ s.col \in ColRecord /\ s.nextGen \in Nat
  BY DEF Fit, SchedRecord
<1>2. PICK front \in Seq(AnyJob), back \in Seq(AnyJob), queued \in SUBSET Paths,
           focus \in Paths \union {NoPath} :
             WalkQueues(s, g, found, front, back, queued, focus)
  BY <1>1, OnDiscoveredQueues
<1>3. PICK t \in SchedRecord : t = OnDiscovered(s, g, found)
  BY <1>1, OnDiscoveredTyped
<1>4. /\ queued = {p \in ToSet(found) : s.pathGen[p] <= g}
      /\ ToSet(front) = {ProcessRepo(g, p, TRUE) : p \in queued \intersect {focus}}
      /\ ToSet(back) = {ProcessRepo(g, p, FALSE) : p \in queued \ {focus}}
      /\ NoTwins(front) /\ NoTwins(back)
  BY <1>2 DEF WalkQueues
<1>5. /\ t.nextGen = s.nextGen /\ t.latched = s.latched /\ t.col.gen = s.col.gen
      /\ t.col.discovered = TRUE /\ t.col.pending = queued
      /\ t.pathGen = [p \in Paths |-> IF p \in queued THEN g ELSE s.pathGen[p]]
      /\ t.user = front \o s.user /\ t.status = s.status \o back
      /\ t.inflight = s.inflight /\ t.exclusive = s.exclusive
  <2>1. t = [s EXCEPT !.col.discovered = TRUE,
                      !.col.pending = queued,
                      !.pathGen = [p \in Paths |-> IF p \in queued THEN g ELSE @[p]],
                      !.user = front \o @,
                      !.status = @ \o back]
    BY <1>2, <1>3, Zenon DEF WalkQueues
  <2> QED BY <1>1, <2>1 DEF SchedRecord, ColRecord
<1>a. /\ TRUE \in BOOLEAN /\ FALSE \in BOOLEAN
      /\ queued \intersect {focus} \in SUBSET Paths /\ queued \ {focus} \in SUBSET Paths
  OBVIOUS
<1>b. /\ \A j \in ToSet(front) : /\ j \in CollectJobs /\ j.kind = "status" /\ j.gen = g
                                 /\ j.path \in queued \intersect {focus}
      /\ \A p \in queued \intersect {focus} : \E j \in ToSet(front) : j.path = p
  <2> DEFINE Q == queued \intersect {focus}
  <2> HIDE DEF Q
  <2>1. ASSUME NEW f \in BOOLEAN, ToSet(front) = {ProcessRepo(g, p, f) : p \in Q}
        PROVE  /\ \A j \in ToSet(front) : /\ j \in CollectJobs /\ j.kind = "status" /\ j.gen = g
                                       /\ j.path \in Q
               /\ \A p \in Q : \E j \in ToSet(front) : j.path = p
    <3>1. \A p \in Q :
              /\ ProcessRepo(g, p, f) \in CollectJobs /\ ProcessRepo(g, p, f).kind = "status"
              /\ ProcessRepo(g, p, f).gen = g /\ ProcessRepo(g, p, f).path = p
      BY StatusJobsOf DEF Q
    <3> QED BY <2>1, <3>1
  <2>2. ToSet(front) = {ProcessRepo(g, p, TRUE) : p \in Q}
    BY <1>4, Zenon DEF Q
  <2>3. TRUE \in BOOLEAN
    OBVIOUS
  <2>4. /\ \A j \in ToSet(front) : /\ j \in CollectJobs /\ j.kind = "status" /\ j.gen = g
                                 /\ j.path \in Q
        /\ \A p \in Q : \E j \in ToSet(front) : j.path = p
    BY <2>1, <2>2, <2>3, Zenon
  <2> QED BY <2>4 DEF Q
<1>c. /\ \A j \in ToSet(back) : /\ j \in CollectJobs /\ j.kind = "status" /\ j.gen = g
                                /\ j.path \in queued \ {focus}
      /\ \A p \in queued \ {focus} : \E j \in ToSet(back) : j.path = p
  <2> DEFINE Q == queued \ {focus}
  <2> HIDE DEF Q
  <2>1. ASSUME NEW f \in BOOLEAN, ToSet(back) = {ProcessRepo(g, p, f) : p \in Q}
        PROVE  /\ \A j \in ToSet(back) : /\ j \in CollectJobs /\ j.kind = "status" /\ j.gen = g
                                       /\ j.path \in Q
               /\ \A p \in Q : \E j \in ToSet(back) : j.path = p
    <3>1. \A p \in Q :
              /\ ProcessRepo(g, p, f) \in CollectJobs /\ ProcessRepo(g, p, f).kind = "status"
              /\ ProcessRepo(g, p, f).gen = g /\ ProcessRepo(g, p, f).path = p
      BY StatusJobsOf DEF Q
    <3> QED BY <2>1, <3>1
  <2>2. ToSet(back) = {ProcessRepo(g, p, FALSE) : p \in Q}
    BY <1>4, Zenon DEF Q
  <2>3. FALSE \in BOOLEAN
    OBVIOUS
  <2>4. /\ \A j \in ToSet(back) : /\ j \in CollectJobs /\ j.kind = "status" /\ j.gen = g
                                 /\ j.path \in Q
        /\ \A p \in Q : \E j \in ToSet(back) : j.path = p
    BY <2>1, <2>2, <2>3, Zenon
  <2> QED BY <2>4 DEF Q
<1>6. \A j \in ToSet(front) \union ToSet(back) :
          j \in CollectJobs /\ j.kind = "status" /\ j.gen = g /\ j.path \in queued
  BY <1>b, <1>c
<1>7. \A p \in queued : \E j \in ToSet(front) \union ToSet(back) : j.path = p
  BY <1>b, <1>c
<1>8. \A j \in ToSet(front), k \in ToSet(back) : ~SameWork(j, k)
  BY <1>b, <1>c DEF SameWork
<1>9. \A j \in ToSet(front) \union ToSet(back), k \in Live(s) : ~SameWork(j, k) /\ ~SameWork(k, j)
  BY <1>6 DEF SameWork
<1>10. NoTwins(t.user) /\ NoTwins(t.status)
  <2>0. NoTwins(front) /\ NoTwins(back)
    BY <1>4
  <2>1. NoTwins(front \o s.user)
    BY <1>1, <1>9, <2>0, ConcatHasNoTwins DEF JobsApart, Live, Queued
  <2>2. NoTwins(s.status \o back)
    BY <1>1, <1>9, <2>0, ConcatHasNoTwins DEF JobsApart, Live, Queued
  <2> QED BY <1>5, <2>1, <2>2, Zenon
<1>11. QueuesGain(s, t, ToSet(front), ToSet(back))
  BY <1>1, <1>5, ConcatHolds DEF QueuesGain
<1>12. Join(s, t, ToSet(front), ToSet(back))
  <2>1. s.nextGen <= t.nextGen /\ g < t.nextGen
    BY <1>1, <1>5
  <2>2. /\ ToSet(front) \union ToSet(back) \subseteq CollectJobs
        /\ \A j, k \in ToSet(front) \union ToSet(back) : j.kind = k.kind
        /\ \A j \in ToSet(front) \union ToSet(back) : j.gen < t.nextGen
        /\ \A j \in ToSet(front) \union ToSet(back), k \in Live(s) :
               j.gen = k.gen => j.kind = "status" /\ k.kind = "status" /\ j.path # k.path
    BY <1>6, <2>1
  <2> QED BY <1>8, <1>10, <1>11, <2>1, <2>2 DEF Join
<1>13. Fit(t) /\ Live(t) = Live(s) \union (ToSet(front) \union ToSet(back))
  BY <1>12, GainsFit
<1>14. \E S : /\ Live(t) = Live(s) \union S
              /\ \A j \in S : j.kind = "status" /\ j.gen = g /\ j.path \in queued
              /\ \A p \in queued : \E j \in S : j.path = p
  BY <1>6, <1>7, <1>13
<1>15. s2 = t /\ owed = queued
  BY <1>3, <1>4, Zenon
<1>16. Awaits(s, t, g, queued)
  BY <1>5, <1>14 DEF Awaits
<1> QED BY <1>13, <1>15, <1>16, Zenon

LEMMA AbandonCollectionFit ==
    ASSUME NEW s, Fit(s), NEW g
    PROVE  LET t == AbandonCollection(s, g)
           IN  Fit(t) /\ IF s.col.gen = g /\ ~s.col.discovered THEN Finishes(s, t) ELSE t = s
<1>1. CASE s.col.gen = g /\ ~s.col.discovered
  <2>1. AbandonCollection(s, g) = FinishCollection(s)
    BY <1>1, Zenon DEF AbandonCollection
  <2> QED BY <1>1, <2>1, FinishCollectionFit, Zenon
<1>2. CASE ~(s.col.gen = g /\ ~s.col.discovered)
  <2>1. AbandonCollection(s, g) = s
    BY <1>2, Zenon DEF AbandonCollection
  <2> QED BY <1>2, <2>1, Zenon
<1> QED BY <1>1, <1>2

LEMMA RequestCollectFit ==
    ASSUME NEW s, Fit(s), NEW focus \in Paths \union {NoPath}
    PROVE  LET t == RequestCollect(s, focus)
           IN  /\ Fit(t)
               /\ IF s.col.gen = 0 THEN Begins(s, t)
                  ELSE /\ t.latched = TRUE /\ t.nextGen = s.nextGen /\ t.col = s.col
                       /\ t.pathGen = s.pathGen /\ Live(t) = Live(s)
<1>1. CASE s.col.gen = 0
  <2>1. RequestCollect(s, focus) = StartCollection(s, focus)
    BY <1>1, Zenon DEF RequestCollect, Collecting
  <2> QED BY <1>1, <2>1, StartCollectionFit, Zenon
<1>2. CASE s.col.gen # 0
  <2>1. PICK t : t = [s EXCEPT !.latched = TRUE]
    OBVIOUS
  <2>2. RequestCollect(s, focus) = t
    BY <1>2, <2>1, Zenon DEF RequestCollect, Collecting
  <2>3. /\ t \in SchedRecord
        /\ t.latched = TRUE /\ t.nextGen = s.nextGen /\ t.col = s.col /\ t.pathGen = s.pathGen
        /\ t.user = s.user /\ t.status = s.status /\ t.inflight = s.inflight
    BY <2>1 DEF Fit, SchedRecord
  <2>4. Fit(t) /\ Live(t) = Live(s)
    BY <2>3, CollectFieldsFit
  <2> QED BY <1>2, <2>2, <2>3, <2>4, Zenon
<1> QED BY <1>1, <1>2

-----------------------------------------------------------------------------
(* Collects alone: the scheduler is the collect specification *)

\* What a new walk, new statuses and an end are to StatusCollect.
LEMMA WalkBegun ==
    ASSUME NEW s, NEW t, NEW g, Live(t) = Live(s) \union {Discover(g)}
    PROVE  WalksOf(t) = WalksOf(s) \union {g} /\ StatusesOf(t) = StatusesOf(s)
<1>1. Discover(g).kind = "discover" /\ Discover(g).gen = g
  BY DEF Discover
<1> QED BY <1>1 DEF WalksOf, StatusesOf

LEMMA StatusesJoined ==
    ASSUME NEW s, NEW t, NEW S, Live(t) = Live(s) \union S, \A j \in S : j.kind = "status"
    PROVE  /\ WalksOf(t) = WalksOf(s)
           /\ StatusesOf(t) = StatusesOf(s) \union {<<j.gen, j.path>> : j \in S}
BY DEF WalksOf, StatusesOf

LEMMA LiveUnchanged ==
    ASSUME NEW s, NEW t, Live(t) = Live(s)
    PROVE  WalksOf(t) = WalksOf(s) /\ StatusesOf(t) = StatusesOf(s)
BY DEF WalksOf, StatusesOf

LEMMA WalkEnded ==
    ASSUME NEW s, Fit(s), NEW g, Discover(g) \in InFlight(s)
    PROVE  LET t == NoteJobFinished(s, Discover(g))
           IN  /\ Fit(t) /\ SameCollect(s, t)
               /\ g \in WalksOf(s) /\ WalksOf(t) = WalksOf(s) \ {g}
               /\ StatusesOf(t) = StatusesOf(s)
               /\ \A k \in Live(t) : k.gen # g
               /\ g \in Nat /\ g < s.nextGen
<1>1. PICK j : j = Discover(g) /\ j.kind = "discover" /\ j.gen = g
  BY DEF Discover
<1>2. PICK t : /\ t = NoteJobFinished(s, j) /\ Fit(t) /\ Live(t) = Live(s) \ {j}
               /\ \A k \in Live(t) : ~SameWork(k, j)
               /\ t = [s EXCEPT !.inflight = t.inflight]
  BY <1>1, EndsFit
<1>3. SameCollect(s, t)
  BY <1>2 DEF SameCollect, Fit, SchedRecord
<1>4. j \in Live(s)
  BY <1>1 DEF Live
<1>5. j.gen \in Nat /\ j.gen < s.nextGen
  BY <1>4, LiveJobs
<1>6. \A k \in Live(t) : k.gen # g
  <2>1. \A k \in Live(s) : k.kind = "discover" \/ k.kind = "status"
    BY DEF Fit, GensKnown
  <2>2. \A k \in Live(s) : k.kind = "status" => k.gen # g
    BY <1>1, <1>4 DEF Fit, GensKnown
  <2>3. \A k \in Live(t) : k.kind = "discover" => k.gen # g
    BY <1>1, <1>2 DEF SameWork
  <2> QED BY <1>2, <2>1, <2>2, <2>3
<1>7. g \in WalksOf(s) /\ WalksOf(t) = WalksOf(s) \ {g}
  BY <1>1, <1>2, <1>4, <1>6 DEF WalksOf
<1>8. StatusesOf(t) = StatusesOf(s)
  BY <1>1, <1>2 DEF StatusesOf
<1> QED BY <1>1, <1>2, <1>3, <1>5, <1>6, <1>7, <1>8, Zenon

LEMMA StatusEnded ==
    ASSUME NEW s, Fit(s), NEW j \in InFlight(s), j.kind = "status"
    PROVE  LET t == NoteJobFinished(s, j)
           IN  /\ Fit(t) /\ SameCollect(s, t)
               /\ WalksOf(t) = WalksOf(s)
               /\ <<j.gen, j.path>> \in StatusesOf(s)
               /\ StatusesOf(t) = StatusesOf(s) \ {<<j.gen, j.path>>}
               /\ j.path \in Paths
<1>2. PICK t : /\ t = NoteJobFinished(s, j) /\ Fit(t) /\ Live(t) = Live(s) \ {j}
               /\ \A k \in Live(t) : ~SameWork(k, j)
               /\ t = [s EXCEPT !.inflight = t.inflight]
  BY EndsFit
<1>3. SameCollect(s, t)
  BY <1>2 DEF SameCollect, Fit, SchedRecord
<1>4. j \in Live(s)
  BY DEF Live
<1>5. j.path \in Paths
  BY <1>4, LiveJobs
<1>6. \A k \in Live(t) : k.kind = "status" => ~(k.gen = j.gen /\ k.path = j.path)
  BY <1>2 DEF SameWork
<1>7. WalksOf(t) = WalksOf(s)
  BY <1>2 DEF WalksOf
<1>8. /\ <<j.gen, j.path>> \in StatusesOf(s)
      /\ StatusesOf(t) = StatusesOf(s) \ {<<j.gen, j.path>>}
  BY <1>2, <1>4, <1>6 DEF StatusesOf
<1> QED BY <1>2, <1>3, <1>5, <1>7, <1>8, Zenon

\* The steps of StatusCollect that are shared: s1 is the scheduler after the
\* job that ended left its worker.
LEMMA BeginRefines ==
    ASSUME NEW s1, SameCollect(sched, s1), Begins(s1, sched')
    PROVE  /\ Collects!Begin(WalksOf(s1)) /\ sched'.pathGen = sched.pathGen
           /\ StatusesOf(sched') = StatusesOf(s1)
<1>1. /\ WalksOf(sched') = WalksOf(s1) \union {s1.nextGen}
      /\ StatusesOf(sched') = StatusesOf(s1)
  BY WalkBegun DEF Begins
<1>2. s1.nextGen = sched.nextGen /\ s1.pathGen = sched.pathGen
  BY DEF SameCollect
<1>3. Collects!Begin(WalksOf(s1))
  BY <1>1, <1>2 DEF Begins, Collects!Begin, WalksOf
<1> QED BY <1>1, <1>2, <1>3 DEF Begins

LEMMA FinishRefines ==
    ASSUME NEW s1, SameCollect(sched, s1), Finishes(s1, sched')
    PROVE  /\ Collects!Finish(WalksOf(s1)) /\ sched'.pathGen = sched.pathGen
           /\ StatusesOf(sched') = StatusesOf(s1)
<1>1. s1.latched = sched.latched /\ s1.nextGen = sched.nextGen /\ s1.pathGen = sched.pathGen
  BY DEF SameCollect
<1>2. CASE s1.latched
  <2>1. Begins(s1, sched')
    BY <1>2, Zenon DEF Finishes
  <2>2. sched.latched
    BY <1>1, <1>2
  <2> QED BY <2>1, <2>2, BeginRefines, Zenon DEF Collects!Finish
<1>3. CASE ~s1.latched
  <2>1. /\ sched'.nextGen = s1.nextGen /\ sched'.latched = s1.latched
        /\ sched'.pathGen = s1.pathGen
        /\ sched'.col.gen = 0 /\ sched'.col.discovered = FALSE /\ sched'.col.pending = {}
        /\ Live(sched') = Live(s1)
    BY <1>3, Zenon DEF Finishes
  <2>2. WalksOf(sched') = WalksOf(s1) /\ StatusesOf(sched') = StatusesOf(s1)
    BY <2>1, LiveUnchanged
  <2>3. ~sched.latched
    BY <1>1, <1>3
  <2>4. Collects!Finish(WalksOf(s1))
    BY <1>1, <2>1, <2>2, <2>3 DEF Collects!Finish, WalksOf
  <2> QED BY <1>1, <2>1, <2>2, <2>4
<1> QED BY <1>2, <1>3

LEMMA PathDoneRefines ==
    ASSUME NEW s1, SameCollect(sched, s1), Fit(s1), WalksOf(s1) = WalksOf(sched),
           NEW p \in Paths, sched' = NoteRepoDone(s1, p)
    PROVE  /\ Collects!PathDone(p) /\ sched'.pathGen = sched.pathGen
           /\ StatusesOf(sched') = StatusesOf(s1) /\ Fit(sched')
<1>1. /\ s1.nextGen = sched.nextGen /\ s1.col = sched.col /\ s1.latched = sched.latched
      /\ s1.pathGen = sched.pathGen
  BY DEF SameCollect
<1>2. /\ Fit(sched')
      /\ IF s1.col.gen # 0 /\ s1.col.discovered /\ s1.col.pending \ {p} = {}
         THEN Finishes(s1, sched')
         ELSE /\ sched'.nextGen = s1.nextGen /\ sched'.latched = s1.latched
              /\ sched'.pathGen = s1.pathGen
              /\ sched'.col.gen = s1.col.gen /\ sched'.col.discovered = s1.col.discovered
              /\ sched'.col.pending = s1.col.pending \ {p}
              /\ Live(sched') = Live(s1)
  BY NoteRepoDoneFit, Zenon
<1>3. CASE s1.col.gen # 0 /\ s1.col.discovered /\ s1.col.pending \ {p} = {}
  <2>1. /\ Collects!Finish(WalksOf(s1)) /\ sched'.pathGen = sched.pathGen
        /\ StatusesOf(sched') = StatusesOf(s1)
    BY <1>2, <1>3, FinishRefines
  <2>2. Collects!Finish(WalksOf(sched))
    BY <2>1 DEF Collects!Finish, Collects!Begin
  <2>3. sched.col.gen # 0 /\ sched.col.discovered /\ sched.col.pending \ {p} = {}
    BY <1>1, <1>3
  <2>4. Collects!PathDone(p)
    BY <2>2, <2>3, Zenon DEF Collects!PathDone, WalksOf
  <2> QED BY <1>2, <2>1, <2>4
<1>4. CASE ~(s1.col.gen # 0 /\ s1.col.discovered /\ s1.col.pending \ {p} = {})
  <2>1. /\ sched'.nextGen = s1.nextGen /\ sched'.latched = s1.latched
        /\ sched'.pathGen = s1.pathGen
        /\ sched'.col.gen = s1.col.gen /\ sched'.col.discovered = s1.col.discovered
        /\ sched'.col.pending = s1.col.pending \ {p}
        /\ Live(sched') = Live(s1)
    BY <1>2, <1>4
  <2>2. WalksOf(sched') = WalksOf(s1) /\ StatusesOf(sched') = StatusesOf(s1)
    BY <2>1, LiveUnchanged
  <2>3. ~(sched.col.gen # 0 /\ sched.col.discovered /\ sched.col.pending \ {p} = {})
    BY <1>1, <1>4
  <2>4. Collects!PathDone(p)
    BY <1>1, <2>1, <2>2, <2>3 DEF Collects!PathDone, WalksOf
  <2> QED BY <1>1, <1>2, <2>1, <2>2, <2>4
<1> QED BY <1>3, <1>4

\* Each action is a step of StatusCollect.
LEMMA TickRefines ==
    ASSUME Fit(sched), NEW focus \in Paths \union {NoPath}, Tick(focus)
    PROVE  Fit(sched') /\ Collects!Tick
<1>1. GenLeft /\ sched' = RequestCollect(sched, focus) /\ row' = row
  BY DEF Tick
<1>2. /\ Fit(sched')
      /\ IF sched.col.gen = 0 THEN Begins(sched, sched')
         ELSE /\ sched'.latched = TRUE /\ sched'.nextGen = sched.nextGen
              /\ sched'.col = sched.col /\ sched'.pathGen = sched.pathGen
              /\ Live(sched') = Live(sched)
  BY <1>1, RequestCollectFit, Zenon
<1>3. Collects!GenLeft
  BY <1>1 DEF GenLeft, Collects!GenLeft
<1>4. CASE sched.col.gen = 0
  <2>1. PICK s1 : s1 = sched
    OBVIOUS
  <2>2. SameCollect(sched, s1) /\ Begins(s1, sched')
    BY <1>2, <1>4, <2>1 DEF SameCollect
  <2>3. /\ Collects!Begin(WalksOf(s1)) /\ sched'.pathGen = sched.pathGen
        /\ StatusesOf(sched') = StatusesOf(s1)
    BY <2>2, BeginRefines
  <2>4. Collects!Begin(WalksOf(sched))
    BY <2>1, <2>3 DEF Collects!Begin
  <2>5. StatusesOf(sched') = StatusesOf(sched)
    BY <2>1, <2>3
  <2> QED BY <1>1, <1>2, <1>3, <1>4, <2>3, <2>4, <2>5 DEF Collects!Tick, WalksOf, StatusesOf
<1>5. CASE sched.col.gen # 0
  <2>1. WalksOf(sched') = WalksOf(sched) /\ StatusesOf(sched') = StatusesOf(sched)
    <3>1. Live(sched') = Live(sched)
      BY <1>2, <1>5
    <3> QED BY <3>1 DEF WalksOf, StatusesOf
  <2> QED BY <1>1, <1>2, <1>3, <1>5, <2>1 DEF Collects!Tick, WalksOf, StatusesOf
<1> QED BY <1>4, <1>5

LEMMA ReloadRepoRefines ==
    ASSUME Fit(sched), NEW p \in Paths, ReloadRepo(p)
    PROVE  Fit(sched') /\ Collects!ReloadRepo(p)
<1>1. GenLeft /\ sched' = OnReloadRepo(sched, p) /\ row' = row
  BY DEF ReloadRepo
<1>2. PICK j : /\ j.kind = "status" /\ j.gen = sched.nextGen /\ j.path = p
               /\ Live(sched') = Live(sched) \union {j}
  <2>1. PICK j : j = ProcessRepo(sched.nextGen, p, TRUE)
    OBVIOUS
  <2>2. j.kind = "status" /\ j.gen = sched.nextGen /\ j.path = p
    BY <2>1 DEF ProcessRepo
  <2>3. Live(sched') = Live(sched) \union {j}
    BY <1>1, <2>1, OnReloadRepoFit, Zenon
  <2> QED BY <2>2, <2>3
<1>3. /\ Fit(sched') /\ sched'.nextGen = sched.nextGen + 1 /\ sched'.col = sched.col
      /\ sched'.latched = sched.latched
      /\ sched'.pathGen = [sched.pathGen EXCEPT ![p] = sched.nextGen]
  BY <1>1, OnReloadRepoFit, Zenon
<1>4. Collects!GenLeft
  BY <1>1 DEF GenLeft, Collects!GenLeft
<1>5. /\ WalksOf(sched') = WalksOf(sched)
      /\ StatusesOf(sched') = StatusesOf(sched) \union {<<sched.nextGen, p>>}
  BY <1>2 DEF WalksOf, StatusesOf
<1> QED BY <1>1, <1>3, <1>4, <1>5 DEF Collects!ReloadRepo, WalksOf, StatusesOf

LEMMA SpawnRefines ==
    ASSUME Fit(sched), Spawn
    PROVE  Fit(sched') /\ UNCHANGED Collects!vars
<1>1. CanSpawn(sched) /\ sched' = SpawnNext(sched) /\ row' = row
  BY DEF Spawn
<1>2. /\ Fit(sched') /\ Live(sched') = Live(sched)
      /\ sched'.nextGen = sched.nextGen /\ sched'.col = sched.col
      /\ sched'.latched = sched.latched /\ sched'.pathGen = sched.pathGen
  BY <1>1, SpawnFit, Zenon
<1> QED BY <1>1, <1>2 DEF Collects!vars, Collects!collect

LEMMA StatusEndRefines ==
    ASSUME Fit(sched), NEW j \in StatusJobs,
           StatusPanics(j) \/ \E there \in BOOLEAN : StatusLands(j, there)
    PROVE  /\ Fit(sched')
           /\ Collects!StatusLands(j.gen, j.path) \/ Collects!StatusPanics(j.gen, j.path)
           /\ <<j.gen, j.path>> \in StatusesOf(sched)
<1>1. j \in InFlight(sched) /\ j.kind = "status"
  BY DEF StatusJobs
<1>2. PICK s1 : /\ s1 = NoteJobFinished(sched, j)
                /\ Fit(s1) /\ SameCollect(sched, s1)
                /\ WalksOf(s1) = WalksOf(sched)
                /\ <<j.gen, j.path>> \in StatusesOf(sched)
                /\ StatusesOf(s1) = StatusesOf(sched) \ {<<j.gen, j.path>>}
                /\ j.path \in Paths
  BY <1>1, StatusEnded, Zenon
<1>3. PICK g : g = j.gen
  OBVIOUS
<1>6. PICK p \in Paths : p = j.path
  BY <1>2
<1>4. AcceptRepoResult(s1, j.gen, j.path) <=> Collects!Accepted(g, p)
  BY <1>2, <1>3, <1>6 DEF SameCollect, AcceptRepoResult, Collects!Accepted
<1>5. /\ sched' = IF AcceptRepoResult(s1, j.gen, j.path) THEN NoteRepoDone(s1, j.path) ELSE s1
      /\ \/ row' = row
         \/ AcceptRepoResult(s1, j.gen, j.path) /\ row' = [row EXCEPT ![j.path] = j.gen]
  BY <1>2 DEF StatusPanics, StatusLands
<1>7. CASE AcceptRepoResult(s1, j.gen, j.path)
  <2>1. /\ Collects!PathDone(p) /\ sched'.pathGen = sched.pathGen
        /\ StatusesOf(sched') = StatusesOf(s1) /\ Fit(sched')
    <3>1. sched' = NoteRepoDone(s1, p)
      BY <1>5, <1>6, <1>7, Zenon
    <3> QED BY <1>2, <3>1, PathDoneRefines
  <2>2. Collects!StatusLands(g, p) \/ Collects!StatusPanics(g, p)
    BY <1>2, <1>3, <1>6, <1>4, <1>5, <1>7, <2>1
    DEF Collects!StatusLands, Collects!StatusPanics, StatusesOf
  <2> QED BY <1>2, <1>3, <1>6, <2>1, <2>2 DEF Collects!StatusLands, Collects!StatusPanics
<1>8. CASE ~AcceptRepoResult(s1, j.gen, j.path)
  <2>1. sched' = s1 /\ row' = row
    BY <1>5, <1>8
  <2>2. /\ sched'.nextGen = sched.nextGen /\ sched'.col = sched.col
        /\ sched'.latched = sched.latched /\ sched'.pathGen = sched.pathGen
        /\ WalksOf(sched') = WalksOf(sched)
        /\ StatusesOf(sched') = StatusesOf(sched) \ {<<g, p>>}
    BY <1>2, <1>3, <1>6, <2>1 DEF SameCollect
  <2>3. Collects!StatusPanics(g, p)
    BY <1>2, <1>3, <1>6, <1>4, <1>8, <2>1, <2>2
    DEF Collects!StatusPanics, Collects!collect, StatusesOf, WalksOf
  <2> QED BY <1>2, <1>3, <1>6, <2>1, <2>3 DEF Collects!StatusPanics
<1> QED BY <1>7, <1>8

LEMMA WalkLandsRefines ==
    ASSUME Fit(sched), NEW g, NEW found \in Walks, WalkLands(g, found)
    PROVE  /\ Fit(sched') /\ Collects!WalkLands(g, ToSet(found))
           /\ g \in WalksOf(sched) /\ ToSet(found) \in SUBSET Paths
<1>1. Discover(g) \in InFlight(sched) /\ row' = row
  BY DEF WalkLands
<1>2. PICK s1 : /\ s1 = NoteJobFinished(sched, Discover(g))
                /\ Fit(s1) /\ SameCollect(sched, s1)
                /\ g \in WalksOf(sched) /\ WalksOf(s1) = WalksOf(sched) \ {g}
                /\ StatusesOf(s1) = StatusesOf(sched)
                /\ \A k \in Live(s1) : k.gen # g
                /\ g \in Nat /\ g < sched.nextGen
  BY <1>1, WalkEnded, Zenon
<1>3. sched' = OnDiscovered(s1, g, found)
  BY <1>2, Zenon DEF WalkLands
<1>4. found \in Seq(Paths) /\ ToSet(found) \in SUBSET Paths /\ Distinct(found)
  BY WalksAreSequences DEF Distinct
<1>5. /\ s1.nextGen = sched.nextGen /\ s1.col = sched.col /\ s1.latched = sched.latched
      /\ s1.pathGen = sched.pathGen
  BY <1>2 DEF SameCollect
<1>6. CASE sched.col.gen # g
  <2>1. sched' = s1
    BY <1>3, <1>5, <1>6, Zenon DEF OnDiscovered
  <2>2. /\ sched'.nextGen = sched.nextGen /\ sched'.col = sched.col
        /\ sched'.latched = sched.latched /\ sched'.pathGen = sched.pathGen
        /\ WalksOf(sched') = WalksOf(sched) \ {g} /\ StatusesOf(sched') = StatusesOf(sched)
    BY <1>2, <1>5, <2>1
  <2>3. Collects!WalkLands(g, ToSet(found))
    BY <1>1, <1>2, <1>6, <2>2 DEF Collects!WalkLands, WalksOf, StatusesOf
  <2> QED BY <1>2, <1>4, <2>1, <2>3
<1>7. CASE sched.col.gen = g
  <2>1. PICK queued : queued = {p \in ToSet(found) : sched.pathGen[p] <= g}
    OBVIOUS
  <2>2. s1.col.gen = g /\ g < s1.nextGen /\ queued = {p \in ToSet(found) : s1.pathGen[p] <= g}
    BY <1>2, <1>5, <1>7, <2>1
  <2>0. Fit(sched') /\ Awaits(s1, sched', g, queued)
    BY <1>2, <1>3, <1>4, <2>2, OnDiscoveredFit
  <2>3. /\ Fit(sched')
        /\ sched'.nextGen = s1.nextGen /\ sched'.latched = s1.latched
        /\ sched'.col.gen = s1.col.gen
        /\ sched'.col.discovered = TRUE /\ sched'.col.pending = queued
        /\ sched'.pathGen = [p \in Paths |-> IF p \in queued THEN g ELSE s1.pathGen[p]]
    BY <2>0 DEF Awaits
  <2>4. PICK S : /\ Live(sched') = Live(s1) \union S
                 /\ \A j \in S : j.kind = "status" /\ j.gen = g /\ j.path \in queued
                 /\ \A p \in queued : \E j \in S : j.path = p
    BY <2>0 DEF Awaits
  <2>5. /\ WalksOf(sched') = WalksOf(s1)
        /\ StatusesOf(sched') = StatusesOf(s1) \union {<<j.gen, j.path>> : j \in S}
    BY <2>4, StatusesJoined
  <2>6. {<<j.gen, j.path>> : j \in S} = {<<g, p>> : p \in queued}
    BY <2>4
  <2>7. /\ WalksOf(sched') = WalksOf(sched) \ {g}
        /\ StatusesOf(sched') = StatusesOf(sched) \union {<<g, p>> : p \in queued}
    BY <1>2, <2>5, <2>6
  <2>8. sched'.pathGen = [p \in Paths |-> IF p \in queued THEN g ELSE sched.pathGen[p]]
    BY <1>5, <2>3
  <2>9. Collects!WalkLands(g, ToSet(found))
    <3>1. /\ row' = row /\ g \in WalksOf(sched) /\ sched'.nextGen = sched.nextGen
          /\ sched'.col.gen = sched.col.gen /\ sched'.latched = sched.latched
      BY <1>1, <1>2, <1>5, <2>3
    <3>2. sched'.col.discovered = TRUE /\ sched'.col.pending = queued
      BY <2>3
    <3> HIDE <1>1, <1>2, <1>3, <1>4, <1>5, <1>6, <2>0, <2>2, <2>3, <2>4, <2>5, <2>6
    <3> QED BY <1>7, <2>1, <2>7, <2>8, <3>1, <3>2
            DEF Collects!WalkLands, WalksOf, StatusesOf
  <2> QED BY <1>2, <1>4, <2>3, <2>9
<1> QED BY <1>6, <1>7

LEMMA WalkPanicsRefines ==
    ASSUME Fit(sched), NEW g, WalkPanics(g)
    PROVE  Fit(sched') /\ Collects!WalkPanics(g) /\ g \in WalksOf(sched)
<1>1. Discover(g) \in InFlight(sched) /\ row' = row
  BY DEF WalkPanics
<1>2. PICK s1 : /\ s1 = NoteJobFinished(sched, Discover(g))
                /\ Fit(s1) /\ SameCollect(sched, s1)
                /\ g \in WalksOf(sched) /\ WalksOf(s1) = WalksOf(sched) \ {g}
                /\ StatusesOf(s1) = StatusesOf(sched)
  BY <1>1, WalkEnded, Zenon
<1>3. sched' = AbandonCollection(s1, g)
  BY <1>2, Zenon DEF WalkPanics
<1>4. /\ Fit(sched')
      /\ IF s1.col.gen = g /\ ~s1.col.discovered THEN Finishes(s1, sched') ELSE sched' = s1
  BY <1>2, <1>3, AbandonCollectionFit, Zenon
<1>5. /\ s1.nextGen = sched.nextGen /\ s1.col = sched.col /\ s1.latched = sched.latched
      /\ s1.pathGen = sched.pathGen
  BY <1>2 DEF SameCollect
<1>6. CASE s1.col.gen = g /\ ~s1.col.discovered
  <2>1. /\ Collects!Finish(WalksOf(s1)) /\ sched'.pathGen = sched.pathGen
        /\ StatusesOf(sched') = StatusesOf(s1)
    BY <1>2, <1>4, <1>6, FinishRefines
  <2>2. Collects!Finish(WalksOf(sched) \ {g})
    BY <1>2, <2>1 DEF Collects!Finish, Collects!Begin
  <2>3. sched.col.gen = g /\ ~sched.col.discovered
    BY <1>5, <1>6
  <2>4. StatusesOf(sched') = StatusesOf(sched)
    BY <1>2, <2>1
  <2>5. Collects!WalkPanics(g)
    BY <1>1, <1>2, <2>1, <2>2, <2>3, <2>4 DEF Collects!WalkPanics, WalksOf, StatusesOf
  <2> QED BY <1>2, <1>4, <2>5
<1>7. CASE ~(s1.col.gen = g /\ ~s1.col.discovered)
  <2>1. sched' = s1
    BY <1>4, <1>7
  <2>2. /\ sched'.nextGen = sched.nextGen /\ sched'.col = sched.col
        /\ sched'.latched = sched.latched /\ sched'.pathGen = sched.pathGen
        /\ WalksOf(sched') = WalksOf(sched) \ {g} /\ StatusesOf(sched') = StatusesOf(sched)
    BY <1>2, <1>5, <2>1
  <2>3. ~(sched.col.gen = g /\ ~sched.col.discovered)
    BY <1>5, <1>7
  <2>4. Collects!WalkPanics(g)
    BY <1>1, <1>2, <2>2, <2>3 DEF Collects!WalkPanics, WalksOf, StatusesOf
  <2> QED BY <1>2, <1>4, <2>4
<1> QED BY <1>6, <1>7

LEMMA InitFit == ASSUME Init PROVE Fit(sched) /\ Collects!Init
<1>1. sched = InitSched /\ row = [p \in Paths |-> 0]
  BY DEF Init
<1>2. /\ InitSched.user = <<>> /\ InitSched.status = <<>> /\ InitSched.inflight = EmptyBag
      /\ InitSched.nextGen = 1 /\ InitSched.latched = FALSE
      /\ InitSched.col.gen = 0 /\ InitSched.col.discovered = FALSE
      /\ InitSched.col.pending = {} /\ InitSched.pathGen = [p \in Paths |-> 0]
  BY DEF InitSched, NoCollection
<1>3. ToSet(<<>>) = {} /\ NoTwins(<<>>)
  BY DEF ToSet, NoTwins
<1>4. InFlight(InitSched) = {}
  BY <1>2 DEF InFlight, BagToSet, EmptyBag, SetToBag
<1>5. Live(InitSched) = {} /\ Queued(InitSched) = {}
  BY <1>2, <1>3, <1>4 DEF Live, Queued
<1>6. JobsApart(InitSched)
  BY <1>2, <1>3, <1>4, <1>5 DEF JobsApart
<1>7. GensKnown(InitSched)
  BY <1>5 DEF GensKnown
<1>8. Fit(sched)
  BY <1>1, <1>6, <1>7, InitSchedTyped DEF Fit
<1>9. Live(sched) = {}
  BY <1>1, <1>5
<1>10. Collects!Init
  BY <1>1, <1>2, <1>9 DEF Collects!Init
<1> QED BY <1>8, <1>10

LEMMA NextRefines ==
    ASSUME TypeInv, Fit(sched), [Next]_vars
    PROVE  Fit(sched') /\ [Collects!Next]_(Collects!vars)
<1>1. shown \in SUBSET Paths
  BY DEF TypeInv
<1>2. CASE \E focus \in shown \union {NoPath} : Tick(focus)
  <2>1. PICK focus \in Paths \union {NoPath} : Tick(focus)
    BY <1>1, <1>2
  <2> QED BY <2>1, TickRefines DEF Collects!Next
<1>3. CASE \E p \in shown : ReloadRepo(p)
  <2>1. PICK p \in Paths : ReloadRepo(p)
    BY <1>1, <1>3
  <2> QED BY <2>1, ReloadRepoRefines DEF Collects!Next
<1>4. CASE Spawn
  BY <1>4, SpawnRefines
<1>5. CASE \E g \in 1..MaxGen, found \in Walks : WalkLands(g, found)
  <2>1. PICK g \in 1..MaxGen, found \in Walks : WalkLands(g, found)
    BY <1>5
  <2>2. /\ Fit(sched') /\ Collects!WalkLands(g, ToSet(found))
        /\ g \in WalksOf(sched) /\ ToSet(found) \in SUBSET Paths
    BY <2>1, WalkLandsRefines
  <2> QED BY <2>2 DEF Collects!Next, WalksOf
<1>6. CASE \E g \in 1..MaxGen : WalkPanics(g)
  <2>1. PICK g \in 1..MaxGen : WalkPanics(g)
    BY <1>6
  <2>2. Fit(sched') /\ Collects!WalkPanics(g) /\ g \in WalksOf(sched)
    BY <2>1, WalkPanicsRefines
  <2> QED BY <2>2 DEF Collects!Next, WalksOf
<1>7. ASSUME NEW j \in StatusJobs,
             StatusPanics(j) \/ \E there \in BOOLEAN : StatusLands(j, there)
      PROVE  Fit(sched') /\ Collects!Next
  <2>0. PICK job : job = <<j.gen, j.path>>
    OBVIOUS
  <2>1. job = <<j.gen, j.path>> /\ job[1] = j.gen /\ job[2] = j.path
    BY <2>0
  <2>2. /\ Fit(sched')
        /\ Collects!StatusLands(j.gen, j.path) \/ Collects!StatusPanics(j.gen, j.path)
        /\ job \in StatusesOf(sched)
    BY <1>7, <2>1, StatusEndRefines
  <2>3. Collects!StatusLands(job[1], job[2]) \/ Collects!StatusPanics(job[1], job[2])
    BY <2>1, <2>2 DEF Collects!StatusLands, Collects!StatusPanics
  <2> QED BY <2>2, <2>3 DEF Collects!Next, StatusesOf
<1>8. CASE UNCHANGED vars
  <2>1. sched' = sched /\ row' = row
    BY <1>8 DEF vars
  <2> QED BY <2>1 DEF Collects!vars, Collects!collect
<1> QED BY <1>2, <1>3, <1>4, <1>5, <1>6, <1>7, <1>8 DEF Next

\* Wherever a job waits, and in whatever order spawn_next takes them, a step
\* of the scheduler is one of the collect specification or leaves it alone:
\* so what StatusCollectProofs shows of collects holds of the queues too.
\* (scheduler.rs, effect/repos.rs)
THEOREM SchedulerCollects == Spec => ImplementsStatusCollect
<1>1. Init => Fit(sched) /\ Collects!Init
  BY InitFit
<1>2. TypeInv /\ Fit(sched) /\ [Next]_vars => Fit(sched)' /\ [Collects!Next]_(Collects!vars)
  BY NextRefines
<1>3. Spec => []TypeInv
  BY TypeInvHolds
<1> QED BY <1>1, <1>2, <1>3, PTL DEF Spec, ImplementsStatusCollect, Collects!Spec
=============================================================================
