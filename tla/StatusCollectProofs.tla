------------------------- MODULE StatusCollectProofs -------------------------
(***************************************************************************)
(* The two ways in which statuses are collected: by the interface in the   *)
(* background, and by the command line on a parallel map.                  *)
(*                                                                         *)
(* StatusCollect, for every set of checkouts and every bound.  What is     *)
(* wanted is that a row never goes back (NewestStatusWins) and that a      *)
(* collect waits for live jobs only.  Neither is inductive: the first      *)
(* needs that an accepted generation is the checkout's newest and that a   *)
(* row is never ahead of it (GenerationsOrdered), the second that nothing  *)
(* is pending before the walk (PendingAfterWalk) and that the walk         *)
(* outstanding is the collect's own (OneWalk).  IInv is their conjunction. *)
(*                                                                         *)
(* ParallelMap, for every number of items and threads.  ParIInv says where *)
(* each item is.  An action moves one item from one place to the next, so  *)
(* the proof follows the actions of a thread and the two of the caller.    *)
(***************************************************************************)
EXTENDS StatusCollect, ParallelMap, TLAPS

-----------------------------------------------------------------------------
(* The collect of the interface *)

\* The generations in use at the start are in order, and nothing is waited for.
LEMMA InitEstablishesIInv == Init => IInv
<1> SUFFICES ASSUME Init PROVE IInv
  OBVIOUS
<1>1. TypeOK
  <2>1. nextGen \in Nat \ {0} /\ gen \in Nat /\ pending \in SUBSET Paths /\ walks \in SUBSET Nat
    BY DEF Init
  <2>2. pathGen \in [Paths -> Nat] /\ row \in [Paths -> Nat]
    BY DEF Init
  <2>3. discovered \in BOOLEAN /\ latched \in BOOLEAN /\ jobs \in SUBSET (Nat \X Paths)
    BY DEF Init
  <2> QED BY <2>1, <2>2, <2>3 DEF TypeOK
<1>2. GenerationsOrdered
  BY DEF Init, GenerationsOrdered
<1>3. PendingAfterWalk /\ OneWalk /\ 0 \notin walks
  BY DEF Init, PendingAfterWalk, OneWalk
<1>4. CollectWaitsForLiveJobs
  BY DEF Init, CollectWaitsForLiveJobs
<1> QED BY <1>1, <1>2, <1>3, <1>4 DEF IInv

\* A collect begins only when no walk is outstanding; its own is then the one.
LEMMA BeginKeepsIInv ==
    ASSUME IInv, Begin({}),
           pathGen' = pathGen,
           row' \in [Paths -> Nat], \A p \in Paths : row'[p] <= pathGen[p],
           jobs' \subseteq jobs
    PROVE  IInv'
<1>1. TypeOK'
  <2>1. nextGen' \in Nat \ {0} /\ gen' \in Nat /\ walks' \in SUBSET Nat
    BY DEF IInv, TypeOK, Begin
  <2>2. discovered' \in BOOLEAN /\ latched' \in BOOLEAN /\ pending' \in SUBSET Paths
    BY DEF Begin
  <2> QED BY <2>1, <2>2 DEF IInv, TypeOK
<1>2. GenerationsOrdered'
  BY DEF IInv, TypeOK, GenerationsOrdered, Begin
<1>3. PendingAfterWalk' /\ OneWalk' /\ (0 \notin walks)' /\ CollectWaitsForLiveJobs'
  BY DEF IInv, TypeOK, PendingAfterWalk, OneWalk, CollectWaitsForLiveJobs, Begin
<1> QED BY <1>1, <1>2, <1>3 DEF IInv

\* Closing a collect, with or without a rerun, keeps the invariant.
LEMMA FinishKeepsIInv ==
    ASSUME IInv, Finish({}),
           pathGen' = pathGen,
           row' \in [Paths -> Nat], \A p \in Paths : row'[p] <= pathGen[p],
           jobs' \subseteq jobs
    PROVE  IInv'
<1>1. CASE latched
  BY <1>1, BeginKeepsIInv DEF Finish
<1>2. CASE ~latched
  <2>1. /\ gen' = 0 /\ discovered' = FALSE /\ pending' = {} /\ walks' = {}
        /\ UNCHANGED <<nextGen, latched>>
    BY <1>2 DEF Finish
  <2>2. TypeOK'
    BY <2>1 DEF IInv, TypeOK
  <2>3. GenerationsOrdered'
    BY <2>1 DEF IInv, TypeOK, GenerationsOrdered
  <2>4. PendingAfterWalk' /\ OneWalk' /\ (0 \notin walks)' /\ CollectWaitsForLiveJobs'
    BY <2>1 DEF PendingAfterWalk, OneWalk, CollectWaitsForLiveJobs
  <2> QED BY <2>2, <2>3, <2>4 DEF IInv
<1> QED BY <1>1, <1>2

\* A result is accepted exactly when it is of its checkout's newest generation:
\* the branches of accept_repo_result for an unknown checkout are never taken.
LEMMA AcceptedIsNewest ==
    ASSUME IInv, NEW j \in jobs
    PROVE  Accepted(j[1], j[2]) <=> pathGen[j[2]] = j[1]
BY DEF IInv, TypeOK, GenerationsOrdered, Accepted

\* The job that ends is the one its checkout was awaited with, so the checkout
\* leaves the collect with it; no other checkout loses its job.
LEMMA PathDoneKeepsIInv ==
    ASSUME IInv, NEW j \in jobs,
           jobs' = jobs \ {j}, pathGen' = pathGen,
           row' \in [Paths -> Nat], \A p \in Paths : row'[p] <= pathGen[p],
           PathDone(j[2])
    PROVE  IInv'
<1>1. CASE gen # 0 /\ discovered /\ pending \ {j[2]} = {}
  <2>1. walks = {}
    BY <1>1 DEF IInv, OneWalk
  <2> QED
    BY <1>1, <2>1, FinishKeepsIInv DEF PathDone
<1>2. CASE ~(gen # 0 /\ discovered /\ pending \ {j[2]} = {})
  <2>1. UNCHANGED <<nextGen, gen, discovered, latched, walks>> /\ pending' = pending \ {j[2]}
    BY <1>2 DEF PathDone
  <2>2. \A p \in pending' : <<pathGen[p], p>> \in jobs \ {j}
    BY <2>1 DEF IInv, TypeOK, CollectWaitsForLiveJobs
  <2> QED
    BY <2>1, <2>2 DEF IInv, TypeOK, GenerationsOrdered, PendingAfterWalk, OneWalk,
                      CollectWaitsForLiveJobs
<1> QED BY <1>1, <1>2

\* A result that is thrown away was not the one its checkout is awaited with.
LEMMA RejectedKeepsIInv ==
    ASSUME IInv, NEW j \in jobs, pathGen[j[2]] # j[1],
           jobs' = jobs \ {j}, UNCHANGED <<collect, pathGen, row>>
    PROVE  IInv'
<1>1. \A p \in pending : <<pathGen[p], p>> \in jobs \ {j}
  BY DEF IInv, TypeOK, CollectWaitsForLiveJobs
<1> QED
  BY <1>1 DEF IInv, TypeOK, GenerationsOrdered, PendingAfterWalk, OneWalk,
              CollectWaitsForLiveJobs, collect

\* The walk hands each checkout it queues a job of the collect's generation,
\* which no newer request has overtaken.
LEMMA WalkLandsKeepsIInv ==
    ASSUME IInv, NEW g \in walks, NEW found \in SUBSET Paths, WalkLands(g, found)
    PROVE  IInv'
<1> DEFINE queued == {p \in found : pathGen[p] <= g}
<1>1. gen = g /\ ~discovered /\ walks = {g} /\ g \in Nat /\ 0 < g /\ g < nextGen
  <2>1. gen = g /\ ~discovered /\ g \in Nat /\ g # 0
    BY DEF IInv, TypeOK, OneWalk
  <2>2. walks = {g}
    BY <2>1 DEF IInv, OneWalk
  <2> QED BY <2>1, <2>2 DEF IInv, TypeOK, GenerationsOrdered
<1>2. /\ walks' = {} /\ discovered' = TRUE /\ pending' = queued
      /\ pathGen' = [p \in Paths |-> IF p \in queued THEN g ELSE pathGen[p]]
      /\ jobs' = jobs \union {<<g, p>> : p \in queued}
      /\ UNCHANGED <<nextGen, gen, latched, row>>
  BY <1>1 DEF WalkLands
<1> HIDE DEF queued
<1>3. queued \subseteq Paths /\ \A p \in queued : pathGen[p] <= g
  BY DEF queued
<1>4. TypeOK'
  BY <1>1, <1>2, <1>3 DEF IInv, TypeOK
<1>5. GenerationsOrdered'
  <2>1. \A p \in Paths : pathGen'[p] \in Nat /\ pathGen[p] <= pathGen'[p] /\ pathGen'[p] < nextGen
    BY <1>1, <1>2, <1>3 DEF IInv, TypeOK, GenerationsOrdered
  <2>2. \A p \in Paths : row'[p] <= pathGen'[p]
    BY <1>2, <2>1 DEF IInv, TypeOK, GenerationsOrdered
  <2>3. ASSUME NEW j \in jobs' PROVE 0 < j[1] /\ j[1] <= pathGen'[j[2]]
    <3>1. CASE j \in jobs
      BY <2>1, <3>1 DEF IInv, TypeOK, GenerationsOrdered
    <3>2. CASE j \in {<<g, p>> : p \in queued}
      BY <1>1, <1>2, <1>3, <3>2
    <3> QED BY <1>2, <2>3, <3>1, <3>2
  <2> QED BY <1>2, <2>1, <2>2, <2>3, <1>1 DEF GenerationsOrdered
<1>6. PendingAfterWalk' /\ OneWalk' /\ (0 \notin walks)'
  BY <1>1, <1>2 DEF PendingAfterWalk, OneWalk
<1>7. CollectWaitsForLiveJobs'
  BY <1>2, <1>3 DEF CollectWaitsForLiveJobs
<1> QED BY <1>4, <1>5, <1>6, <1>7 DEF IInv

\* Every step keeps the invariant.
LEMMA StepKeepsIInv == IInv /\ [Next]_vars => IInv'
<1> SUFFICES ASSUME IInv, [Next]_vars PROVE IInv'
  OBVIOUS
<1>1. ASSUME Tick PROVE IInv'
  <2>1. CASE gen = 0
    <3>1. walks = {}
      BY <2>1 DEF IInv, TypeOK, OneWalk
    <3> QED
      BY <1>1, <2>1, <3>1, BeginKeepsIInv DEF Tick, IInv, TypeOK, GenerationsOrdered
  <2>2. CASE gen # 0
    BY <1>1, <2>2 DEF Tick, IInv, TypeOK, GenerationsOrdered, PendingAfterWalk, OneWalk,
                      CollectWaitsForLiveJobs
  <2> QED BY <2>1, <2>2
<1>2. ASSUME NEW p \in Paths, ReloadRepo(p) PROVE IInv'
  <2>1. /\ nextGen' = nextGen + 1
        /\ pathGen' = [pathGen EXCEPT ![p] = nextGen]
        /\ jobs' = jobs \union {<<nextGen, p>>}
        /\ UNCHANGED <<gen, discovered, pending, latched, walks, row>>
    BY <1>2 DEF ReloadRepo
  <2>2. \A q \in Paths : pathGen[q] <= pathGen'[q] /\ pathGen'[q] < nextGen'
    BY <2>1 DEF IInv, TypeOK, GenerationsOrdered
  <2>3. TypeOK'
    BY <2>1 DEF IInv, TypeOK
  <2>4. GenerationsOrdered'
    <3>1. \A j \in jobs : 0 < j[1] /\ j[1] <= pathGen'[j[2]]
      BY <2>2, <2>3 DEF IInv, TypeOK, GenerationsOrdered
    <3>2. 0 < nextGen /\ nextGen <= pathGen'[p]
      BY <2>1 DEF IInv, TypeOK
    <3>3. \A q \in Paths : row'[q] <= pathGen'[q]
      BY <2>1, <2>2, <2>3 DEF IInv, TypeOK, GenerationsOrdered
    <3> QED BY <2>1, <2>2, <3>1, <3>2, <3>3 DEF IInv, TypeOK, GenerationsOrdered
  <2>5. CollectWaitsForLiveJobs'
    BY <2>1 DEF IInv, TypeOK, CollectWaitsForLiveJobs
  <2> QED BY <2>1, <2>3, <2>4, <2>5 DEF IInv, PendingAfterWalk, OneWalk
<1>3. ASSUME NEW g \in walks, NEW found \in SUBSET Paths, WalkLands(g, found) PROVE IInv'
  BY <1>3, WalkLandsKeepsIInv
<1>4. ASSUME NEW g \in walks, WalkPanics(g) PROVE IInv'
  <2>1. gen = g /\ ~discovered /\ walks \ {g} = {}
    BY DEF IInv, OneWalk
  <2>2. Finish({}) /\ UNCHANGED <<pathGen, jobs, row>>
    BY <1>4, <2>1 DEF WalkPanics
  <2> QED BY <2>2, FinishKeepsIInv DEF IInv, TypeOK, GenerationsOrdered
<1>5. ASSUME NEW j \in jobs, StatusLands(j[1], j[2]) PROVE IInv'
  <2>1. j = <<j[1], j[2]>> /\ j[2] \in Paths
    BY DEF IInv, TypeOK
  <2>2. CASE pathGen[j[2]] = j[1]
    <3>1. PathDone(j[2]) /\ row' = [row EXCEPT ![j[2]] = j[1]] /\ jobs' = jobs \ {j} /\ pathGen' = pathGen
      BY <1>5, <2>1, <2>2, AcceptedIsNewest DEF StatusLands
    <3>2. row' \in [Paths -> Nat] /\ \A p \in Paths : row'[p] <= pathGen[p]
      BY <2>1, <2>2, <3>1 DEF IInv, TypeOK, GenerationsOrdered
    <3> QED BY <3>1, <3>2, PathDoneKeepsIInv
  <2>3. CASE pathGen[j[2]] # j[1]
    BY <1>5, <2>1, <2>3, AcceptedIsNewest, RejectedKeepsIInv DEF StatusLands
  <2> QED BY <2>2, <2>3
<1>6. ASSUME NEW j \in jobs, StatusPanics(j[1], j[2]) PROVE IInv'
  <2>1. j = <<j[1], j[2]>>
    BY DEF IInv, TypeOK
  <2>2. CASE pathGen[j[2]] = j[1]
    BY <1>6, <2>1, <2>2, AcceptedIsNewest, PathDoneKeepsIInv
       DEF StatusPanics, IInv, TypeOK, GenerationsOrdered
  <2>3. CASE pathGen[j[2]] # j[1]
    BY <1>6, <2>1, <2>3, AcceptedIsNewest, RejectedKeepsIInv DEF StatusPanics
  <2> QED BY <2>2, <2>3
<1>7. ASSUME UNCHANGED vars PROVE IInv'
  BY <1>7 DEF vars, collect, IInv, TypeOK, GenerationsOrdered, PendingAfterWalk, OneWalk,
              CollectWaitsForLiveJobs
<1> QED BY <1>1, <1>2, <1>3, <1>4, <1>5, <1>6, <1>7 DEF Next

\* The inductive invariant holds of the specification.
THEOREM InvariantHolds == Spec => []IInv
BY InitEstablishesIInv, StepKeepsIInv, PTL DEF Spec

\* A collect waits for live jobs only, and one walk is outstanding at most,
\* however many checkouts, reloads, ticks and panics there are.
THEOREM CollectSafety == Spec => [](TypeOK /\ CollectWaitsForLiveJobs /\ OneWalk)
<1>1. IInv => TypeOK /\ CollectWaitsForLiveJobs /\ OneWalk
  BY DEF IInv
<1> QED BY <1>1, InvariantHolds, PTL

\* A step applies a status only in the generation its checkout was last asked
\* for, which no row is ahead of.
LEMMA StepKeepsRows == IInv /\ [Next]_vars => [\A p \in Paths : row'[p] >= row[p]]_vars
<1> SUFFICES ASSUME IInv, Next PROVE \A p \in Paths : row'[p] >= row[p]
  OBVIOUS
<1>0. row \in [Paths -> Nat]
  BY DEF IInv, TypeOK
<1>1. ASSUME UNCHANGED row PROVE \A p \in Paths : row'[p] >= row[p]
  BY <1>0, <1>1
<1>2. ASSUME NEW j \in jobs, StatusLands(j[1], j[2]) PROVE \A p \in Paths : row'[p] >= row[p]
  <2>1. CASE pathGen[j[2]] = j[1]
    BY <1>0, <1>2, <2>1, AcceptedIsNewest DEF StatusLands, IInv, TypeOK, GenerationsOrdered
  <2>2. CASE pathGen[j[2]] # j[1]
    BY <1>1, <1>2, <2>2, AcceptedIsNewest DEF StatusLands
  <2> QED BY <2>1, <2>2
<1> QED BY <1>1, <1>2 DEF Next, Tick, ReloadRepo, WalkLands, WalkPanics, StatusPanics

\* A row never goes back to an older status: `r`, ticks and worker results may
\* overtake each other at will.
THEOREM RowsNeverGoBack == Spec => NewestStatusWins
BY InvariantHolds, StepKeepsRows, PTL DEF Spec, NewestStatusWins

-----------------------------------------------------------------------------
(* The parallel map of the command line *)

LEMMA ParInitIInv == ParInit => ParIInv
  <1> SUFFICES ASSUME ParInit PROVE ParIInv
    OBVIOUS
  <1> USE ParallelMapAssumption DEF ParInit, Items, Idle, Exited
  <1>1. ParTypeOK
    BY DEF ParTypeOK
  <1>2. OnePlace
    BY DEF OnePlace
  <1>3. NothingForgotten
    BY DEF NothingForgotten
  <1> QED
    BY <1>1, <1>2, <1>3 DEF ParIInv

LEMMA TakeIInv ==
  ASSUME ParIInv, NEW t \in Threads, TakeItem(t)
  PROVE  ParIInv'
  <1> USE ParallelMapAssumption DEF ParIInv, TakeItem, Items, Idle, Exited
  <1>1. ParTypeOK'
    BY DEF ParTypeOK
  <1>2. OnePlace'
    BY DEF ParTypeOK, OnePlace
  <1>3. NothingForgotten'
    BY DEF ParTypeOK, OnePlace, NothingForgotten
  <1> QED
    BY <1>1, <1>2, <1>3 DEF ParTypeOK, NothingForgotten

LEMMA ExitIInv ==
  ASSUME ParIInv, NEW t \in Threads, ExitThread(t)
  PROVE  ParIInv'
  <1> USE ParallelMapAssumption DEF ParIInv, ExitThread, Items, Idle, Exited
  <1>1. ParTypeOK'
    BY DEF ParTypeOK
  <1>2. OnePlace'
    BY DEF ParTypeOK, OnePlace
  <1>3. NothingForgotten'
    BY DEF ParTypeOK, OnePlace, NothingForgotten
  <1> QED
    BY <1>1, <1>2, <1>3

LEMMA SendIInv ==
  ASSUME ParIInv, NEW t \in Threads, SendResult(t)
  PROVE  ParIInv'
  <1> USE ParallelMapAssumption DEF Items, Idle, Exited
  <1> DEFINE i == doing[t]
  <1>1. /\ i \in 1..Total /\ i < head /\ i \notin lost /\ results[i] = 0
        /\ \A u \in Threads : doing[u] = i => u = t
    BY DEF ParIInv, ParTypeOK, OnePlace, SendResult
  <1>2. /\ channel' = channel \union {<<i, i>>}
        /\ doing' = [doing EXCEPT ![t] = 0]
        /\ UNCHANGED <<head, results, lost, outcome>>
    BY DEF SendResult
  <1>3. ParTypeOK'
    BY <1>1, <1>2 DEF ParIInv, ParTypeOK
  <1>4. ASSUME NEW u \in Threads, doing'[u] \in Items
        PROVE  u # t /\ doing'[u] = doing[u] /\ doing[u] # i
    BY <1>1, <1>2, <1>4 DEF ParIInv, ParTypeOK
  <1>5. ASSUME NEW u \in Threads, doing'[u] \in Items
        PROVE  <<doing'[u], doing'[u]>> \notin channel'
    BY <1>2, <1>4, <1>5 DEF ParIInv, OnePlace
  <1>6. \A m \in channel' : m[1] = m[2] /\ m[1] < head' /\ results'[m[1]] = 0 /\ m[1] \notin lost'
    BY <1>1, <1>2 DEF ParIInv, OnePlace
  <1>7. OnePlace'
    BY <1>2, <1>4, <1>5, <1>6 DEF ParIInv, ParTypeOK, OnePlace
  <1>8. ASSUME NEW k \in Items, k < head'
        PROVE  \/ \E u \in Threads : doing'[u] = k
               \/ <<k, k>> \in channel' \/ results'[k] # 0 \/ k \in lost'
    <2>1. CASE k = i
      BY <1>2, <2>1
    <2>2. CASE k # i
      BY <1>2, <1>8, <2>2 DEF ParIInv, ParTypeOK, NothingForgotten
    <2> QED
      BY <2>1, <2>2
  <1>9. NothingForgotten'
    BY <1>1, <1>2, <1>8 DEF ParIInv, ParTypeOK, NothingForgotten
  <1> QED
    BY <1>2, <1>3, <1>7, <1>9 DEF ParIInv

LEMMA PanicIInv ==
  ASSUME ParIInv, NEW t \in Threads, PanicThread(t)
  PROVE  ParIInv'
  <1> USE ParallelMapAssumption DEF Items, Idle, Exited
  <1> DEFINE i == doing[t]
  <1>1. /\ i \in 1..Total /\ i < head /\ <<i, i>> \notin channel /\ results[i] = 0
        /\ \A u \in Threads : doing[u] = i => u = t
    BY DEF ParIInv, ParTypeOK, OnePlace, PanicThread
  <1>2. /\ lost' = lost \union {i}
        /\ doing' = [doing EXCEPT ![t] = Total + 1]
        /\ UNCHANGED <<head, channel, results, outcome>>
    BY DEF PanicThread
  <1>3. ParTypeOK'
    <2>1. lost' \subseteq 1..Total
      BY <1>1, <1>2 DEF ParIInv, ParTypeOK
    <2>2. doing' \in [Threads -> 0..(Total + 1)]
      BY <1>2 DEF ParIInv, ParTypeOK
    <2> QED
      BY <1>2, <2>1, <2>2 DEF ParIInv, ParTypeOK
  <1>4. ASSUME NEW u \in Threads, doing'[u] \in Items
        PROVE  u # t /\ doing'[u] = doing[u] /\ doing[u] # i
    BY <1>1, <1>2, <1>4 DEF ParIInv, ParTypeOK
  <1>5. \A m \in channel : m[1] # i
    BY <1>1 DEF ParIInv, OnePlace, ParTypeOK
  <1>6. OnePlace'
    BY <1>1, <1>2, <1>4, <1>5 DEF ParIInv, ParTypeOK, OnePlace
  <1>7. ASSUME NEW k \in Items, k < head'
        PROVE  \/ \E u \in Threads : doing'[u] = k
               \/ <<k, k>> \in channel' \/ results'[k] # 0 \/ k \in lost'
    <2>1. CASE k = i
      BY <1>2, <2>1
    <2>2. CASE k # i
      BY <1>2, <1>7, <2>2 DEF ParIInv, ParTypeOK, NothingForgotten
    <2> QED
      BY <2>1, <2>2
  <1>8. lost' # {} /\ outcome = "waiting"
    <2>1. i \in lost'
      BY <1>2
    <2>2. i # Total + 1
      BY <1>1
    <2> QED
      BY <2>1, <2>2 DEF ParIInv, NothingForgotten
  <1>9. NothingForgotten'
    BY <1>2, <1>7, <1>8 DEF NothingForgotten
  <1> QED
    BY <1>2, <1>3, <1>6, <1>8, <1>9 DEF ParIInv

LEMMA ReceiveIInv ==
  ASSUME ParIInv, Receive
  PROVE  ParIInv'
  <1> USE ParallelMapAssumption DEF ParIInv, Items, Idle, Exited
  <1>1. ParTypeOK'
    BY DEF ParTypeOK, Receive
  <1>2. OnePlace'
    <2>1. PICK m \in channel : channel' = channel \ {m} /\ results' = [results EXCEPT ![m[1]] = m[2]]
      BY DEF Receive
    <2>2. PICK i \in Items : m = <<i, i>> /\ i < head /\ results[i] = 0 /\ i \notin lost
      BY DEF ParTypeOK, OnePlace
    <2>3. UNCHANGED <<head, doing, lost>>
      BY DEF Receive
    <2>4. results'[i] = i /\ \A k \in Items : k # i => results'[k] = results[k]
      BY <2>1, <2>2 DEF ParTypeOK
    <2>5. ASSUME NEW t \in Threads, doing[t] \in Items
          PROVE  /\ doing[t] < head /\ doing[t] \notin lost /\ results'[doing[t]] = 0
                 /\ <<doing[t], doing[t]>> \notin channel'
                 /\ \A u \in Threads : doing[u] = doing[t] => u = t
      <3>1. doing[t] # i
        BY <2>2, <2>5 DEF OnePlace
      <3> QED
        BY <2>1, <2>4, <2>5, <3>1 DEF OnePlace
    <2>6. ASSUME NEW k \in channel'
          PROVE  k[1] = k[2] /\ k[1] < head /\ results'[k[1]] = 0 /\ k[1] \notin lost
      <3>1. k \in channel /\ k # m
        BY <2>1, <2>6
      <3>2. k[1] \in Items /\ k = <<k[1], k[1]>> /\ k[1] # i
        BY <2>2, <3>1 DEF ParTypeOK, OnePlace
      <3> QED
        BY <2>4, <3>1, <3>2 DEF OnePlace
    <2>7. \A k \in Items : results'[k] # 0 => results'[k] = k /\ k < head /\ k \notin lost
      BY <2>2, <2>4 DEF OnePlace
    <2> QED
      BY <2>3, <2>5, <2>6, <2>7 DEF OnePlace
  <1>3. NothingForgotten'
    BY DEF ParTypeOK, OnePlace, NothingForgotten, Receive
  <1> QED
    BY <1>1, <1>2, <1>3 DEF NothingForgotten, Receive

LEMMA FinishIInv ==
  ASSUME ParIInv, FinishMap
  PROVE  ParIInv'
  <1> USE ParallelMapAssumption DEF ParIInv, FinishMap, Items, Idle, Exited
  <1>1. ParTypeOK'
    BY DEF ParTypeOK
  <1>2. OnePlace'
    BY DEF ParTypeOK, OnePlace
  <1>3. NothingForgotten'
    BY DEF ParTypeOK, NothingForgotten
  \* A thread that works would still hold a sender, and without a panic the
  \* threads ended at the end of the queue.
  <1>4. ASSUME NEW i \in 1..Total, results[i] = 0, lost = {}
        PROVE  FALSE
    <2>1. Threads # {} /\ head = Total + 1
      BY <1>4 DEF ParTypeOK, NothingForgotten
    <2> QED
      BY <1>4, <2>1 DEF ParTypeOK, NothingForgotten
  <1> QED
    BY <1>1, <1>2, <1>3, <1>4 DEF ParTypeOK

LEMMA ParNextIInv == ParIInv /\ [ParNext]_parVars => ParIInv'
  <1> SUFFICES ASSUME ParIInv, [ParNext]_parVars PROVE ParIInv'
    OBVIOUS
  <1>1. ASSUME NEW t \in Threads, ThreadStep(t) PROVE ParIInv'
    BY <1>1, TakeIInv, ExitIInv, SendIInv, PanicIInv DEF ThreadStep
  <1>2. CASE Receive
    BY <1>2, ReceiveIInv
  <1>3. CASE FinishMap
    BY <1>3, FinishIInv
  <1>4. CASE UNCHANGED parVars
    BY <1>4 DEF parVars, ParIInv, ParTypeOK, OnePlace, NothingForgotten
  <1> QED
    BY <1>1, <1>2, <1>3, <1>4 DEF ParNext

\* Where each item is: the invariant holds in every state.
THEOREM EachItemHasAPlace == ParSpec => []ParIInv
  <1>1. ParSafe => []ParIInv
    BY ParInitIInv, ParNextIInv, PTL DEF ParSafe
  <1> QED
    BY <1>1, PTL DEF ParSpec

LEMMA PlaceGivesOrder == ParIInv => MapKeepsOrder
  BY DEF ParIInv, ParTypeOK, OnePlace, MapKeepsOrder, Items

\* For any number of items and threads: a map that returns has each result
\* in the slot of its item, fails only if a closure panicked, and runs the
\* closure once per item (parallel.rs, map_with_concurrency).
THEOREM MapOrder == ParSpec => []MapKeepsOrder
  BY EachItemHasAPlace, PlaceGivesOrder, PTL
=============================================================================
