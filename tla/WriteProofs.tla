------------------------------ MODULE WriteProofs ------------------------------
(***************************************************************************)
(* What writes: the queue of remote jobs, and the save of the store files. *)
(* The two share no state.                                                 *)
(*                                                                         *)
(* Two workers never run in one repository, for any number of checkouts,   *)
(* worktrees and repositories, and any cap.                                *)
(*                                                                         *)
(* OneWorkerPerGitdir says nothing of who holds a gitdir and so is not     *)
(* inductive: what makes it hold is that every worker's gitdir is marked   *)
(* with that very worker (OccupyMatchesWork), and that a job starts on a   *)
(* free gitdir only.  IInv adds to it that one switch runs at a time.  The *)
(* order of the queue (QueueInOrder) is inductive together with IInv.      *)
(*                                                                         *)
(* Every save through the lock, the temporary file and the rename is one   *)
(* step of AtomicStore or none, for every set of processes and workspaces. *)
(***************************************************************************)
EXTENDS RemoteQueue, Persist, FiniteSetTheorems, TLAPS

-----------------------------------------------------------------------------
(* The save of store files. *)

\* Merging a bucket into a store gives a store.
LEMMA MergedType ==
    ASSUME NEW f \in Contents({"missing", "bad", "json"}), NEW k \in Keys, NEW b \in Buckets
    PROVE  Store!Merged(f, k, b) \in Contents({"json"})
  BY DEF Contents, Store!Merged

\* Types of the two files without buckets.
LEMMA GoneType == Gone \in Contents({"missing"}) /\ Torn \in Contents({"torn"})
  BY DEF Gone, Torn, Contents

\* What a process saves is known exactly while it saves.
AskedKnown ==
    /\ \A p \in Processes : pc[p] # "idle" => asked[p] \in Buckets
    /\ \A p \in Processes : pc[p] = "idle" => asked[p] = Absent

PersistIInv == PersistTypeOK /\ MergeCurrent /\ AskedKnown

\* The invariant holds at the start.
LEMMA InitIInv == PersistInit => PersistIInv
  <1> SUFFICES ASSUME PersistInit PROVE PersistIInv
    OBVIOUS
  <1> USE PersistAssumption, GoneType DEF PersistInit, Store!Init
  <1>1. file \in Contents({"missing", "bad", "json"})
    BY DEF Store!Initial, Contents
  <1>2. tmp \in Contents({"missing", "torn", "json"}) /\ body \in [Processes -> Contents({"missing", "json"})]
    BY DEF Contents
  <1>3. PersistTypeOK
    BY <1>1, <1>2 DEF PersistTypeOK
  <1>4. MergeCurrent /\ AskedKnown
    BY DEF MergeCurrent, Inside, AskedKnown
  <1> QED
    BY <1>3, <1>4 DEF PersistIInv

\* The end of a save, however it ends, keeps the invariant if it leaves the
\* store alone.
LEMMA ReturnIInv ==
    ASSUME PersistIInv, NEW p \in Processes, Return(p), pc[p] # "idle", UNCHANGED file,
           tmp' \in Contents({"missing", "torn", "json"}), Inside(p) \/ tmp' = tmp
    PROVE  PersistIInv'
  <1> USE PersistAssumption, GoneType DEF PersistIInv
  <1>1. PersistTypeOK'
    BY DEF PersistTypeOK, Return, Goto, Contents
  <1>2. MergeCurrent'
    <2> SUFFICES ASSUME NEW q \in Processes
                 PROVE  /\ Inside(q)' => lock' = q
                        /\ pc'[q] \in {"create", "write", "rename"} =>
                               file'.form # "bad" /\ body'[q] = Store!Merged(file', KeyOf[q], asked'[q])
                        /\ pc'[q] = "rename" => tmp' = body'[q]
      BY DEF MergeCurrent, Store!Merged
    <2>1. CASE q = p
      BY <2>1 DEF Return, Goto, Inside, PersistTypeOK
    <2>2. CASE q # p
      <3>1. pc'[q] = pc[q] /\ asked'[q] = asked[q] /\ body'[q] = body[q]
        BY <2>2 DEF Return, Goto, PersistTypeOK
      <3>2. Inside(q) => lock = q /\ ~Inside(p) /\ tmp' = tmp
        BY <2>2 DEF MergeCurrent
      <3>3. Inside(q) => lock' = q
        BY <2>2, <3>2 DEF Return
      <3> QED
        BY <3>1, <3>2, <3>3 DEF MergeCurrent, Inside
    <2> QED
      BY <2>1, <2>2
  <1>3. AskedKnown'
    BY DEF AskedKnown, Return, Goto, PersistTypeOK
  <1> QED
    BY <1>1, <1>2, <1>3

\* At most one process is between taking the lock and its return.
LEMMA AloneInside ==
    ASSUME PersistIInv, NEW p \in Processes, NEW q \in Processes, p # q, Inside(p)
    PROVE  ~Inside(q)
  BY DEF PersistIInv, MergeCurrent

\* Every step keeps the invariant.
LEMMA NextIInv == PersistIInv /\ [PersistNext]_persistVars => PersistIInv'
  <1> SUFFICES ASSUME PersistIInv, [PersistNext]_persistVars PROVE PersistIInv'
    OBVIOUS
  <1> USE PersistAssumption, GoneType
  <1>1. ASSUME NEW p \in Processes, NEW b \in Buckets, Ask(p, b) PROVE PersistIInv'
    <2>1. PersistTypeOK'
      BY <1>1 DEF PersistIInv, PersistTypeOK, Ask, Goto
    <2>2. MergeCurrent'
      BY <1>1 DEF PersistIInv, PersistTypeOK, MergeCurrent, Inside, Ask, Goto, Store!Merged
    <2>3. AskedKnown'
      BY <1>1 DEF PersistIInv, PersistTypeOK, AskedKnown, Ask, Goto
    <2> QED
      BY <2>1, <2>2, <2>3 DEF PersistIInv
  <1>2. ASSUME NEW p \in Processes, Lock(p) PROVE PersistIInv'
    <2>1. PersistTypeOK'
      BY <1>2 DEF PersistIInv, PersistTypeOK, Lock, Goto
    <2>2. \A q \in Processes : ~Inside(q)
      BY <1>2 DEF PersistIInv, MergeCurrent, Lock
    <2>3. MergeCurrent'
      BY <1>2, <2>2 DEF PersistIInv, PersistTypeOK, MergeCurrent, Inside, Lock, Goto
    <2>4. AskedKnown'
      BY <1>2 DEF PersistIInv, PersistTypeOK, AskedKnown, Lock, Goto
    <2> QED
      BY <2>1, <2>3, <2>4 DEF PersistIInv
  <1>3. ASSUME NEW p \in Processes, Merge(p) PROVE PersistIInv'
    <2>1. Store!Merged(file, KeyOf[p], asked[p]) \in Contents({"missing", "json"})
      <3>1. file \in Contents({"missing", "bad", "json"}) /\ asked[p] \in Buckets /\ KeyOf[p] \in Keys
        BY <1>3 DEF PersistIInv, PersistTypeOK, AskedKnown, Merge
      <3>2. Store!Merged(file, KeyOf[p], asked[p]) \in Contents({"json"})
        BY <3>1, MergedType
      <3> QED
        BY <3>2 DEF Contents
    <2>2. PersistTypeOK'
      BY <1>3, <2>1 DEF PersistIInv, PersistTypeOK, Merge, Goto
    <2>3. Inside(p) /\ lock = p
      BY <1>3 DEF PersistIInv, MergeCurrent, Merge, Inside
    <2>4. MergeCurrent'
      <3>1. \A q \in Processes : q # p => ~Inside(q)'
        BY <1>3, <2>3, AloneInside DEF PersistIInv, PersistTypeOK, Inside, Merge, Goto
      <3>2. body'[p] = Store!Merged(file', KeyOf[p], asked'[p])
        BY <1>3 DEF PersistIInv, PersistTypeOK, Merge, Store!Merged
      <3>3. lock' = p /\ pc'[p] = "create" /\ file'.form # "bad"
        BY <1>3, <2>3 DEF PersistIInv, PersistTypeOK, Merge, Goto
      <3> QED
        BY <3>1, <3>2, <3>3 DEF MergeCurrent, Inside
    <2>5. AskedKnown'
      BY <1>3 DEF PersistIInv, PersistTypeOK, AskedKnown, Merge, Goto
    <2> QED
      BY <2>2, <2>4, <2>5 DEF PersistIInv
  <1>4. ASSUME NEW p \in Processes, Create(p) PROVE PersistIInv'
    <2>1. PersistTypeOK'
      BY <1>4 DEF PersistIInv, PersistTypeOK, Create, Goto, Contents
    <2>2. Inside(p) /\ lock = p
      BY <1>4 DEF PersistIInv, MergeCurrent, Create, Inside
    <2>3. MergeCurrent'
      BY <1>4, <2>2, AloneInside DEF PersistIInv, PersistTypeOK, MergeCurrent, Inside, Create, Goto, Store!Merged
    <2>4. AskedKnown'
      BY <1>4 DEF PersistIInv, PersistTypeOK, AskedKnown, Create, Goto
    <2> QED
      BY <2>1, <2>3, <2>4 DEF PersistIInv
  <1>5. ASSUME NEW p \in Processes, Write(p) PROVE PersistIInv'
    <2>1. PersistTypeOK'
      BY <1>5 DEF PersistIInv, PersistTypeOK, Write, Goto, Contents
    <2>2. Inside(p) /\ lock = p
      BY <1>5 DEF PersistIInv, MergeCurrent, Write, Inside
    <2>3. MergeCurrent'
      BY <1>5, <2>2, AloneInside DEF PersistIInv, PersistTypeOK, MergeCurrent, Inside, Write, Goto, Store!Merged
    <2>4. AskedKnown'
      BY <1>5 DEF PersistIInv, PersistTypeOK, AskedKnown, Write, Goto
    <2> QED
      BY <2>1, <2>3, <2>4 DEF PersistIInv
  <1>6. ASSUME NEW p \in Processes, Rename(p) PROVE PersistIInv'
    <2>1. Inside(p)
      BY <1>6 DEF Rename, Inside
    <2>2. tmp = Store!Merged(file, KeyOf[p], asked[p]) /\ asked[p] \in Buckets
      BY <1>6 DEF PersistIInv, MergeCurrent, AskedKnown, Rename
    <2>3. tmp \in Contents({"missing", "bad", "json"})
      BY <2>2, MergedType DEF PersistIInv, PersistTypeOK, Contents
    <2>4. PersistTypeOK'
      BY <1>6, <2>3 DEF PersistIInv, PersistTypeOK, Rename, Return, Goto, Contents
    <2>5. \A q \in Processes : ~Inside(q)'
      BY <1>6, <2>1, AloneInside DEF PersistIInv, PersistTypeOK, Rename, Return, Goto, Inside
    <2>6. MergeCurrent'
      BY <2>5 DEF MergeCurrent, Inside
    <2>7. AskedKnown'
      BY <1>6 DEF PersistIInv, PersistTypeOK, AskedKnown, Rename, Return, Goto
    <2> QED
      BY <2>4, <2>6, <2>7 DEF PersistIInv
  <1>7. ASSUME NEW p \in Processes, Refuse(p) PROVE PersistIInv'
    BY <1>7, ReturnIInv DEF PersistIInv, PersistTypeOK, Refuse
  <1>8. ASSUME NEW p \in Processes, WriteFails(p) PROVE PersistIInv'
    <2>1. tmp' \in Contents({"missing", "torn", "json"})
      BY <1>8 DEF PersistIInv, PersistTypeOK, WriteFails, Contents
    <2> QED
      BY <1>8, <2>1, ReturnIInv DEF WriteFails, Inside
  <1>9. ASSUME NEW p \in Processes, Crash(p) PROVE PersistIInv'
    BY <1>9, ReturnIInv DEF PersistIInv, PersistTypeOK, Crash
  <1>10. CASE UNCHANGED persistVars
    BY <1>10 DEF PersistIInv, PersistTypeOK, MergeCurrent, AskedKnown, Inside, persistVars, Store!Merged
  <1> QED
    BY <1>1, <1>2, <1>3, <1>4, <1>5, <1>6, <1>7, <1>8, <1>9, <1>10 DEF PersistNext

\* The store is never half written, under any interleaving and any failure.
THEOREM PersistType == PersistSafe => []PersistTypeOK
  <1>1. PersistSafe => []PersistIInv
    BY InitIInv, NextIInv, PTL DEF PersistSafe
  <1>2. PersistIInv => PersistTypeOK
    BY DEF PersistIInv
  <1> QED
    BY <1>1, <1>2, PTL

\* No save is lost to another save that came between its read and its rename.
THEOREM NoLostUpdate == PersistSafe => []MergeCurrent
  <1>1. PersistSafe => []PersistIInv
    BY InitIInv, NextIInv, PTL DEF PersistSafe
  <1>2. PersistIInv => MergeCurrent
    BY DEF PersistIInv
  <1> QED
    BY <1>1, <1>2, PTL

\* A step of a save is a step of the atomic store, or changes nothing there.
LEMMA StepRefines ==
    ASSUME PersistIInv, [PersistNext]_persistVars
    PROVE  [Store!Next]_<<file, asked>>
  <1> USE PersistAssumption
  <1>1. ASSUME NEW p \in Processes, NEW b \in Buckets, Ask(p, b) PROVE Store!Next
    BY <1>1 DEF Ask, PersistIInv, AskedKnown, Store!Ask, Store!Next
  <1>2. ASSUME NEW p \in Processes, Lock(p) \/ Merge(p) \/ Create(p) \/ Write(p)
        PROVE  UNCHANGED <<file, asked>>
    BY <1>2 DEF Lock, Merge, Create, Write
  <1>3. ASSUME NEW p \in Processes, Rename(p) PROVE Store!Next
    <2>1. asked[p] # Absent /\ file.form # "bad" /\ tmp = Store!Merged(file, KeyOf[p], asked[p])
      BY <1>3 DEF Rename, PersistIInv, AskedKnown, MergeCurrent
    <2>2. Store!Save(p)
      BY <1>3, <2>1 DEF Rename, Return, Store!Save
    <2> QED
      BY <2>2 DEF Store!Next
  <1>4. ASSUME NEW p \in Processes, Refuse(p) \/ WriteFails(p) \/ Crash(p) PROVE Store!Next
    <2>1. pc[p] # "idle" /\ Return(p) /\ UNCHANGED file
      BY <1>4 DEF Refuse, WriteFails, Crash
    <2>2. Store!Fail(p)
      BY <2>1 DEF PersistIInv, AskedKnown, Return, Store!Fail
    <2> QED
      BY <2>2 DEF Store!Next
  <1>5. CASE UNCHANGED persistVars
    BY <1>5 DEF persistVars
  <1> QED
    BY <1>1, <1>2, <1>3, <1>4, <1>5 DEF PersistNext

\* Whatever fails and whoever dies, a save happens in one step or not at all.
THEOREM PersistIsAtomic == PersistSafe => ImplementsAtomicStore
  <1>1. PersistInit => Store!Init
    BY DEF PersistInit
  <1>2. PersistSafe => []PersistIInv
    BY InitIInv, NextIInv, PTL DEF PersistSafe
  <1>3. PersistIInv /\ [PersistNext]_persistVars => [Store!Next]_<<file, asked>>
    BY StepRefines
  <1> QED
    BY <1>1, <1>2, <1>3, PTL DEF PersistSafe, ImplementsAtomicStore, Store!Spec

-----------------------------------------------------------------------------
(* The queue of remote jobs. *)

USE DEF Free, Exclusive, Switch, Remote

\* The number of slots stays a number: there are finitely many gitdirs.
LEMMA PumpedType ==
    ASSUME NEW n \in Nat, NEW pend, NEW occ
    PROVE  Pumped(n, pend, occ) \in Nat
<1> DEFINE eligible == {g \in Gitdirs : occ[g] = Free /\ \E j \in pend : GitdirOf[j[2]] = g}
<1>1. IsFiniteSet(eligible)
  BY RemoteQueueAssumption, FS_Subset
<1>2. Cardinality(eligible) \in Nat
  BY <1>1, FS_CardinalityType
<1> QED
  BY <1>2 DEF Pumped, EligibleCount

\* A remote job holds the gitdir of its checkout, and no other gitdir.
LEMMA HeldByIsGitdirOf ==
    ASSUME IInv, NEW j \in remotes
    PROVE  HeldBy(j[2]) = GitdirOf[j[2]] /\ GitdirOf[j[2]] \in Gitdirs
           /\ occupy[GitdirOf[j[2]]] = Remote(j[1], j[2])
<1> DEFINE held == {g \in Gitdirs : occupy[g].by = "remote" /\ occupy[g].checkout = j[2]}
<1>1. j \in Jobs /\ j[2] \in Checkouts /\ GitdirOf[j[2]] \in Gitdirs
  BY RemoteQueueAssumption DEF IInv, TypeOK, Jobs
<1>2. occupy[GitdirOf[j[2]]] = Remote(j[1], j[2])
  BY <1>1 DEF IInv, OccupyMatchesWork
<1>3. GitdirOf[j[2]] \in held
  BY <1>1, <1>2
<1>4. ASSUME NEW g \in held PROVE g = GitdirOf[j[2]]
  <2>1. PICK i \in Jobs : occupy[g] = Remote(i[1], i[2])
    BY <1>4 DEF IInv, TypeOK, Owners
  <2>2. i \in remotes /\ GitdirOf[i[2]] = g
    BY <2>1 DEF IInv, OccupyMatchesWork
  <2>3. i[2] = j[2]
    BY <2>1
  <2> QED BY <2>2, <2>3
<1> QED
  BY <1>1, <1>2, <1>3, <1>4 DEF HeldBy

\* Nothing is held and nothing runs at the start.
LEMMA InitEstablishesIInv == Init => IInv
<1> SUFFICES ASSUME Init PROVE IInv
  OBVIOUS
<1>1. pending = {} /\ remotes = {} /\ writes = {} /\ writing = {} /\ batch = {} /\ left = {} /\ switching = {}
  BY DEF Init
<1>2. occupy = [g \in Gitdirs |-> Free] /\ slots = 0 /\ claim = FALSE
  BY DEF Init
<1>3. waves \in [Kinds -> WaveType]
  BY DEF Init, EmptyWave, WaveType
<1>4. TypeOK
  BY <1>1, <1>2, <1>3 DEF TypeOK, Owners
<1>5. OccupyMatchesWork
  BY <1>1, <1>2 DEF OccupyMatchesWork
<1> QED BY <1>1, <1>4, <1>5 DEF IInv

\* Whatever a wave was, its successor has the shape of one.
LEMMA WavesAfterType ==
    ASSUME NEW k, NEW ws \in [Kinds -> WaveType], NEW pend, NEW occ
    PROVE  WavesAfter(k, ws, pend, occ) \in [Kinds -> WaveType]
BY DEF WavesAfter, EmptyWave, WaveType

\* Queueing remote jobs starts nothing and holds nothing.
LEMMA StartBulkKeepsIInv ==
    ASSUME IInv, NEW k \in Kinds, NEW repos \in SUBSET Checkouts, NEW foreground \in BOOLEAN,
           StartBulk(k, repos, foreground), claim' \in BOOLEAN
    PROVE  IInv'
<1> DEFINE new == {c \in repos : ~InFlightCovers(k, c) /\ ~PendingCovers(k, c)}
           upgraded == IF k = "pull" THEN {c \in new : <<"fetch", c>> \in pending} ELSE {}
           noted == [w \in Kinds |->
                        [waves[w] EXCEPT
                            !.repos = IF w = k THEN @ \union new
                                      ELSE IF w = "fetch" THEN @ \ upgraded ELSE @]]
           ended == IF upgraded = {} THEN noted
                    ELSE WavesAfter("fetch", noted, pending', occupy)
<1>1. new \subseteq Checkouts
  OBVIOUS
<1> HIDE DEF new
<1>2. /\ pending' = (pending \ {<<"fetch", c>> : c \in upgraded}) \union {<<k, c>> : c \in new}
      /\ waves' = IF ~KindLive(k, pending', occupy) THEN ended
                  ELSE [ended EXCEPT ![k].foreground = @ \/ foreground,
                                     ![k].scheduled = @ \/ ~foreground]
      /\ slots' = Pumped(slots, pending', occupy)
      /\ UNCHANGED <<occupy, remotes, local>>
  BY DEF StartBulk, new
<1>3. noted \in [Kinds -> WaveType]
  BY <1>1 DEF IInv, TypeOK, WaveType
<1> HIDE DEF noted
<1>4. ended \in [Kinds -> WaveType]
  BY <1>3, WavesAfterType
<1> HIDE DEF ended
<1>5. waves' \in [Kinds -> WaveType]
  <2>1. CASE ~KindLive(k, pending', occupy)
    BY <1>2, <1>4, <2>1
  <2>2. CASE KindLive(k, pending', occupy)
    <3>1. PICK r : r = [ended[k] EXCEPT !.foreground = @ \/ foreground, !.scheduled = @ \/ ~foreground]
      OBVIOUS
    <3>2. ended[k] \in WaveType
      BY <1>4
    <3>3. r \in WaveType
      BY <3>1, <3>2 DEF WaveType
    <3>4. waves' = [ended EXCEPT ![k] = r]
      BY <1>2, <2>2, <3>1
    <3> QED BY <1>4, <3>3, <3>4
  <2> QED BY <2>1, <2>2
<1>6. slots' \in Nat
  BY <1>2, PumpedType DEF IInv, TypeOK
<1>7. pending' \subseteq Jobs
  BY <1>1, <1>2 DEF IInv, TypeOK, Jobs
<1> QED
  BY <1>2, <1>5, <1>6, <1>7 DEF IInv, TypeOK, OccupyMatchesWork, local

\* A remote job starts on a free gitdir and marks it as its own.
LEMMA StartRemoteKeepsIInv ==
    ASSUME IInv, NEW j \in pending, StartRemote(j)
    PROVE  IInv'
<1> DEFINE d == GitdirOf[j[2]]
<1>1. j \in Jobs /\ j = <<j[1], j[2]>> /\ d \in Gitdirs
  BY RemoteQueueAssumption DEF IInv, TypeOK, Jobs
<1>2. /\ occupy[d] = Free
      /\ slots' = slots - 1 /\ slots > 0
      /\ pending' = pending \ {j} /\ remotes' = remotes \union {j}
      /\ occupy' = [occupy EXCEPT ![d] = Remote(j[1], j[2])]
      /\ UNCHANGED <<waves, claim, local>>
  BY DEF StartRemote
<1> HIDE DEF d
<1>3. TypeOK'
  <2>1. slots' \in Nat
    BY <1>2 DEF IInv, TypeOK
  <2>2. occupy' \in [Gitdirs -> Owners]
    BY <1>1, <1>2 DEF IInv, TypeOK, Owners
  <2> QED BY <1>1, <1>2, <2>1, <2>2 DEF IInv, TypeOK, local
<1>4. \A g \in Gitdirs, i \in Jobs :
          occupy'[g] = Remote(i[1], i[2]) <=> i \in remotes' /\ GitdirOf[i[2]] = g
  <2> SUFFICES ASSUME NEW g \in Gitdirs, NEW i \in Jobs
               PROVE  occupy'[g] = Remote(i[1], i[2]) <=> i \in remotes' /\ GitdirOf[i[2]] = g
    OBVIOUS
  <2>0. occupy[g] = Remote(i[1], i[2]) <=> i \in remotes /\ GitdirOf[i[2]] = g
    BY DEF IInv, OccupyMatchesWork
  <2>1. CASE g = d
    <3>1. occupy'[g] = Remote(j[1], j[2])
      BY <1>2, <2>1 DEF IInv, TypeOK
    <3>2. ~(i \in remotes /\ GitdirOf[i[2]] = g)
      BY <1>2, <2>0, <2>1
    <3>3. Remote(i[1], i[2]) = Remote(j[1], j[2]) <=> i = j
      BY <1>1 DEF Jobs
    <3> QED BY <1>2, <2>1, <3>1, <3>2, <3>3 DEF d
  <2>2. CASE g # d
    <3>1. occupy'[g] = occupy[g] /\ GitdirOf[j[2]] # g
      BY <1>2, <2>2 DEF IInv, TypeOK, d
    <3> QED BY <1>2, <2>0, <3>1
  <2> QED BY <2>1, <2>2
<1>5. \A g \in Gitdirs : /\ occupy'[g] = Exclusive <=> occupy[g] = Exclusive
                         /\ occupy'[g] = Switch <=> occupy[g] = Switch
  BY <1>1, <1>2 DEF IInv, TypeOK
<1>6. OccupyMatchesWork'
  BY <1>2, <1>4, <1>5 DEF IInv, OccupyMatchesWork, local
<1> QED BY <1>2, <1>3, <1>6 DEF IInv, local

\* A remote job that lands frees the gitdir it held.
LEMMA LandRemoteKeepsIInv ==
    ASSUME IInv, NEW j \in remotes, LandRemote(j[1], j[2])
    PROVE  IInv'
<1> DEFINE d == GitdirOf[j[2]]
<1>1. j \in Jobs /\ j = <<j[1], j[2]>> /\ j[1] \in Kinds /\ j[2] \in Checkouts
  BY DEF IInv, TypeOK, Jobs
<1>2. HeldBy(j[2]) = d /\ d \in Gitdirs /\ occupy[d] = Remote(j[1], j[2])
  BY HeldByIsGitdirOf
<1> DEFINE ws == [waves EXCEPT ![j[1]].repos = @ \union {j[2]}, ![j[1]].ran = TRUE]
<1>3. /\ remotes' = remotes \ {j}
      /\ occupy' = [occupy EXCEPT ![d] = Free]
      /\ waves' = WavesAfter(j[1], ws, pending, occupy')
      /\ claim' = ClaimAfter(pending, occupy')
      /\ slots' = Pumped(slots, pending, occupy')
      /\ UNCHANGED <<pending, local>>
  BY <1>1, <1>2 DEF LandRemote
<1>4. TypeOK'
  <2>1. ws \in [Kinds -> WaveType]
    BY <1>1 DEF IInv, TypeOK, WaveType
  <2>2. waves' \in [Kinds -> WaveType]
    BY <1>3, <2>1, WavesAfterType
  <2>3. slots' \in Nat
    BY <1>3, PumpedType DEF IInv, TypeOK
  <2>4. claim' \in BOOLEAN
    BY <1>3 DEF ClaimAfter
  <2>5. occupy' \in [Gitdirs -> Owners]
    BY <1>2, <1>3 DEF IInv, TypeOK, Owners
  <2> QED BY <1>3, <2>2, <2>3, <2>4, <2>5 DEF IInv, TypeOK, local
<1> HIDE DEF d
<1>5. \A g \in Gitdirs, i \in Jobs :
          occupy'[g] = Remote(i[1], i[2]) <=> i \in remotes' /\ GitdirOf[i[2]] = g
  <2> SUFFICES ASSUME NEW g \in Gitdirs, NEW i \in Jobs
               PROVE  occupy'[g] = Remote(i[1], i[2]) <=> i \in remotes' /\ GitdirOf[i[2]] = g
    OBVIOUS
  <2>0. occupy[g] = Remote(i[1], i[2]) <=> i \in remotes /\ GitdirOf[i[2]] = g
    BY DEF IInv, OccupyMatchesWork
  <2>1. CASE g = d
    <3>1. occupy'[g] = Free
      BY <1>2, <1>3, <2>1 DEF IInv, TypeOK
    <3>2. ASSUME i \in remotes, GitdirOf[i[2]] = g PROVE i = j
      <4>1. Remote(i[1], i[2]) = Remote(j[1], j[2])
        BY <1>2, <2>0, <2>1, <3>2
      <4> QED BY <1>1, <4>1 DEF Jobs
    <3> QED BY <1>3, <3>1, <3>2
  <2>2. CASE g # d
    <3>1. occupy'[g] = occupy[g] /\ GitdirOf[j[2]] # g
      BY <1>2, <1>3, <2>2 DEF IInv, TypeOK, d
    <3> QED BY <1>3, <2>0, <3>1
  <2> QED BY <2>1, <2>2
<1>6. \A g \in Gitdirs : /\ occupy'[g] = Exclusive <=> occupy[g] = Exclusive
                         /\ occupy'[g] = Switch <=> occupy[g] = Switch
  BY <1>2, <1>3 DEF IInv, TypeOK
<1>7. OccupyMatchesWork'
  BY <1>3, <1>5, <1>6 DEF IInv, OccupyMatchesWork, local
<1> QED BY <1>3, <1>4, <1>7 DEF IInv, local

\* A write takes a free gitdir only.
LEMMA EnqueueWriteKeepsIInv ==
    ASSUME IInv, NEW c \in Checkouts, EnqueueWrite(c)
    PROVE  IInv'
<1> DEFINE d == GitdirOf[c]
<1>1. d \in Gitdirs
  BY RemoteQueueAssumption
<1>2. /\ occupy[d] = Free
      /\ occupy' = [occupy EXCEPT ![d] = Exclusive]
      /\ writes' = writes \union {d}
      /\ UNCHANGED <<pending, slots, remotes, waves, claim, writing, batch, left, switching>>
  BY DEF EnqueueWrite, RemoteGitdirBusy
<1> HIDE DEF d
<1>3. TypeOK'
  BY <1>1, <1>2 DEF IInv, TypeOK, Owners
<1>4. \A g \in Gitdirs : g # d => occupy'[g] = occupy[g]
  BY <1>2 DEF IInv, TypeOK
<1>5. occupy'[d] = Exclusive
  BY <1>1, <1>2 DEF IInv, TypeOK
<1>6. d \notin writes \union writing
  BY <1>1, <1>2 DEF IInv, OccupyMatchesWork
<1>7. \A g \in Gitdirs, j \in Jobs :
          occupy'[g] = Remote(j[1], j[2]) <=> occupy[g] = Remote(j[1], j[2])
  BY <1>2, <1>4, <1>5
<1>8. \A g \in Gitdirs : occupy'[g] = Switch <=> occupy[g] = Switch
  BY <1>2, <1>4, <1>5
<1>9. \A g \in Gitdirs : occupy'[g] = Exclusive <=> g \in writes' \union writing'
  BY <1>2, <1>4, <1>5 DEF IInv, OccupyMatchesWork
<1>10. OccupyMatchesWork'
  BY <1>2, <1>6, <1>7, <1>8, <1>9 DEF IInv, OccupyMatchesWork
<1> QED BY <1>2, <1>3, <1>10 DEF IInv

\* A write that lands frees the gitdir it held.
LEMMA LandWriteKeepsIInv ==
    ASSUME IInv, NEW d \in writing, LandWrite(d)
    PROVE  IInv'
<1>1. d \in Gitdirs /\ occupy[d] = Exclusive /\ d \notin writes
  BY DEF IInv, TypeOK, OccupyMatchesWork
<1>2. /\ writing' = writing \ {d}
      /\ occupy' = [occupy EXCEPT ![d] = Free]
      /\ slots' = Pumped(slots, pending, occupy')
      /\ UNCHANGED <<pending, remotes, waves, claim, writes, batch, left, switching>>
  BY <1>1 DEF LandWrite
<1>3. slots' \in Nat
  BY <1>2, PumpedType DEF IInv, TypeOK
<1>4. TypeOK'
  BY <1>1, <1>2, <1>3 DEF IInv, TypeOK, Owners
<1>5. occupy'[d] = Free /\ \A g \in Gitdirs : g # d => occupy'[g] = occupy[g]
  BY <1>1, <1>2 DEF IInv, TypeOK
<1>6. \A g \in Gitdirs, j \in Jobs :
          occupy'[g] = Remote(j[1], j[2]) <=> occupy[g] = Remote(j[1], j[2])
  BY <1>1, <1>5
<1>7. \A g \in Gitdirs : occupy'[g] = Switch <=> occupy[g] = Switch
  BY <1>1, <1>5
<1>8. \A g \in Gitdirs : occupy'[g] = Exclusive <=> g \in writes' \union writing'
  BY <1>1, <1>2, <1>5 DEF IInv, OccupyMatchesWork
<1>9. OccupyMatchesWork'
  BY <1>2, <1>6, <1>7, <1>8 DEF IInv, OccupyMatchesWork
<1> QED BY <1>2, <1>4, <1>9 DEF IInv

\* A batch takes all of its gitdirs or, when one is held, none.
LEMMA DefaultBranchKeyKeepsIInv ==
    ASSUME IInv, NEW repos \in Targets, DefaultBranchKey(repos)
    PROVE  IInv'
<1>1. /\ repos \subseteq Checkouts /\ repos # {}
      /\ writes \union writing = {} /\ batch = {} /\ left = {} /\ switching = {}
  <2>1. repos \subseteq Checkouts /\ repos # {}
    BY DEF Targets
  <2>2. writes \union writing = {} /\ batch = {}
    BY DEF DefaultBranchKey, Busy, RemoteGitdirBusy
  <2>3. left \union switching = {}
    BY <2>2 DEF IInv, OccupyMatchesWork
  <2> QED BY <2>1, <2>2, <2>3
<1>2. /\ \A c \in repos : occupy[GitdirOf[c]] = Free
      /\ occupy' = [g \in Gitdirs |-> IF \E c \in repos : GitdirOf[c] = g THEN Switch ELSE occupy[g]]
      /\ batch' = repos /\ left' = repos
      /\ UNCHANGED <<pending, slots, remotes, waves, claim, writes, writing, switching>>
  BY DEF DefaultBranchKey, RemoteGitdirBusy
<1>3. TypeOK'
  BY <1>1, <1>2 DEF IInv, TypeOK, Owners
<1>4. \A g \in Gitdirs, j \in Jobs :
          occupy'[g] = Remote(j[1], j[2]) <=> occupy[g] = Remote(j[1], j[2])
  BY <1>2
<1>5. \A g \in Gitdirs : occupy'[g] = Exclusive <=> occupy[g] = Exclusive
  BY <1>2
<1>6. \A g \in Gitdirs : occupy'[g] = Switch <=> \E c \in batch' : GitdirOf[c] = g
  BY <1>1, <1>2 DEF IInv, OccupyMatchesWork
<1>7. OccupyMatchesWork'
  BY <1>1, <1>2, <1>4, <1>5, <1>6 DEF IInv, OccupyMatchesWork
<1> QED BY <1>1, <1>2, <1>3, <1>7 DEF IInv

\* The batch ends with its last switch and frees its gitdirs, and no others.
LEMMA LandSwitchKeepsIInv ==
    ASSUME IInv, NEW c \in switching, LandSwitch(c)
    PROVE  IInv'
<1>1. /\ switching = {c}
      /\ switching' = {}
      /\ UNCHANGED <<pending, remotes, waves, claim, writes, writing, left>>
  BY DEF LandSwitch, IInv
<1>2. CASE left # {}
  <2>1. UNCHANGED <<batch, occupy, slots>>
    BY <1>2 DEF LandSwitch
  <2> QED BY <1>1, <1>2, <2>1 DEF IInv, TypeOK, OccupyMatchesWork
<1>3. CASE left = {}
  <2>1. /\ batch' = {}
        /\ occupy' = [g \in Gitdirs |-> IF occupy[g] = Switch THEN Free ELSE occupy[g]]
        /\ slots' = Pumped(slots, pending, occupy')
    BY <1>3 DEF LandSwitch
  <2>2. slots' \in Nat
    BY <2>1, PumpedType DEF IInv, TypeOK
  <2>3. TypeOK'
    BY <1>1, <1>3, <2>1, <2>2 DEF IInv, TypeOK, Owners
  <2>4. \A g \in Gitdirs, j \in Jobs :
            occupy'[g] = Remote(j[1], j[2]) <=> occupy[g] = Remote(j[1], j[2])
    BY <2>1
  <2>5. \A g \in Gitdirs : /\ occupy'[g] = Exclusive <=> occupy[g] = Exclusive
                           /\ occupy'[g] # Switch
    BY <2>1
  <2>6. OccupyMatchesWork'
    BY <1>1, <1>3, <2>1, <2>4, <2>5 DEF IInv, OccupyMatchesWork
  <2> QED BY <1>1, <2>3, <2>6 DEF IInv
<1> QED BY <1>2, <1>3

\* Every step keeps the invariant.
LEMMA StepKeepsIInv == IInv /\ [Next]_vars => IInv'
<1> SUFFICES ASSUME IInv, [Next]_vars PROVE IInv'
  OBVIOUS
<1>1. ASSUME NEW k \in Kinds, NEW repos \in Targets, RemoteKey(k, repos) PROVE IInv'
  BY <1>1, StartBulkKeepsIInv DEF RemoteKey, ClaimAfter, Targets
<1>2. ASSUME NEW repos \in Targets, NEW granted \in BOOLEAN, FetchTick(repos, granted) PROVE IInv'
  BY <1>2, StartBulkKeepsIInv DEF FetchTick, Targets
<1>3. ASSUME NEW j \in pending, StartRemote(j) PROVE IInv'
  BY <1>3, StartRemoteKeepsIInv
<1>4. ASSUME DropSlot PROVE IInv'
  BY <1>4 DEF DropSlot, IInv, TypeOK, OccupyMatchesWork, local
<1>5. ASSUME NEW j \in remotes, LandRemote(j[1], j[2]) PROVE IInv'
  BY <1>5, LandRemoteKeepsIInv
<1>6. ASSUME NEW c \in Checkouts, WriteKey(c) \/ StashMenuKey(c) PROVE IInv'
  BY <1>6, EnqueueWriteKeepsIInv DEF WriteKey, StashMenuKey
<1>7. ASSUME NEW g \in writes, StartWrite(g) PROVE IInv'
  BY <1>7 DEF StartWrite, IInv, TypeOK, OccupyMatchesWork
<1>8. ASSUME NEW g \in writing, LandWrite(g) PROVE IInv'
  BY <1>8, LandWriteKeepsIInv
<1>9. ASSUME NEW repos \in Targets, DefaultBranchKey(repos) PROVE IInv'
  BY <1>9, DefaultBranchKeyKeepsIInv
<1>10. ASSUME NEW c \in left, StartSwitch(c) PROVE IInv'
  BY <1>10 DEF StartSwitch, IInv, TypeOK, OccupyMatchesWork
<1>11. ASSUME NEW c \in switching, LandSwitch(c) PROVE IInv'
  BY <1>11, LandSwitchKeepsIInv
<1>12. ASSUME UNCHANGED vars PROVE IInv'
  BY <1>12 DEF vars, local, IInv, TypeOK, OccupyMatchesWork
<1> QED
  BY <1>1, <1>2, <1>3, <1>4, <1>5, <1>6, <1>7, <1>8, <1>9, <1>10, <1>11, <1>12 DEF Next

\* The inductive invariant holds: a gitdir is held exactly while the work it
\* is held for is live, whatever lands, fails or panics.
THEOREM OccupancyHolds == Spec => [](TypeOK /\ OccupyMatchesWork)
<1>1. IInv => TypeOK /\ OccupyMatchesWork
  BY DEF IInv
<1> QED BY <1>1, InitEstablishesIInv, StepKeepsIInv, PTL DEF Spec, Safe

\* A gitdir has one owner, and each worker's gitdir names that worker.
LEMMA OwnersAreWorkers == IInv => OneWorkerPerGitdir
<1> SUFFICES ASSUME IInv PROVE OneWorkerPerGitdir
  OBVIOUS
<1>1. \A j \in remotes : /\ j \in Jobs /\ GitdirOf[j[2]] \in Gitdirs
                         /\ occupy[GitdirOf[j[2]]] = Remote(j[1], j[2])
  BY HeldByIsGitdirOf DEF IInv, TypeOK
<1>2. \A g \in writing : occupy[g] = Exclusive
  BY DEF IInv, TypeOK, OccupyMatchesWork
<1>3. \A c \in switching : occupy[GitdirOf[c]] = Switch
  BY RemoteQueueAssumption DEF IInv, TypeOK, OccupyMatchesWork
<1>4. ASSUME NEW i \in remotes, NEW j \in remotes, GitdirOf[i[2]] = GitdirOf[j[2]] PROVE i = j
  <2>1. Remote(i[1], i[2]) = Remote(j[1], j[2])
    BY <1>1, <1>4
  <2> QED BY <1>1, <2>1 DEF Jobs
<1>0. \A j \in remotes : Remote(j[1], j[2]) # Exclusive /\ Remote(j[1], j[2]) # Switch
  <2> SUFFICES ASSUME NEW j \in remotes
               PROVE  Remote(j[1], j[2]).by # Exclusive.by /\ Remote(j[1], j[2]).by # Switch.by
    OBVIOUS
  <2> QED OBVIOUS
<1>8. Exclusive # Switch
  <2>1. Exclusive.by # Switch.by
    OBVIOUS
  <2> QED BY <2>1
<1> HIDE DEF Remote, Exclusive, Switch
<1>5. \A j \in remotes : GitdirOf[j[2]] \notin writing
  BY <1>0, <1>1, <1>2
<1>6. \A j \in remotes, c \in switching : GitdirOf[j[2]] # GitdirOf[c]
  BY <1>0, <1>1, <1>3
<1>7. \A c \in switching : GitdirOf[c] \notin writing
  BY <1>2, <1>3, <1>8
<1> QED BY <1>4, <1>5, <1>6, <1>7 DEF OneWorkerPerGitdir, IInv

\* No two workers ever run git in one repository, for every number of
\* checkouts and linked worktrees: fetch, pull, push, writes and switches.
THEOREM MutualExclusion == Spec => []OneWorkerPerGitdir
BY InitEstablishesIInv, StepKeepsIInv, OwnersAreWorkers, PTL DEF Spec, Safe

-----------------------------------------------------------------------------
(* The order of the queue *)

\* QueueInOrder needs no strengthening beyond who holds what: with it, a kind
\* is live exactly when a job of it is pending or on a worker.
QInv == IInv /\ QueueInOrder

\* The gitdirs a pending job could use now.
Eligible(pend, occ) == {g \in Gitdirs : occ[g] = Free /\ \E j \in pend : GitdirOf[j[2]] = g}

\* They are finitely many, and counted by EligibleCount.
LEMMA EligibleFinite ==
    ASSUME NEW pend, NEW occ
    PROVE  /\ IsFiniteSet(Eligible(pend, occ))
           /\ EligibleCount(pend, occ) = Cardinality(Eligible(pend, occ))
           /\ EligibleCount(pend, occ) \in Nat
<1>1. IsFiniteSet(Eligible(pend, occ))
  BY RemoteQueueAssumption, FS_Subset DEF Eligible
<1>2. EligibleCount(pend, occ) = Cardinality(Eligible(pend, occ))
  BY DEF EligibleCount, Eligible
<1> QED BY <1>1, <1>2, FS_CardinalityType

\* Fewer eligible gitdirs, no larger count.
LEMMA EligibleMonotone ==
    ASSUME NEW pend, NEW occ, NEW pend2, NEW occ2,
           Eligible(pend2, occ2) \subseteq Eligible(pend, occ)
    PROVE  EligibleCount(pend2, occ2) <= EligibleCount(pend, occ)
BY EligibleFinite, FS_Subset

\* One eligible gitdir taken, one less to count.
LEMMA EligibleDrops ==
    ASSUME NEW pend, NEW occ, NEW pend2, NEW occ2, NEW d \in Eligible(pend, occ),
           Eligible(pend2, occ2) \subseteq Eligible(pend, occ) \ {d}
    PROVE  EligibleCount(pend2, occ2) <= EligibleCount(pend, occ) - 1
<1> DEFINE E == Eligible(pend, occ)
           F == Eligible(pend2, occ2)
<1>1. IsFiniteSet(E) /\ IsFiniteSet(E \ {d}) /\ Cardinality(E \ {d}) = Cardinality(E) - 1
  BY EligibleFinite, FS_RemoveElement
<1>2. Cardinality(F) <= Cardinality(E \ {d})
  BY <1>1, FS_Subset
<1> QED BY <1>1, <1>2, EligibleFinite

\* pump_remote leaves a slot for every eligible gitdir.
LEMMA PumpedCovers ==
    ASSUME NEW n \in Nat, NEW pend, NEW occ
    PROVE  Pumped(n, pend, occ) >= EligibleCount(pend, occ)
BY EligibleFinite DEF Pumped

\* A kind is live exactly when one of its jobs is pending or on a worker.
LEMMA LiveIsPendingOrRunning ==
    ASSUME NEW k, NEW pend, NEW occ \in [Gitdirs -> Owners], NEW rem \in SUBSET Jobs,
           \A g \in Gitdirs, j \in Jobs :
               occ[g] = Remote(j[1], j[2]) <=> j \in rem /\ GitdirOf[j[2]] = g
    PROVE  KindLive(k, pend, occ) <=> \E j \in pend \union rem : j[1] = k
<1>1. ASSUME NEW g \in Gitdirs, occ[g].by = "remote", occ[g].kind = k
      PROVE  \E j \in rem : j[1] = k
  <2>1. PICK j \in Jobs : occ[g] = Remote(j[1], j[2])
    BY <1>1 DEF Owners
  <2>2. j \in rem /\ j[1] = k
    BY <1>1, <2>1
  <2> QED BY <2>2
<1>2. ASSUME NEW j \in rem, j[1] = k
      PROVE  \E g \in Gitdirs : occ[g].by = "remote" /\ occ[g].kind = k
  <2>1. j \in Jobs /\ GitdirOf[j[2]] \in Gitdirs
    BY RemoteQueueAssumption DEF Jobs
  <2>2. occ[GitdirOf[j[2]]] = Remote(j[1], j[2])
    BY <2>1
  <2> QED BY <1>2, <2>1, <2>2
<1> QED BY <1>1, <1>2 DEF KindLive

\* The same for the state, before and after a step.
LEMMA LiveNow ==
    ASSUME IInv, NEW k
    PROVE  KindLive(k, pending, occupy) <=> \E j \in pending \union remotes : j[1] = k
BY LiveIsPendingOrRunning DEF IInv, TypeOK, OccupyMatchesWork

LEMMA LiveNext ==
    ASSUME IInv', NEW k
    PROVE  KindLive(k, pending', occupy') <=> \E j \in pending' \union remotes' : j[1] = k
BY LiveIsPendingOrRunning DEF IInv, TypeOK, OccupyMatchesWork

\* A step that starts, queues and lands no remote job, and frees no gitdir,
\* keeps the queue in order.
LEMMA LeavesQueueInOrder ==
    ASSUME QInv, IInv', UNCHANGED <<pending, remotes, waves, claim>>,
           slots' >= EligibleCount(pending', occupy')
    PROVE  QInv'
<1>1. \A k : KindLive(k, pending', occupy') <=> KindLive(k, pending, occupy)
  BY LiveNow, LiveNext DEF QInv
<1>2. PendingCoalesced' /\ WavesEndEmpty'
  BY <1>1 DEF QInv, QueueInOrder, PendingCoalesced, WavesEndEmpty
<1> QED BY <1>2 DEF QInv, QueueInOrder, SlotsCoverEligible

\* Keys and ticks that queue jobs: what is queued is neither pending nor in
\* flight, a pull takes the place of its fetch, and a wave that loses its
\* last job by that ends empty.
LEMMA StartBulkKeepsQueue ==
    ASSUME QInv, IInv', NEW k \in Kinds, NEW repos \in SUBSET Checkouts, NEW foreground \in BOOLEAN,
           StartBulk(k, repos, foreground),
           claim' => /\ KindLive("fetch", pending', occupy')
                     /\ claim \/ (k = "fetch" /\ ~foreground)
    PROVE  QInv'
<1> DEFINE new == {c \in repos : ~InFlightCovers(k, c) /\ ~PendingCovers(k, c)}
           upgraded == IF k = "pull" THEN {c \in new : <<"fetch", c>> \in pending} ELSE {}
           noted == [w \in Kinds |->
                        [waves[w] EXCEPT
                            !.repos = IF w = k THEN @ \union new
                                      ELSE IF w = "fetch" THEN @ \ upgraded ELSE @]]
           ended == IF upgraded = {} THEN noted
                    ELSE WavesAfter("fetch", noted, pending', occupy)
<1>1. /\ new \subseteq Checkouts
      /\ \A c \in new : ~InFlightCovers(k, c) /\ ~PendingCovers(k, c)
      /\ upgraded \subseteq new
      /\ \A c \in upgraded : k = "pull" /\ <<"fetch", c>> \in pending
      /\ k = "pull" => \A c \in new : <<"fetch", c>> \in pending => c \in upgraded
  OBVIOUS
<1>2. /\ pending' = (pending \ {<<"fetch", c>> : c \in upgraded}) \union {<<k, c>> : c \in new}
      /\ waves' = IF ~KindLive(k, pending', occupy) THEN ended
                  ELSE [ended EXCEPT ![k].foreground = @ \/ foreground,
                                     ![k].scheduled = @ \/ ~foreground]
      /\ slots' = Pumped(slots, pending', occupy)
      /\ UNCHANGED <<occupy, remotes, local>>
  BY DEF StartBulk
<1>3. \A w \in Kinds : /\ new = {} => noted[w] = waves[w]
                       /\ w # k /\ upgraded = {} => noted[w] = waves[w]
                       /\ w # k /\ w # "fetch" => noted[w] = waves[w]
                       /\ noted[w].scheduled = waves[w].scheduled
                       /\ noted[w] \in WaveType
  <2> SUFFICES ASSUME NEW w \in Kinds
               PROVE  /\ new = {} => noted[w] = waves[w]
                      /\ w # k /\ upgraded = {} => noted[w] = waves[w]
                      /\ w # k /\ w # "fetch" => noted[w] = waves[w]
                      /\ noted[w].scheduled = waves[w].scheduled
                      /\ noted[w] \in WaveType
    OBVIOUS
  <2>1. waves[w] \in WaveType
    BY DEF QInv, IInv, TypeOK
  <2> DEFINE r == IF w = k THEN waves[w].repos \union new
                  ELSE IF w = "fetch" THEN waves[w].repos \ upgraded ELSE waves[w].repos
  <2>2. noted[w] = [waves[w] EXCEPT !.repos = r]
    OBVIOUS
  <2>3. r \subseteq Checkouts
    BY <1>1, <2>1 DEF WaveType
  <2>4. /\ new = {} => r = waves[w].repos
        /\ w # k /\ upgraded = {} => r = waves[w].repos
        /\ w # k /\ w # "fetch" => r = waves[w].repos
    BY <1>1
  <2> HIDE DEF r, noted, new, upgraded
  <2>5. r = waves[w].repos => noted[w] = waves[w]
    BY <2>1, <2>2 DEF WaveType
  <2>6. noted[w].scheduled = waves[w].scheduled /\ noted[w] \in WaveType
    BY <2>1, <2>2, <2>3 DEF WaveType
  <2> QED BY <2>4, <2>5, <2>6
<1>4. noted \in [Kinds -> WaveType]
  BY <1>3
<1>5. \A w : KindLive(w, pending, occupy) <=> \E j \in pending \union remotes : j[1] = w
  BY LiveNow DEF QInv
<1>6. \A w : KindLive(w, pending', occupy) <=> \E j \in pending' \union remotes : j[1] = w
  BY <1>2, LiveNext
<1>7. ended = IF upgraded = {} \/ KindLive("fetch", pending', occupy) THEN noted
              ELSE [noted EXCEPT !["fetch"] = EmptyWave]
  BY DEF WavesAfter
<1> HIDE DEF new, upgraded, noted, ended
<1>8. PendingCoalesced'
  <2>1. \A j \in remotes : \E g \in Gitdirs : occupy[g].by = "remote" /\ occupy[g].checkout = j[2]
                                              /\ occupy[g].kind = j[1]
    <3> SUFFICES ASSUME NEW j \in remotes
                 PROVE  \E g \in Gitdirs : occupy[g].by = "remote" /\ occupy[g].checkout = j[2]
                                            /\ occupy[g].kind = j[1]
      OBVIOUS
    <3>1. GitdirOf[j[2]] \in Gitdirs /\ occupy[GitdirOf[j[2]]] = Remote(j[1], j[2])
      BY HeldByIsGitdirOf DEF QInv
    <3> QED BY <3>1
  <2>2. ASSUME NEW c \in new
        PROVE  /\ <<k, c>> \notin remotes
               /\ k = "fetch" => <<"pull", c>> \notin pending \union remotes
    <3>1. ASSUME NEW w, <<w, c>> \in remotes, w = k \/ (k = "fetch" /\ w = "pull") PROVE FALSE
      <4>1. PICK g \in Gitdirs : occupy[g].by = "remote" /\ occupy[g].checkout = c /\ occupy[g].kind = w
        BY <2>1, <3>1
      <4>2. InFlightCovers(k, c)
        BY <3>1, <4>1 DEF InFlightCovers
      <4> QED BY <1>1, <4>2
    <3> QED BY <1>1, <3>1 DEF PendingCovers
  <2>3. ASSUME NEW j \in pending, j \in pending', j[1] = "fetch", k = "pull" PROVE j[2] \notin new
    <3>1. j = <<"fetch", j[2]>>
      BY <2>3 DEF QInv, IInv, TypeOK, Jobs
    <3>2. j \notin {<<"fetch", c>> : c \in upgraded}
      BY <1>2, <2>3
    <3> QED BY <1>1, <2>3, <3>1, <3>2
  <2>4. \A j \in pending : /\ j \notin remotes
                           /\ j[1] = "fetch" => <<"pull", j[2]>> \notin pending \union remotes
    BY DEF QInv, QueueInOrder, PendingCoalesced
  <2>5. ASSUME NEW j \in pending'
        PROVE  /\ j \notin remotes
               /\ j[1] = "fetch" => <<"pull", j[2]>> \notin pending' \union remotes
    <3>1. CASE j \in pending
      BY <1>2, <2>3, <2>4, <2>5, <3>1
    <3>2. CASE \E c \in new : j = <<k, c>>
      BY <1>2, <2>2, <3>2
    <3> QED BY <1>2, <2>5, <3>1, <3>2
  <2> QED BY <1>2, <2>5 DEF PendingCoalesced
<1>9. ASSUME NEW w \in Kinds, ~KindLive(w, pending', occupy) PROVE waves'[w] = EmptyWave
  <2>1. CASE w = k
    <3>1. new = {}
      <4>1. SUFFICES ASSUME NEW c \in new PROVE FALSE
        OBVIOUS
      <4>2. <<k, c>> \in pending' /\ <<k, c>>[1] = w
        BY <1>2, <2>1, <4>1
      <4> QED BY <1>6, <1>9, <4>2
    <3>2. upgraded = {} /\ pending' = pending
      BY <1>1, <1>2, <3>1
    <3>3. waves' = noted
      BY <1>2, <1>7, <1>9, <2>1, <3>2
    <3>4. waves[w] = EmptyWave
      BY <1>9, <3>2 DEF QInv, QueueInOrder, WavesEndEmpty
    <3> QED BY <1>3, <3>1, <3>3, <3>4
  <2>2. CASE w # k /\ w = "fetch" /\ upgraded # {}
    <3>1. ended[w] = EmptyWave
      BY <1>4, <1>7, <1>9, <2>2
    <3>2. waves'[w] = ended[w]
      BY <1>2, <1>4, <1>7, <2>2 DEF EmptyWave
    <3> QED BY <3>1, <3>2
  <2>3. CASE w # k /\ (w # "fetch" \/ upgraded = {})
    <3>1. ~KindLive(w, pending, occupy)
      <4>1. SUFFICES ASSUME NEW j \in pending \union remotes, j[1] = w PROVE FALSE
        BY <1>5
      <4>2. j \notin pending' \union remotes
        BY <1>6, <1>9, <4>1
      <4>3. j \in {<<"fetch", c>> : c \in upgraded}
        BY <1>2, <4>2
      <4> QED BY <2>3, <4>1, <4>3
    <3>2. waves[w] = EmptyWave
      BY <3>1 DEF QInv, QueueInOrder, WavesEndEmpty
    <3>3. ended[w] = noted[w]
      BY <1>4, <1>7, <2>3
    <3>4. waves'[w] = ended[w]
      BY <1>2, <1>4, <1>7, <2>3 DEF EmptyWave
    <3> QED BY <1>3, <2>3, <3>2, <3>3, <3>4
  <2> QED BY <2>1, <2>2, <2>3
<1>10. ASSUME claim' PROVE KindLive("fetch", pending', occupy) /\ waves'["fetch"].scheduled
  <2>1. KindLive("fetch", pending', occupy)
    BY <1>2, <1>10
  <2>2. "fetch" \in Kinds
    BY <1>2, <1>6, <2>1 DEF QInv, IInv, TypeOK, Jobs
  <2>3. ended = noted
    BY <1>7, <2>1
  <2>4. CASE k = "fetch"
    <3>1. waves'["fetch"].scheduled = (waves["fetch"].scheduled \/ ~foreground)
      BY <1>2, <1>3, <1>4, <2>1, <2>2, <2>3, <2>4 DEF WaveType
    <3>2. claim => waves["fetch"].scheduled
      BY DEF QInv, QueueInOrder, WavesEndEmpty
    <3> QED BY <1>10, <2>1, <3>1, <3>2
  <2>5. CASE k # "fetch"
    <3>1. waves'["fetch"] = noted["fetch"]
      BY <1>2, <1>4, <2>2, <2>3, <2>5
    <3>2. waves["fetch"].scheduled
      BY <1>10, <2>5 DEF QInv, QueueInOrder, WavesEndEmpty
    <3> QED BY <1>3, <2>1, <2>2, <3>1, <3>2
  <2> QED BY <2>4, <2>5
<1>11. SlotsCoverEligible'
  BY <1>2, PumpedCovers DEF QInv, IInv, TypeOK, SlotsCoverEligible
<1> QED
  BY <1>2, <1>8, <1>9, <1>10, <1>11 DEF QInv, QueueInOrder, WavesEndEmpty

\* A job that starts was pending: its kind stays live, and the one slot it
\* takes was for its gitdir.
LEMMA StartRemoteKeepsQueue ==
    ASSUME QInv, IInv', NEW j \in pending, StartRemote(j)
    PROVE  QInv'
<1> DEFINE d == GitdirOf[j[2]]
<1>1. /\ occupy[d] = Free /\ d \in Gitdirs /\ slots > 0 /\ slots \in Nat
      /\ slots' = slots - 1
      /\ pending' = pending \ {j} /\ remotes' = remotes \union {j}
      /\ occupy' = [occupy EXCEPT ![d] = Remote(j[1], j[2])]
      /\ UNCHANGED <<waves, claim>>
  BY RemoteQueueAssumption DEF StartRemote, QInv, IInv, TypeOK, Jobs
<1>2. pending' \union remotes' = pending \union remotes
  BY <1>1
<1>3. \A k : KindLive(k, pending', occupy') <=> KindLive(k, pending, occupy)
  BY <1>2, LiveNow, LiveNext DEF QInv
<1>4. WavesEndEmpty'
  BY <1>1, <1>3 DEF QInv, QueueInOrder, WavesEndEmpty
<1>5. PendingCoalesced'
  <2>1. j = <<j[1], j[2]>>
    BY DEF QInv, IInv, TypeOK, Jobs
  <2> QED BY <1>1, <1>2, <2>1 DEF QInv, QueueInOrder, PendingCoalesced
<1>6. SlotsCoverEligible'
  <2>1. d \in Eligible(pending, occupy)
    BY <1>1 DEF Eligible
  <2>2. occupy'[d] # Free
    BY <1>1 DEF QInv, IInv, TypeOK
  <2>3. \A g \in Gitdirs : g # d => occupy'[g] = occupy[g]
    BY <1>1 DEF QInv, IInv, TypeOK
  <2>4. Eligible(pending', occupy') \subseteq Eligible(pending, occupy) \ {d}
    BY <1>1, <2>2, <2>3 DEF Eligible
  <2>5. EligibleCount(pending', occupy') <= EligibleCount(pending, occupy) - 1
    BY <2>1, <2>4, EligibleDrops
  <2> QED BY <1>1, <2>5, EligibleFinite DEF QInv, QueueInOrder, SlotsCoverEligible
<1> QED BY <1>4, <1>5, <1>6 DEF QInv, QueueInOrder

\* The last job of a kind to land empties its wave, an earlier one adds to it.
LEMMA LandRemoteKeepsQueue ==
    ASSUME QInv, IInv', NEW j \in remotes, LandRemote(j[1], j[2])
    PROVE  QInv'
<1> DEFINE k == j[1]
           ws == [waves EXCEPT ![k].repos = @ \union {j[2]}, ![k].ran = TRUE]
<1>1. j = <<j[1], j[2]>> /\ k \in Kinds /\ j[2] \in Checkouts
  BY DEF QInv, IInv, TypeOK, Jobs
<1>2. /\ remotes' = remotes \ {j}
      /\ waves' = WavesAfter(k, ws, pending, occupy')
      /\ claim' = ClaimAfter(pending, occupy')
      /\ slots' = Pumped(slots, pending, occupy')
      /\ pending' = pending
  BY <1>1 DEF LandRemote
<1>3. \A w : KindLive(w, pending, occupy) <=> \E i \in pending \union remotes : i[1] = w
  BY LiveNow DEF QInv
<1>4. \A w : KindLive(w, pending, occupy') <=> \E i \in pending \union remotes' : i[1] = w
  BY <1>2, LiveNext
<1>5. /\ ws \in [Kinds -> WaveType]
      /\ \A w \in Kinds : /\ w # k => ws[w] = waves[w]
                          /\ ws[w].scheduled = waves[w].scheduled
  <2>1. waves \in [Kinds -> WaveType] /\ waves[k] \in WaveType
    BY <1>1 DEF QInv, IInv, TypeOK
  <2>2. ws = [waves EXCEPT ![k] = [waves[k] EXCEPT !.repos = @ \union {j[2]}, !.ran = TRUE]]
    BY <1>1, <2>1 DEF WaveType
  <2> HIDE DEF k, ws
  <2>3. [waves[k] EXCEPT !.repos = @ \union {j[2]}, !.ran = TRUE] \in WaveType
    BY <1>1, <2>1 DEF WaveType
  <2>4. [waves[k] EXCEPT !.repos = @ \union {j[2]}, !.ran = TRUE].scheduled = waves[k].scheduled
    BY <2>1 DEF WaveType
  <2> QED BY <1>1, <2>1, <2>2, <2>3, <2>4
<1> HIDE DEF ws
<1>6. waves' = IF KindLive(k, pending, occupy') THEN ws ELSE [ws EXCEPT ![k] = EmptyWave]
  BY <1>2 DEF WavesAfter
<1>7. \A w \in Kinds : /\ w # k => waves'[w] = waves[w]
                       /\ KindLive(w, pending, occupy') => waves'[w].scheduled = waves[w].scheduled
  <2> SUFFICES ASSUME NEW w \in Kinds
               PROVE  /\ w # k => waves'[w] = waves[w]
                      /\ KindLive(w, pending, occupy') => waves'[w].scheduled = waves[w].scheduled
    OBVIOUS
  <2>1. w # k => waves'[w] = waves[w]
    BY <1>5, <1>6
  <2>2. KindLive(k, pending, occupy') => waves'[k].scheduled = waves[k].scheduled
    BY <1>1, <1>5, <1>6
  <2> QED BY <2>1, <2>2
<1>8. ASSUME NEW w \in Kinds, ~KindLive(w, pending, occupy') PROVE waves'[w] = EmptyWave
  <2>1. CASE w = k
    BY <1>1, <1>5, <1>6, <1>8, <2>1
  <2>2. CASE w # k
    <3>1. ~KindLive(w, pending, occupy)
      BY <1>2, <1>3, <1>4, <1>8, <2>2
    <3> QED BY <1>7, <2>2, <3>1 DEF QInv, QueueInOrder, WavesEndEmpty
  <2> QED BY <2>1, <2>2
<1>9. ASSUME claim' PROVE KindLive("fetch", pending, occupy') /\ waves'["fetch"].scheduled
  <2>1. claim /\ KindLive("fetch", pending, occupy')
    BY <1>2, <1>9 DEF ClaimAfter
  <2>2. "fetch" \in Kinds
    BY <1>2, <1>4, <2>1 DEF QInv, IInv, TypeOK, Jobs
  <2>3. waves["fetch"].scheduled
    BY <2>1 DEF QInv, QueueInOrder, WavesEndEmpty
  <2> QED BY <1>7, <2>1, <2>2, <2>3
<1>10. PendingCoalesced'
  BY <1>2 DEF QInv, QueueInOrder, PendingCoalesced
<1>11. SlotsCoverEligible'
  BY <1>2, PumpedCovers DEF QInv, IInv, TypeOK, SlotsCoverEligible
<1> QED BY <1>2, <1>8, <1>9, <1>10, <1>11 DEF QInv, QueueInOrder, WavesEndEmpty

\* A write or a batch takes gitdirs away from the queue, and its end pumps it.
LEMMA WritesKeepQueue ==
    ASSUME QInv, IInv',
           \/ \E c \in Checkouts : EnqueueWrite(c)
           \/ \E g \in writing : LandWrite(g)
           \/ \E repos \in Targets : DefaultBranchKey(repos)
           \/ \E c \in switching : LandSwitch(c)
    PROVE  QInv'
<1>1. UNCHANGED <<pending, remotes, waves, claim>>
  BY DEF EnqueueWrite, LandWrite, DefaultBranchKey, LandSwitch
<1>2. slots \in Nat /\ slots >= EligibleCount(pending, occupy)
  BY DEF QInv, IInv, TypeOK, QueueInOrder, SlotsCoverEligible
<1>3. slots' >= EligibleCount(pending', occupy')
  <2>1. CASE slots' = slots /\ \A g \in Gitdirs : occupy'[g] = Free => occupy[g] = Free
    <3>1. Eligible(pending', occupy') \subseteq Eligible(pending, occupy)
      BY <1>1, <2>1 DEF Eligible
    <3>2. EligibleCount(pending', occupy') <= EligibleCount(pending, occupy)
      BY <3>1, EligibleMonotone
    <3> QED BY <1>2, <2>1, <3>2, EligibleFinite
  <2>2. CASE slots' = Pumped(slots, pending, occupy')
    BY <1>1, <1>2, <2>2, PumpedCovers
  <2>3. ASSUME NEW c \in Checkouts, EnqueueWrite(c)
        PROVE  slots' = slots /\ \A g \in Gitdirs : occupy'[g] = Free => occupy[g] = Free
    BY <2>3, RemoteQueueAssumption DEF EnqueueWrite, QInv, IInv, TypeOK
  <2>4. ASSUME NEW repos \in Targets, DefaultBranchKey(repos)
        PROVE  slots' = slots /\ \A g \in Gitdirs : occupy'[g] = Free => occupy[g] = Free
    BY <2>4 DEF DefaultBranchKey
  <2>5. ASSUME NEW g \in writing, LandWrite(g) PROVE slots' = Pumped(slots, pending, occupy')
    BY <2>5 DEF LandWrite
  <2>6. ASSUME NEW c \in switching, LandSwitch(c)
        PROVE  \/ slots' = Pumped(slots, pending, occupy')
               \/ slots' = slots /\ occupy' = occupy
    BY <2>6 DEF LandSwitch
  <2> QED BY <2>1, <2>2, <2>3, <2>4, <2>5, <2>6
<1> QED BY <1>1, <1>3, LeavesQueueInOrder

\* Nothing is live and nothing waits at the start.
LEMMA InitEstablishesQueue == Init => QInv
<1> SUFFICES ASSUME Init PROVE QInv
  OBVIOUS
<1>1. IInv /\ pending = {} /\ remotes = {} /\ claim = FALSE /\ slots = 0
      /\ waves = [k \in Kinds |-> EmptyWave]
  BY InitEstablishesIInv DEF Init
<1>2. Eligible(pending, occupy) = {}
  BY <1>1 DEF Eligible
<1>3. EligibleCount(pending, occupy) = 0
  BY <1>2, EligibleFinite, FS_EmptySet
<1> QED BY <1>1, <1>3 DEF QInv, QueueInOrder, PendingCoalesced, WavesEndEmpty, SlotsCoverEligible

\* Every step keeps the queue in order.
LEMMA StepKeepsQueue == QInv /\ [Next]_vars => QInv'
<1> SUFFICES ASSUME QInv, [Next]_vars PROVE QInv'
  OBVIOUS
<1>0. IInv'
  BY StepKeepsIInv DEF QInv
<1>1. ASSUME NEW k \in Kinds, NEW repos \in Targets, RemoteKey(k, repos) PROVE QInv'
  <2>1. StartBulk(k, repos, TRUE) /\ claim' = ClaimAfter(pending', occupy)
        /\ occupy' = occupy /\ repos \in SUBSET Checkouts
    BY <1>1 DEF RemoteKey, StartBulk, Targets
  <2> QED BY <1>0, <2>1, StartBulkKeepsQueue DEF ClaimAfter
<1>2. ASSUME NEW repos \in Targets, NEW granted \in BOOLEAN, FetchTick(repos, granted) PROVE QInv'
  <2>1. /\ StartBulk("fetch", repos, FALSE) /\ "fetch" \in Kinds
        /\ claim' = (granted /\ KindLive("fetch", pending', occupy))
        /\ occupy' = occupy /\ repos \in SUBSET Checkouts
    BY <1>2 DEF FetchTick, StartBulk, Targets
  <2> QED BY <1>0, <2>1, StartBulkKeepsQueue
<1>3. ASSUME NEW j \in pending, StartRemote(j) PROVE QInv'
  BY <1>0, <1>3, StartRemoteKeepsQueue
<1>4. ASSUME DropSlot PROVE QInv'
  <2>1. slots' >= EligibleCount(pending', occupy')
        /\ UNCHANGED <<pending, remotes, waves, claim>>
    BY <1>4 DEF DropSlot, QInv, IInv, TypeOK
  <2> QED BY <1>0, <2>1, LeavesQueueInOrder
<1>5. ASSUME NEW j \in remotes, LandRemote(j[1], j[2]) PROVE QInv'
  BY <1>0, <1>5, LandRemoteKeepsQueue
<1>6. ASSUME NEW c \in Checkouts, WriteKey(c) \/ StashMenuKey(c) PROVE QInv'
  BY <1>0, <1>6, WritesKeepQueue DEF WriteKey, StashMenuKey
<1>7. ASSUME \/ \E g \in writes : StartWrite(g)
             \/ \E c \in left : StartSwitch(c)
             \/ UNCHANGED vars
      PROVE  QInv'
  <2>1. UNCHANGED <<pending, remotes, waves, claim, slots, occupy>>
    BY <1>7 DEF StartWrite, StartSwitch, vars, local
  <2>2. slots' >= EligibleCount(pending', occupy')
    BY <2>1 DEF QInv, QueueInOrder, SlotsCoverEligible
  <2> QED BY <1>0, <2>1, <2>2, LeavesQueueInOrder
<1>8. ASSUME \/ \E g \in writing : LandWrite(g)
             \/ \E repos \in Targets : DefaultBranchKey(repos)
             \/ \E c \in switching : LandSwitch(c)
      PROVE  QInv'
  BY <1>0, <1>8, WritesKeepQueue
<1> QED
  BY <1>1, <1>2, <1>3, <1>4, <1>5, <1>6, <1>7, <1>8 DEF Next

\* The queue stays in order however keys, ticks, starts and landings
\* interleave: no job waits behind one that does its work, a wave leaks
\* nothing into the next, the claim is not kept past its wave, and a job that
\* could start has a slot.
THEOREM QueueOrderHolds == Spec => []QueueInOrder
<1>1. QInv => QueueInOrder
  BY DEF QInv
<1> QED BY <1>1, InitEstablishesQueue, StepKeepsQueue, PTL DEF Spec, Safe
=============================================================================
