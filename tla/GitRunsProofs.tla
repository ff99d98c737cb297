--------------------------- MODULE GitRunsProofs ---------------------------
(***************************************************************************)
(* Proofs about git in the background.                                     *)
(*                                                                         *)
(* GitRuns, for any number of workers, slots and jobs: the stop at quit    *)
(* meets every git but the one that restores the user's work, and a pull   *)
(* gives back what it stashed whenever ws quits.                           *)
(*                                                                         *)
(* FetchClaim, for every set of instances and workspaces, every interval   *)
(* and any clock: the claim of the scheduled fetch excludes, its record    *)
(* counts, and an instance that waits shows the outcome of the one that    *)
(* fetched.                                                                *)
(***************************************************************************)
EXTENDS GitRuns, FetchClaim, SequenceTheorems, TLAPS

-----------------------------------------------------------------------------
(* The type invariant. *)

WorkType ==
    [job : JobKinds, step : Steps,
     at : {"idle", "check", "spawn", "register", "recheck", "wait", "grace", "over"},
     git : {"none", "runs", "ok", "bad"}, signal : {"no", "late", "stop"},
     stashed : BOOLEAN, spoiled : BOOLEAN, found : Repos]

\* A job takes the steps of its kind, and has a git once it is spawned.
Shape(k) ==
    /\ k.job = "plain" => k.step \in {"plain", "over"}
    /\ k.job = "pull" => k.step \in {"diff", "cached", "push", "pull", "pop", "over"}
    /\ k.job = "switch" => k.step \in {"diff", "cached", "fetch", "checkout", "create", "over"}
    /\ k.step = "over" <=> k.at = "over"
    /\ k.git = "none" <=> k.at \in {"idle", "check", "spawn", "over"}
    /\ k.git = "none" => k.signal = "no"
    /\ k.at = "grace" => k.signal # "no"
    /\ k.signal = "stop" => exit # "loop"

Flag == shutdown = (exit # "loop")

\* The state keeps its shape, and the flag is set before any slot is read.
GitTypeOK ==
    /\ exit \in {"loop", "look", "wait", "drop", "exited"}
    /\ Flag
    /\ looked \in 0..NSlots /\ stopped \subseteq Workers \X Steps
    /\ exit = "loop" => looked = 0
    /\ exit \in {"wait", "drop", "exited"} => looked = NSlots
    /\ groups \in [Slots -> (Workers \X Steps) \union {NoGroup}]
    /\ work \in [Workers -> WorkType]
    /\ \A w \in Workers : Shape(work[w])
    /\ repo \in [Workers -> [tree : Trees \union {"other"}, stash : Seq({"auto", "user"})]]
    /\ \A w \in Workers : At(w, "idle") => repo[w] \in Repos

-----------------------------------------------------------------------------
(* One step of a job. *)

\* The step after one of a job is one of the same job, or the first of a pull.
LEMMA NextStep ==
    ASSUME NEW k \in WorkType, Shape(k), k.step # "over", NEW ok \in BOOLEAN,
           NEW next \in NextSteps(k, ok)
    PROVE  /\ next \in Steps \union {"update"}
           /\ k.job = "plain" => next = "over"
           /\ k.job = "pull" => next \in {"cached", "push", "pull", "pop", "over"}
           /\ k.job = "switch" => next \in {"cached", "fetch", "checkout", "create", "update", "over"}
  <1>1. CASE k.job = "plain"
    BY <1>1 DEF NextSteps, Steps
  <1>2. CASE k.job = "pull"
    <2>1. k.step \in {"diff", "cached", "push", "pull", "pop"}
      BY <1>2 DEF Shape
    <2>2. next = PullStep(k, ok)
      BY <1>2 DEF NextSteps
    <2> QED
      BY <1>2, <2>1, <2>2 DEF PullStep, Steps
  <1>3. CASE k.job = "switch"
    <2>1. k.step \in {"diff", "cached", "fetch", "checkout", "create"}
      BY <1>3 DEF Shape
    <2>2. next \in SwitchSteps(k, ok)
      BY <1>3 DEF NextSteps
    <2> QED
      BY <1>3, <2>1, <2>2 DEF SwitchSteps, Steps
  <1> QED
    BY <1>1, <1>2, <1>3 DEF WorkType, JobKinds

\* What is left of a worker's state when its git is over.
LEMMA RunOverShape ==
    ASSUME work \in [Workers -> WorkType], NEW w \in Workers, Shape(work[w]), work[w].step # "over",
           NEW ok \in BOOLEAN, RunOver(w, ok)
    PROVE  /\ work' \in [Workers -> WorkType]
           /\ Shape(work'[w])
           /\ work'[w].at \in {"check", "over"} /\ work'[w].git = "none" /\ work'[w].signal = "no"
           /\ \A q \in Workers \ {w} : work'[q] = work[q]
  <1> DEFINE k == work[w]
  <1>1. PICK next \in NextSteps(k, ok) :
          work' = [work EXCEPT ![w] =
            [k EXCEPT !.job  = IF next = "update" THEN "pull" ELSE @,
                      !.step = IF next = "update" THEN "diff" ELSE next,
                      !.at   = IF next = "over" THEN "over" ELSE "check",
                      !.git = "none", !.signal = "no",
                      !.stashed = @ \/ (k.step = "push" /\ ok),
                      !.spoiled = @ \/ Spoils(k)]]
    BY DEF RunOver
  <1>2. k \in WorkType
    OBVIOUS
  <1>3. /\ next \in Steps \union {"update"}
        /\ k.job = "plain" => next = "over"
        /\ k.job = "pull" => next \in {"cached", "push", "pull", "pop", "over"}
        /\ k.job = "switch" => next \in {"cached", "fetch", "checkout", "create", "update", "over"}
    BY <1>2, NextStep
  <1>4. /\ (k.stashed \/ (k.step = "push" /\ ok)) \in BOOLEAN
        /\ (k.spoiled \/ Spoils(k)) \in BOOLEAN
    BY DEF Spoils
  <1> DEFINE job  == IF next = "update" THEN "pull" ELSE k.job
             step == IF next = "update" THEN "diff" ELSE next
             at   == IF next = "over" THEN "over" ELSE "check"
             sta  == k.stashed \/ (k.step = "push" /\ ok)
             spo  == k.spoiled \/ Spoils(k)
             new  == [k EXCEPT !.job = job, !.step = step, !.at = at, !.git = "none", !.signal = "no",
                               !.stashed = sta, !.spoiled = spo]
  <1>5. new \in WorkType /\ new.job = job /\ new.step = step /\ new.at = at
        /\ new.git = "none" /\ new.signal = "no"
    <2>1. job \in JobKinds /\ step \in Steps /\ at \in {"check", "over"}
      BY <1>2, <1>3 DEF WorkType, JobKinds, Steps
    <2>2. sta \in BOOLEAN /\ spo \in BOOLEAN
      BY <1>4
    <2> HIDE DEF job, step, at, sta, spo, k
    <2> QED
      BY <1>2, <2>1, <2>2 DEF WorkType
  <1>6. work' = [work EXCEPT ![w] = new]
    BY <1>1
  <1>7. Shape(new)
    BY <1>2, <1>3, <1>5 DEF Shape, WorkType
  <1> HIDE DEF new
  <1> QED
    BY <1>5, <1>6, <1>7

-----------------------------------------------------------------------------
(* Steps keep the type. *)

LEMMA DoneType ==
    ASSUME NEW r \in [tree : Trees \union {"other"}, stash : Seq({"auto", "user"})], NEW step
    PROVE  Done(step, r) \in [tree : Trees \union {"other"}, stash : Seq({"auto", "user"})]
  <1>1. Pushed(r) \in [tree : Trees \union {"other"}, stash : Seq({"auto", "user"})]
    <2>1. <<"auto">> \in Seq({"auto", "user"})
      OBVIOUS
    <2>2. <<"auto">> \o r.stash \in Seq({"auto", "user"})
      BY <2>1
    <2> QED
      BY <2>2 DEF Pushed, Trees
  <1>2. Popped(r) \in [tree : Trees \union {"other"}, stash : Seq({"auto", "user"})]
    BY DEF Popped, Trees
  <1> QED
    BY <1>1, <1>2 DEF Done

LEMMA InitType == GitInit => GitTypeOK
  <1> SUFFICES ASSUME GitInit PROVE GitTypeOK
    OBVIOUS
  <1>1. [tree |-> "none", stash |-> <<>>] \in Repos
    BY DEF Repos, Trees
  <1>2. \A w \in Workers : repo[w] = [tree |-> "none", stash |-> <<>>]
    BY DEF GitInit
  <1>3. \A w \in Workers :
          work[w] = [job |-> "plain", step |-> "plain", at |-> "idle", git |-> "none", signal |-> "no",
                     stashed |-> FALSE, spoiled |-> FALSE, found |-> [tree |-> "none", stash |-> <<>>]]
    BY <1>2 DEF GitInit, NewWork
  <1>4. work \in [Workers -> WorkType]
    <2>1. \A w \in Workers : work[w] \in WorkType
      <3> TAKE w \in Workers
      <3>1. PICK none : none = [tree |-> "none", stash |-> <<>>]
        OBVIOUS
      <3>2. none \in Repos
        BY <1>1, <3>1
      <3>3. work[w] = [job |-> "plain", step |-> "plain", at |-> "idle", git |-> "none", signal |-> "no",
                       stashed |-> FALSE, spoiled |-> FALSE, found |-> none]
        BY <1>3, <3>1
      <3> QED
        BY <3>2, <3>3 DEF WorkType, JobKinds, Steps
    <2>2. work = [w \in Workers |-> work[w]]
      BY DEF GitInit
    <2> QED
      BY <2>1, <2>2
  <1>5. \A w \in Workers : Shape(work[w])
    <2> TAKE w \in Workers
    <2>1. work[w].job = "plain" /\ work[w].step = "plain" /\ work[w].at = "idle"
          /\ work[w].git = "none" /\ work[w].signal = "no"
      BY <1>3
    <2> QED
      BY <2>1 DEF Shape
  <1>6. repo \in [Workers -> [tree : Trees \union {"other"}, stash : Seq({"auto", "user"})]]
    BY DEF GitInit, Trees
  <1>7. groups \in [Slots -> (Workers \X Steps) \union {NoGroup}]
    BY DEF GitInit
  <1>8. Flag
    BY Zenon DEF GitInit, Flag
  <1>9. \A w \in Workers : At(w, "idle") => repo[w] \in Repos
    BY <1>1, <1>2
  <1> QED
    BY <1>4, <1>5, <1>6, <1>7, <1>8, <1>9, GitRunsAssumption DEF GitInit, GitTypeOK

\* A step of one worker's state that keeps its type and shape.
LEMMA WorkerType ==
    ASSUME GitTypeOK, NEW w \in Workers, work' = [work EXCEPT ![w] = work'[w]],
           work'[w] \in WorkType, Shape(work'[w]), work'[w].at # "idle",
           UNCHANGED exitVars,
           groups' \in [Slots -> (Workers \X Steps) \union {NoGroup}],
           repo' \in [Workers -> [tree : Trees \union {"other"}, stash : Seq({"auto", "user"})]],
           \A q \in Workers \ {w} : repo'[q] = repo[q]
    PROVE  GitTypeOK'
  <1>1. work' \in [Workers -> WorkType]
    BY DEF GitTypeOK
  <1>2. \A q \in Workers \ {w} : work'[q] = work[q]
    BY DEF GitTypeOK
  <1>3. \A q \in Workers : Shape(work[q])'
    <2> TAKE q \in Workers
    <2>1. exit' = exit
      BY DEF exitVars
    <2>2. Shape(work'[q])
      BY <1>2 DEF GitTypeOK
    <2> QED
      BY <2>1, <2>2 DEF Shape
  <1>4. \A q \in Workers : At(q, "idle")' => repo'[q] \in Repos
    BY <1>2 DEF GitTypeOK, At
  <1>5. Flag'
    BY Zenon DEF GitTypeOK, Flag, exitVars
  <1> QED
    BY <1>1, <1>3, <1>4, <1>5 DEF GitTypeOK, exitVars

\* git is over: its exit code and what it did.
LEMMA EndedType ==
    ASSUME GitTypeOK, NEW w \in Workers, NEW ok \in BOOLEAN,
           NEW after \in {repo[w], Done(work[w].step, repo[w])}, Running(w),
           Ended(w, ok, after), UNCHANGED <<exitVars, groups>>
    PROVE  GitTypeOK'
  <1> DEFINE k == work[w]
  <1>1. k \in WorkType /\ Shape(k)
    BY DEF GitTypeOK
  <1>2. work' = [work EXCEPT ![w] = [k EXCEPT !.git = IF ok THEN "ok" ELSE "bad"]]
    BY DEF Ended
  <1>3. after \in [tree : Trees \union {"other"}, stash : Seq({"auto", "user"})]
    BY DoneType DEF GitTypeOK
  <1>4. repo' = [repo EXCEPT ![w] = after]
    BY DEF Ended
  <1>5. work'[w] \in WorkType /\ Shape(work'[w]) /\ work'[w].at # "idle"
    <2>1. PICK j : j = [k EXCEPT !.git = IF ok THEN "ok" ELSE "bad"]
      OBVIOUS
    <2>2. work'[w] = j
      BY <1>2, <2>1 DEF GitTypeOK
    <2>3. j \in WorkType
      BY <1>1, <2>1 DEF WorkType
    <2>4. /\ j.job = k.job /\ j.step = k.step /\ j.at = k.at /\ j.signal = k.signal
          /\ j.stashed = k.stashed /\ j.git \in {"ok", "bad"}
      BY <1>1, <2>1 DEF WorkType
    <2>5. k.git = "runs"
      BY DEF Running
    <2>6. Shape(j) /\ j.at # "idle"
      BY <1>1, <2>4, <2>5 DEF Shape, WorkType
    <2> QED
      BY <2>2, <2>3, <2>6
  <1> QED
    BY <1>2, <1>3, <1>4, <1>5, WorkerType DEF GitTypeOK

\* A worker that only moves on.
LEMMA MovedType ==
    ASSUME NEW k \in WorkType,
           NEW at \in {"check", "spawn", "register", "recheck", "wait", "grace", "over"}
    PROVE  /\ [k EXCEPT !.at = at] \in WorkType
           /\ [k EXCEPT !.at = at].at = at
           /\ \A f \in {"job", "step", "git", "signal", "stashed", "spoiled", "found"} :
                  [k EXCEPT !.at = at][f] = k[f]
BY DEF WorkType

LEMMA WorkerStepType ==
    ASSUME GitTypeOK, NEW w \in Workers,
           \/ Spawn(w) \/ Register(w) \/ Recheck(w) \/ Deadline(w) \/ GraceOver(w)
           \/ GitEnds(w) \/ GitFails(w) \/ GitCut(w)
    PROVE  GitTypeOK'
  <1> DEFINE k == work[w]
  <1> USE DEF GitTypeOK
  <1>1. k \in WorkType /\ Shape(k)
    OBVIOUS
  <1>3. CASE Spawn(w)
    <2>1. work' = [work EXCEPT ![w] = [k EXCEPT !.at = "register", !.git = "runs"]]
      BY <1>3 DEF Spawn
    <2>2. work'[w] \in WorkType /\ Shape(work'[w]) /\ work'[w].at # "idle"
      BY <1>1, <1>3, <2>1 DEF Spawn, At, Shape, WorkType
    <2> QED
      BY <1>3, <2>1, <2>2, WorkerType DEF Spawn
  <1>4. CASE Register(w)
    <2>1. work' = [work EXCEPT ![w] = [k EXCEPT !.at = "recheck"]]
      BY <1>4 DEF Register, Proceed
    <2>2. work'[w] \in WorkType /\ Shape(work'[w]) /\ work'[w].at # "idle"
      <3>1. PICK j : j = [k EXCEPT !.at = "recheck"]
        OBVIOUS
      <3>2. work'[w] = j
        BY <2>1, <3>1
      <3>3. /\ j \in WorkType /\ j.at = "recheck" /\ j.job = k.job /\ j.step = k.step
            /\ j.git = k.git /\ j.signal = k.signal
        BY <1>1, <3>1, MovedType
      <3>4. k.at = "register"
        BY <1>4 DEF Register, At
      <3>5. Shape(j)
        BY <1>1, <3>3, <3>4 DEF Shape
      <3> QED
        BY <3>2, <3>3, <3>5
    <2>3. Group(w) \in Workers \X Steps
      BY <1>1 DEF Group, WorkType
    <2>4. groups' \in [Slots -> (Workers \X Steps) \union {NoGroup}]
      BY <1>4, <2>3 DEF Register
    <2> QED
      BY <1>4, <2>1, <2>2, <2>4, WorkerType DEF Register
  <1>5. CASE Recheck(w)
    <2>1. CASE MayStart(w)
      <3>1. work' = [work EXCEPT ![w] = [k EXCEPT !.at = "wait"]]
        BY <1>5, <2>1 DEF Recheck, Proceed
      <3>2. work'[w] \in WorkType /\ Shape(work'[w]) /\ work'[w].at # "idle"
        <4>1. PICK j : j = [k EXCEPT !.at = "wait"]
          OBVIOUS
        <4>2. work'[w] = j
          BY <3>1, <4>1
        <4>3. /\ j \in WorkType /\ j.at = "wait" /\ j.job = k.job /\ j.step = k.step
              /\ j.git = k.git /\ j.signal = k.signal
          BY <1>1, <4>1, MovedType
        <4>4. k.at = "recheck"
          BY <1>5 DEF Recheck, At
        <4>5. Shape(j)
          BY <1>1, <4>3, <4>4 DEF Shape
        <4> QED
          BY <4>2, <4>3, <4>5
      <3> QED
        BY <1>5, <3>1, <3>2, WorkerType DEF Recheck
    <2>2. CASE ~MayStart(w)
      <3>1. work' = [work EXCEPT ![w] = [k EXCEPT !.at = "grace", !.signal = "stop"]]
        BY <1>5, <2>2 DEF Recheck
      <3>2. exit # "loop"
        BY <2>2, Zenon DEF MayStart, Flag
      <3>3. work'[w] \in WorkType /\ Shape(work'[w]) /\ work'[w].at # "idle"
        <4>1. PICK j : j = [k EXCEPT !.at = "grace", !.signal = "stop"]
          OBVIOUS
        <4>2. work'[w] = j
          BY <3>1, <4>1
        <4>3. /\ j \in WorkType /\ j.at = "grace" /\ j.signal = "stop"
              /\ j.job = k.job /\ j.step = k.step /\ j.git = k.git
          BY <1>1, <4>1 DEF WorkType
        <4>4. k.at = "recheck"
          BY <1>5 DEF Recheck, At
        <4>5. Shape(j)
          BY <1>1, <3>2, <4>3, <4>4 DEF Shape
        <4> QED
          BY <4>2, <4>3, <4>5
      <3> QED
        BY <1>5, <3>1, <3>3, WorkerType DEF Recheck
    <2> QED
      BY <2>1, <2>2
  <1>6. CASE Deadline(w)
    <2>1. work' = [work EXCEPT ![w] = [k EXCEPT !.at = "grace", !.signal = IF k.signal = "no" THEN "late" ELSE k.signal]]
      BY <1>6 DEF Deadline
    <2>2. k.git = "runs" /\ k.at = "wait"
      BY <1>6 DEF Deadline, At, Running
    <2>3. (IF k.signal = "no" THEN "late" ELSE k.signal) \in {"no", "late", "stop"}
      BY <1>1 DEF WorkType
    <2>4. work'[w] \in WorkType /\ work'[w].at = "grace"
          /\ work'[w].job = k.job /\ work'[w].step = k.step /\ work'[w].git = k.git
          /\ work'[w].signal = (IF k.signal = "no" THEN "late" ELSE k.signal)
      BY <1>1, <2>1, <2>3 DEF WorkType
    <2>5. Shape(work'[w])
      BY <1>1, <2>2, <2>4 DEF Shape
    <2> QED
      BY <1>6, <2>1, <2>4, <2>5, WorkerType DEF Deadline
  <1>7. CASE GraceOver(w)
    BY <1>7, EndedType DEF GraceOver
  <1>8. CASE GitEnds(w)
    <2>1. Succeeds(work[w].step, repo[w]) \in BOOLEAN
      BY DEF Succeeds
    <2> QED
      BY <1>8, <2>1, EndedType DEF GitEnds
  <1>9. CASE GitFails(w)
    <2>1. work' = [work EXCEPT ![w] = [k EXCEPT !.git = "bad", !.spoiled = TRUE]]
      BY <1>9 DEF GitFails
    <2>2. k.git = "runs"
      BY <1>9 DEF GitFails, Running
    <2>3. work'[w] = [k EXCEPT !.git = "bad", !.spoiled = TRUE]
      BY <2>1
    <2>4. work'[w] \in WorkType
      BY <1>1, <2>3 DEF WorkType
    <2>5. work'[w].job = k.job /\ work'[w].step = k.step /\ work'[w].at = k.at
          /\ work'[w].git = "bad" /\ work'[w].signal = k.signal
      BY <1>1, <2>3 DEF WorkType
    <2>6. Shape(work'[w]) /\ work'[w].at # "idle"
      BY <1>1, <2>2, <2>5 DEF Shape
    <2> QED
      BY <1>9, <2>1, <2>4, <2>6, WorkerType DEF GitFails
  <1>10. CASE GitCut(w)
    BY <1>10, EndedType DEF GitCut
  <1> QED
    BY <1>3, <1>4, <1>5, <1>6, <1>7, <1>8, <1>9, <1>10

\* A job starts, goes on after a refusal or after its git, or the quit begins.
LEMMA StartType ==
    ASSUME GitTypeOK, NEW w \in Workers, NEW job \in JobsOf[w], Start(w, job)
    PROVE  GitTypeOK'
  <1>1. PICK r \in (IF job = "plain" THEN {repo[w]} ELSE Repos) :
          /\ repo' = [repo EXCEPT ![w] = r]
          /\ work' = [work EXCEPT ![w] = NewWork(job, r)]
    BY DEF Start
  <1>2. job \in JobKinds
    BY GitRunsAssumption
  <1>3. r \in Repos
    BY <1>1 DEF Start, GitTypeOK
  <1>4. r \in [tree : Trees \union {"other"}, stash : Seq({"auto", "user"})]
    <2>1. <<>> \in Seq({"auto", "user"}) /\ <<"user">> \in Seq({"auto", "user"})
      OBVIOUS
    <2> QED
      BY <1>3, <2>1 DEF Repos, Trees
  <1>5. repo' \in [Workers -> [tree : Trees \union {"other"}, stash : Seq({"auto", "user"})]]
    BY <1>1, <1>4 DEF GitTypeOK
  <1>6. work'[w] = NewWork(job, r)
    BY <1>1 DEF GitTypeOK
  <1>7. work'[w] \in WorkType
    BY <1>2, <1>3, <1>6 DEF NewWork, WorkType, JobKinds, Steps
  <1>8. work'[w].job = job /\ work'[w].step = (IF job = "plain" THEN "plain" ELSE "diff")
        /\ work'[w].at = "check" /\ work'[w].git = "none" /\ work'[w].signal = "no"
    BY <1>6 DEF NewWork
  <1>9. Shape(work'[w])
    BY <1>2, <1>8 DEF Shape, JobKinds
  <1>10. UNCHANGED <<exitVars, groups>>
    BY DEF Start
  <1> QED
    BY <1>1, <1>5, <1>6, <1>7, <1>8, <1>9, <1>10, WorkerType DEF GitTypeOK

LEMMA OverType ==
    ASSUME GitTypeOK, NEW w \in Workers, work[w].step # "over", NEW ok \in BOOLEAN, RunOver(w, ok),
           UNCHANGED <<exitVars, repo>>,
           groups' \in [Slots -> (Workers \X Steps) \union {NoGroup}]
    PROVE  GitTypeOK'
  <1>1. /\ work' \in [Workers -> WorkType]
        /\ Shape(work'[w])
        /\ work'[w].at \in {"check", "over"}
        /\ \A q \in Workers \ {w} : work'[q] = work[q]
    BY RunOverShape DEF GitTypeOK
  <1>2. work' = [work EXCEPT ![w] = work'[w]]
    BY <1>1 DEF GitTypeOK
  <1> QED
    BY <1>1, <1>2, WorkerType DEF GitTypeOK

LEMMA JobStepType ==
    ASSUME GitTypeOK, NEW w \in Workers, Check(w) \/ Reap(w)
    PROVE  GitTypeOK'
  <1>1. work[w] \in WorkType /\ Shape(work[w])
    BY DEF GitTypeOK
  <1>2. CASE Check(w) /\ MayStart(w)
    <2>1. work' = [work EXCEPT ![w] = [work[w] EXCEPT !.at = "spawn"]]
      BY <1>2 DEF Check, Proceed
    <2>2. work'[w] \in WorkType /\ Shape(work'[w]) /\ work'[w].at # "idle"
      BY <1>1, <1>2, <2>1 DEF Check, At, Shape, WorkType, GitTypeOK
    <2> QED
      BY <1>2, <2>1, <2>2, WorkerType DEF Check, GitTypeOK
  <1>3. CASE Check(w) /\ ~MayStart(w)
    <2>1. RunOver(w, FALSE) /\ UNCHANGED <<exitVars, groups, repo>>
      BY <1>3 DEF Check
    <2>2. work[w].step # "over"
      BY <1>1, <1>3 DEF Check, At, Shape
    <2> QED
      BY <2>1, <2>2, OverType DEF GitTypeOK
  <1>4. CASE Reap(w)
    <2>1. work[w].step # "over"
      BY <1>1, <1>4 DEF Reap, Shape
    <2>2. PICK ok \in BOOLEAN : RunOver(w, ok)
      BY <1>4 DEF Reap
    <2>3. groups' \in [Slots -> (Workers \X Steps) \union {NoGroup}]
      BY <1>4 DEF Reap, GitTypeOK
    <2> QED
      BY <1>4, <2>1, <2>2, <2>3, OverType DEF Reap
  <1> QED
    BY <1>2, <1>3, <1>4

\* The main thread changes signals and ends git, and nothing else of a job.
LEMMA Sent ==
    ASSUME GitTypeOK, exit # "loop", exit' # "loop",
           work' \in [Workers -> WorkType],
           \A w \in Workers :
              /\ work'[w].job = work[w].job /\ work'[w].step = work[w].step /\ work'[w].at = work[w].at
              /\ (work'[w].git = "none") = (work[w].git = "none")
              /\ work'[w].signal = work[w].signal \/ (work[w].git # "none" /\ work'[w].signal = "stop")
    PROVE  \A w \in Workers : Shape(work[w])'
  <1> TAKE w \in Workers
  <1>1. Shape(work[w])
    BY DEF GitTypeOK
  <1> QED
    BY <1>1 DEF Shape

LEMMA ExitStepType ==
    ASSUME GitTypeOK, Quit \/ Look \/ Terminate \/ WaitOver \/ Kill \/ Exit
    PROVE  GitTypeOK'
  <1> USE GitRunsAssumption
  <1>1. (Quit \/ ExitStep) => Flag'
    BY Zenon DEF GitTypeOK, Flag, Quit, ExitStep, Look, Terminate, WaitOver, Kill, Exit
  <1>2. CASE Quit
    <2>1. \A w \in Workers : Shape(work[w])'
      BY <1>2 DEF Quit, GitTypeOK, Shape
    <2> QED
      BY <1>1, <1>2, <2>1 DEF Quit, GitTypeOK, At
  <1>3. CASE Look
    <2>1. \A w \in Workers : Shape(work[w])'
      BY <1>3 DEF Look, GitTypeOK, Shape
    <2>2. looked + 1 \in Slots
      BY <1>3 DEF Look, GitTypeOK, Slots
    <2>3. stopped' \subseteq Workers \X Steps
      BY <1>3, <2>2 DEF Look, GitTypeOK
    <2>4. looked' \in 0..NSlots
      BY <1>3 DEF Look, GitTypeOK
    <2> QED
      BY <1>1, <1>3, <2>1, <2>3, <2>4 DEF Look, GitTypeOK, At, ExitStep
  <1>4. CASE Terminate
    <2> DEFINE ws == {w \in Workers : Running(w) /\ Group(w) \in stopped}
    <2>1. \A w \in Workers :
            work'[w] = IF w \in ws THEN [work[w] EXCEPT !.signal = "stop"] ELSE work[w]
      BY <1>4 DEF Terminate, Signalled
    <2>2. \A w \in ws : work[w].git = "runs"
      BY DEF Running
    <2>3. \A w \in Workers : work'[w] \in WorkType
      <3> TAKE w \in Workers
      <3>1. work[w] \in WorkType
        BY DEF GitTypeOK
      <3> HIDE DEF ws
      <3> QED
        BY <2>1, <3>1 DEF WorkType
    <2>4. work' \in [Workers -> WorkType]
      BY <1>4, <2>3 DEF Terminate, Signalled
    <2>5. \A w \in Workers :
              /\ work'[w].job = work[w].job /\ work'[w].step = work[w].step /\ work'[w].at = work[w].at
              /\ (work'[w].git = "none") = (work[w].git = "none")
              /\ work'[w].signal = work[w].signal \/ (work[w].git # "none" /\ work'[w].signal = "stop")
      <3> TAKE w \in Workers
      <3>1. work[w] \in WorkType
        BY DEF GitTypeOK
      <3>2. CASE w \in ws
        <4>1. work'[w] = [work[w] EXCEPT !.signal = "stop"]
          BY <2>1, <3>2
        <4> QED
          BY <2>2, <3>1, <3>2, <4>1 DEF WorkType
      <3>3. CASE w \notin ws
        <4>1. work'[w] = work[w]
          BY <2>1, <3>3
        <4> QED
          BY <4>1
      <3> QED
        BY <3>2, <3>3
    <2>6. \A w \in Workers : Shape(work[w])'
      BY <1>4, <2>4, <2>5, Sent DEF Terminate
    <2>7. \A w \in Workers : At(w, "idle")' => At(w, "idle")
      BY <2>5 DEF At
    <2> HIDE DEF ws
    <2> QED
      BY <1>1, <1>4, <2>4, <2>6, <2>7 DEF Terminate, GitTypeOK, ExitStep
  <1>5. CASE WaitOver
    <2>1. \A w \in Workers : Shape(work[w])'
      BY <1>5 DEF WaitOver, GitTypeOK, Shape
    <2> QED
      BY <1>1, <1>5, <2>1 DEF WaitOver, GitTypeOK, At, ExitStep
  <1>6. CASE Kill
    <2> DEFINE killed == {w \in Workers : Running(w) /\ Group(w) \in Left}
    <2>1. PICK done \in SUBSET killed :
            /\ work' = [w \in Workers |-> IF w \in killed THEN [work[w] EXCEPT !.git = "bad", !.signal = "stop"]
                                          ELSE work[w]]
            /\ repo' = [w \in Workers |-> IF w \in done THEN Done(work[w].step, repo[w]) ELSE repo[w]]
      BY <1>6 DEF Kill
    <2>2. \A w \in killed : work[w].git = "runs"
      BY DEF Running
    <2>3. \A w \in Workers : work'[w] \in WorkType
      <3> TAKE w \in Workers
      <3>1. work[w] \in WorkType
        BY DEF GitTypeOK
      <3>2. work'[w] = IF w \in killed THEN [work[w] EXCEPT !.git = "bad", !.signal = "stop"] ELSE work[w]
        BY <2>1
      <3> HIDE DEF killed
      <3> QED
        BY <3>1, <3>2 DEF WorkType
    <2>4. work' \in [Workers -> WorkType]
      BY <2>1, <2>3
    <2>5. \A w \in Workers :
              /\ work'[w].job = work[w].job /\ work'[w].step = work[w].step /\ work'[w].at = work[w].at
              /\ (work'[w].git = "none") = (work[w].git = "none")
              /\ work'[w].signal = work[w].signal \/ (work[w].git # "none" /\ work'[w].signal = "stop")
      <3> TAKE w \in Workers
      <3>1. work[w] \in WorkType
        BY DEF GitTypeOK
      <3>2. CASE w \in killed
        <4>1. work'[w] = [work[w] EXCEPT !.git = "bad", !.signal = "stop"]
          BY <2>1, <3>2
        <4> QED
          BY <2>2, <3>1, <3>2, <4>1 DEF WorkType
      <3>3. CASE w \notin killed
        <4>1. work'[w] = work[w]
          BY <2>1, <3>3
        <4> QED
          BY <4>1
      <3> QED
        BY <3>2, <3>3
    <2>6. \A w \in Workers : Shape(work[w])'
      BY <1>6, <2>4, <2>5, Sent DEF Kill
    <2>7. repo' \in [Workers -> [tree : Trees \union {"other"}, stash : Seq({"auto", "user"})]]
      <3>1. \A w \in Workers : repo[w] \in [tree : Trees \union {"other"}, stash : Seq({"auto", "user"})]
        BY DEF GitTypeOK
      <3>2. \A w \in Workers :
              Done(work[w].step, repo[w]) \in [tree : Trees \union {"other"}, stash : Seq({"auto", "user"})]
        BY <3>1, DoneType
      <3> QED
        BY <2>1, <3>1, <3>2
    <2>8. \A w \in Workers : At(w, "idle")' => repo'[w] \in Repos
      <3> SUFFICES ASSUME NEW w \in Workers, At(w, "idle")' PROVE repo'[w] \in Repos
        OBVIOUS
      <3>1. work[w].at = "idle"
        BY <2>5 DEF At
      <3>2. work[w].git = "none"
        BY <3>1 DEF GitTypeOK, Shape
      <3>3. w \notin done
        BY <2>2, <3>2
      <3> QED
        BY <2>1, <3>1, <3>3 DEF GitTypeOK, At
    <2> HIDE DEF killed
    <2> QED
      BY <1>1, <1>6, <2>4, <2>6, <2>7, <2>8 DEF Kill, GitTypeOK, ExitStep
  <1>7. CASE Exit
    <2>1. \A w \in Workers : Shape(work[w])'
      BY <1>7 DEF Exit, GitTypeOK, Shape
    <2> QED
      BY <1>1, <1>7, <2>1 DEF Exit, GitTypeOK, At, ExitStep
  <1> QED
    BY <1>2, <1>3, <1>4, <1>5, <1>6, <1>7

LEMMA TypeStep == GitTypeOK /\ [GitNext]_gitVars => GitTypeOK'
  <1> SUFFICES ASSUME GitTypeOK, [GitNext]_gitVars PROVE GitTypeOK'
    OBVIOUS
  <1>1. CASE UNCHANGED gitVars
    <2>1. Flag'
      BY <1>1, Zenon DEF gitVars, exitVars, GitTypeOK, Flag
    <2>2. \A w \in Workers : Shape(work[w])'
      BY <1>1 DEF gitVars, exitVars, GitTypeOK, Shape
    <2> QED
      BY <1>1, <2>1, <2>2 DEF gitVars, exitVars, GitTypeOK, At
  <1>2. CASE GitNext
    BY <1>2, StartType, WorkerStepType, JobStepType, ExitStepType DEF GitNext
  <1> QED
    BY <1>1, <1>2

\* The state of the model of git.rs keeps its shape: a job takes only the steps
\* of its kind, a signal of the stop comes only while ws exits, and a slot holds
\* a group or nothing.
THEOREM GitTypeCorrect == GitSpec => []GitTypeOK
  <1>1. GitInit => GitTypeOK
    BY InitType
  <1>2. GitTypeOK /\ [GitNext]_gitVars => GitTypeOK'
    BY TypeStep
  <1> QED
    BY <1>1, <1>2, PTL DEF GitSpec

-----------------------------------------------------------------------------
(* The stop. *)

\* A registered git that waits since before the quit was in its slot when the
\* slot was read, and is gone when stop_groups is done; and stop_groups signals
\* no restoring git that it did not collect.
Waiting(w) == At(w, "wait") /\ work[w].step # "pop"

Seen ==
    /\ \A w \in Workers, s \in Slots :
          Waiting(w) /\ groups[s] = Group(w) /\ s <= looked => Group(w) \in stopped
    /\ exit \in {"drop", "exited"} => \A w \in Workers : Waiting(w) /\ Running(w) => Lost(w)
    /\ \A w \in Workers : work[w].step = "pop" /\ work[w].signal = "stop" => Group(w) \in stopped

\* Groups of different workers differ, and none is NoGroup.
LEMMA GroupsDiffer ==
    ASSUME GitTypeOK, NEW w \in Workers
    PROVE  /\ Group(w) \in Workers \X Steps /\ Group(w) # NoGroup
           /\ \A q \in Workers \ {w} : Group(q) # Group(w)
  BY GitRunsAssumption DEF Group, GitTypeOK, WorkType

\* A step of worker w: it is not waiting after it, or it was before, or ws does
\* not exit yet; and no slot gets the group of another.
LEMMA SeenWorker ==
    ASSUME GitTypeOK, Seen, NEW w \in Workers, UNCHANGED exitVars,
           \A q \in Workers \ {w} : work'[q] = work[q],
           \A s \in Slots : groups'[s] = groups[s] \/ groups'[s] = NoGroup \/ groups'[s] = Group(w),
           \/ ~Waiting(w)'
           \/ /\ groups' = groups /\ work'[w].step = work[w].step
              /\ exit = "loop" \/ (Waiting(w) /\ (Running(w)' => Running(w))),
           work'[w].step = "pop" /\ work'[w].signal = "stop" =>
              work[w].step = "pop" /\ work[w].signal = "stop"
    PROVE  Seen'
  <1>1. exit' = exit /\ looked' = looked /\ stopped' = stopped
    BY DEF exitVars
  <1>2. \A q \in Workers \ {w} : Group(q)' = Group(q) /\ (Waiting(q)' <=> Waiting(q)) /\ (Running(q)' <=> Running(q))
    BY DEF Group, Waiting, Running, At
  <1>3. \A q \in Workers \ {w}, s \in Slots : groups'[s] = Group(q) => groups[s] = Group(q)
    BY GroupsDiffer
  <1>4. work'[w].step = work[w].step => Group(w)' = Group(w)
    BY DEF Group
  <1>5. exit = "loop" => looked = 0
    BY DEF GitTypeOK
  <1>6. \A s \in Slots : ~(s <= 0)
    BY GitRunsAssumption DEF Slots
  <1>7. ASSUME NEW q \in Workers, NEW s \in Slots, Waiting(q)', groups'[s] = Group(q)', s <= looked'
        PROVE  Group(q)' \in stopped'
    <2>1. CASE q # w
      BY <1>1, <1>2, <1>3, <1>7, <2>1 DEF Seen
    <2>2. CASE q = w
      BY <1>1, <1>4, <1>5, <1>6, <1>7, <2>2 DEF Seen
    <2> QED
      BY <2>1, <2>2
  <1>8. ASSUME exit' \in {"drop", "exited"}, NEW q \in Workers, Waiting(q)', Running(q)'
        PROVE  Lost(q)'
    <2>1. CASE q # w
      <3>1. Lost(q)
        BY <1>1, <1>2, <1>8, <2>1 DEF Seen
      <3> QED
        BY <1>2, <1>3, <2>1, <3>1 DEF Lost
    <2>2. CASE q = w
      <3>1. groups' = groups /\ Group(w)' = Group(w) /\ Waiting(w) /\ Running(w)
        BY <1>1, <1>4, <1>8, <2>2
      <3>2. Lost(w)
        BY <1>1, <1>8, <3>1 DEF Seen
      <3> QED
        BY <2>2, <3>1, <3>2 DEF Lost
    <2> QED
      BY <2>1, <2>2
  <1>9. ASSUME NEW q \in Workers, work'[q].step = "pop", work'[q].signal = "stop"
        PROVE  Group(q)' \in stopped'
    <2>1. CASE q # w
      BY <1>1, <1>2, <1>9, <2>1 DEF Seen
    <2>2. CASE q = w
      BY <1>1, <1>4, <1>9, <2>2 DEF Seen
    <2> QED
      BY <2>1, <2>2
  <1> QED
    BY <1>7, <1>8, <1>9 DEF Seen

\* Steps of a worker that leave its git and its signal as they are.
LEMMA SeenMoves ==
    ASSUME GitTypeOK, Seen, NEW w \in Workers, Spawn(w) \/ Register(w) \/ Recheck(w)
    PROVE  Seen'
  <1> DEFINE k == work[w]
  <1>1. k \in WorkType
    BY DEF GitTypeOK
  <1>2. CASE Spawn(w)
    <2>1. work' = [work EXCEPT ![w] = [k EXCEPT !.at = "register", !.git = "runs"]]
      BY <1>2 DEF Spawn
    <2>2. work'[w].at = "register" /\ work'[w].step = k.step /\ work'[w].signal = k.signal
          /\ \A q \in Workers \ {w} : work'[q] = work[q]
      BY <1>1, <2>1 DEF GitTypeOK, WorkType
    <2> QED
      BY <1>2, <2>2, SeenWorker DEF Spawn, Waiting, At
  <1>3. CASE Register(w)
    <2>1. work' = [work EXCEPT ![w] = [k EXCEPT !.at = "recheck"]]
      BY <1>3 DEF Register, Proceed
    <2>2. work'[w].at = "recheck" /\ work'[w].step = k.step /\ work'[w].signal = k.signal
          /\ \A q \in Workers \ {w} : work'[q] = work[q]
      BY <1>1, <2>1 DEF GitTypeOK, WorkType
    <2>3. \A s \in Slots : groups'[s] = groups[s] \/ groups'[s] = Group(w)
      BY <1>3 DEF Register, GitTypeOK
    <2> QED
      BY <1>3, <2>2, <2>3, SeenWorker DEF Register, Waiting, At
  <1>4. CASE Recheck(w)
    <2>1. CASE MayStart(w)
      <3>1. work' = [work EXCEPT ![w] = [k EXCEPT !.at = "wait"]]
        BY <1>4, <2>1 DEF Recheck, Proceed
      <3>2. work'[w].at = "wait" /\ work'[w].step = k.step /\ work'[w].signal = k.signal
            /\ \A q \in Workers \ {w} : work'[q] = work[q]
        BY <1>1, <3>1 DEF GitTypeOK, WorkType
      <3>3. exit = "loop" \/ k.step = "pop"
        BY <2>1, Zenon DEF MayStart, GitTypeOK, Flag
      <3>4. ~Waiting(w)' \/ exit = "loop"
        BY <3>2, <3>3 DEF Waiting
      <3> QED
        BY <1>4, <3>2, <3>4, SeenWorker DEF Recheck
    <2>2. CASE ~MayStart(w)
      <3>1. work' = [work EXCEPT ![w] = [k EXCEPT !.at = "grace", !.signal = "stop"]]
        BY <1>4, <2>2 DEF Recheck
      <3>2. work'[w].at = "grace" /\ work'[w].step = k.step
            /\ \A q \in Workers \ {w} : work'[q] = work[q]
        BY <1>1, <3>1 DEF GitTypeOK, WorkType
      <3>3. k.step # "pop"
        BY <2>2 DEF MayStart
      <3> QED
        BY <1>4, <3>2, <3>3, SeenWorker DEF Recheck, Waiting, At
    <2> QED
      BY <2>1, <2>2
  <1> QED
    BY <1>2, <1>3, <1>4

\* git ends, and only that.
LEMMA SeenEnded ==
    ASSUME GitTypeOK, Seen, NEW w \in Workers, NEW ok, NEW after, Running(w),
           Ended(w, ok, after), UNCHANGED <<exitVars, groups>>
    PROVE  Seen'
  <1> DEFINE k == work[w]
  <1>1. work' = [work EXCEPT ![w] = [k EXCEPT !.git = IF ok THEN "ok" ELSE "bad"]]
    BY DEF Ended
  <1>2. work'[w].at = k.at /\ work'[w].step = k.step /\ work'[w].signal = k.signal
        /\ \A q \in Workers \ {w} : work'[q] = work[q]
    BY <1>1 DEF GitTypeOK, WorkType
  <1>3. Waiting(w)' <=> Waiting(w)
    BY <1>2 DEF Waiting, At
  <1> QED
    BY <1>2, <1>3, SeenWorker

LEMMA SeenGit ==
    ASSUME GitTypeOK, Seen, NEW w \in Workers,
           Deadline(w) \/ GraceOver(w) \/ GitEnds(w) \/ GitFails(w) \/ GitCut(w)
    PROVE  Seen'
  <1> DEFINE k == work[w]
  <1>1. k \in WorkType
    BY DEF GitTypeOK
  <1>2. CASE Deadline(w)
    <2>1. work' = [work EXCEPT ![w] = [k EXCEPT !.at = "grace", !.signal = IF k.signal = "no" THEN "late" ELSE k.signal]]
      BY <1>2 DEF Deadline
    <2>2. work'[w].at = "grace" /\ work'[w].step = k.step
          /\ work'[w].signal = (IF k.signal = "no" THEN "late" ELSE k.signal)
          /\ \A q \in Workers \ {w} : work'[q] = work[q]
      BY <1>1, <2>1 DEF GitTypeOK, WorkType
    <2>3. ~Waiting(w)'
      BY <2>2 DEF Waiting, At
    <2>4. work'[w].signal = "stop" => k.signal = "stop"
      BY <2>2
    <2>5. UNCHANGED exitVars /\ groups' = groups
      BY <1>2 DEF Deadline
    <2> QED
      BY <2>2, <2>3, <2>4, <2>5, SeenWorker
  <1>3. CASE GraceOver(w)
    BY <1>3, SeenEnded DEF GraceOver
  <1>4. CASE GitEnds(w)
    BY <1>4, SeenEnded DEF GitEnds
  <1>5. CASE GitFails(w)
    <2>1. work' = [work EXCEPT ![w] = [k EXCEPT !.git = "bad", !.spoiled = TRUE]]
      BY <1>5 DEF GitFails
    <2>2. work'[w] = [k EXCEPT !.git = "bad", !.spoiled = TRUE]
          /\ \A q \in Workers \ {w} : work'[q] = work[q]
      BY <2>1 DEF GitTypeOK
    <2>3. work'[w].at = k.at /\ work'[w].step = k.step /\ work'[w].signal = k.signal
      BY <1>1, <2>2 DEF WorkType
    <2>4. Waiting(w)' <=> Waiting(w)
      BY <2>3 DEF Waiting, At
    <2> QED
      BY <1>5, <2>2, <2>3, <2>4, SeenWorker DEF GitFails
  <1>6. CASE GitCut(w)
    BY <1>6, SeenEnded DEF GitCut
  <1> QED
    BY <1>2, <1>3, <1>4, <1>5, <1>6

\* A job starts, is refused a git, or goes on after one.
LEMMA SeenJob ==
    ASSUME GitTypeOK, Seen, NEW w \in Workers,
           (\E job \in JobsOf[w] : Start(w, job)) \/ Check(w) \/ Reap(w)
    PROVE  Seen'
  <1>1. work[w] \in WorkType /\ Shape(work[w])
    BY DEF GitTypeOK
  <1>2. ASSUME NEW job \in JobsOf[w], Start(w, job)
        PROVE  Seen'
    <2>1. PICK r \in (IF job = "plain" THEN {repo[w]} ELSE Repos) : work' = [work EXCEPT ![w] = NewWork(job, r)]
      BY <1>2 DEF Start
    <2>2. work'[w].at = "check" /\ work'[w].signal = "no"
          /\ \A q \in Workers \ {w} : work'[q] = work[q]
      BY <2>1 DEF NewWork, GitTypeOK
    <2> QED
      BY <1>2, <2>2, SeenWorker DEF Start, Waiting, At
  <1>3. ASSUME NEW ok \in BOOLEAN, RunOver(w, ok), work[w].step # "over", UNCHANGED exitVars,
               \A s \in Slots : groups'[s] = groups[s] \/ groups'[s] = NoGroup
        PROVE  Seen'
    <2>1. work'[w].at \in {"check", "over"} /\ work'[w].signal = "no"
          /\ \A q \in Workers \ {w} : work'[q] = work[q]
      BY <1>1, <1>3, RunOverShape DEF GitTypeOK
    <2> QED
      BY <1>3, <2>1, SeenWorker DEF Waiting, At
  <1>4. CASE Check(w)
    <2>1. CASE MayStart(w)
      <3>1. work' = [work EXCEPT ![w] = [work[w] EXCEPT !.at = "spawn"]]
        BY <1>4, <2>1 DEF Check, Proceed
      <3>2. work'[w].at = "spawn" /\ work'[w].step = work[w].step /\ work'[w].signal = work[w].signal
            /\ \A q \in Workers \ {w} : work'[q] = work[q]
        BY <1>1, <3>1 DEF GitTypeOK, WorkType
      <3> QED
        BY <1>4, <3>2, SeenWorker DEF Check, Waiting, At
    <2>2. CASE ~MayStart(w)
      <3>1. work[w].step # "over"
        BY <1>1, <1>4 DEF Check, At, Shape
      <3> QED
        BY <1>3, <1>4, <2>2, <3>1 DEF Check
    <2> QED
      BY <2>1, <2>2
  <1>5. CASE Reap(w)
    <2>1. work[w].step # "over"
      BY <1>1, <1>5 DEF Reap, Shape
    <2>2. PICK ok \in BOOLEAN : RunOver(w, ok)
      BY <1>5 DEF Reap
    <2>3. \A s \in Slots : groups'[s] = groups[s] \/ groups'[s] = NoGroup
      BY <1>5 DEF Reap
    <2> QED
      BY <1>3, <1>5, <2>1, <2>2, <2>3 DEF Reap
  <1> QED
    BY <1>2, <1>4, <1>5

\* The main thread.
LEMMA SeenExit ==
    ASSUME GitTypeOK, Seen, Quit \/ Look \/ Terminate \/ WaitOver \/ Kill \/ Exit
    PROVE  Seen'
  <1> USE GitRunsAssumption
  <1>1. CASE Quit
    BY <1>1 DEF Quit, Seen, Waiting, Running, Lost, Group, At
  <1>2. CASE Look
    <2>1. looked \in Nat /\ looked' = looked + 1
          /\ stopped' = stopped \union ({groups[looked + 1]} \ {NoGroup})
          /\ exit' = "look" /\ work' = work /\ groups' = groups
      BY <1>2 DEF Look, GitTypeOK
    <2>2. ASSUME NEW w \in Workers, NEW s \in Slots, Waiting(w), groups[s] = Group(w), s <= looked + 1
          PROVE  Group(w) \in stopped'
      <3>1. CASE s <= looked
        BY <2>1, <2>2, <3>1 DEF Seen
      <3>2. CASE s = looked + 1
        <4>1. Group(w) # NoGroup
          BY GroupsDiffer
        <4> QED
          BY <2>1, <2>2, <3>2, <4>1
      <3> QED
        BY <2>1, <2>2, <3>1, <3>2 DEF Slots
    <2> QED
      BY <2>1, <2>2 DEF Seen, Waiting, Running, Lost, Group, At
  <1>3. CASE Terminate
    <2>1. \A w \in Workers :
            work'[w] = IF w \in {v \in Workers : Running(v) /\ Group(v) \in stopped}
                       THEN [work[w] EXCEPT !.signal = "stop"] ELSE work[w]
      BY <1>3 DEF Terminate, Signalled
    <2>2. \A w \in Workers :
            /\ work'[w].step = work[w].step /\ work'[w].at = work[w].at
            /\ work'[w].signal = work[w].signal \/ Group(w) \in stopped
      <3> TAKE w \in Workers
      <3>1. work[w] \in WorkType
        BY DEF GitTypeOK
      <3>2. CASE Group(w) \in stopped /\ Running(w)
        <4>1. work'[w] = [work[w] EXCEPT !.signal = "stop"]
          BY <2>1, <3>2
        <4> QED
          BY <3>1, <3>2, <4>1 DEF WorkType
      <3>3. CASE ~(Group(w) \in stopped /\ Running(w))
        <4>1. work'[w] = work[w]
          BY <2>1, <3>3
        <4> QED
          BY <4>1
      <3> QED
        BY <3>2, <3>3
    <2>3. \A w \in Workers : Group(w)' = Group(w) /\ (Waiting(w)' <=> Waiting(w))
      BY <2>2 DEF Group, Waiting, At
    <2>4. exit' = "wait" /\ looked' = looked /\ stopped' = stopped /\ groups' = groups
      BY <1>3 DEF Terminate
    <2> QED
      BY <2>2, <2>3, <2>4 DEF Seen
  <1>4. ASSUME exit = "wait", NEW w \in Workers, Waiting(w), ~Lost(w)
        PROVE  Group(w) \in Left
    <2>1. PICK s \in Slots : groups[s] = Group(w)
      BY <1>4 DEF Lost
    <2>2. s <= looked
      BY <1>4 DEF GitTypeOK, Slots
    <2> QED
      BY <1>4, <2>1, <2>2 DEF Seen, Left
  <1>5. CASE WaitOver
    <2>1. \A w \in Workers : Waiting(w) => Lost(w)
      BY <1>4, <1>5 DEF WaitOver
    <2>2. \A w \in Workers : Group(w)' = Group(w) /\ (Waiting(w)' <=> Waiting(w)) /\ (Lost(w)' <=> Lost(w))
      BY <1>5 DEF WaitOver, Group, Waiting, At, Lost
    <2> QED
      BY <1>5, <2>1, <2>2 DEF WaitOver, Seen
  <1>6. CASE Kill
    <2> DEFINE killed == {w \in Workers : Running(w) /\ Group(w) \in Left}
    <2>1. work' = [w \in Workers |-> IF w \in killed THEN [work[w] EXCEPT !.git = "bad", !.signal = "stop"]
                                     ELSE work[w]]
      BY <1>6 DEF Kill
    <2>2. \A w \in Workers :
            /\ work'[w].step = work[w].step /\ work'[w].at = work[w].at
            /\ w \in killed => work'[w].git = "bad" /\ Group(w) \in stopped
            /\ w \notin killed => work'[w] = work[w]
      <3> TAKE w \in Workers
      <3>1. work[w] \in WorkType
        BY DEF GitTypeOK
      <3>2. CASE w \in killed
        <4>1. work'[w] = [work[w] EXCEPT !.git = "bad", !.signal = "stop"]
          BY <2>1, <3>2
        <4>2. Group(w) \in stopped
          BY <3>2 DEF Left
        <4> QED
          BY <3>1, <3>2, <4>1, <4>2 DEF WorkType
      <3>3. CASE w \notin killed
        <4>1. work'[w] = work[w]
          BY <2>1, <3>3
        <4> QED
          BY <3>3, <4>1
      <3> QED
        BY <3>2, <3>3
    <2>3. \A w \in Workers : Group(w)' = Group(w) /\ (Waiting(w)' <=> Waiting(w))
      BY <2>2 DEF Group, Waiting, At
    <2>4. looked' = looked /\ stopped' = stopped /\ groups' = groups
      BY <1>6 DEF Kill
    <2>5. ASSUME NEW w \in Workers, Waiting(w)', Running(w)'
          PROVE  Lost(w)'
      <3>1. w \notin killed /\ Running(w)
        BY <2>2, <2>5 DEF Running
      <3>2. Group(w) \notin Left
        BY <3>1
      <3>3. Lost(w)
        BY <1>4, <1>6, <2>3, <2>5, <3>2 DEF Kill
      <3> QED
        BY <2>3, <2>4, <3>3 DEF Lost
    <2>6. \A w \in Workers : work'[w].step = "pop" /\ work'[w].signal = "stop" => Group(w)' \in stopped'
      BY <2>2, <2>3, <2>4 DEF Seen
    <2>7. \A w \in Workers, s \in Slots :
            Waiting(w)' /\ groups'[s] = Group(w)' /\ s <= looked' => Group(w)' \in stopped'
      BY <2>3, <2>4 DEF Seen
    <2> HIDE DEF killed
    <2> QED
      BY <2>5, <2>6, <2>7 DEF Seen
  <1>7. CASE Exit
    BY <1>7 DEF Exit, Seen, Waiting, Running, Lost, Group, At
  <1> QED
    BY <1>1, <1>2, <1>3, <1>5, <1>6, <1>7

LEMMA SeenStep == GitTypeOK /\ Seen /\ [GitNext]_gitVars => Seen'
  <1> SUFFICES ASSUME GitTypeOK, Seen, [GitNext]_gitVars PROVE Seen'
    OBVIOUS
  <1>1. CASE UNCHANGED gitVars
    BY <1>1 DEF gitVars, exitVars, Seen, Waiting, Running, Lost, Group, At
  <1>2. CASE GitNext
    BY <1>2, SeenJob, SeenMoves, SeenGit, SeenExit DEF GitNext
  <1> QED
    BY <1>1, <1>2

\* With any number of workers and slots, quitting stops every git but those
\* that restore the user's work or found no slot, and those that their own
\* worker stops (the check of the flag after the registration).
THEOREM StopCorrect == GitSpec => []StopIsExact
  <1>1. GitInit => Seen
    <2> SUFFICES ASSUME GitInit PROVE Seen
      OBVIOUS
    <2>1. \A w \in Workers : work[w].at = "idle" /\ work[w].signal = "no"
      BY DEF GitInit, NewWork
    <2> QED
      BY <2>1 DEF GitInit, Seen, Waiting, At
  <1>2. GitTypeOK /\ Seen /\ [GitNext]_gitVars => Seen'
    BY SeenStep
  <1>3. GitTypeOK /\ Seen => StopIsExact
    <2> SUFFICES ASSUME GitTypeOK, Seen PROVE StopIsExact
      OBVIOUS
    <2>1. ASSUME exit \in {"drop", "exited"}, NEW w \in Workers, Running(w)
          PROVE  work[w].step = "pop" \/ work[w].at \in {"register", "recheck", "grace"} \/ Lost(w)
      <3>1. work[w] \in WorkType /\ Shape(work[w])
        BY DEF GitTypeOK
      <3>2. work[w].at \in {"register", "recheck", "wait", "grace"}
        BY <2>1, <3>1 DEF Running, Shape, WorkType
      <3> QED
        BY <2>1, <3>2 DEF Seen, Waiting, At
    <2> QED
      BY <2>1 DEF Seen, StopIsExact
  <1> QED
    BY <1>1, <1>2, <1>3, GitTypeCorrect, PTL DEF GitSpec
-----------------------------------------------------------------------------
(* What a job gives back. *)

Dirty(f) == f.tree \in {"unstaged", "staged"}
Saved(f) == [tree |-> "none", stash |-> <<"auto">> \o f.stash]
Back(f)  == [tree |-> "unstaged", stash |-> f.stash]
Over(k)  == k.git \in {"ok", "bad"}

\* The checkout r of a job k that nothing has spoiled, while the main thread is
\* at x: as found until the push, to which only changes to save or the quit
\* lead; then stashed, and then back.
Course(k, r, x) ==
    LET f == k.found
    IN /\ k.step \notin {"push", "pull", "pop", "over"} => r = f /\ ~k.stashed
       /\ k.step \in {"diff", "cached"} /\ k.git = "bad" => Dirty(f) \/ k.signal # "no"
       /\ k.step = "push" =>
             /\ ~k.stashed /\ (Dirty(f) \/ (k.at = "check" /\ x # "loop"))
             /\ ~Over(k) => r = f
             /\ Over(k) /\ k.signal = "no" => r = Saved(f) /\ k.git = "ok"
       /\ k.step = "pull" => (k.stashed /\ Dirty(f) /\ r = Saved(f)) \/ (~k.stashed /\ r = f)
       /\ k.step = "pop" =>
             /\ k.stashed /\ Dirty(f)
             /\ ~Over(k) => r = Saved(f)
             /\ Over(k) /\ k.signal = "no" => r = Back(f)
       /\ k.step = "over" => r = f \/ (Dirty(f) /\ r = Back(f))

\* No job, or one that the quit or git itself has spoiled, or one that found
\* changes in a submodule, which no stash saves.
Excused(k) == k.at = "idle" \/ k.spoiled \/ k.found.tree = "submodule"

RightCourse(w) == Excused(work[w]) \/ Course(work[w], repo[w], exit)
OnCourse == \A w \in Workers : RightCourse(w)

\* The job moves on within its step.
LEMMA CourseMoves ==
    ASSUME NEW k, NEW k2, NEW r, NEW x, NEW x2, Course(k, r, x),
           k2.step = k.step, k2.found = k.found, k2.stashed <=> k.stashed,
           Over(k) \/ Over(k2) => k2.git = k.git,
           k2.signal = "no" => k.signal = "no",
           k.at = "check" /\ k.step = "push" /\ x # "loop" => k2.at = "check" /\ x2 # "loop"
    PROVE  Course(k2, r, x2)
  BY DEF Course, Over

\* The entry that `git stash push` adds is the one that `pop` takes.
LEMMA OnTop ==
    ASSUME NEW s \in {<<>>, <<"user">>}, NEW t, t = <<"auto">> \o s
    PROVE  t # <<>> /\ Head(t) = "auto" /\ Tail(t) = s
  <1> DEFINE S == {"auto", "user"}
             a == <<"auto">>
  <1>1. a \in Seq(S) /\ Len(a) = 1 /\ a[1] = "auto"
    OBVIOUS
  <1>2. <<>> \in Seq(S) /\ <<"user">> \in Seq(S)
    OBVIOUS
  <1>3. s \in Seq(S) /\ Len(s) \in Nat
    BY <1>2
  <1> HIDE DEF a, S
  <1>4. /\ a \o s \in Seq(S)
        /\ Len(a \o s) = Len(a) + Len(s)
        /\ \A i \in 1 .. Len(a) + Len(s) : (a \o s)[i] = IF i <= Len(a) THEN a[i] ELSE s[i - Len(a)]
    BY <1>1, <1>3, ConcatProperties
  <1>5. t = a \o s
    BY DEF a
  <1>6. t \in Seq(S) /\ Len(t) = Len(s) + 1 /\ t[1] = "auto"
    BY <1>1, <1>3, <1>4, <1>5
  <1>7. \A i \in 1 .. Len(s) : t[i + 1] = s[i]
    BY <1>1, <1>3, <1>4, <1>5
  <1>8. t # <<>> /\ Head(t) = "auto"
    BY <1>3, <1>6
  <1>9. Tail(t) \in Seq(S) /\ Len(Tail(t)) = Len(s) /\ \A i \in 1 .. Len(s) : Tail(t)[i] = s[i]
    BY <1>3, <1>6, <1>7, <1>8, HeadTailProperties
  <1>10. Tail(t) = s
    BY <1>3, <1>9, SeqEqual
  <1> QED
    BY <1>8, <1>10

\* git does its work.
LEMMA CourseEnds ==
    ASSUME NEW k \in WorkType, NEW k2, NEW r, NEW x, Course(k, r, x),
           k.git = "runs", k.at # "check", k.found.tree # "submodule",
           k2.step = k.step, k2.found = k.found, k2.stashed <=> k.stashed,
           k2.git = IF Succeeds(k.step, r) THEN "ok" ELSE "bad"
    PROVE  Course(k2, Done(k.step, r), x)
  <1> DEFINE f == k.found
  <1>1. f.tree \in {"none", "unstaged", "staged"} /\ f.stash \in {<<>>, <<"user">>}
        /\ f = [tree |-> f.tree, stash |-> f.stash]
    BY DEF WorkType, Repos, Trees
  <1>2. CASE k.step = "push"
    <2>1. r = f /\ Dirty(f) /\ ~k.stashed
      BY <1>2 DEF Course, Over
    <2>2. Done(k.step, r) = Saved(f)
      BY <1>2, <2>1 DEF Done, Pushed, Dirty, Saved
    <2>3. k2.git = "ok"
      BY <1>2 DEF Succeeds
    <2> QED
      BY <1>2, <2>1, <2>2, <2>3 DEF Course, Over
  <1>3. CASE k.step = "pop"
    <2>1. r = Saved(f) /\ Dirty(f) /\ k.stashed
      BY <1>3 DEF Course, Over
    <2>2. r.stash = <<"auto">> \o f.stash
      BY <2>1 DEF Saved
    <2>3. r.stash # <<>> /\ Head(r.stash) = "auto" /\ Tail(r.stash) = f.stash
      BY <1>1, <2>2, OnTop
    <2>4. Done(k.step, r) = Back(f)
      BY <1>3, <2>3 DEF Done, Popped, Back
    <2>5. k2.git \in {"ok", "bad"}
      OBVIOUS
    <2> QED
      BY <1>3, <2>1, <2>4, <2>5 DEF Course, Over
  <1>4. CASE k.step \notin {"push", "pop"}
    <2>1. Done(k.step, r) = r
      BY <1>4 DEF Done
    <2>2. k.step \in {"diff", "cached"} => r = f
      BY DEF Course
    <2>3. k.step \in {"diff", "cached"} /\ k2.git = "bad" => Dirty(f)
      BY <1>1, <2>2 DEF Succeeds, Dirty
    <2> QED
      BY <1>4, <2>1, <2>3 DEF Course
  <1> QED
    BY <1>2, <1>3, <1>4

\* A signal ends git before or after its work.
LEMMA CourseCut ==
    ASSUME NEW k, NEW k2, NEW r, NEW r2 \in {r, Done(k.step, r)}, NEW x, NEW x2, Course(k, r, x),
           k.git = "runs", k.at # "check",
           k2.step = k.step, k2.found = k.found, k2.stashed <=> k.stashed,
           k2.git = "bad", k2.signal # "no"
    PROVE  Course(k2, r2, x2)
  <1>1. k.step \notin {"push", "pop"} => r2 = r
    BY DEF Done
  <1> QED
    BY <1>1 DEF Course, Over

\* The run of git is over, or was refused, and the job takes its next step.
LEMMA CourseOver ==
    ASSUME NEW k \in WorkType, NEW k2, NEW r, NEW x, Course(k, r, x), Shape(k), k.step # "over",
           NEW ok \in BOOLEAN, NEW next \in NextSteps(k, ok),
           \/ k.git = "none" /\ ok = FALSE /\ x # "loop" /\ k.step # "pop"
           \/ /\ Over(k) /\ ok = (k.at = "wait" /\ k.git = "ok")
              /\ k.at \in {"wait", "grace"}
              /\ k.signal = "stop" => x # "loop",
           ~Spoils(k), k2.found = k.found,
           k2.step = IF next = "update" THEN "diff" ELSE next,
           k2.at = IF next = "over" THEN "over" ELSE "check",
           k2.git = "none",
           k2.stashed <=> (k.stashed \/ (k.step = "push" /\ ok))
    PROVE  Course(k2, r, x)
  <1> DEFINE f == k.found
  <1>1. k.signal = "no" \/ (k.signal = "stop" /\ k.step \notin {"push", "pop"})
    BY DEF Spoils, WorkType
  <1>2. k.at = "grace" => k.signal # "no"
    BY DEF Shape
  <1>3. ~Over(k2)
    BY DEF Over
  <1>4. CASE k.job = "plain"
    <2>1. next = "over" /\ k.step = "plain"
      BY <1>4, NextStep DEF Shape
    <2> QED
      BY <2>1, <1>3 DEF Course
  <1>5. CASE k.job = "switch"
    <2>1. next \in {"cached", "fetch", "checkout", "create", "update", "over"}
          /\ k.step \in {"diff", "cached", "fetch", "checkout", "create"}
      BY <1>5, NextStep DEF Shape
    <2>2. r = f /\ ~k.stashed
      BY <2>1 DEF Course
    <2> QED
      BY <2>1, <2>2, <1>3 DEF Course
  <1>6. CASE k.job = "pull"
    <2>1. next = PullStep(k, ok) /\ k.step \in {"diff", "cached", "push", "pull", "pop"}
      BY <1>6 DEF NextSteps, Shape
    <2>2. CASE k.step \in {"diff", "cached"}
      <3>1. r = f /\ ~k.stashed /\ ~k2.stashed
        BY <2>2 DEF Course
      <3>2. CASE ok
        <4>1. next \in {"cached", "pull"}
          BY <2>1, <2>2, <3>2 DEF PullStep
        <4> QED
          BY <3>1, <4>1, <1>3 DEF Course
      <3>3. CASE ~ok
        <4>1. next = "push"
          BY <2>1, <2>2, <3>3 DEF PullStep
        <4>2. Dirty(f) \/ x # "loop"
          BY <1>1, <1>2, <2>2, <3>3 DEF Course, Over
        <4> QED
          BY <3>1, <4>1, <4>2, <1>3 DEF Course
      <3> QED
        BY <3>2, <3>3
    <2>3. CASE k.step = "push" /\ k.git = "none"
      <3>1. ok = FALSE /\ r = f
        BY <2>3 DEF Course, Over
      <3>2. next = "over"
        BY <2>1, <2>3, <3>1 DEF PullStep
      <3> QED
        BY <3>1, <3>2, <1>3 DEF Course
    <2>4. CASE k.step = "push" /\ k.git # "none"
      <3>1. k.signal = "no" /\ k.at = "wait"
        BY <1>1, <1>2, <2>4 DEF Over
      <3>2. r = Saved(f) /\ k.git = "ok" /\ Dirty(f)
        BY <2>4, <3>1 DEF Course
      <3>3. ok = TRUE
        BY <2>4, <3>1, <3>2
      <3>4. next = "pull" /\ k2.stashed
        BY <2>1, <2>4, <3>3 DEF PullStep
      <3> QED
        BY <3>2, <3>4, <1>3 DEF Course
    <2>5. CASE k.step = "pull"
      <3>1. next = IF k.stashed THEN "pop" ELSE "over"
        BY <2>1, <2>5 DEF PullStep
      <3>2. k2.stashed <=> k.stashed
        BY <2>5
      <3> QED
        BY <2>5, <3>1, <3>2, <1>3 DEF Course
    <2>6. CASE k.step = "pop"
      <3>1. next = "over"
        BY <2>1, <2>6 DEF PullStep
      <3>2. Over(k) /\ k.signal = "no"
        BY <1>1, <2>6
      <3>3. r = Back(f) /\ Dirty(f)
        BY <2>6, <3>2 DEF Course
      <3> QED
        BY <3>1, <3>3, <1>3 DEF Course
    <2> QED
      BY <2>1, <2>2, <2>3, <2>4, <2>5, <2>6
  <1> QED
    BY <1>4, <1>5, <1>6 DEF WorkType, JobKinds

\* A step of one worker, seen by the others.
LEMMA CourseWorker ==
    ASSUME GitTypeOK, OnCourse, NEW w \in Workers, UNCHANGED exitVars,
           \A q \in Workers \ {w} : work'[q] = work[q] /\ repo'[q] = repo[q],
           RightCourse(w)'
    PROVE  OnCourse'
  <1>1. \A q \in Workers \ {w} : RightCourse(q)'
    BY DEF OnCourse, RightCourse, exitVars
  <1> QED
    BY <1>1 DEF OnCourse

\* A worker that is not excused after its step was not before it.
LEMMA Unexcused ==
    ASSUME OnCourse, NEW w \in Workers, ~Excused(work'[w]),
           work[w].at # "idle", work'[w].found = work[w].found,
           work[w].spoiled => work'[w].spoiled
    PROVE  Course(work[w], repo[w], exit) /\ work[w].found.tree # "submodule"
  BY DEF OnCourse, RightCourse, Excused

LEMMA CourseStarts ==
    ASSUME GitTypeOK, OnCourse, NEW w \in Workers, NEW job \in JobsOf[w], Start(w, job)
    PROVE  OnCourse'
  <1>1. PICK r \in (IF job = "plain" THEN {repo[w]} ELSE Repos) :
          /\ repo' = [repo EXCEPT ![w] = r]
          /\ work' = [work EXCEPT ![w] = NewWork(job, r)]
    BY DEF Start
  <1>2. repo'[w] = r /\ work'[w] = NewWork(job, r)
        /\ \A q \in Workers \ {w} : work'[q] = work[q] /\ repo'[q] = repo[q]
    BY <1>1 DEF GitTypeOK
  <1>3. work'[w].step \in {"plain", "diff"} /\ work'[w].git = "none"
        /\ work'[w].found = r /\ ~work'[w].stashed
    BY <1>2 DEF NewWork
  <1>4. Course(work'[w], repo'[w], exit')
    BY <1>2, <1>3 DEF Course
  <1> QED
    BY <1>2, <1>4, CourseWorker DEF RightCourse, Start

LEMMA CourseStay ==
    ASSUME GitTypeOK, OnCourse, NEW w \in Workers,
           (Check(w) /\ MayStart(w)) \/ Spawn(w) \/ Register(w) \/ Recheck(w) \/ Deadline(w)
    PROVE  OnCourse'
  <1> DEFINE k == work[w]
             k2 == work'[w]
  <1>1. k \in WorkType /\ Shape(k)
    BY DEF GitTypeOK
  <1>2. ASSUME UNCHANGED <<exitVars, repo>>, k.at # "idle",
               \A q \in Workers \ {w} : work'[q] = work[q],
               k2.step = k.step, k2.found = k.found, k2.stashed <=> k.stashed, k2.spoiled <=> k.spoiled,
               Over(k) \/ Over(k2) => k2.git = k.git,
               k2.signal = "no" => k.signal = "no",
               k.at = "check" /\ k.step = "push" => exit = "loop"
        PROVE  OnCourse'
    <2>1. SUFFICES ASSUME ~Excused(k2) PROVE Course(k2, repo'[w], exit')
      BY <1>2, CourseWorker DEF RightCourse
    <2>2. Course(k, repo[w], exit)
      BY <1>2, <2>1, Unexcused
    <2>3. Course(k2, repo[w], exit)
      BY <1>2, <2>2, CourseMoves
    <2> QED
      BY <1>2, <2>3 DEF exitVars
  <1>3. CASE Check(w) /\ MayStart(w)
    <2>1. work' = [work EXCEPT ![w] = [k EXCEPT !.at = "spawn"]]
      BY <1>3 DEF Check, Proceed
    <2>2. k2 = [k EXCEPT !.at = "spawn"] /\ \A q \in Workers \ {w} : work'[q] = work[q]
      BY <2>1 DEF GitTypeOK
    <2>3. k2.step = k.step /\ k2.found = k.found /\ k2.stashed = k.stashed /\ k2.spoiled = k.spoiled
          /\ k2.git = k.git /\ k2.signal = k.signal
      BY <1>1, <2>2 DEF WorkType
    <2>4. k.step = "push" => exit = "loop"
      <3>1. exit = "loop" \/ k.step = "pop"
        BY <1>3, Zenon DEF MayStart, GitTypeOK, Flag
      <3> QED
        BY <3>1
    <2>5. k.at # "idle" /\ UNCHANGED <<exitVars, repo>>
      BY <1>3 DEF Check, At
    <2> QED
      BY <1>2, <2>2, <2>3, <2>4, <2>5
  <1>4. CASE Spawn(w)
    <2>1. work' = [work EXCEPT ![w] = [k EXCEPT !.at = "register", !.git = "runs"]]
      BY <1>4 DEF Spawn
    <2>2. k2 = [k EXCEPT !.at = "register", !.git = "runs"] /\ \A q \in Workers \ {w} : work'[q] = work[q]
      BY <2>1 DEF GitTypeOK
    <2>3. k2.step = k.step /\ k2.found = k.found /\ k2.stashed = k.stashed /\ k2.spoiled = k.spoiled
          /\ k2.git = "runs" /\ k2.signal = k.signal
      BY <1>1, <2>2 DEF WorkType
    <2>4. k.at = "spawn" /\ k.git = "none" /\ UNCHANGED <<exitVars, repo>>
      BY <1>1, <1>4 DEF Spawn, At, Shape
    <2>5. ~Over(k) /\ ~Over(k2)
      BY <2>3, <2>4 DEF Over
    <2> QED
      BY <1>2, <2>2, <2>3, <2>4, <2>5
  <1>5. CASE Register(w)
    <2>1. work' = [work EXCEPT ![w] = [k EXCEPT !.at = "recheck"]]
      BY <1>5 DEF Register, Proceed
    <2>2. k2 = [k EXCEPT !.at = "recheck"] /\ \A q \in Workers \ {w} : work'[q] = work[q]
      BY <2>1 DEF GitTypeOK
    <2>3. k2.step = k.step /\ k2.found = k.found /\ k2.stashed = k.stashed /\ k2.spoiled = k.spoiled
          /\ k2.git = k.git /\ k2.signal = k.signal
      BY <1>1, <2>2 DEF WorkType
    <2>4. k.at = "register" /\ UNCHANGED <<exitVars, repo>>
      BY <1>5 DEF Register, At
    <2> QED
      BY <1>2, <2>2, <2>3, <2>4
  <1>6. CASE Recheck(w) /\ MayStart(w)
    <2>1. work' = [work EXCEPT ![w] = [k EXCEPT !.at = "wait"]]
      BY <1>6 DEF Recheck, Proceed
    <2>2. k2 = [k EXCEPT !.at = "wait"] /\ \A q \in Workers \ {w} : work'[q] = work[q]
      BY <2>1 DEF GitTypeOK
    <2>3. k2.step = k.step /\ k2.found = k.found /\ k2.stashed = k.stashed /\ k2.spoiled = k.spoiled
          /\ k2.git = k.git /\ k2.signal = k.signal
      BY <1>1, <2>2 DEF WorkType
    <2>4. k.at = "recheck" /\ UNCHANGED <<exitVars, repo>>
      BY <1>6 DEF Recheck, At
    <2> QED
      BY <1>2, <2>2, <2>3, <2>4
  <1>7. ASSUME NEW signal, signal # "no", work' = [work EXCEPT ![w] = [k EXCEPT !.at = "grace", !.signal = signal]],
               k.at \in {"recheck", "wait"}, UNCHANGED <<exitVars, repo>>
        PROVE  OnCourse'
    <2>1. k2 = [k EXCEPT !.at = "grace", !.signal = signal] /\ \A q \in Workers \ {w} : work'[q] = work[q]
      BY <1>7 DEF GitTypeOK
    <2>2. k2.step = k.step /\ k2.found = k.found /\ k2.stashed = k.stashed /\ k2.spoiled = k.spoiled
          /\ k2.git = k.git /\ k2.signal = signal
      BY <1>1, <2>1 DEF WorkType
    <2> QED
      BY <1>2, <1>7, <2>1, <2>2
  <1>8. CASE Recheck(w) /\ ~MayStart(w)
    BY <1>7, <1>8 DEF Recheck, At
  <1>9. CASE Deadline(w)
    <2>1. (IF k.signal = "no" THEN "late" ELSE k.signal) # "no"
      OBVIOUS
    <2>2. work' = [work EXCEPT ![w] = [k EXCEPT !.at = "grace", !.signal = IF k.signal = "no" THEN "late" ELSE k.signal]]
      BY <1>9 DEF Deadline
    <2>3. k.at \in {"recheck", "wait"} /\ UNCHANGED <<exitVars, repo>>
      BY <1>9 DEF Deadline, At
    <2> HIDE DEF k
    <2> QED
      BY <1>7, <2>1, <2>2, <2>3
  <1> QED
    BY <1>3, <1>4, <1>5, <1>6, <1>8, <1>9

\* git ends in worker w: what a step of it makes of one job.
LEMMA CourseGit ==
    ASSUME GitTypeOK, OnCourse, NEW w \in Workers,
           GraceOver(w) \/ GitEnds(w) \/ GitFails(w) \/ GitCut(w)
    PROVE  OnCourse'
  <1> DEFINE k == work[w]
             k2 == work'[w]
             r == repo[w]
  <1>1. k \in WorkType /\ Shape(k)
    BY DEF GitTypeOK
  <1>2. Running(w) /\ UNCHANGED <<exitVars, groups>>
    BY DEF GraceOver, GitEnds, GitFails, GitCut
  <1>3. k.git = "runs" /\ k.at # "check" /\ k.at # "idle"
    BY <1>1, <1>2 DEF Running, Shape
  <1>4. ASSUME NEW ok, NEW after, Ended(w, ok, after)
        PROVE  /\ k2.step = k.step /\ k2.found = k.found /\ k2.stashed = k.stashed /\ k2.spoiled = k.spoiled
               /\ k2.git = (IF ok THEN "ok" ELSE "bad") /\ k2.signal = k.signal
               /\ \A q \in Workers \ {w} : work'[q] = work[q] /\ repo'[q] = repo[q]
               /\ repo'[w] = after
    <2>1. work' = [work EXCEPT ![w] = [k EXCEPT !.git = IF ok THEN "ok" ELSE "bad"]]
      BY <1>4 DEF Ended
    <2>2. k2 = [k EXCEPT !.git = IF ok THEN "ok" ELSE "bad"]
      BY <2>1 DEF GitTypeOK
    <2>3. k2.step = k.step /\ k2.found = k.found /\ k2.stashed = k.stashed /\ k2.spoiled = k.spoiled
          /\ k2.git = (IF ok THEN "ok" ELSE "bad") /\ k2.signal = k.signal
      BY <1>1, <2>2 DEF WorkType
    <2> QED
      BY <1>4, <2>1, <2>3 DEF Ended, GitTypeOK
  <1>5. ASSUME NEW after \in {r, Done(k.step, r)}, Ended(w, FALSE, after), k.signal # "no"
        PROVE  OnCourse'
    <2>1. /\ k2.step = k.step /\ k2.found = k.found /\ k2.stashed = k.stashed /\ k2.spoiled = k.spoiled
          /\ k2.git = "bad" /\ k2.signal = k.signal
          /\ \A q \in Workers \ {w} : work'[q] = work[q] /\ repo'[q] = repo[q]
          /\ repo'[w] = after
      BY <1>4, <1>5
    <2>2. SUFFICES ASSUME ~Excused(k2) PROVE Course(k2, repo'[w], exit')
      BY <1>2, <2>1, CourseWorker DEF RightCourse
    <2>3. Course(k, r, exit)
      BY <1>3, <2>1, <2>2, Unexcused
    <2> QED
      BY <1>3, <1>5, <2>1, <2>3, CourseCut
  <1>6. CASE GraceOver(w)
    <2>1. k.signal # "no"
      BY <1>1, <1>6 DEF GraceOver, At, Shape
    <2> QED
      BY <1>5, <1>6, <2>1 DEF GraceOver
  <1>7. CASE GitCut(w)
    BY <1>5, <1>7 DEF GitCut
  <1>8. CASE GitEnds(w)
    <2>1. Ended(w, Succeeds(k.step, r), Done(k.step, r))
      BY <1>8 DEF GitEnds
    <2>2. /\ k2.step = k.step /\ k2.found = k.found /\ k2.stashed = k.stashed /\ k2.spoiled = k.spoiled
          /\ k2.git = (IF Succeeds(k.step, r) THEN "ok" ELSE "bad")
          /\ \A q \in Workers \ {w} : work'[q] = work[q] /\ repo'[q] = repo[q]
          /\ repo'[w] = Done(k.step, r)
      BY <1>4, <2>1
    <2>3. SUFFICES ASSUME ~Excused(k2) PROVE Course(k2, repo'[w], exit')
      BY <1>2, <2>2, CourseWorker DEF RightCourse
    <2>4. Course(k, r, exit) /\ k.found.tree # "submodule"
      BY <1>3, <2>2, <2>3, Unexcused
    <2>5. exit' = exit
      BY <1>2 DEF exitVars
    <2> QED
      BY <1>1, <1>3, <2>2, <2>4, <2>5, CourseEnds
  <1>9. CASE GitFails(w)
    <2>1. work' = [work EXCEPT ![w] = [k EXCEPT !.git = "bad", !.spoiled = TRUE]]
      BY <1>9 DEF GitFails
    <2>2. k2 = [k EXCEPT !.git = "bad", !.spoiled = TRUE] /\ \A q \in Workers \ {w} : work'[q] = work[q]
      BY <2>1 DEF GitTypeOK
    <2>3. k2.spoiled
      BY <1>1, <2>2 DEF WorkType
    <2> QED
      BY <1>2, <1>9, <2>2, <2>3, CourseWorker DEF RightCourse, Excused, GitFails
  <1> QED
    BY <1>6, <1>7, <1>8, <1>9

LEMMA CourseJob ==
    ASSUME GitTypeOK, OnCourse, NEW w \in Workers, (Check(w) /\ ~MayStart(w)) \/ Reap(w)
    PROVE  OnCourse'
  <1> DEFINE k == work[w]
             k2 == work'[w]
  <1>1. k \in WorkType /\ Shape(k)
    BY DEF GitTypeOK
  <1>2. k.at \notin {"idle", "over"} /\ k.step # "over" /\ UNCHANGED <<exitVars, repo>>
    BY <1>1 DEF Check, Reap, At, Shape
  <1>3. PICK yes \in BOOLEAN :
          /\ RunOver(w, yes)
          /\ \/ k.git = "none" /\ yes = FALSE /\ exit # "loop" /\ k.step # "pop"
             \/ /\ Over(k) /\ yes = (k.at = "wait" /\ k.git = "ok")
                /\ k.at \in {"wait", "grace"}
                /\ k.signal = "stop" => exit # "loop"
    <2>1. CASE Check(w) /\ ~MayStart(w)
      <3>1. exit # "loop" /\ k.step # "pop"
        BY <2>1, Zenon DEF MayStart, GitTypeOK, Flag
      <3>2. k.git = "none"
        BY <1>1, <2>1 DEF Check, At, Shape
      <3>3. RunOver(w, FALSE)
        BY <2>1 DEF Check
      <3> QED
        BY <3>1, <3>2, <3>3
    <2>2. CASE Reap(w)
      <3>1. k.git \in {"ok", "bad"} /\ k.at \in {"wait", "grace"} /\ (k.signal = "stop" => exit # "loop")
        BY <1>1, <2>2 DEF Reap, Shape
      <3>2. RunOver(w, k.at = "wait" /\ k.git = "ok")
        BY <2>2 DEF Reap, At
      <3> QED
        BY <3>1, <3>2 DEF Over
    <2> QED
      BY <2>1, <2>2
  <1>4. PICK next \in NextSteps(k, yes) :
          work' = [work EXCEPT ![w] =
            [k EXCEPT !.job  = IF next = "update" THEN "pull" ELSE @,
                      !.step = IF next = "update" THEN "diff" ELSE next,
                      !.at   = IF next = "over" THEN "over" ELSE "check",
                      !.git = "none", !.signal = "no",
                      !.stashed = @ \/ (k.step = "push" /\ yes),
                      !.spoiled = @ \/ Spoils(k)]]
    BY <1>3 DEF RunOver
  <1> DEFINE job  == IF next = "update" THEN "pull" ELSE k.job
             step == IF next = "update" THEN "diff" ELSE next
             at   == IF next = "over" THEN "over" ELSE "check"
             sta  == k.stashed \/ (k.step = "push" /\ yes)
             spo  == k.spoiled \/ Spoils(k)
  <1>5. k2 = [k EXCEPT !.job = job, !.step = step, !.at = at, !.git = "none", !.signal = "no",
                       !.stashed = sta, !.spoiled = spo]
        /\ \A q \in Workers \ {w} : work'[q] = work[q]
    BY <1>4 DEF GitTypeOK
  <1>6. k2.step = step /\ k2.at = at /\ k2.git = "none" /\ k2.stashed = sta /\ k2.spoiled = spo
        /\ k2.found = k.found
    <2> HIDE DEF job, step, at, sta, spo, k
    <2> QED
      BY <1>1, <1>5 DEF WorkType
  <1>7. SUFFICES ASSUME ~Excused(k2) PROVE Course(k2, repo[w], exit)
    BY <1>2, <1>5, CourseWorker DEF RightCourse, exitVars
  <1>8. ~spo
    BY <1>6, <1>7 DEF Excused
  <1>9. ~Spoils(k)
    BY <1>8
  <1>10. Course(k, repo[w], exit)
    BY <1>2, <1>6, <1>7, Unexcused
  <1> HIDE DEF k, k2
  <1> QED
    BY <1>1, <1>2, <1>3, <1>6, <1>9, <1>10, CourseOver

LEMMA CourseExit ==
    ASSUME GitTypeOK, OnCourse, Quit \/ Look \/ Terminate \/ WaitOver \/ Kill \/ Exit
    PROVE  OnCourse'
  <1>1. exit # "loop" => exit' # "loop"
    BY DEF Quit, Look, Terminate, WaitOver, Kill, Exit
  <1>2. CASE Quit \/ Look \/ WaitOver \/ Exit
    <2>1. work' = work /\ repo' = repo
      BY <1>2 DEF Quit, Look, WaitOver, Exit
    <2>2. \A w \in Workers : Course(work[w], repo[w], exit) => Course(work'[w], repo'[w], exit')
      BY <1>1, <2>1, CourseMoves
    <2> QED
      BY <2>1, <2>2 DEF OnCourse, RightCourse
  <1>3. CASE Terminate
    <2>1. repo' = repo
      BY <1>3 DEF Terminate
    <2>2. ASSUME NEW w \in Workers
          PROVE  RightCourse(w)'
      <3>1. work[w] \in WorkType
        BY DEF GitTypeOK
      <3>2. work'[w] = work[w] \/ work'[w] = [work[w] EXCEPT !.signal = "stop"]
        BY <1>3 DEF Terminate, Signalled
      <3>3. /\ work'[w].step = work[w].step /\ work'[w].found = work[w].found /\ work'[w].at = work[w].at
            /\ work'[w].stashed = work[w].stashed /\ work'[w].spoiled = work[w].spoiled
            /\ work'[w].git = work[w].git
            /\ work'[w].signal = "no" => work[w].signal = "no"
        BY <3>1, <3>2 DEF WorkType
      <3>4. Excused(work[w]) => Excused(work'[w])
        BY <3>3 DEF Excused
      <3>5. Course(work[w], repo[w], exit) => Course(work'[w], repo[w], exit')
        BY <1>1, <3>3, CourseMoves
      <3> QED
        BY <2>1, <3>4, <3>5 DEF OnCourse, RightCourse
    <2> QED
      BY <2>2 DEF OnCourse
  <1>4. CASE Kill
    <2> DEFINE killed == {w \in Workers : Running(w) /\ Group(w) \in Left}
    <2>1. PICK done \in SUBSET killed :
            /\ work' = [w \in Workers |-> IF w \in killed THEN [work[w] EXCEPT !.git = "bad", !.signal = "stop"]
                                          ELSE work[w]]
            /\ repo' = [w \in Workers |-> IF w \in done THEN Done(work[w].step, repo[w]) ELSE repo[w]]
      BY <1>4 DEF Kill
    <2>2. ASSUME NEW w \in Workers
          PROVE  RightCourse(w)'
      <3>1. work[w] \in WorkType /\ Shape(work[w])
        BY DEF GitTypeOK
      <3>2. CASE w \notin killed
        <4>1. work'[w] = work[w] /\ repo'[w] = repo[w]
          BY <2>1, <3>2
        <4>2. Course(work[w], repo[w], exit) => Course(work[w], repo[w], exit')
          BY <1>1, CourseMoves
        <4> QED
          BY <4>1, <4>2 DEF OnCourse, RightCourse
      <3>3. CASE w \in killed
        <4>1. work'[w] = [work[w] EXCEPT !.git = "bad", !.signal = "stop"]
              /\ repo'[w] \in {repo[w], Done(work[w].step, repo[w])}
          BY <2>1, <3>3
        <4>2. work[w].git = "runs" /\ work[w].at # "check"
          BY <3>1, <3>3 DEF Running, Shape
        <4>3. /\ work'[w].step = work[w].step /\ work'[w].found = work[w].found /\ work'[w].at = work[w].at
              /\ work'[w].stashed = work[w].stashed /\ work'[w].spoiled = work[w].spoiled
              /\ work'[w].git = "bad" /\ work'[w].signal # "no"
          BY <3>1, <4>1 DEF WorkType
        <4>4. Excused(work[w]) => Excused(work'[w])
          BY <4>3 DEF Excused
        <4>5. Course(work[w], repo[w], exit) => Course(work'[w], repo'[w], exit')
          <5>1. work'[w].stashed <=> work[w].stashed
            BY <4>3
          <5>2. SUFFICES ASSUME Course(work[w], repo[w], exit) PROVE Course(work'[w], repo'[w], exit')
            OBVIOUS
          <5>3. PICK after \in {repo[w], Done(work[w].step, repo[w])} : repo'[w] = after
            BY <4>1
          <5>4. Course(work'[w], after, exit')
            BY <4>2, <4>3, <5>1, <5>2, CourseCut
          <5> QED
            BY <5>3, <5>4
        <4> QED
          BY <4>4, <4>5 DEF OnCourse, RightCourse
      <3> QED
        BY <3>2, <3>3
    <2> QED
      BY <2>2 DEF OnCourse
  <1> QED
    BY <1>2, <1>3, <1>4

LEMMA CourseStep == GitTypeOK /\ OnCourse /\ [GitNext]_gitVars => OnCourse'
  <1> SUFFICES ASSUME GitTypeOK, OnCourse, [GitNext]_gitVars PROVE OnCourse'
    OBVIOUS
  <1>1. CASE UNCHANGED gitVars
    BY <1>1 DEF gitVars, exitVars, OnCourse, RightCourse
  <1>2. CASE GitNext
    BY <1>2, CourseStarts, CourseStay, CourseGit, CourseJob, CourseExit DEF GitNext
  <1> QED
    BY <1>1, <1>2

\* With any number of workers and slots, and wherever the quit and its signals
\* meet a pull or a switch: what the job stashed is back when it is over, and
\* the entries that the user had stashed are untouched, unless git failed by
\* itself or the stop met the very git that saves or restores.
THEOREM PullCorrect == GitSpec => []PullRestores
  <1>1. GitInit => OnCourse
    <2> SUFFICES ASSUME GitInit PROVE OnCourse
      OBVIOUS
    <2>1. \A w \in Workers : work[w].at = "idle"
      BY DEF GitInit, NewWork
    <2> QED
      BY <2>1 DEF OnCourse, RightCourse, Excused
  <1>2. GitTypeOK /\ OnCourse /\ [GitNext]_gitVars => OnCourse'
    BY CourseStep
  <1>3. GitTypeOK /\ OnCourse => PullRestores
    <2> SUFFICES ASSUME GitTypeOK, OnCourse, NEW w \in Workers,
                        At(w, "over"), ~work[w].spoiled, work[w].found.tree # "submodule"
                 PROVE  /\ repo[w].stash = work[w].found.stash
                        /\ repo[w].tree = "none" <=> work[w].found.tree = "none"
      BY DEF PullRestores
    <2>1. work[w].step = "over"
      BY DEF GitTypeOK, Shape, At
    <2>2. Course(work[w], repo[w], exit)
      BY DEF OnCourse, RightCourse, Excused, At
    <2> QED
      BY <2>1, <2>2 DEF Course, Dirty, Back
  <1> QED
    BY <1>1, <1>2, <1>3, GitTypeCorrect, PTL DEF GitSpec

-----------------------------------------------------------------------------
(* The claim of the scheduled fetch *)

\* Reading a record: it has a start.
LEMMA RecordType ==
    /\ NoRecord.generation = 0 /\ NoRecord.started \in Nat
    /\ \A r \in Record \union {NoRecord} :
           r.generation \in Nat /\ r.started \in Nat /\ r.failed \in BOOLEAN
  <1>1. NoRecord.generation = 0 /\ NoRecord.started = 0 /\ NoRecord.failed = FALSE
    BY DEF NoRecord
  <1>2. ASSUME NEW r \in Record
        PROVE  r.generation \in Nat /\ r.started \in Nat
    BY <1>2 DEF Record
  <1>3. ASSUME NEW r \in Record PROVE r.failed \in BOOLEAN
    BY <1>3 DEF Record
  <1>4. NoRecord.generation \in Nat /\ NoRecord.started \in Nat
    BY <1>1
  <1>5. NoRecord.failed \in BOOLEAN
    BY <1>1, Zenon
  <1>6. \A r \in Record \union {NoRecord} : r.failed \in BOOLEAN
    BY <1>3, <1>5, Zenon
  <1>7. \A r \in Record \union {NoRecord} : r.generation \in Nat /\ r.started \in Nat
    BY <1>2, <1>4, Zenon
  <1> QED
    BY <1>1, <1>6, <1>7, Zenon

\* The history of outcomes grows by one.
LEMMA AppendKeeps ==
    ASSUME NEW s \in Seq(BOOLEAN), NEW b \in BOOLEAN
    PROVE  Append(s, b) \in Seq(BOOLEAN) /\ Len(Append(s, b)) = Len(s) + 1
  OBVIOUS

\* The shape of the state holds at the start.
LEMMA ClaimInitType == Init => TypeOK
  BY FetchClaimAssumption DEF Init, TypeOK

\* What a step leaves alone keeps its type, so each action is proved by the
\* variables it changes.
LEMMA ClaimNextType == TypeOK /\ [Next]_vars => TypeOK'
  <1> SUFFICES ASSUME TypeOK, [Next]_vars PROVE TypeOK'
    OBVIOUS
  <1> USE FetchClaimAssumption, RecordType DEF W, Goto, Unlock
  <1>1. ASSUME NEW t \in 0..MaxTime, Clock(t) PROVE TypeOK'
    BY <1>1 DEF TypeOK, Clock
  <1>2. ASSUME NEW i \in Instances, Launch(i) PROVE TypeOK'
    BY <1>2 DEF TypeOK, Launch
  <1>3. ASSUME NEW i \in Instances, Tick(i) PROVE TypeOK'
    BY <1>3 DEF TypeOK, Tick
  <1>4. ASSUME NEW i \in Instances, TryLock(i) PROVE TypeOK'
    <2>1. pc' \in [Instances -> {"off", "idle", "tick", "locked", "fetch", "release", "bare"}]
      BY <1>4 DEF TypeOK, TryLock
    <2>2. lock' \in [Workspaces -> Instances \union {Nobody}]
      BY <1>4 DEF TypeOK, TryLock
    <2> QED
      BY <1>4, <2>1, <2>2 DEF TypeOK, TryLock
  <1>5. ASSUME NEW i \in Instances, CheckDue(i) PROVE TypeOK'
    BY <1>5 DEF TypeOK, CheckDue
  <1>6. ASSUME NEW i \in Instances, DropClaim(i) PROVE TypeOK'
    BY <1>6 DEF TypeOK, DropClaim
  <1>7. ASSUME NEW i \in Instances, NEW bad \in BOOLEAN, NEW saved \in BOOLEAN, Finish(i, bad, saved)
        PROVE  TypeOK'
    <2>1. NextGeneration(i) \in Nat \ {0}
      <3>1. store[W(i)] \in Record \union {NoRecord}
        BY DEF TypeOK
      <3>2. store[W(i)].generation \in Nat
        BY <3>1, RecordType
      <3> QED
        BY <3>2 DEF NextGeneration
    <2>2. [generation |-> NextGeneration(i), failed |-> bad, started |-> started[i]] \in Record
      BY <2>1 DEF TypeOK, Record
    <2>3. store' \in [Workspaces -> Record \union {NoRecord}]
      BY <1>7, <2>2 DEF TypeOK, Finish
    <2>5. log' \in [Workspaces -> Seq(BOOLEAN)]
      <3>1. CASE log' = [log EXCEPT ![W(i)] = Append(@, bad)]
        <4>1. Append(log[W(i)], bad) \in Seq(BOOLEAN)
          BY AppendKeeps DEF TypeOK
        <4> QED
          BY <3>1, <4>1 DEF TypeOK
      <3>2. CASE log' = log
        BY <3>2 DEF TypeOK
      <3> QED
        BY <1>7, <3>1, <3>2 DEF Finish
    <2>4. recorded' \in [Instances -> Nat]
      BY <1>7, <2>1 DEF TypeOK, Finish
    <2> QED
      BY <1>7, <2>3, <2>4, <2>5 DEF TypeOK, Finish
  <1>8. ASSUME NEW i \in Instances, Release(i) PROVE TypeOK'
    <2>1. pc' \in [Instances -> {"off", "idle", "tick", "locked", "fetch", "release", "bare"}]
          /\ lock' \in [Workspaces -> Instances \union {Nobody}]
      BY <1>8 DEF TypeOK, Release
    <2>2. applied' \in [Instances -> Nat]
      BY <1>8 DEF TypeOK, Release
    <2>3. outage' \in [Instances -> BOOLEAN]
      BY <1>8 DEF TypeOK, Release
    <2>4. own' \in [Instances -> BOOLEAN]
      BY <1>8 DEF TypeOK, Release
    <2> QED
      BY <1>8, <2>1, <2>2, <2>3, <2>4 DEF TypeOK, Release
  <1>9. ASSUME NEW i \in Instances, NEW bad \in BOOLEAN, BareEnds(i, bad) PROVE TypeOK'
    BY <1>9 DEF TypeOK, BareEnds
  <1>10. ASSUME NEW i \in Instances, ApplyRecord(i) PROVE TypeOK'
    BY <1>10 DEF TypeOK, ApplyRecord
  <1>11. ASSUME NEW i \in Instances, Die(i) PROVE TypeOK'
    BY <1>11 DEF TypeOK, Die
  <1>12. CASE UNCHANGED vars
    BY <1>12 DEF TypeOK, vars
  <1> QED
    BY <1>1, <1>2, <1>3, <1>4, <1>5, <1>6, <1>7, <1>8, <1>9, <1>10, <1>11, <1>12 DEF Next

\* A claim is held exactly while its holder works with it.
LEMMA NextClaim == TypeOK /\ ClaimMatchesWork /\ [Next]_vars => ClaimMatchesWork'
  <1> SUFFICES ASSUME TypeOK, ClaimMatchesWork, [Next]_vars PROVE ClaimMatchesWork'
    OBVIOUS
  <1> USE FetchClaimAssumption DEF TypeOK, ClaimMatchesWork, Claims, W, Goto, Unlock
  <1>1. ASSUME NEW t \in 0..MaxTime, Clock(t) PROVE ClaimMatchesWork'
    BY <1>1 DEF Clock
  <1>2. ASSUME NEW i \in Instances, Launch(i) PROVE ClaimMatchesWork'
    BY <1>2 DEF Launch
  <1>3. ASSUME NEW i \in Instances, Tick(i) PROVE ClaimMatchesWork'
    BY <1>3 DEF Tick
  <1>4. ASSUME NEW i \in Instances, TryLock(i) PROVE ClaimMatchesWork'
    BY <1>4 DEF TryLock
  <1>5. ASSUME NEW i \in Instances, CheckDue(i) PROVE ClaimMatchesWork'
    <2>1. CASE Goto(i, "fetch") /\ UNCHANGED lock
      BY <1>5, <2>1 DEF CheckDue
    <2>2. CASE Goto(i, "idle") /\ Unlock(i)
      BY <1>5, <2>2 DEF CheckDue
    <2> QED
      BY <1>5, <2>1, <2>2 DEF CheckDue
  <1>6. ASSUME NEW i \in Instances, DropClaim(i) PROVE ClaimMatchesWork'
    BY <1>6 DEF DropClaim
  <1>7. ASSUME NEW i \in Instances, NEW bad \in BOOLEAN, NEW saved \in BOOLEAN, Finish(i, bad, saved)
        PROVE  ClaimMatchesWork'
    BY <1>7 DEF Finish
  <1>8. ASSUME NEW i \in Instances, Release(i) PROVE ClaimMatchesWork'
    BY <1>8 DEF Release
  <1>9. ASSUME NEW i \in Instances, NEW bad \in BOOLEAN, BareEnds(i, bad) PROVE ClaimMatchesWork'
    BY <1>9 DEF BareEnds
  <1>10. ASSUME NEW i \in Instances, ApplyRecord(i) PROVE ClaimMatchesWork'
    BY <1>10 DEF ApplyRecord
  <1>11. ASSUME NEW i \in Instances, Die(i) PROVE ClaimMatchesWork'
    BY <1>11 DEF Die
  <1>12. CASE UNCHANGED vars
    BY <1>12 DEF vars
  <1> QED
    BY <1>1, <1>2, <1>3, <1>4, <1>5, <1>6, <1>7, <1>8, <1>9, <1>10, <1>11, <1>12 DEF Next

\* While a claimed fetch runs, its workspace gets no other record.
LEMMA FetchKeeps ==
    ASSUME TypeOK, ClaimMatchesWork, [Next]_vars,
           NEW j \in Instances, pc[j] = "fetch", pc'[j] = "fetch"
    PROVE  store'[W(j)] = store[W(j)] /\ started'[j] = started[j]
  <1> USE FetchClaimAssumption DEF W, Goto
  <1>1. ASSUME NEW i \in Instances, Tick(i) PROVE store' = store /\ started'[j] = started[j]
    BY <1>1 DEF Tick, TypeOK
  <1>2. ASSUME NEW i \in Instances, NEW bad \in BOOLEAN, NEW saved \in BOOLEAN, Finish(i, bad, saved)
        PROVE  store'[W(j)] = store[W(j)] /\ started' = started
    <2>1. pc'[i] = "release" /\ i # j
      BY <1>2 DEF Finish, TypeOK
    <2>2. lock[W(i)] = i /\ lock[W(j)] = j
      BY <1>2 DEF Finish, ClaimMatchesWork, Claims
    <2>3. W(i) # W(j)
      BY <2>1, <2>2
    <2> QED
      BY <1>2, <2>3 DEF Finish, TypeOK
  <1>3. CASE store' = store /\ started' = started
    BY <1>3
  <1> QED
    BY <1>1, <1>2, <1>3 DEF Next, vars, Clock, Launch, TryLock, CheckDue, DropClaim, Release, BareEnds,
                            ApplyRecord, Die

\* Only CheckDue starts a claimed fetch, and only when it is due.
LEMMA FetchStarts ==
    ASSUME TypeOK, [Next]_vars, NEW j \in Instances, pc[j] # "fetch", pc'[j] = "fetch"
    PROVE  /\ store' = store /\ started' = started
           /\ store[W(j)] = NoRecord \/ Due(j, store[W(j)])
  <1> USE DEF Goto
  <1>1. CheckDue(j)
    BY DEF TypeOK, Next, vars, Clock, Launch, Tick, TryLock, CheckDue, DropClaim, Finish, Release, BareEnds,
           ApplyRecord, Die
  <1> QED
    BY <1>1 DEF CheckDue, TypeOK

\* A fetch that is due stays due until it ends.
LEMMA NextDue == TypeOK /\ ClaimMatchesWork /\ FetchDue /\ [Next]_vars => FetchDue'
  <1> DEFINE OK(r, i, at) == r = NoRecord \/ r.started > at \/ r.started + Interval[i] <= at + Tolerance
  <1> SUFFICES ASSUME TypeOK, ClaimMatchesWork, FetchDue, [Next]_vars,
                      NEW j \in Instances, pc'[j] = "fetch"
               PROVE  OK(store'[W(j)], j, started'[j])
    BY DEF FetchDue, W
  <1>1. CASE pc[j] = "fetch"
    <2>1. OK(store[W(j)], j, started[j])
      BY <1>1 DEF FetchDue
    <2> QED
      BY <1>1, <2>1, FetchKeeps
  <1>2. CASE pc[j] # "fetch"
    <2>1. store[W(j)] = NoRecord \/ Due(j, store[W(j)])
      BY <1>2, FetchStarts
    <2>2. /\ store[W(j)].started \in Nat /\ started[j] \in Nat /\ Interval[j] \in Nat
          /\ Tolerance \in Nat
      <3>1. store[W(j)] \in Record \union {NoRecord}
        BY FetchClaimAssumption DEF TypeOK, W
      <3> QED
        BY <3>1, RecordType, FetchClaimAssumption DEF TypeOK
    <2>3. OK(store[W(j)], j, started[j])
      BY <2>1, <2>2 DEF Due
    <2> QED
      BY <1>2, <2>3, FetchStarts
  <1> QED
    BY <1>1, <1>2

\* A record is written in one step with its place in the history.
LEMMA NextCount == TypeOK /\ GenerationsCount /\ [Next]_vars => GenerationsCount'
  <1> SUFFICES ASSUME TypeOK, GenerationsCount, [Next]_vars, NEW w \in Workspaces
               PROVE  store'[w].generation = Len(log'[w])
    BY DEF GenerationsCount
  <1>1. ASSUME NEW i \in Instances, NEW bad \in BOOLEAN, NEW saved \in BOOLEAN, Finish(i, bad, saved)
        PROVE  store'[w].generation = Len(log'[w])
    <2>1. CASE saved /\ w = W(i)
      <3>1. store'[w].generation = store[w].generation + 1
        BY <1>1, <2>1 DEF Finish, TypeOK, NextGeneration
      <3>2. Len(log'[w]) = Len(log[w]) + 1
        BY <1>1, <2>1, AppendKeeps DEF Finish, TypeOK
      <3> QED
        BY <3>1, <3>2 DEF GenerationsCount
    <2>2. CASE ~saved \/ w # W(i)
      BY <1>1, <2>2 DEF Finish, TypeOK, GenerationsCount
    <2> QED
      BY <2>1, <2>2
  <1>2. CASE store' = store /\ log' = log
    BY <1>2 DEF GenerationsCount
  <1> QED
    BY <1>1, <1>2 DEF Next, vars, Clock, Launch, Tick, TryLock, CheckDue, DropClaim, Release, BareEnds,
                      ApplyRecord, Die

IInv == TypeOK /\ ClaimMatchesWork /\ FetchDue /\ GenerationsCount

\* All four hold at the start.
LEMMA InitIInv == Init => IInv
  <1> SUFFICES ASSUME Init PROVE IInv
    OBVIOUS
  <1>1. ClaimMatchesWork /\ FetchDue
    BY FetchClaimAssumption DEF Init, ClaimMatchesWork, Claims, FetchDue
  <1>2. GenerationsCount
    BY RecordType DEF Init, GenerationsCount
  <1> QED
    BY <1>1, <1>2, ClaimInitType DEF IInv

\* And every step keeps all four.
LEMMA FetchInvariant == Safe => []IInv
  <1>1. IInv /\ [Next]_vars => IInv'
    BY ClaimNextType, NextClaim, NextDue, NextCount DEF IInv
  <1> QED
    BY <1>1, InitIInv, PTL DEF Safe

\* At most one claimed fetch runs in a workspace, and no claim is held idly.
THEOREM ClaimExcludes == Safe => []ClaimMatchesWork
  <1>1. IInv => ClaimMatchesWork
    BY DEF IInv
  <1> QED
    BY <1>1, FetchInvariant, PTL

\* The workspace is not fetched more often than an instance's interval allows.
THEOREM FetchesAreDue == Safe => []FetchDue
  <1>1. IInv => FetchDue
    BY DEF IInv
  <1> QED
    BY <1>1, FetchInvariant, PTL

\* No generation is handed out twice, whoever dies.
THEOREM GenerationsAreFresh == Safe => []GenerationsCount
  <1>1. IInv => GenerationsCount
    BY DEF IInv
  <1> QED
    BY <1>1, FetchInvariant, PTL

-----------------------------------------------------------------------------
(* Whose outcome an instance shows *)

\* The history keeps what it has.
LEMMA HistoryKeeps ==
    ASSUME TypeOK, [Next]_vars, NEW w \in Workspaces, NEW n \in DOMAIN log[w]
    PROVE  n \in DOMAIN log'[w] /\ log'[w][n] = log[w][n]
  <1>1. ASSUME NEW i \in Instances, NEW bad \in BOOLEAN, NEW saved \in BOOLEAN, Finish(i, bad, saved)
        PROVE  n \in DOMAIN log'[w] /\ log'[w][n] = log[w][n]
    <2>1. CASE log'[w] = Append(log[w], bad)
      BY <2>1 DEF TypeOK
    <2>2. CASE log'[w] = log[w]
      BY <2>2
    <2> QED
      BY <1>1, <2>1, <2>2 DEF Finish, TypeOK
  <1>2. CASE log' = log
    BY <1>2
  <1> QED
    BY <1>1, <1>2 DEF Next, vars, Clock, Launch, Tick, TryLock, CheckDue, DropClaim, Release, BareEnds,
                      ApplyRecord, Die

\* The record is the last outcome of the history, and an instance that has
\* written one and not yet shown it knows its place.
RecordIsLast ==
    \A w \in Workspaces :
        store[w].generation # 0 =>
            /\ store[w].generation \in DOMAIN log[w]
            /\ log[w][store[w].generation] = store[w].failed

OwnIsKnown ==
    \A i \in Instances :
        pc[i] = "release" /\ recorded[i] # 0 =>
            /\ recorded[i] \in DOMAIN log[W(i)]
            /\ log[W(i)][recorded[i]] = failed[i]

\* A finish puts its outcome at the end of the history, under the generation
\* it records.
LEMMA FinishRecords ==
    ASSUME TypeOK, GenerationsCount, NEW i \in Instances, NEW bad \in BOOLEAN, Finish(i, bad, TRUE)
    PROVE  /\ NextGeneration(i) \in DOMAIN log'[W(i)]
           /\ log'[W(i)][NextGeneration(i)] = bad
           /\ store'[W(i)].generation = NextGeneration(i)
           /\ store'[W(i)].failed = bad
           /\ recorded'[i] = NextGeneration(i)
           /\ failed'[i] = bad
  <1> USE FetchClaimAssumption DEF W
  <1>1. NextGeneration(i) = Len(log[W(i)]) + 1
    BY DEF GenerationsCount, NextGeneration
  <1>2. log'[W(i)] = Append(log[W(i)], bad)
    BY DEF Finish, TypeOK
  <1>3. log[W(i)] \in Seq(BOOLEAN)
    BY DEF TypeOK
  <1>4. NextGeneration(i) \in DOMAIN log'[W(i)] /\ log'[W(i)][NextGeneration(i)] = bad
    BY <1>1, <1>2, <1>3
  <1>5. store'[W(i)] = [generation |-> NextGeneration(i), failed |-> bad, started |-> started[i]]
    BY DEF Finish, TypeOK
  <1>6. store'[W(i)].generation = NextGeneration(i)
    BY <1>5
  <1>7. store'[W(i)].failed = bad
    BY <1>5
  <1>8. recorded'[i] = NextGeneration(i)
    BY DEF Finish, TypeOK
  <1>9. failed' = [failed EXCEPT ![i] = bad] /\ failed \in [Instances -> BOOLEAN]
    BY DEF Finish, TypeOK
  <1>10. failed'[i] = bad
    BY <1>9, Zenon
  <1> QED
    BY <1>4, <1>6, <1>7, <1>8, <1>10

\* The record stays the last outcome.
LEMMA NextLast == TypeOK /\ GenerationsCount /\ RecordIsLast /\ [Next]_vars => RecordIsLast'
  <1> SUFFICES ASSUME TypeOK, GenerationsCount, RecordIsLast, [Next]_vars,
                      NEW w \in Workspaces, store'[w].generation # 0
               PROVE  /\ store'[w].generation \in DOMAIN log'[w]
                      /\ log'[w][store'[w].generation] = store'[w].failed
    BY DEF RecordIsLast
  <1>1. CASE store'[w] = store[w]
    BY <1>1, HistoryKeeps DEF RecordIsLast
  <1>2. ASSUME NEW i \in Instances, NEW bad \in BOOLEAN, Finish(i, bad, TRUE), w = W(i)
        PROVE  /\ store'[w].generation \in DOMAIN log'[w]
               /\ log'[w][store'[w].generation] = store'[w].failed
    BY <1>2, FinishRecords
  <1>3. ASSUME NEW i \in Instances, NEW bad \in BOOLEAN, NEW saved \in BOOLEAN, Finish(i, bad, saved),
               saved = FALSE \/ w # W(i)
        PROVE  store'[w] = store[w]
    BY <1>3 DEF Finish, TypeOK
  <1>4. \/ store' = store
        \/ \E i \in Instances, bad, saved \in BOOLEAN : Finish(i, bad, saved)
    BY DEF Next, vars, Clock, Launch, Tick, TryLock, CheckDue, DropClaim, Release, BareEnds, ApplyRecord, Die
  <1> QED
    BY <1>1, <1>2, <1>3, <1>4

\* Only its own finish brings an instance to release.
LEMMA NextOwn == TypeOK /\ GenerationsCount /\ OwnIsKnown /\ [Next]_vars => OwnIsKnown'
  <1> SUFFICES ASSUME TypeOK, GenerationsCount, OwnIsKnown, [Next]_vars,
                      NEW j \in Instances, pc'[j] = "release", recorded'[j] # 0
               PROVE  /\ recorded'[j] \in DOMAIN log'[W(j)]
                      /\ log'[W(j)][recorded'[j]] = failed'[j]
    BY DEF OwnIsKnown, W
  <1>1. W(j) \in Workspaces
    BY FetchClaimAssumption DEF W
  <1>2. CASE pc[j] = "release" /\ recorded'[j] = recorded[j] /\ failed'[j] = failed[j]
    BY <1>1, <1>2, HistoryKeeps DEF OwnIsKnown
  <1>3. ASSUME NEW bad \in BOOLEAN, Finish(j, bad, TRUE)
        PROVE  /\ recorded'[j] \in DOMAIN log'[W(j)]
               /\ log'[W(j)][recorded'[j]] = failed'[j]
    BY <1>3, FinishRecords
  <1>4. ASSUME NEW bad \in BOOLEAN, Finish(j, bad, FALSE) PROVE recorded'[j] = 0
    BY <1>4 DEF Finish, TypeOK
  <1>5. ASSUME NEW i \in Instances, NEW bad \in BOOLEAN, NEW saved \in BOOLEAN, Finish(i, bad, saved),
               i # j
        PROVE  pc[j] = "release" /\ recorded'[j] = recorded[j] /\ failed'[j] = failed[j]
    BY <1>5 DEF Finish, Goto, TypeOK
  <1>6. \/ pc[j] = "release" /\ recorded' = recorded /\ failed' = failed
        \/ \E i \in Instances, bad, saved \in BOOLEAN : Finish(i, bad, saved)
    BY DEF TypeOK, Next, vars, Goto, Clock, Launch, Tick, TryLock, CheckDue, DropClaim, Release, BareEnds,
           ApplyRecord, Die
  <1> QED
    BY <1>2, <1>3, <1>4, <1>5, <1>6

\* What is shown changes with a release or an applied record only.
LEMMA NextShown ==
    TypeOK /\ RecordIsLast /\ OwnIsKnown /\ OutcomeShown /\ [Next]_vars => OutcomeShown'
  <1> SUFFICES ASSUME TypeOK, RecordIsLast, OwnIsKnown, OutcomeShown, [Next]_vars,
                      NEW j \in Instances, pc'[j] # "off", ~own'[j]
               PROVE  applied'[j] \in DOMAIN log'[W(j)] /\ outage'[j] = log'[W(j)][applied'[j]]
    BY DEF OutcomeShown, W
  <1>1. W(j) \in Workspaces
    BY FetchClaimAssumption DEF W
  <1>2. CASE pc[j] # "off" /\ own'[j] = own[j] /\ applied'[j] = applied[j] /\ outage'[j] = outage[j]
    BY <1>1, <1>2, HistoryKeeps DEF OutcomeShown
  <1>3. CASE Release(j)
    <2>1. recorded[j] # 0 /\ pc[j] = "release"
      BY <1>3 DEF Release, TypeOK
    <2>2. applied'[j] = recorded[j] /\ outage'[j] = failed[j] /\ log' = log
      BY <1>3, <2>1 DEF Release, TypeOK
    <2> QED
      BY <2>1, <2>2 DEF OwnIsKnown
  <1>4. CASE ApplyRecord(j)
    <2>1. /\ applied'[j] = store[W(j)].generation /\ outage'[j] = store[W(j)].failed
          /\ store[W(j)].generation # 0 /\ log' = log
      BY <1>4 DEF ApplyRecord, TypeOK
    <2> QED
      BY <1>1, <2>1 DEF RecordIsLast
  <1>5. ASSUME NEW i \in Instances, i # j,
               \/ Launch(i) \/ Release(i) \/ ApplyRecord(i)
               \/ \E bad \in BOOLEAN : BareEnds(i, bad)
        PROVE  pc[j] # "off" /\ own'[j] = own[j] /\ applied'[j] = applied[j] /\ outage'[j] = outage[j]
    BY <1>5 DEF Launch, Release, ApplyRecord, BareEnds, Goto, TypeOK
  <1>6. ASSUME Launch(j) \/ \E bad \in BOOLEAN : BareEnds(j, bad) PROVE own'[j]
    BY <1>6 DEF Launch, BareEnds, TypeOK
  <1>7. \/ pc[j] # "off" /\ own' = own /\ applied' = applied /\ outage' = outage
        \/ \E i \in Instances : \/ Launch(i) \/ Release(i) \/ ApplyRecord(i)
                               \/ \E bad \in BOOLEAN : BareEnds(i, bad)
    BY DEF TypeOK, Next, vars, Goto, Clock, Tick, TryLock, CheckDue, DropClaim, Finish, Die
  <1> QED
    BY <1>2, <1>3, <1>4, <1>5, <1>6, <1>7

\* An instance shows the outcome of the very fetch it has applied.
THEOREM OutcomeIsTheirs == Safe => []OutcomeShown
  <1> DEFINE Inv == IInv /\ RecordIsLast /\ OwnIsKnown /\ OutcomeShown
  <1>1. Init => Inv
    BY InitIInv, RecordType, FetchClaimAssumption DEF Init, RecordIsLast, OwnIsKnown, OutcomeShown
  <1>2. Inv /\ [Next]_vars => Inv'
    BY ClaimNextType, NextClaim, NextDue, NextCount, NextLast, NextOwn, NextShown DEF IInv
  <1>3. Inv => OutcomeShown
    OBVIOUS
  <1> QED
    BY <1>1, <1>2, <1>3, PTL DEF Safe
=============================================================================
