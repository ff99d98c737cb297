------------------------------ MODULE GitRuns ------------------------------
(***************************************************************************)
(* How ws runs git and how it ends the git that runs when it quits (git.rs *)
(* and the end of run_tui), with the jobs that change a checkout in        *)
(* several steps: the pull that stashes local changes around itself, and   *)
(* the switch to the default branch (actions.rs).                          *)
(*                                                                         *)
(* A worker checks the shutdown flag, starts git in a process group of its *)
(* own, registers the group, checks the flag again and waits.  The main    *)
(* thread sets the flag, collects the groups, sends SIGTERM, waits, sends  *)
(* SIGKILL, and then waits for the workers.  git is external: it may end   *)
(* at any time or never, and a signal may cut it off before or after what  *)
(* it does.                                                                *)
(*                                                                         *)
(* Each worker has one job, in a checkout of its own (the remote queue     *)
(* sees to that).  Left out: output pipes, the ssh deadline, the handler   *)
(* of exit signals, and reads of branch names, which change nothing.       *)
(***************************************************************************)
EXTENDS Naturals, Sequences

CONSTANTS Workers,
          JobsOf,       \* the jobs that each worker may get
          NSlots,       \* slots for groups (MAX_TRACKED_GIT_GROUPS)
          NoGroup

JobKinds == {"plain", "pull", "switch"}

\* Steps of jobs; all but `over` run git.
Steps == {"plain", "diff", "cached", "push", "pull", "pop", "fetch", "checkout", "create", "over"}

ASSUME GitRunsAssumption ==
    /\ NSlots \in Nat
    /\ JobsOf \in [Workers -> SUBSET JobKinds]
    /\ NoGroup \notin Workers \X Steps

Slots == 1..NSlots

VARIABLES shutdown,     \* GIT_SHUTDOWN
          groups,       \* RUNNING_GIT_GROUPS
          exit,         \* where the main thread is
          looked,       \* slots that stop_groups has read
          stopped,      \* groups it found there
          work,         \* per worker: its job, its git, and what came of it
          repo          \* per worker: the tracked changes and the stash list

exitVars == <<shutdown, exit, looked, stopped>>
gitVars  == <<exitVars, groups, work, repo>>

\* Tracked changes: none, unstaged, all staged, or inside a submodule only,
\* which `git diff` reports and `git stash` does not save; and the stash list
\* that the user left.
Trees == {"none", "unstaged", "staged", "submodule"}
Repos == [tree : Trees, stash : {<<>>, <<"user">>}]

NewWork(job, r) ==
    [job |-> job, step |-> IF job = "plain" THEN "plain" ELSE "diff", at |-> "check",
     git |-> "none", signal |-> "no", stashed |-> FALSE, spoiled |-> FALSE, found |-> r]

\* A group is named by its worker and the step that it runs.
Group(w) == <<w, work[w].step>>

Running(w) == work[w].git = "runs"
At(w, at)  == work[w].at = at
Proceed(w, at) == work' = [work EXCEPT ![w].at = at]

-----------------------------------------------------------------------------
(* The steps of a job; `diff` and `cached` are repo_has_local_changes.      *)

\* pull_quiet_detailed: the step after one that succeeded or not.
PullStep(k, ok) ==
    CASE k.step \in {"diff", "cached"} /\ ~ok -> "push"
      [] k.step = "diff" /\ ok   -> "cached"
      [] k.step = "cached" /\ ok -> "pull"
      [] k.step = "push"         -> IF ok THEN "pull" ELSE "over"
      [] k.step = "pull"         -> IF k.stashed THEN "pop" ELSE "over"
      [] k.step = "pop"          -> "over"

\* switch_repo_to_default_branch: a pull follows when HEAD is not origin's.
SwitchSteps(k, ok) ==
    CASE k.step \in {"diff", "cached"} /\ ~ok -> {"over"}
      [] k.step = "diff" /\ ok    -> {"cached"}
      [] k.step = "cached" /\ ok  -> {"fetch"}
      [] k.step = "fetch"         -> {"checkout"}
      [] k.step = "checkout"      -> IF ok THEN {"update", "over"} ELSE {"create"}
      [] k.step = "create"        -> IF ok THEN {"update", "over"} ELSE {"over"}

NextSteps(k, ok) ==
    CASE k.job = "pull"   -> {PullStep(k, ok)}
      [] k.job = "switch" -> SwitchSteps(k, ok)
      [] k.job = "plain"  -> {"over"}

\* What the quit cannot make good: git failed by itself, or the stop met the
\* very git that saves or restores.
Spoils(k) == k.signal = "late" \/ (k.signal = "stop" /\ k.step \in {"push", "pop"})

\* The git of worker w is over, or was not started: on with the job.
RunOver(w, ok) ==
    LET k == work[w]
    IN \E next \in NextSteps(k, ok) :
         work' = [work EXCEPT ![w] =
            [k EXCEPT !.job  = IF next = "update" THEN "pull" ELSE @,
                      !.step = IF next = "update" THEN "diff" ELSE next,
                      !.at   = IF next = "over" THEN "over" ELSE "check",
                      !.git = "none", !.signal = "no",
                      !.stashed = @ \/ (k.step = "push" /\ ok),
                      !.spoiled = @ \/ Spoils(k)]]

-----------------------------------------------------------------------------
(* git. *)

Pushed(r) ==
    IF r.tree \in {"unstaged", "staged"} THEN [tree |-> "none", stash |-> <<"auto">> \o r.stash] ELSE r

Popped(r) ==
    IF r.stash = <<>> THEN r
    ELSE [tree |-> IF Head(r.stash) = "auto" THEN "unstaged" ELSE "other", stash |-> Tail(r.stash)]

Done(step, r) ==
    CASE step = "push" -> Pushed(r)
      [] step = "pop"  -> Popped(r)
      [] OTHER         -> r

\* The exit code of a step that does its work.
Succeeds(step, r) ==
    CASE step = "diff"   -> r.tree \notin {"unstaged", "submodule", "other"}
      [] step = "cached" -> r.tree # "staged"
      [] step = "pop"    -> r.stash # <<>>
      [] OTHER           -> TRUE

Ended(w, ok, after) ==
    /\ work' = [work EXCEPT ![w].git = IF ok THEN "ok" ELSE "bad"]
    /\ repo' = [repo EXCEPT ![w] = after]

\* git does its work and ends.
GitEnds(w) ==
    /\ Running(w) /\ Ended(w, Succeeds(work[w].step, repo[w]), Done(work[w].step, repo[w]))
    /\ UNCHANGED <<exitVars, groups>>

\* git fails by itself: a conflict, an error.
GitFails(w) ==
    /\ Running(w)
    /\ work' = [work EXCEPT ![w].git = "bad", ![w].spoiled = TRUE]
    /\ UNCHANGED <<exitVars, groups, repo>>

\* A signal ends git, sooner or later, before or after its work is done.
GitCut(w) ==
    /\ Running(w) /\ work[w].signal # "no"
    /\ \E after \in {repo[w], Done(work[w].step, repo[w])} : Ended(w, FALSE, after)
    /\ UNCHANGED <<exitVars, groups>>

-----------------------------------------------------------------------------
(* Workers: run_bounded. *)

\* A job starts in a checkout as the user left it.
Start(w, job) ==
    /\ exit = "loop" /\ At(w, "idle")
    /\ \E r \in (IF job = "plain" THEN {repo[w]} ELSE Repos) :
          /\ repo' = [repo EXCEPT ![w] = r]
          /\ work' = [work EXCEPT ![w] = NewWork(job, r)]
    /\ UNCHANGED <<exitVars, groups>>

\* Mutant: no git starts once ws exits, not even the one that restores.
MayStart_None(w) == ~shutdown

\* check_may_start: what restores the user's work may start while ws exits.
MayStart(w) == shutdown => work[w].step = "pop"

Check(w) ==
    /\ At(w, "check")
    /\ IF MayStart(w) THEN Proceed(w, "spawn") ELSE RunOver(w, FALSE)
    /\ UNCHANGED <<exitVars, groups, repo>>

Spawn(w) ==
    /\ At(w, "spawn")
    /\ work' = [work EXCEPT ![w].at = "register", ![w].git = "runs"]
    /\ UNCHANGED <<exitVars, groups, repo>>

\* TrackedGroup::register: a run that finds no free slot is not registered.
Register(w) ==
    /\ At(w, "register") /\ Proceed(w, "recheck")
    /\ \/ \E s \in Slots : groups[s] = NoGroup /\ groups' = [groups EXCEPT ![s] = Group(w)]
       \/ /\ \A s \in Slots : groups[s] # NoGroup
          /\ UNCHANGED groups
    /\ UNCHANGED <<exitVars, repo>>

\* Mutant: the flag is not read again.
Recheck_Not(w) == At(w, "recheck") /\ Proceed(w, "wait") /\ UNCHANGED <<exitVars, groups, repo>>

\* A stop that ran since Check may not have seen this group.
Recheck(w) ==
    /\ At(w, "recheck")
    /\ IF MayStart(w) THEN Proceed(w, "wait")
       ELSE work' = [work EXCEPT ![w].at = "grace", ![w].signal = "stop"]
    /\ UNCHANGED <<exitVars, groups, repo>>

\* wait_until gives up: stop_child sends SIGTERM.
Deadline(w) ==
    /\ At(w, "wait") /\ Running(w)
    /\ work' = [work EXCEPT ![w].at = "grace", ![w].signal = IF @ = "no" THEN "late" ELSE @]
    /\ UNCHANGED <<exitVars, groups, repo>>

\* Mutant: stop_child waits for git to go.
GraceOver_Waits(w) == FALSE /\ UNCHANGED gitVars

\* stop_child sends SIGKILL.
GraceOver(w) ==
    /\ At(w, "grace") /\ Running(w)
    /\ \E after \in {repo[w], Done(work[w].step, repo[w])} : Ended(w, FALSE, after)
    /\ UNCHANGED <<exitVars, groups>>

\* git is reaped and its group leaves its slot.  A stopped run is an error,
\* whatever git said.
Reap(w) ==
    /\ work[w].at \in {"wait", "grace"} /\ work[w].git \in {"ok", "bad"}
    /\ groups' = [s \in Slots |-> IF groups[s] = Group(w) THEN NoGroup ELSE groups[s]]
    /\ RunOver(w, At(w, "wait") /\ work[w].git = "ok")
    /\ UNCHANGED <<exitVars, repo>>

-----------------------------------------------------------------------------
(* The main thread: stop_running_git, then the drop of the runtime. *)

Quit ==
    /\ exit = "loop" /\ exit' = "look"
    /\ shutdown' = TRUE
    /\ UNCHANGED <<looked, stopped, groups, work, repo>>

\* stop_groups reads the slots one by one.
Look ==
    /\ exit = "look" /\ looked < NSlots
    /\ looked' = looked + 1
    /\ stopped' = stopped \union ({groups[looked + 1]} \ {NoGroup})
    /\ UNCHANGED <<shutdown, exit, groups, work, repo>>

Signalled(ws) == [w \in Workers |-> IF w \in ws THEN [work[w] EXCEPT !.signal = "stop"] ELSE work[w]]

Terminate ==
    /\ exit = "look" /\ looked = NSlots /\ exit' = "wait"
    /\ work' = Signalled({w \in Workers : Running(w) /\ Group(w) \in stopped})
    /\ UNCHANGED <<shutdown, looked, stopped, groups, repo>>

\* Groups of the SIGTERM pass that are still in a slot.
Left == {groups[s] : s \in Slots} \intersect stopped

WaitOver ==
    /\ exit = "wait" /\ Left = {} /\ exit' = "drop"
    /\ UNCHANGED <<shutdown, looked, stopped, groups, work, repo>>

\* The grace of stop_groups is over: SIGKILL for the groups still there.
Kill ==
    /\ exit = "wait" /\ Left # {} /\ exit' = "drop"
    /\ LET killed == {w \in Workers : Running(w) /\ Group(w) \in Left}
       IN \E done \in SUBSET killed :
            /\ work' = [w \in Workers |-> IF w \in killed THEN [work[w] EXCEPT !.git = "bad", !.signal = "stop"]
                                          ELSE work[w]]
            /\ repo' = [w \in Workers |-> IF w \in done THEN Done(work[w].step, repo[w]) ELSE repo[w]]
    /\ UNCHANGED <<shutdown, looked, stopped, groups>>

\* The runtime waits for the workers that run.
Exit ==
    /\ exit = "drop" /\ \A w \in Workers : work[w].at \in {"idle", "over"}
    /\ exit' = "exited"
    /\ UNCHANGED <<shutdown, looked, stopped, groups, work, repo>>

-----------------------------------------------------------------------------

GitInit ==
    /\ shutdown = FALSE /\ exit = "loop" /\ looked = 0 /\ stopped = {}
    /\ groups = [s \in Slots |-> NoGroup]
    /\ repo = [w \in Workers |-> [tree |-> "none", stash |-> <<>>]]
    /\ work = [w \in Workers |-> [NewWork("plain", repo[w]) EXCEPT !.at = "idle"]]

\* What needs no git to go on: git may hang and ignore SIGTERM.
WorkerStep(w) == Check(w) \/ Spawn(w) \/ Register(w) \/ Recheck(w) \/ Deadline(w) \/ GraceOver(w) \/ Reap(w)
ExitStep == Look \/ Terminate \/ WaitOver \/ Kill \/ Exit

GitNext ==
    \/ \E w \in Workers : \E job \in JobsOf[w] : Start(w, job)
    \/ \E w \in Workers : Check(w)
    \/ \E w \in Workers : Spawn(w)
    \/ \E w \in Workers : Register(w)
    \/ \E w \in Workers : Recheck(w)
    \/ \E w \in Workers : Deadline(w)
    \/ \E w \in Workers : GraceOver(w)
    \/ \E w \in Workers : Reap(w)
    \/ \E w \in Workers : GitEnds(w)
    \/ \E w \in Workers : GitFails(w)
    \/ \E w \in Workers : GitCut(w)
    \/ Quit
    \/ Look
    \/ Terminate
    \/ WaitOver
    \/ Kill
    \/ Exit

GitSpec == GitInit /\ [][GitNext]_gitVars

-----------------------------------------------------------------------------
(* Properties *)

Lost(w) == \A s \in Slots : groups[s] # Group(w)

\* Once stop_groups is done, no git is left to run on: it is one that restores
\* the user's work, one that found no slot (it ends at its deadline), or its
\* own worker stops it.  And a restoring git that the stop did not collect
\* gets no signal from it.
StopIsExact ==
    /\ exit \in {"drop", "exited"} =>
          \A w \in Workers : Running(w) =>
              work[w].step = "pop" \/ work[w].at \in {"register", "recheck", "grace"} \/ Lost(w)
    /\ \A w \in Workers : work[w].step = "pop" /\ work[w].signal = "stop" => Group(w) \in stopped

\* A job brings the changes that it stashed back and leaves the user's stash
\* entries alone, whenever ws quits; but for what Spoils, and for changes in a
\* submodule.
PullRestores ==
    \A w \in Workers :
        LET found == work[w].found
        IN At(w, "over") /\ ~work[w].spoiled /\ found.tree # "submodule" =>
             /\ repo[w].stash = found.stash
             /\ repo[w].tree = "none" <=> found.tree = "none"

\* ws quits, and every job ends, whatever git does: until then the job or the
\* main thread has a step of its own, one that waits for no git, and each such
\* step is nearer to the end than the last.
RunsEnd ==
    /\ \A w \in Workers : At(w, "idle") \/ At(w, "over") \/ ENABLED WorkerStep(w)
    /\ exit \in {"loop", "exited"} \/ ENABLED ExitStep \/ \E w \in Workers : ENABLED WorkerStep(w)

\* git.rs:1122 "Tracked local changes were stashed before the pull."
StashedIsSaved ==
    \A w \in Workers :
        work[w].stashed /\ work[w].step = "pull" /\ ~work[w].spoiled => Head(repo[w].stash \o <<"user">>) = "auto"
=============================================================================
