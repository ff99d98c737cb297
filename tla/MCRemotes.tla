------------------------------ MODULE MCRemotes ------------------------------
(* TLC instance of the remote queue and of the git runs that its jobs consist *)
(* of, which share no state: a repository with a linked worktree and another  *)
(* repository, and two workers, one with plain runs.  `part` says which one a *)
(* behaviour is about.                                                        *)
EXTENDS MCRemoteQueue, GitRuns
CONSTANTS v1, v2
VARIABLE part

TwoWorkers == {v1, v2}
MixedJobs  == [i \in TwoWorkers |-> IF i = v1 THEN {"pull", "switch"} ELSE {"plain"}]

remotesVars == <<vars, gitVars, part>>

Queue_ == part = "queue" /\ UNCHANGED <<gitVars, part>>
Git_   == part = "git" /\ UNCHANGED <<vars, part>>

RemotesInit == part \in {"queue", "git"} /\ Init /\ GitInit

RemotesNext ==
    \/ Queue_ /\ Next
    \/ Git_ /\ GitNext

RemotesSpec == RemotesInit /\ [][RemotesNext]_remotesVars
=============================================================================
