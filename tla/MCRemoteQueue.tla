--------------------------- MODULE MCRemoteQueue ---------------------------
(* TLC instances of RemoteQueue: a repository with a linked worktree, and   *)
(* another repository.                                                      *)
EXTENDS RemoteQueue
CONSTANTS main, linked, other
ThreeCheckouts == {main, linked, other}
TwoGitdirs     == {main, other}
LinkedGitdir   == [c \in ThreeCheckouts |-> IF c = other THEN other ELSE main]
LinkedPair     == {main, linked}
OneGitdir      == {main}
PairGitdir     == [c \in LinkedPair |-> main]
FetchAndPull   == {"fetch", "pull"}
=============================================================================
