---------------------------- MODULE MCGraphPages ----------------------------
(* TLC instances of GraphPages. *)
EXTENDS GraphPages
CONSTANTS A, B

\* Two repositories, of which git shows the same; commit 5 is the newest.  In
\* version 2 of git commit 4 is gone.  A focus hides 5 and 2.
TwoRepos == {A, B}
Logs     == <<[f \in BOOLEAN |-> IF f THEN <<4, 3, 1>> ELSE <<5, 4, 3, 2, 1>>],
              [f \in BOOLEAN |-> IF f THEN <<3, 1>> ELSE <<5, 3, 2, 1>>]>>
Stashes  == <<{1, 4}, {2}>>
=============================================================================
