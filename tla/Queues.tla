------------------------------- MODULE Queues -------------------------------
(***************************************************************************)
(* What the code does with a list wherever it has one.                     *)
(***************************************************************************)
EXTENDS Naturals, SequencesExt

\* Vec::retain: the elements of q that are in S, in their order.
Retain(q, S) ==
    LET kept[n \in 0..Len(q)] ==
            IF n = 0 THEN <<>>
            ELSE IF q[n] \in S THEN Append(kept[n - 1], q[n]) ELSE kept[n - 1]
    IN kept[Len(q)]
=============================================================================
