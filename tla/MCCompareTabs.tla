--------------------------- MODULE MCCompareTabs ---------------------------
(* TLC instances of CompareTabs. *)
EXTENDS CompareTabs

\* HEAD moves, and the watched file is written back as it was at the base.
\* Of the two files of the first list one is gone in the second.
MovingHeads == <<1, 2>>
MovingTexts == <<1, 0>>
MovingRows  == <<{"a", "b"}, {"b", Folder}>>
=============================================================================
