--------------------------- MODULE MCExplorerTab ---------------------------
(* TLC instance of ExplorerTab: a file at the root, and one that comes with  *)
(* its folder.                                                               *)
EXTENDS ExplorerTab

TwoDirs  == {"", "d"}
TwoFiles == {"d/n", "g"}
Folders  == [n \in {"d", "d/n", "g"} |-> IF n = "d/n" THEN "d" ELSE ""]
Tree     == <<"d", "d/n", "g">>

\* `g` is deleted and comes back changed; `n` is new, then committed.
Edits == <<
    [f \in TwoFiles |-> IF f = "g" THEN <<1, "clean">> ELSE <<0, "clean">>],
    [f \in TwoFiles |-> IF f = "g" THEN <<0, "D">> ELSE <<1, "?">>],
    [f \in TwoFiles |-> IF f = "g" THEN <<2, "M">> ELSE <<1, "clean">>] >>
=============================================================================
