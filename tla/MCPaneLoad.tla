----------------------------- MODULE MCPaneLoad -----------------------------
(* TLC instance of PaneLoad alone: two rows of the tree and no user work. *)
EXTENDS PaneLoad
CONSTANTS t1, t2
TwoTargets == {t1, t2}
NoPaths == {}
NoTags == {}
=============================================================================
