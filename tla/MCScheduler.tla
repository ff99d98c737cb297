---------------------------- MODULE MCScheduler ----------------------------
(* TLC instance of Scheduler alone: two checkouts and no user work. *)
EXTENDS Scheduler
CONSTANTS a, b
TwoPaths == {a, b}
NoTags == {}
=============================================================================
