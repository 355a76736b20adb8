------------------------ MODULE MCScheduleRefinement ------------------------
(* Small instances of ScheduleLifecycle and of its refinement: two         *)
(* messages, of which the second may be read as a cancellation.            *)
EXTENDS ScheduleRefinement, TLC

MCMessages == 1..2
MCConfirms == {1, 2}
MCCancels == {2}

ActionSymmetry == Permutations(ActionIds)
=============================================================================
