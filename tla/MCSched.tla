------------------------------ MODULE MCSched -------------------------------
(***************************************************************************)
(* Sched.tla for TLC: two CPUs, five interchangeable threads, three        *)
(* priorities (best, middle, worst), arrays that four threads use up, and  *)
(* aging after one waiting call, so that a priority is decremented below   *)
(* 0.  Time slices end until the worst array of each CPU is used up and    *)
(* the threads are refused: the model then stops, having no thread left,   *)
(* which is why deadlock is allowed.                                       *)
(***************************************************************************)
EXTENDS Sched, TLC

MCCPUS == 0 .. 1

ThreadSymmetry == Permutations(Threads)
=============================================================================
