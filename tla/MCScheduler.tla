---------------------------- MODULE MCScheduler ----------------------------
(* All four algorithms on three interchangeable threads.                  *)
EXTENDS Scheduler

CONSTANTS t1, t2, t3

const_Threads == {t1, t2, t3}
ThreadSymmetry == Permutations(const_Threads)
=============================================================================
