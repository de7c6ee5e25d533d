---------------------------- MODULE MCSemaphore ----------------------------
(* Small kernels for TLC: main, two more threads and the idle thread.     *)
EXTENDS Semaphore

CONSTANTS main, t1, t2, s1, s2

const_Threads == {main, t1, t2}
one_Sema == {s1}
two_Semas == {s1, s2}
=============================================================================
