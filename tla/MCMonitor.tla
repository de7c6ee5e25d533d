----------------------------- MODULE MCMonitor -----------------------------
(* Three threads around one lock and one condition variable.              *)
EXTENDS Monitor

CONSTANTS t1, t2, t3

const_Threads == {t1, t2, t3}
=============================================================================
