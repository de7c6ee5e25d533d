------------------------------ MODULE MCAlarm ------------------------------
(* Three threads that sleep; each configuration says which of them have   *)
(* slept before.                                                          *)
EXTENDS Alarm

CONSTANTS t1, t2, t3

const_Threads == {t1, t2, t3}
all_SleptSets == {{}, {t1, t2}, const_Threads}
all_Slept == {const_Threads}
none_Slept == {{}}
=============================================================================
