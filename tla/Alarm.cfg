\* Three sleepers of equal or different priorities, with interrupts on for none, one or all;
\* the kernel may panic and then stops.
CONSTANTS
  t1 = t1
  t2 = t2
  t3 = t3
  Threads <- const_Threads
  Main = t1
  Idle = idle_thread
  HEAD = HEAD
  TAIL = TAIL
  NULL = NULL
  Priorities = {1, 2}
  PRI_DEFAULT = 1
  TIME_SLICE = 2
  Sleepers <- const_Threads
  SleptSets <- all_SleptSets
  Naps = {1, 2}
  MaxTicks = 4
SPECIFICATION Spec
INVARIANT TimerListConsistent
INVARIANT NeverEarly
INVARIANT LateOnlyBehindHigher
