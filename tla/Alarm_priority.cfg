\* Threads that have slept before, so that their calls run with interrupts off.
CONSTANTS
  t1 = t1
  t2 = t2
  t3 = t3
  Threads <- const_Threads
  Main = t1
  Idle = idle_thread
  HEAD = HEAD
  TAIL = TAIL
  NULL = NULL
  Priorities = {1, 2}
  PRI_DEFAULT = 1
  TIME_SLICE = 2
  Sleepers <- const_Threads
  SleptSets <- all_Slept
  Naps = {1, 2}
  MaxTicks = 4
SPECIFICATION Spec
INVARIANT OnTime
