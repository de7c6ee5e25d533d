\* The first timer_sleep of a thread, with interrupts on as its comment asks.
CONSTANTS
  t1 = t1
  t2 = t2
  t3 = t3
  Threads <- const_Threads
  Main = t1
  Idle = idle_thread
  HEAD = HEAD
  TAIL = TAIL
  NULL = NULL
  Priorities = {1}
  PRI_DEFAULT = 1
  TIME_SLICE = 2
  Sleepers <- const_Threads
  SleptSets <- none_Slept
  Naps = {1, 2}
  MaxTicks = 4
SPECIFICATION Spec
INVARIANT NoPanic
