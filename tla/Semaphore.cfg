\* Three threads, two priorities, device interrupts on one of two semaphores;
\* the kernel may panic and then stops.
CONSTANTS
  main = main
  t1 = t1
  t2 = t2
  s1 = s1
  s2 = s2
  Threads <- const_Threads
  Main = main
  Idle = idle_thread
  Priorities = {1, 2}
  PRI_DEFAULT = 1
  TIME_SLICE = 2
  Semas <- two_Semas
  NoSema = NoSema
  IrqSemas <- one_Sema
  MaxValue = 2
SPECIFICATION Spec
INVARIANT ListsConsistent
INVARIANT RunningHighest
INVARIANT NoLostWakeup
PROPERTY WakesFirstOfHighest
PROPERTY NoStarvation
