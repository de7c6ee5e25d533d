\* list_front in condvar_wait against a waiter that is not waiting yet.
CONSTANTS
  t1 = t1
  t2 = t2
  t3 = t3
  Threads <- const_Threads
  Main = t1
  Idle = idle_thread
  Priorities = {1, 2}
  PRI_DEFAULT = 1
  TIME_SLICE = 2
  LockSema = LockSema
  NoSema = NoSema
  NoHolder = NoHolder
SPECIFICATION Spec
INVARIANT NoPanic
