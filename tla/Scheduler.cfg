\* Every algorithm, quanta of one and two ticks, two priorities.
CONSTANTS
  t1 = t1
  t2 = t2
  t3 = t3
  Threads <- const_Threads
  NULL = NULL
  Algorithms = {0, 1, 2, 3}
  Quanta = {1, 2}
  Priorities = {0, 1}
  MaxTicks = 5
SPECIFICATION Spec
SYMMETRY ThreadSymmetry
INVARIANT QueuesConsistent
INVARIANT WaitingTimeExact
INVARIANT RoundRobinBound
PROPERTY PriorityAfterTick
