--------------------------- MODULE MonitorProofs ---------------------------
(***************************************************************************)
(* Proofs about Monitor, for every set of threads and priorities.  What    *)
(* the kernel below does to its lists is not proved again: the lemmas of   *)
(* SemaphoreProofs are instantiated for the semaphores of the monitor.     *)
(***************************************************************************)
EXTENDS Monitor, SequenceTheorems, FiniteSetTheorems, TLAPS

SP == INSTANCE SemaphoreProofs WITH IrqSemas <- {}

\* The waiters of s are the threads blocked in its loop, once, by priority.
QueueOK(s) ==
  /\ NoDuplicates(waiters[s])
  /\ Descending(priority, waiters[s])
  /\ \A t \in Threads :
       t \in ToSet(waiters[s]) <=> status[t] = "BLOCKED" /\ wait_on[t] = s

\* The invariant of the kernel below, as it is proved for Semaphore.
KernelInv ==
  /\ S!TypeOK
  /\ SchedulerOK(priority, ready_list, status, running)
  /\ panic = "none" => Outranked(priority, ready_list, running)
  /\ \A s \in Semas : QueueOK(s)
  /\ \A t \in Threads : status[t] \in {"FREE", "DYING"} => wait_on[t] = NoSema
  /\ panic # "not_blocked"

\* A thread in the loop of a semaphore is where lock.c or condvar.c goes down
\* on it: the lock's in lock_acquire, its own in condvar_wait, no other's.
PlaceInv ==
  \A t \in Threads :
    wait_on[t] # NoSema =>
      \/ wait_on[t] = LockSema /\ pc[t] = "acquire"
      \/ wait_on[t] = t /\ pc[t] = "down"

\* The lock: one owner at most, none exactly when the semaphore is up.
LockInv ==
  /\ value[LockSema] \in {0, 1}
  /\ \A t, u \in Owners : t = u
  /\ value[LockSema] = 1 <=> Owners = {}
  /\ \A t \in Threads : holder = t <=> t \in Inside

Waiting == {"release", "up_down", "down"}

\* The condition variable: an element is on its list from condvar_wait to the
\* signal, with its semaphore down; from then on its semaphore is up, until
\* its thread has gone past it.
CondInv ==
  /\ NoDuplicates(cond_waiters)
  /\ Descending(priority, cond_waiters)
  /\ \A t \in ToSet(cond_waiters) : pc[t] \in Waiting /\ value[t] = 0
  /\ \A t \in Threads :
       pc[t] \in Waiting /\ t \notin ToSet(cond_waiters)
         => value[t] = 1 /\ waiters[t] = <<>>

IInv ==
  /\ KernelInv
  /\ holder \in Threads \cup {NoHolder}
  /\ cond_waiters \in Seq(Threads)
  /\ pc \in [Threads -> PC]
  /\ PlaceInv /\ LockInv /\ CondInv

----------------------------------------------------------------------------
\* What the lemmas of SemaphoreProofs ask of the constants holds here.
LEMMA KernelAssumptions == SP!ThreadsAssumption /\ SP!SemaphoreAssumption
<1>1. SP!ThreadsAssumption
  BY ThreadsAssumption DEF SP!ThreadsAssumption
<1>2. SP!SemaphoreAssumption
  BY MonitorAssumption
  DEF SP!SemaphoreAssumption, Semas, MaxValue, IsFiniteSet, SP!IsFiniteSet
<1> QED  BY <1>1, <1>2

\* A non-empty set of naturals has a smallest element.
LEMMA NatHasMin ==
  ASSUME NEW X \in SUBSET Nat, X # {}
  PROVE  \E n \in X : \A m \in X : n <= m
BY KernelAssumptions, SP!NatHasMin

\* Membership in ToSet by index.
LEMMA ToSetIndex ==
  ASSUME NEW T, NEW s \in Seq(T), NEW t
  PROVE  t \in ToSet(s) <=> \E i \in 1 .. Len(s) : s[i] = t
<1>1. DOMAIN s = 1 .. Len(s)
  BY LenProperties
<1> QED  BY <1>1 DEF ToSet

\* What inserting into a list of threads, and taking its head, does to it.
LEMMA InsertProperties ==
  ASSUME NEW prio \in [All -> Nat], NEW ls \in Seq(Threads), NEW t \in Threads
  PROVE  /\ insert_ordered_thread_priority(prio, ls, t) \in Seq(Threads)
         /\ ToSet(insert_ordered_thread_priority(prio, ls, t)) = ToSet(ls) \cup {t}
         /\ NoDuplicates(ls) /\ t \notin ToSet(ls)
              => NoDuplicates(insert_ordered_thread_priority(prio, ls, t))
         /\ Descending(prio, ls)
              => Descending(prio, insert_ordered_thread_priority(prio, ls, t))
<1> DEFINE r == insert_ordered_thread_priority(prio, ls, t)
           q == SP!insert_ordered_thread_priority(prio, ls, t)
<1>1. r = q
  BY DEF insert_ordered_thread_priority, SP!insert_ordered_thread_priority,
         InsertAt, SP!InsertAt, Min, SP!Min
<1>2. prio \in [SP!All -> Nat]
  BY DEF All, SP!All
<1>3. /\ q \in Seq(Threads) /\ SP!ToSet(q) = SP!ToSet(ls) \cup {t}
      /\ SP!NoDuplicates(ls) /\ t \notin SP!ToSet(ls) => SP!NoDuplicates(q)
      /\ SP!Descending(prio, ls) => SP!Descending(prio, q)
  BY <1>2, KernelAssumptions, SP!InsertProperties
<1> HIDE DEF q
<1>4. /\ q \in Seq(Threads) /\ ToSet(q) = ToSet(ls) \cup {t}
      /\ NoDuplicates(ls) /\ t \notin ToSet(ls) => NoDuplicates(q)
      /\ Descending(prio, ls) => Descending(prio, q)
  BY <1>3 DEF ToSet, SP!ToSet, NoDuplicates, SP!NoDuplicates, Descending, SP!Descending
<1> QED
  BY <1>1, <1>4

LEMMA TailProperties ==
  ASSUME NEW prio \in [All -> Nat], NEW ls \in Seq(Threads), ls # <<>>
  PROVE  /\ Head(ls) \in Threads /\ Tail(ls) \in Seq(Threads)
         /\ ToSet(ls) = ToSet(Tail(ls)) \cup {Head(ls)}
         /\ NoDuplicates(ls) => NoDuplicates(Tail(ls)) /\ Head(ls) \notin ToSet(Tail(ls))
         /\ Descending(prio, ls) => Descending(prio, Tail(ls))
<1>1. prio \in [SP!All -> Nat]
  BY DEF All, SP!All
<1>2. /\ Head(ls) \in Threads /\ Tail(ls) \in Seq(Threads)
      /\ SP!ToSet(ls) = SP!ToSet(Tail(ls)) \cup {Head(ls)}
      /\ SP!NoDuplicates(ls)
           => SP!NoDuplicates(Tail(ls)) /\ Head(ls) \notin SP!ToSet(Tail(ls))
      /\ SP!Descending(prio, ls) => SP!Descending(prio, Tail(ls))
  BY <1>1, KernelAssumptions, SP!TailProperties
<1> QED
  BY <1>2 DEF ToSet, SP!ToSet, NoDuplicates, SP!NoDuplicates, Descending, SP!Descending

\* The semaphores of the monitor.
LEMMA SemaFacts ==
  /\ LockSema \in Semas /\ NoSema \notin Semas
  /\ \A t \in Threads : t \in Semas /\ t # LockSema /\ t # NoHolder /\ t \in All /\ t # Idle
BY MonitorAssumption, ThreadsAssumption DEF Semas, All

\* KernelInv is the invariant of SemaphoreProofs.
LEMMA SameInv == KernelInv <=> SP!IInv
BY DEF KernelInv, SP!IInv, S!TypeOK, SP!TypeOK, S!ThreadsTypeOK, SP!ThreadsTypeOK,
       All, S!All, SP!All, S!Status, SP!Status,
       SchedulerOK, SP!SchedulerOK, ListOK, SP!ListOK, Outranked, SP!Outranked,
       NoDuplicates, SP!NoDuplicates, Descending, SP!Descending, ToSet, SP!ToSet,
       QueueOK, SP!QueueOK, SP!DeadWaitNowhere

LEMMA SameInvNext == KernelInv' <=> SP!IInv'
BY DEF KernelInv, SP!IInv, S!TypeOK, SP!TypeOK, S!ThreadsTypeOK, SP!ThreadsTypeOK,
       All, S!All, SP!All, S!Status, SP!Status,
       SchedulerOK, SP!SchedulerOK, ListOK, SP!ListOK, Outranked, SP!Outranked,
       NoDuplicates, SP!NoDuplicates, Descending, SP!Descending, ToSet, SP!ToSet,
       QueueOK, SP!QueueOK, SP!DeadWaitNowhere

\* semaphore_down keeps the kernel's invariant.
LEMMA DownKept ==
  ASSUME KernelInv, NEW s \in Semas, S!semaphore_down(s)
  PROVE  KernelInv'
<1>1. SP!semaphore_down(s)
  BY DEF S!semaphore_down, SP!semaphore_down, S!thread_block, SP!thread_block,
         S!schedule, SP!schedule, S!insert_ordered_thread_priority,
         SP!insert_ordered_thread_priority, S!InsertAt, SP!InsertAt, S!Min, SP!Min,
         S!threadVars, SP!threadVars, S!All, SP!All
<1> QED  BY <1>1, SameInv, SameInvNext, KernelAssumptions, SP!DownStep

\* So does semaphore_up, called by a thread.
LEMMA UpKept ==
  ASSUME KernelInv, panic = "none", NEW s \in Semas, S!up(s, FALSE), UNCHANGED halted
  PROVE  KernelInv'
<1>1. SP!up(s, FALSE)
  BY DEF S!up, SP!up, S!thread_unblock, SP!thread_unblock, S!unblock, SP!unblock,
         S!Panic, SP!Panic, S!yield, SP!yield,
         S!schedule, SP!schedule, S!insert_ordered_thread_priority,
         SP!insert_ordered_thread_priority, S!InsertAt, SP!InsertAt, S!Min, SP!Min,
         S!threadVars, SP!threadVars, S!All, SP!All
<1>2. SP!IInv /\ halted' \in BOOLEAN /\ FALSE \in BOOLEAN
  BY SameInv DEF KernelInv, S!TypeOK
<1> QED  BY <1>1, <1>2, SameInvNext, KernelAssumptions, SP!UpStep

\* So do the timer and the idle thread.
LEMMA KernelKept ==
  ASSUME KernelInv, S!timer_interrupt \/ S!idle
  PROVE  KernelInv'
<1>1. SP!timer_interrupt \/ SP!idle
  BY DEF S!timer_interrupt, SP!timer_interrupt, S!idle, SP!idle,
         S!InterruptsOn, SP!InterruptsOn, S!thread_yield, SP!thread_yield,
         S!yield, SP!yield, S!thread_block, SP!thread_block, S!semaVars, SP!semaVars,
         S!schedule, SP!schedule, S!insert_ordered_thread_priority,
         SP!insert_ordered_thread_priority, S!InsertAt, SP!InsertAt, S!Min, SP!Min,
         S!All, SP!All
<1>2. SP!Next
  BY <1>1 DEF SP!Next
<1> QED  BY <1>2, SameInv, SameInvNext, KernelAssumptions, SP!NextIInv

----------------------------------------------------------------------------
\* A member of SetToSeqs lists the set, each element once.
LEMMA SeqsOfSet ==
  ASSUME NEW T, IsFiniteSet(T), NEW ls \in SetToSeqs(T)
  PROVE  ls \in Seq(T) /\ NoDuplicates(ls) /\ ToSet(ls) = T
<1> DEFINE n == Cardinality(T)
<1>1. n \in Nat
  BY FS_CardinalityType
<1>2. ls \in [1 .. n -> T] /\ \A i, j \in 1 .. n : i # j => ls[i] # ls[j]
  BY DEF SetToSeqs
<1> HIDE DEF n
<1>3. ls \in Seq(T) /\ Len(ls) = n
  BY <1>1, <1>2
<1>4. NoDuplicates(ls)
  BY <1>2, <1>3 DEF NoDuplicates
<1>5. ls \in Injection(1 .. n, T)
  BY <1>2 DEF Injection, IsInjective
<1>6. Cardinality(1 .. n) = n /\ n = Cardinality(T)
  BY <1>1, FS_Interval DEF n
<1>7. ls \in Surjection(1 .. n, T)
  BY <1>5, <1>6, FS_Injection
<1>8. ToSet(ls) = T
  BY <1>2, <1>3, <1>7 DEF Surjection, ToSet
<1> QED  BY <1>3, <1>4, <1>8

\* All threads exist, the lock is free and the condition variable is empty.
LEMMA InitIInv == Init => IInv
<1> SUFFICES ASSUME Init PROVE IInv
  OBVIOUS
<1>1. running \in Threads /\ running # Idle /\ Idle \in All
  BY SemaFacts DEF Init, All
<1>2. priority \in [All -> Priorities \cup {0}]
      /\ \A u \in Threads : priority[u] <= priority[running]
  BY DEF Init
<1>3. /\ status \in [All -> Status]
      /\ \A t \in All : status[t] = "RUNNING" <=> t = running
      /\ \A t \in Threads : status[t] = (IF t = running THEN "RUNNING" ELSE "READY")
  BY <1>1, SemaFacts DEF Init, Status, All
<1>4. /\ ready_list \in Seq(Threads) /\ NoDuplicates(ready_list)
      /\ Descending(priority, ready_list) /\ ToSet(ready_list) = Threads \ {running}
  <2>1. IsFiniteSet(Threads \ {running})
    BY MonitorAssumption, FS_Subset
  <2>2. ready_list \in SetToSeqs(Threads \ {running}) /\ Descending(priority, ready_list)
    BY DEF Init
  <2>3. ready_list \in Seq(Threads \ {running}) /\ NoDuplicates(ready_list)
        /\ ToSet(ready_list) = Threads \ {running}
    BY <2>1, <2>2, SeqsOfSet
  <2> QED  BY <2>2, <2>3, SeqMonotonic
<1>5. /\ value \in [Semas -> 0 .. MaxValue] /\ waiters \in [Semas -> Seq(Threads)]
      /\ wait_on \in [Threads -> Semas \cup {NoSema}]
      /\ \A s \in Semas : waiters[s] = <<>> /\ value[s] = (IF s = LockSema THEN 1 ELSE 0)
      /\ \A t \in Threads : wait_on[t] = NoSema /\ pc[t] = "out"
      /\ holder = NoHolder /\ cond_waiters = <<>> /\ pc \in [Threads -> PC]
      /\ panic = "none" /\ thread_ticks = 0 /\ halted = TRUE
  BY DEF Init, MaxValue, PC
<1>6. S!TypeOK
  BY <1>1, <1>2, <1>3, <1>4, <1>5, ThreadsAssumption
  DEF S!TypeOK, S!ThreadsTypeOK, S!All, All, S!Status, Status
<1>7. SchedulerOK(priority, ready_list, status, running)
  BY <1>3, <1>4 DEF SchedulerOK, ListOK
<1>8. Outranked(priority, ready_list, running)
  BY <1>2, <1>4 DEF Outranked
<1>9. \A s \in Semas : QueueOK(s)
  BY <1>3, <1>5, SemaFacts DEF QueueOK, NoDuplicates, Descending, ToSet
<1>10. KernelInv
  BY <1>3, <1>5, <1>6, <1>7, <1>8, <1>9 DEF KernelInv
<1>11. Owners = {} /\ Inside = {}
  BY <1>5 DEF Owners, Inside
<1>12. LockInv
  BY <1>5, <1>11, SemaFacts DEF LockInv
<1>13. PlaceInv
  BY <1>5 DEF PlaceInv
<1>14. CondInv
  BY <1>5 DEF CondInv, NoDuplicates, Descending, ToSet, Waiting
<1> QED  BY <1>5, <1>10, <1>12, <1>13, <1>14 DEF IInv

----------------------------------------------------------------------------
\* The types a step starts from.
LEMMA Facts ==
  ASSUME IInv, panic = "none", running # Idle
  PROVE  /\ running \in Threads
         /\ value \in [Semas -> 0 .. 2] /\ waiters \in [Semas -> Seq(Threads)]
         /\ wait_on \in [Threads -> Semas \cup {NoSema}]
         /\ pc \in [Threads -> PC] /\ status[running] = "RUNNING"
         /\ priority \in [All -> Nat]
<1>1. priority \in [All -> Priorities \cup {0}] /\ running \in All
  BY DEF IInv, KernelInv, S!TypeOK, S!ThreadsTypeOK, S!All, All
<1>2. \A p \in Priorities \cup {0} : p \in Nat
  BY ThreadsAssumption
<1>3. priority \in [All -> Nat]
  BY <1>1, <1>2
<1>4. running \in Threads
  BY <1>1 DEF All
<1> QED
  BY <1>1, <1>3, <1>4 DEF IInv, KernelInv, S!TypeOK, SchedulerOK, MaxValue

\* Only a thread itself goes down on the semaphore of its element, and it
\* does so in condvar_wait.
LEMMA OwnSemaphore ==
  ASSUME IInv, NEW t \in Threads, waiters[t] # <<>>
  PROVE  /\ pc[t] = "down" /\ Head(waiters[t]) = t /\ Tail(waiters[t]) = <<>>
<1>1. waiters[t] \in Seq(Threads) /\ QueueOK(t)
  BY SemaFacts DEF IInv, KernelInv, S!TypeOK
<1>2. \A i \in 1 .. Len(waiters[t]) : waiters[t][i] = t /\ pc[t] = "down"
  <2> SUFFICES ASSUME NEW i \in 1 .. Len(waiters[t])
               PROVE  waiters[t][i] = t /\ pc[t] = "down"
    OBVIOUS
  <2>1. waiters[t][i] \in Threads /\ waiters[t][i] \in ToSet(waiters[t])
    BY <1>1, ToSetIndex
  <2>2. wait_on[waiters[t][i]] = t
    BY <1>1, <2>1 DEF QueueOK
  <2> QED  BY <2>1, <2>2, SemaFacts DEF IInv, PlaceInv
<1>3. 1 \in 1 .. Len(waiters[t]) /\ Len(waiters[t]) \in Nat
  BY <1>1
<1>4. Len(waiters[t]) = 1
  <2>1. Len(waiters[t]) \in 1 .. Len(waiters[t])
    BY <1>3
  <2>2. waiters[t][1] = waiters[t][Len(waiters[t])]
    BY <1>2, <1>3, <2>1
  <2> QED  BY <1>1, <1>3, <2>1, <2>2 DEF QueueOK, NoDuplicates
<1>5. Head(waiters[t]) = waiters[t][1] /\ Tail(waiters[t]) \in Seq(Threads)
      /\ Len(Tail(waiters[t])) = 0
  BY <1>1, <1>4, HeadTailProperties
<1>6. Tail(waiters[t]) = <<>>
  BY <1>5, EmptySeq
<1> QED  BY <1>2, <1>3, <1>5, <1>6

\* Where the threads are after the running one has moved.
LEMMA Moved ==
  ASSUME IInv, panic = "none", running # Idle, NEW place \in PC, Goto(place)
  PROVE  /\ pc' \in [Threads -> PC] /\ pc'[running] = place
         /\ \A t \in Threads : t # running => pc'[t] = pc[t]
BY Facts DEF Goto

\* A step that leaves the semaphore of the lock, its holder and its owners
\* alone keeps LockInv.
LEMMA LockKept ==
  ASSUME LockInv, value'[LockSema] = value[LockSema], holder' = holder,
         \A t \in Threads : t \in Owners' <=> t \in Owners,
         \A t \in Threads : t \in Inside' <=> t \in Inside
  PROVE  LockInv'
<1>1. Owners' = Owners /\ Inside' = Inside
  BY DEF Owners, Inside
<1> QED  BY <1>1 DEF LockInv

\* The steps of lock.c and condvar.c that touch no semaphore and no list.
LEMMA QuietStep ==
  ASSUME IInv, NEW from \in PC, NEW to \in PC, At(from), Goto(to),
         from \notin {"acquire", "down"}, from \in Waiting <=> to \in Waiting,
         UNCHANGED <<kernelVars, cond_waiters>>
  PROVE  KernelInv' /\ PlaceInv' /\ CondInv'
<1>1. panic = "none" /\ running # Idle /\ pc[running] = from
  BY DEF At
<1>2. running \in Threads /\ pc \in [Threads -> PC]
  BY <1>1, Facts
<1>3. /\ pc' \in [Threads -> PC] /\ pc'[running] = to
      /\ \A t \in Threads : t # running => pc'[t] = pc[t]
  BY <1>1, Moved
<1>4. UNCHANGED <<threadVars, value, waiters, wait_on, halted, cond_waiters>>
  BY DEF kernelVars
<1>5. KernelInv'
  BY <1>4 DEF IInv, KernelInv, S!TypeOK, S!ThreadsTypeOK, QueueOK, threadVars, S!All
<1>6. PlaceInv'
  BY <1>1, <1>2, <1>3, <1>4 DEF IInv, PlaceInv
<1>7. CondInv'
  <2>1. \A t \in ToSet(cond_waiters) : t \in Threads
    BY ToSetIndex DEF IInv
  <2> QED  BY <1>1, <1>2, <1>3, <1>4, <2>1 DEF IInv, CondInv, threadVars
<1> QED  BY <1>5, <1>6, <1>7

\* lock_acquire, lock_acquire_holder, lock_release, condvar_wait_release and
\* the end of a broadcast.
LEMMA QuietKept ==
  ASSUME IInv,
         \/ lock_acquire \/ lock_acquire_holder \/ lock_release \/ condvar_wait_release
         \/ /\ At("in") \/ At("broadcast")
            /\ Goto("in") /\ UNCHANGED <<kernelVars, holder, cond_waiters>>
  PROVE  IInv'
<1>1. CASE lock_acquire
  <2>1. /\ At("out") /\ Goto("acquire") /\ UNCHANGED <<kernelVars, holder, cond_waiters>>
        /\ panic = "none" /\ running # Idle /\ pc[running] = "out"
    BY <1>1 DEF lock_acquire, At
  <2>2. KernelInv' /\ PlaceInv' /\ CondInv'
    BY <2>1, QuietStep DEF PC, Waiting
  <2>3. /\ pc' \in [Threads -> PC] /\ pc'[running] = "acquire"
        /\ \A t \in Threads : t # running => pc'[t] = pc[t]
    BY <2>1, Moved DEF PC
  <2>4. LockInv'
    BY <2>1, <2>3, LockKept DEF IInv, kernelVars, Owners, Inside
  <2> QED  BY <2>1, <2>2, <2>3, <2>4 DEF IInv
<1>2. CASE lock_acquire_holder
  <2>1. /\ At("got") /\ Goto("in") /\ UNCHANGED <<kernelVars, cond_waiters>>
        /\ holder' = running
        /\ panic = "none" /\ running # Idle /\ pc[running] = "got"
    BY <1>2 DEF lock_acquire_holder, At
  <2>2. KernelInv' /\ PlaceInv' /\ CondInv'
    BY <2>1, QuietStep DEF PC, Waiting
  <2>3. /\ pc' \in [Threads -> PC] /\ pc'[running] = "in"
        /\ \A t \in Threads : t # running => pc'[t] = pc[t]
    BY <2>1, Moved DEF PC
  <2>4. running \in Threads /\ running \in Owners
    BY <2>1, Facts DEF Owners
  <2>5. Owners = {running} /\ Owners' = {running} /\ Inside' = {running}
    BY <2>1, <2>3, <2>4 DEF IInv, LockInv, Owners, Inside
  <2>6. LockInv'
    BY <2>1, <2>4, <2>5 DEF IInv, LockInv, kernelVars
  <2> QED  BY <2>1, <2>2, <2>3, <2>4, <2>6 DEF IInv
<1>3. CASE lock_release \/ condvar_wait_release
  <2>1. PICK from \in {"in", "release"}, to \in {"up_out", "up_down"} :
          /\ At(from) /\ Goto(to) /\ UNCHANGED <<kernelVars, cond_waiters>>
          /\ from \in Waiting <=> to \in Waiting
          /\ holder' = NoHolder
          /\ panic = "none" /\ running # Idle /\ pc[running] = from
    BY <1>3 DEF lock_release, condvar_wait_release, At, Waiting
  <2>2. from \in PC /\ to \in PC /\ from \notin {"acquire", "down"}
    BY DEF PC
  <2>3. KernelInv' /\ PlaceInv' /\ CondInv'
    BY <2>1, <2>2, QuietStep
  <2>4. /\ pc' \in [Threads -> PC] /\ pc'[running] = to
        /\ \A t \in Threads : t # running => pc'[t] = pc[t]
    BY <2>1, <2>2, Moved
  <2>5. running \in Threads /\ running \in Owners
    BY <2>1, Facts DEF Owners, Inside
  <2>6. Owners = {running} /\ Owners' = {running} /\ Inside' = {}
    BY <2>1, <2>4, <2>5 DEF IInv, LockInv, Owners, Inside
  <2>7. LockInv'
    BY <2>1, <2>5, <2>6, SemaFacts DEF IInv, LockInv, kernelVars
  <2> QED  BY <2>1, <2>3, <2>4, <2>7 DEF IInv
<1>4. ASSUME At("in") \/ At("broadcast"), Goto("in"),
             UNCHANGED <<kernelVars, holder, cond_waiters>>
      PROVE  IInv'
  <2>1. PICK from \in {"in", "broadcast"} : At(from)
    BY <1>4
  <2>2. panic = "none" /\ running # Idle /\ pc[running] = from
    BY <2>1 DEF At
  <2>3. KernelInv' /\ PlaceInv' /\ CondInv'
    BY <1>4, <2>1, QuietStep DEF PC, Waiting
  <2>4. /\ pc' \in [Threads -> PC] /\ pc'[running] = "in"
        /\ \A t \in Threads : t # running => pc'[t] = pc[t]
    BY <1>4, <2>2, Moved DEF PC
  <2>5. LockInv'
    BY <1>4, <2>2, <2>4, LockKept DEF IInv, kernelVars, Owners, Inside
  <2> QED  BY <1>4, <2>3, <2>4, <2>5 DEF IInv
<1> QED  BY <1>1, <1>2, <1>3, <1>4

\* lock_acquire goes down on the lock: the thread owns it now, or waits on.
LEMMA AcquireDownStep == ASSUME IInv, lock_acquire_down PROVE IInv'
<1>1. /\ panic = "none" /\ running # Idle /\ pc[running] = "acquire"
      /\ S!semaphore_down(LockSema) /\ UNCHANGED <<holder, cond_waiters>>
  BY DEF lock_acquire_down, At
<1>2. /\ running \in Threads /\ value \in [Semas -> 0 .. 2]
      /\ waiters \in [Semas -> Seq(Threads)] /\ wait_on \in [Threads -> Semas \cup {NoSema}]
      /\ pc \in [Threads -> PC]
  BY <1>1, Facts
<1>3. KernelInv'
  BY <1>1, SemaFacts, DownKept DEF IInv
<1>4. priority' = priority
  BY <1>1 DEF S!semaphore_down, S!threadVars
<1>5. \A t \in Threads : value'[t] = value[t] /\ waiters'[t] = waiters[t]
  BY <1>1, <1>2, SemaFacts DEF S!semaphore_down
<1>6. \A t \in ToSet(cond_waiters) : t \in Threads
  BY ToSetIndex DEF IInv
<1>7. CASE value[LockSema] = 0
  <2>1. pc' = pc /\ wait_on' = [wait_on EXCEPT ![running] = LockSema] /\ value' = value
    BY <1>1, <1>7 DEF S!semaphore_down, lock_acquire_down
  <2>2. PlaceInv'
    BY <1>1, <1>2, <2>1 DEF IInv, PlaceInv
  <2>3. CondInv'
    BY <1>1, <1>4, <1>5, <1>6, <2>1 DEF IInv, CondInv
  <2>4. LockInv'
    BY <1>1, <2>1, LockKept DEF IInv, Owners, Inside
  <2> QED  BY <1>1, <1>3, <2>1, <2>2, <2>3, <2>4 DEF IInv
<1>8. CASE value[LockSema] # 0
  <2>1. /\ wait_on' = [wait_on EXCEPT ![running] = NoSema]
        /\ value' = [value EXCEPT ![LockSema] = @ - 1] /\ Goto("got")
    BY <1>1, <1>8 DEF S!semaphore_down, lock_acquire_down
  <2>2. /\ pc' \in [Threads -> PC] /\ pc'[running] = "got"
        /\ \A t \in Threads : t # running => pc'[t] = pc[t]
    BY <1>1, <2>1, Moved DEF PC
  <2>3. PlaceInv'
    BY <1>1, <1>2, <2>1, <2>2 DEF IInv, PlaceInv
  <2>4. CondInv'
    BY <1>1, <1>2, <1>4, <1>5, <1>6, <2>2 DEF IInv, CondInv, Waiting
  <2>5. value[LockSema] = 1 /\ Owners = {} /\ value'[LockSema] = 0
    BY <1>2, <1>8, <2>1, SemaFacts DEF IInv, LockInv
  <2>6. Owners' = {running} /\ Inside' = Inside
    BY <1>1, <1>2, <2>2, <2>5 DEF Owners, Inside
  <2>7. LockInv'
    BY <1>1, <2>5, <2>6 DEF IInv, LockInv
  <2> QED  BY <1>1, <1>3, <2>2, <2>3, <2>4, <2>7 DEF IInv
<1> QED  BY <1>7, <1>8

\* The second half of lock_release: the lock has no owner now.
LEMMA ReleaseUpStep == ASSUME IInv, lock_release_up PROVE IInv'
<1>1. PICK to \in {"out", "down"} :
        /\ panic = "none" /\ running # Idle /\ pc[running] \in {"up_out", "up_down"}
        /\ pc[running] \in Waiting <=> to \in Waiting
        /\ Goto(to) /\ S!up(LockSema, FALSE) /\ UNCHANGED <<holder, cond_waiters, halted>>
  BY DEF lock_release_up, At, Waiting
<1>2. /\ running \in Threads /\ value \in [Semas -> 0 .. 2]
      /\ waiters \in [Semas -> Seq(Threads)] /\ wait_on \in [Threads -> Semas \cup {NoSema}]
      /\ pc \in [Threads -> PC]
  BY <1>1, Facts
<1>3. KernelInv'
  BY <1>1, SemaFacts, UpKept DEF IInv
<1>4. priority' = priority /\ wait_on' = wait_on
      /\ value' = [value EXCEPT ![LockSema] = @ + 1]
  BY <1>1 DEF S!up, S!threadVars
<1>5. \A t \in Threads : value'[t] = value[t] /\ waiters'[t] = waiters[t]
  BY <1>1, <1>2, SemaFacts DEF S!up
<1>6. \A t \in ToSet(cond_waiters) : t \in Threads
  BY ToSetIndex DEF IInv
<1>7. /\ pc' \in [Threads -> PC] /\ pc'[running] = to
      /\ \A t \in Threads : t # running => pc'[t] = pc[t]
  BY <1>1, Moved DEF PC
<1>8. PlaceInv'
  BY <1>1, <1>2, <1>4, <1>7 DEF IInv, PlaceInv
<1>9. CondInv'
  BY <1>1, <1>2, <1>4, <1>5, <1>6, <1>7 DEF IInv, CondInv
<1>10. Owners = {running} /\ running \notin Inside
  BY <1>1, <1>2 DEF IInv, LockInv, Owners, Inside
<1>11. Owners' = {} /\ Inside' = Inside
  BY <1>1, <1>7, <1>10 DEF Owners, Inside
<1>12. value[LockSema] = 0 /\ value'[LockSema] = 1
  BY <1>2, <1>4, <1>10, SemaFacts DEF IInv, LockInv
<1>13. LockInv'
  BY <1>1, <1>11, <1>12 DEF IInv, LockInv
<1> QED  BY <1>1, <1>3, <1>7, <1>8, <1>9, <1>13 DEF IInv

\* condvar_wait goes down on the thread's own semaphore.
LEMMA WaitDownStep == ASSUME IInv, condvar_wait_down PROVE IInv'
<1>1. /\ panic = "none" /\ running # Idle /\ pc[running] = "down"
      /\ S!semaphore_down(running) /\ UNCHANGED <<holder, cond_waiters>>
  BY DEF condvar_wait_down, At
<1>2. /\ running \in Threads /\ value \in [Semas -> 0 .. 2]
      /\ waiters \in [Semas -> Seq(Threads)] /\ wait_on \in [Threads -> Semas \cup {NoSema}]
      /\ pc \in [Threads -> PC]
  BY <1>1, Facts
<1>3. KernelInv'
  BY <1>1, <1>2, SemaFacts, DownKept DEF IInv
<1>4. priority' = priority /\ value'[LockSema] = value[LockSema]
  BY <1>1, <1>2, SemaFacts DEF S!semaphore_down, S!threadVars
<1>5. \A t \in Threads : t # running => value'[t] = value[t] /\ waiters'[t] = waiters[t]
  BY <1>1, <1>2, SemaFacts DEF S!semaphore_down
<1>6. \A t \in ToSet(cond_waiters) : t \in Threads
  BY ToSetIndex DEF IInv
<1>7. CASE value[running] = 0
  <2>1. pc' = pc /\ wait_on' = [wait_on EXCEPT ![running] = running] /\ value' = value
    BY <1>1, <1>7 DEF S!semaphore_down, condvar_wait_down
  <2>2. running \in ToSet(cond_waiters)
    BY <1>1, <1>2, <1>7 DEF IInv, CondInv, Waiting
  <2>3. PlaceInv'
    BY <1>1, <1>2, <2>1 DEF IInv, PlaceInv
  <2>4. CondInv'
    BY <1>1, <1>4, <1>5, <1>6, <2>1, <2>2 DEF IInv, CondInv
  <2>5. LockInv'
    BY <1>1, <1>4, <2>1, LockKept DEF IInv, Owners, Inside
  <2> QED  BY <1>1, <1>3, <2>1, <2>3, <2>4, <2>5 DEF IInv
<1>8. CASE value[running] # 0
  <2>1. wait_on' = [wait_on EXCEPT ![running] = NoSema] /\ Goto("acquire")
    BY <1>1, <1>2, <1>8, SemaFacts DEF S!semaphore_down, condvar_wait_down
  <2>2. /\ pc' \in [Threads -> PC] /\ pc'[running] = "acquire"
        /\ \A t \in Threads : t # running => pc'[t] = pc[t]
    BY <1>1, <2>1, Moved DEF PC
  <2>3. running \notin ToSet(cond_waiters)
    BY <1>8 DEF IInv, CondInv
  <2>4. PlaceInv'
    BY <1>1, <1>2, <2>1, <2>2 DEF IInv, PlaceInv
  <2>5. CondInv'
    BY <1>1, <1>2, <1>4, <1>5, <1>6, <2>2, <2>3 DEF IInv, CondInv, Waiting
  <2>6. LockInv'
    BY <1>1, <1>4, <2>2, LockKept DEF IInv, Owners, Inside
  <2> QED  BY <1>1, <1>3, <2>2, <2>4, <2>5, <2>6 DEF IInv
<1> QED  BY <1>7, <1>8

\* The timer and the idle thread.
LEMMA KernelStep == ASSUME IInv, Kernel PROVE IInv'
<1>1. KernelInv'
  BY KernelKept DEF IInv, Kernel
<1>2. UNCHANGED <<holder, cond_waiters, pc, priority, value, waiters, wait_on>>
  BY DEF Kernel, monitorVars, S!timer_interrupt, S!idle, S!semaVars
<1>3. LockInv' /\ PlaceInv'
  BY <1>2 DEF IInv, LockInv, PlaceInv, Owners, Inside
<1>4. CondInv'
  BY <1>2 DEF IInv, CondInv
<1> QED  BY <1>1, <1>2, <1>3, <1>4 DEF IInv

----------------------------------------------------------------------------
\* The minimum is the element that is at most any other.
LEMMA MinIs ==
  ASSUME NEW X \in SUBSET Nat, NEW k \in X, \A m \in X : k <= m
  PROVE  Min(X) = k
<1>1. Min(X) \in X /\ \A m \in X : Min(X) <= m
  BY DEF Min
<1>2. Min(X) <= k /\ k <= Min(X) /\ Min(X) \in Nat /\ k \in Nat
  BY <1>1
<1> HIDE DEF Min
<1> QED  BY <1>2

\* Unless it panics, condvar_wait puts its element where
\* insert_ordered_thread_priority would: the threads it looks at on the way
\* wait on their own semaphores.
LEMMA CondInsert ==
  ASSUME IInv, condvar_wait, panic' = panic
  PROVE  /\ value' = [value EXCEPT ![running] = 0] /\ Goto("release")
         /\ UNCHANGED <<threadVars, waiters, wait_on, halted, holder>>
         /\ cond_waiters' = insert_ordered_thread_priority(priority, cond_waiters, running)
<1> DEFINE n == Len(cond_waiters)
           lower == {i \in 1 .. n : /\ waiters[cond_waiters[i]] # <<>>
                                    /\ priority[running] > FrontPriority(cond_waiters[i])}
           end == Min(lower \cup {n + 1})
           below == {i \in 1 .. n : priority[cond_waiters[i]] < priority[running]}
<1>1. panic = "none" /\ running # Idle
  BY DEF condvar_wait, At
<1>2. running \in Threads /\ priority \in [All -> Nat] /\ cond_waiters \in Seq(Threads)
  BY <1>1, Facts DEF IInv
<1>3. /\ \A i \in 1 .. end - 1 : waiters[cond_waiters[i]] # <<>>
      /\ value' = [value EXCEPT ![running] = 0]
      /\ cond_waiters' = InsertAt(cond_waiters, end, running)
      /\ Goto("release")
      /\ UNCHANGED <<threadVars, waiters, wait_on, halted, holder>>
  BY <1>1 DEF condvar_wait, Panic
<1>4. n \in Nat /\ \A i \in 1 .. n : cond_waiters[i] \in Threads
  BY <1>2
<1>5. \A i \in 1 .. n : /\ priority[cond_waiters[i]] \in Nat /\ priority[running] \in Nat
                        /\ waiters[cond_waiters[i]] # <<>> =>
                             FrontPriority(cond_waiters[i]) = priority[cond_waiters[i]]
  BY <1>2, <1>4, OwnSemaphore, SemaFacts DEF FrontPriority
<1>6. lower \subseteq below
      /\ \A i \in below : waiters[cond_waiters[i]] # <<>> => i \in lower
  BY <1>5
<1>7. PICK e \in lower \cup {n + 1} : \A m \in lower \cup {n + 1} : e <= m
  <2>1. lower \cup {n + 1} \in SUBSET Nat
    BY <1>4
  <2> QED  BY <2>1, NatHasMin
<1>8. end = e
  <2>1. lower \cup {n + 1} \in SUBSET Nat
    BY <1>4
  <2> HIDE DEF lower
  <2> QED  BY <1>7, <2>1, MinIs
<1>9. Min(below \cup {n + 1}) = e
  <2>1. below \cup {n + 1} \in SUBSET Nat /\ e \in below \cup {n + 1} /\ e \in 1 .. n + 1
    BY <1>4, <1>6, <1>7
  <2>2. ASSUME NEW m \in below \cup {n + 1} PROVE e <= m
    <3>1. CASE m < e
      <4>1. m \in below /\ m \in 1 .. e - 1
        BY <1>4, <2>1, <2>2, <3>1
      <4>2. m \in lower
        BY <1>3, <1>6, <1>8, <4>1
      <4> QED  BY <1>7, <4>2
    <3> QED  BY <1>4, <2>1, <3>1
  <2> HIDE DEF below
  <2> QED  BY <2>1, <2>2, MinIs
<1>10. cond_waiters' = insert_ordered_thread_priority(priority, cond_waiters, running)
  BY <1>3, <1>8, <1>9 DEF insert_ordered_thread_priority
<1> QED  BY <1>3, <1>10

\* condvar_wait puts the element on the list, or panics.
LEMMA WaitStep == ASSUME IInv, condvar_wait PROVE IInv'
<1>1. panic = "none" /\ running # Idle /\ pc[running] = "in"
  BY DEF condvar_wait, At
<1>2. /\ running \in Threads /\ value \in [Semas -> 0 .. 2]
      /\ waiters \in [Semas -> Seq(Threads)] /\ wait_on \in [Threads -> Semas \cup {NoSema}]
      /\ pc \in [Threads -> PC] /\ priority \in [All -> Nat]
  BY <1>1, Facts
<1>3. \A t \in ToSet(cond_waiters) : t \in Threads
  BY ToSetIndex DEF IInv
<1>4. running \notin ToSet(cond_waiters)
  BY <1>1 DEF IInv, CondInv, Waiting
<1>5. CASE panic' # panic
  <2>1. /\ panic' = "empty_list"
        /\ UNCHANGED <<ready_list, status, running, thread_ticks, priority, value,
                       cond_waiters, pc, waiters, wait_on, halted, holder>>
    BY <1>5 DEF condvar_wait, Panic, threadVars
  <2>2. S!TypeOK'
    BY <2>1 DEF IInv, KernelInv, S!TypeOK, S!ThreadsTypeOK, S!All
  <2>3. KernelInv'
    BY <2>1, <2>2 DEF IInv, KernelInv, QueueOK
  <2>4. LockInv' /\ PlaceInv' /\ CondInv'
    BY <2>1 DEF IInv, LockInv, PlaceInv, CondInv, Owners, Inside
  <2> QED  BY <2>1, <2>3, <2>4 DEF IInv
<1>6. CASE panic' = panic
  <2>1. /\ value' = [value EXCEPT ![running] = 0] /\ Goto("release")
        /\ UNCHANGED <<threadVars, waiters, wait_on, halted, holder>>
        /\ cond_waiters' = insert_ordered_thread_priority(priority, cond_waiters, running)
    BY <1>6, CondInsert
  <2>2. /\ cond_waiters' \in Seq(Threads)
        /\ ToSet(cond_waiters') = ToSet(cond_waiters) \cup {running}
        /\ NoDuplicates(cond_waiters') /\ Descending(priority, cond_waiters')
    <3>1. cond_waiters \in Seq(Threads) /\ NoDuplicates(cond_waiters)
          /\ Descending(priority, cond_waiters)
      BY DEF IInv, CondInv
    <3> QED  BY <1>2, <1>4, <2>1, <3>1, InsertProperties
  <2>3. /\ pc' \in [Threads -> PC] /\ pc'[running] = "release"
        /\ \A t \in Threads : t # running => pc'[t] = pc[t]
    BY <1>1, <2>1, Moved DEF PC
  <2>4. /\ value' \in [Semas -> 0 .. MaxValue] /\ value'[running] = 0
        /\ \A s \in Semas : s # running => value'[s] = value[s]
    BY <1>2, <2>1, SemaFacts DEF MaxValue
  <2>5. S!TypeOK'
    BY <2>1, <2>4 DEF IInv, KernelInv, S!TypeOK, S!ThreadsTypeOK, S!All, threadVars
  <2>6. KernelInv'
    BY <2>1, <2>5 DEF IInv, KernelInv, QueueOK, threadVars
  <2>7. PlaceInv'
    BY <1>1, <1>2, <2>1, <2>3 DEF IInv, PlaceInv
  <2>8. CondInv'
    BY <1>1, <1>2, <1>3, <2>1, <2>2, <2>3, <2>4, SemaFacts
    DEF IInv, CondInv, threadVars, Waiting
  <2>9. LockInv'
    <3>1. value'[LockSema] = value[LockSema] /\ holder' = holder
      BY <1>2, <2>1, <2>4, SemaFacts
    <3> QED  BY <1>1, <2>3, <3>1, LockKept DEF IInv, Owners, Inside
  <2> QED  BY <1>2, <2>1, <2>2, <2>3, <2>6, <2>7, <2>8, <2>9 DEF IInv
<1> QED  BY <1>5, <1>6

\* condvar_signal and one round of condvar_broadcast: the semaphore of the
\* first element goes up, and its thread is unblocked if it has gone down.
LEMMA SignalStep ==
  ASSUME IInv, At("in") \/ At("broadcast"), cond_waiters # <<>>, signal,
         pc' = pc \/ Goto("broadcast")
  PROVE  IInv'
<1> DEFINE w == Head(cond_waiters)
<1>1. panic = "none" /\ running # Idle /\ pc[running] \in {"in", "broadcast"}
  BY DEF At
<1>2. /\ running \in Threads /\ value \in [Semas -> 0 .. 2]
      /\ waiters \in [Semas -> Seq(Threads)] /\ wait_on \in [Threads -> Semas \cup {NoSema}]
      /\ pc \in [Threads -> PC] /\ priority \in [All -> Nat]
  BY <1>1, Facts
<1>3. /\ w \in Threads /\ Tail(cond_waiters) \in Seq(Threads)
      /\ ToSet(cond_waiters) = ToSet(Tail(cond_waiters)) \cup {w}
      /\ NoDuplicates(Tail(cond_waiters)) /\ w \notin ToSet(Tail(cond_waiters))
      /\ Descending(priority, Tail(cond_waiters))
  BY <1>2, TailProperties DEF IInv, CondInv
<1>4. cond_waiters' = Tail(cond_waiters) /\ S!up(w, FALSE) /\ UNCHANGED <<halted, holder>>
  BY DEF signal
<1> HIDE DEF w
<1>5. pc[w] \in Waiting /\ value[w] = 0 /\ w # running
  BY <1>1, <1>3 DEF IInv, CondInv, Waiting
<1>6. KernelInv'
  BY <1>1, <1>3, <1>4, SemaFacts, UpKept DEF IInv
<1>7. /\ priority' = priority /\ wait_on' = wait_on
      /\ value'[w] = 1 /\ \A s \in Semas : s # w => value'[s] = value[s]
  <2>1. value' = [value EXCEPT ![w] = value[w] + 1] /\ wait_on' = wait_on
    BY <1>4 DEF S!up
  <2>2. priority' = priority
    BY <1>4 DEF S!up, S!threadVars
  <2>3. w \in Semas /\ value[w] + 1 = 1
    BY <1>3, <1>5, SemaFacts
  <2> QED  BY <1>2, <2>1, <2>2, <2>3
<1>8. waiters'[w] = <<>> /\ \A t \in Threads : t # w => waiters'[t] = waiters[t]
  <2>1. CASE waiters[w] = <<>>
    BY <1>4, <2>1 DEF S!up
  <2>2. CASE waiters[w] # <<>>
    <3>1. waiters' = [waiters EXCEPT ![w] = Tail(waiters[w])]
      BY <1>4, <2>2 DEF S!up
    <3>2. Tail(waiters[w]) = <<>>
      BY <1>3, <2>2, OwnSemaphore
    <3> QED  BY <1>2, <1>3, <3>1, <3>2, SemaFacts
  <2> QED  BY <2>1, <2>2
<1>9. /\ pc' \in [Threads -> PC] /\ pc'[running] \in {"in", "broadcast"}
      /\ \A t \in Threads : t # running => pc'[t] = pc[t]
  BY <1>1, <1>2, Moved DEF PC
<1>10. PlaceInv'
  BY <1>1, <1>2, <1>7, <1>9 DEF IInv, PlaceInv
<1>11. \A t \in ToSet(cond_waiters) : t \in Threads
  BY ToSetIndex DEF IInv
<1>12. CondInv'
  <2>1. ASSUME NEW t \in ToSet(cond_waiters') PROVE pc'[t] \in Waiting /\ value'[t] = 0
    BY <1>1, <1>3, <1>4, <1>7, <1>9, <1>11, <2>1, SemaFacts DEF IInv, CondInv, Waiting
  <2>2. ASSUME NEW t \in Threads, pc'[t] \in Waiting, t \notin ToSet(cond_waiters')
        PROVE  value'[t] = 1 /\ waiters'[t] = <<>>
    <3>1. t # running /\ pc[t] \in Waiting
      BY <1>9, <2>2 DEF Waiting
    <3>2. CASE t # w
      BY <1>3, <1>4, <1>7, <1>8, <2>2, <3>1, <3>2, SemaFacts DEF IInv, CondInv
    <3> QED  BY <1>7, <1>8, <3>2
  <2> QED  BY <1>3, <1>4, <1>7, <2>1, <2>2 DEF CondInv
<1>13. LockInv'
  <2>1. value'[LockSema] = value[LockSema] /\ holder' = holder
    BY <1>3, <1>4, <1>7, SemaFacts
  <2> QED  BY <1>1, <1>9, <2>1, LockKept DEF IInv, Owners, Inside
<1> QED  BY <1>3, <1>4, <1>6, <1>9, <1>10, <1>12, <1>13 DEF IInv

\* Every step keeps the invariant.
LEMMA NextIInv == IInv /\ [Next]_vars => IInv'
<1> SUFFICES ASSUME IInv, [Next]_vars PROVE IInv'
  OBVIOUS
<1>1. ASSUME UNCHANGED vars PROVE IInv'
  <2>1. UNCHANGED <<threadVars, value, waiters, wait_on, halted, holder, cond_waiters, pc>>
    BY <1>1 DEF vars, kernelVars, monitorVars
  <2>2. KernelInv'
    BY <2>1 DEF IInv, KernelInv, S!TypeOK, S!ThreadsTypeOK, QueueOK, threadVars, S!All
  <2>3. LockInv' /\ PlaceInv' /\ CondInv'
    BY <2>1 DEF IInv, LockInv, PlaceInv, CondInv, Owners, Inside, threadVars
  <2> QED  BY <2>1, <2>2, <2>3 DEF IInv
<1>2. CASE condvar_signal
  <2>1. CASE cond_waiters # <<>>
    <3>1. (At("in") \/ At("broadcast")) /\ signal /\ pc' = pc
      BY <1>2, <2>1 DEF condvar_signal
    <3> QED  BY <2>1, <3>1, SignalStep
  <2>2. CASE cond_waiters = <<>>
    BY <1>1, <1>2, <2>2 DEF condvar_signal, vars, monitorVars
  <2> QED  BY <2>1, <2>2
<1>3. CASE condvar_broadcast
  <2>1. CASE cond_waiters # <<>>
    <3>1. (At("in") \/ At("broadcast")) /\ signal /\ Goto("broadcast")
      BY <1>3, <2>1 DEF condvar_broadcast
    <3> QED  BY <2>1, <3>1, SignalStep
  <2>2. CASE cond_waiters = <<>>
    <3>1. /\ At("in") \/ At("broadcast")
          /\ Goto("in") /\ UNCHANGED <<kernelVars, holder, cond_waiters>>
      BY <1>3, <2>2 DEF condvar_broadcast
    <3> QED  BY <3>1, QuietKept
  <2> QED  BY <2>1, <2>2
<1>4. CASE lock_acquire \/ lock_acquire_holder \/ lock_release \/ condvar_wait_release
  BY <1>4, QuietKept
<1>5. CASE lock_acquire_down
  BY <1>5, AcquireDownStep
<1>6. CASE lock_release_up
  BY <1>6, ReleaseUpStep
<1>7. CASE condvar_wait_down
  BY <1>7, WaitDownStep
<1>8. CASE condvar_wait
  BY <1>8, WaitStep
<1>9. CASE Kernel
  BY <1>9, KernelStep
<1> QED
  BY <1>1, <1>2, <1>3, <1>4, <1>5, <1>6, <1>7, <1>8, <1>9 DEF Next, Library, Halt

----------------------------------------------------------------------------
\* The inductive invariant holds in every reachable state of lock.c and
\* condvar.c on the priority scheduler.
THEOREM Invariance == Spec => []IInv
BY InitIInv, NextIInv, PTL DEF Spec

\* lock.c: at most one thread owns the lock's semaphore, its value is one
\* exactly when none does, and lock->holder is the thread inside.
THEOREM LockExclusive == Spec => []MutualExclusion
<1>1. IInv => MutualExclusion
  <2> SUFFICES ASSUME IInv PROVE Cardinality(Owners) + value[LockSema] = 1
    BY DEF IInv, LockInv, MutualExclusion
  <2>1. CASE Owners = {}
    BY <2>1, FS_EmptySet DEF IInv, LockInv
  <2>2. CASE Owners # {}
    <3> PICK t \in Owners : TRUE
      BY <2>2
    <3>1. Owners = {t}
      BY DEF IInv, LockInv
    <3>2. Cardinality(Owners) = 1 /\ value[LockSema] = 0
      BY <3>1, FS_Singleton DEF IInv, LockInv
    <3> QED  BY <3>2
  <2> QED  BY <2>1, <2>2
<1> QED  BY <1>1, Invariance, PTL

\* condvar.c: a signalled thread finds its semaphore up, also when the signal
\* came between its release of the lock and its semaphore_down.
THEOREM SignalsKept == Spec => []NoLostSignal
<1>1. IInv => NoLostSignal
  BY DEF IInv, CondInv, Waiting, NoLostSignal
<1> QED  BY <1>1, Invariance, PTL

\* condvar_wait keeps the waiters by priority, and all state has its type.
THEOREM CondOrder == Spec => []CondConsistent
<1>1. IInv => CondConsistent
  BY DEF IInv, KernelInv, CondInv, CondConsistent, CondSorted, TypeOK
<1> QED  BY <1>1, Invariance, PTL
=============================================================================
