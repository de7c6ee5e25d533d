---------------------------- MODULE AlarmProofs ----------------------------
(***************************************************************************)
(* Proofs about Alarm, for every set of threads, of naps and of priorities *)
(* and for every interleaving of timer_sleep with timer_interrupt.  What   *)
(* the scheduler does to its ready list is not proved again: the lemmas of *)
(* SemaphoreProofs are instantiated for a kernel without semaphores.       *)
(***************************************************************************)
EXTENDS Alarm, SequenceTheorems, FiniteSetTheorems, TLAPS

SP == INSTANCE SemaphoreProofs
        WITH Semas <- {}, NoSema <- NULL, IrqSemas <- {}, MaxValue <- 1,
             value <- <<>>, waiters <- <<>>, wait_on <- [t \in Threads |-> NULL]

\* The scheduler's lists; a failed assertion stops the handler in its loop.
KernelInv ==
  /\ ThreadsTypeOK /\ \A t \in Threads : priority[t] \in Priorities
  /\ SchedulerOK(priority, ready_list, status, running)
  /\ panic = "none" => Outranked(priority, ready_list, running)
  /\ panic # "none" => irq = "loop"

\* Threads whose element has been given its links.
Linked == {t \in Threads : next[t] # NULL}

\* However the accesses to timer_list interleave, a pointer that somebody
\* follows is the one of an element that has links, or of the right end.
PointerInv ==
  /\ \A n \in Linked \cup {HEAD} : next[n] \in Linked \cup {TAIL}
  /\ \A n \in Linked \cup {TAIL} : prev[n] \in Linked \cup {HEAD}
  /\ \A t \in Threads :
       /\ pc[t] = "scan" => x[t] \in Linked \cup {HEAD, TAIL}
       /\ pc[t] \in {"same_tick", "insert", "link_next", "link_prev"}
            => x[t] \in Linked \cup {TAIL}
       /\ pc[t] \in {"link_next", "link_prev", "block", "asleep"} => t \in Linked

\* The handler's cursor is the front of the list, or a race has left a front
\* that list_pop_front does not remove; while there is an element to wake the
\* list is not empty.
CursorInv ==
  irq = "loop" => /\ e \in Linked \cup {TAIL}
                  /\ \/ e = next[HEAD]
                     \/ next[HEAD] # TAIL /\ prev[next[HEAD]] # HEAD

\* What holds whatever races there are.
RaceInv ==
  /\ TypeOK /\ wake_up_tick \in [Threads -> Nat]
  /\ KernelInv /\ PointerInv /\ CursorInv /\ NeverEarly

----------------------------------------------------------------------------
\* Threads whose element is on timer_list.
Listed == Asleep \cup {t \in Threads : pc[t] = "block"}

\* c holds timer_list from HEAD to TAIL, with n threads between them.
Chain(n, c) ==
  /\ c[0] = HEAD /\ c[n + 1] = TAIL
  /\ \A i \in 1 .. n : c[i] \in Listed
  /\ \A i, j \in 0 .. n + 1 : c[i] = c[j] => i = j
  /\ \A t \in Listed : \E i \in 1 .. n : c[i] = t

\* Its links; while list_insert is between its last two assignments, before
\* element k, the link forward to that one is the new element's.
Links(n, c, k) ==
  /\ \A i \in 0 .. n : \/ next[c[i]] = c[i + 1]
                       \/ i + 1 = k /\ running # Idle /\ pc[running] = "link_prev"
  /\ \A i \in 0 .. n : prev[c[i + 1]] = c[i]

\* Where the running thread is in timer_sleep, its cursor being element k.
Position(n, c, k) ==
  running # Idle =>
    /\ pc[running] \in {"scan", "same_tick", "insert", "link_next", "link_prev"}
         => x[running] = c[k]
    /\ pc[running] \in {"same_tick", "insert", "link_next", "link_prev"} => k >= 1
    /\ pc[running] \in {"link_next", "link_prev"}
         => next[running] = c[k] /\ prev[running] = c[k - 1]
    /\ pc[running] = "link_prev" => next[c[k - 1]] = running

\* Element j may follow one that wakes up at time W: something before it is at
\* least as late and outranks it.
Excused(n, c, w, j) == \E d \in 1 .. n : d < j /\ Outlasts(c[d], w, c[j])

\* An element that follows a later one, not due yet, is excused; the cursor
\* passes a later element only if that outranks the new one, and where the
\* new one goes what follows it is excused.
Ordered(n, c, k) ==
  /\ \A i, j \in 1 .. n :
       /\ i < j /\ wake_up_tick[c[i]] > wake_up_tick[c[j]] /\ wake_up_tick[c[i]] > ticks
       => Excused(n, c, wake_up_tick[c[i]], j)
  /\ running # Idle =>
       /\ pc[running] \in {"scan", "same_tick", "insert", "link_next", "link_prev"}
            => /\ wake_up_tick[running] > ticks
               /\ \A i \in 1 .. n : i < k /\ wake_up_tick[c[i]] > wake_up_tick[running]
                                      => priority[c[i]] > priority[running]
       /\ pc[running] \in {"same_tick", "insert", "link_next", "link_prev"}
            => \A j \in 1 .. n : j >= k /\ wake_up_tick[running] > wake_up_tick[c[j]]
                                   => Excused(n, c, wake_up_tick[running], j)

ListInv(n, c, k) ==
  Chain(n, c) /\ Links(n, c, k) /\ Position(n, c, k) /\ Ordered(n, c, k)

\* Without a timer_sleep with interrupts on: nothing comes between the steps
\* of a timer_sleep up to its thread_block, the handler takes its elements off
\* the front, and timer_list is as it should be.
QuietInv ==
  /\ \A t \in Threads : pc[t] \notin {"run", "asleep"}
                          => t = running /\ ~intr[t] /\ irq = "none"
  /\ irq = "loop" => e = next[HEAD]
  /\ \E n \in Nat : \E c \in [0 .. n + 1 -> Elems] : \E k \in 0 .. n + 1 : ListInv(n, c, k)
  /\ LateOnlyBehindHigher

IInv == RaceInv /\ (~exposed /\ panic = "none" => QuietInv)

----------------------------------------------------------------------------
\* What the lemmas of SemaphoreProofs ask of the constants holds here.
LEMMA KernelAssumptions == SP!ThreadsAssumption /\ SP!SemaphoreAssumption
<1>1. SP!ThreadsAssumption
  BY ThreadsAssumption DEF SP!ThreadsAssumption
<1>2. SP!SemaphoreAssumption
  BY AlarmAssumption DEF SP!SemaphoreAssumption, IsFiniteSet, SP!IsFiniteSet
<1> QED  BY <1>1, <1>2

\* The elements of timer_list, and the null pointer, are all different.
LEMMA Distinct ==
  /\ HEAD # TAIL /\ NULL \notin Elems /\ HEAD \in Elems /\ TAIL \in Elems
  /\ \A t \in Threads : t # HEAD /\ t # TAIL /\ t # NULL /\ t # Idle /\ t \in Elems /\ t \in All
  /\ All = Threads \cup {Idle}
BY AlarmAssumption, ThreadsAssumption DEF Elems, All

\* Priorities are natural numbers.
LEMMA PriorityNat == ASSUME ThreadsTypeOK PROVE priority \in [All -> Nat]
<1>1. \A p \in Priorities \cup {0} : p \in Nat
  BY ThreadsAssumption
<1> QED  BY <1>1 DEF ThreadsTypeOK

\* The definitions of the instance are those of Threads.
LEMMA SameScheduler ==
  ASSUME NEW prio, NEW rl, NEW st, NEW cur
  PROVE  /\ SP!ListOK(prio, rl, st) <=> ListOK(prio, rl, st)
         /\ SP!SchedulerOK(prio, rl, st, cur) <=> SchedulerOK(prio, rl, st, cur)
         /\ SP!Outranked(prio, rl, cur) <=> Outranked(prio, rl, cur)
         /\ SP!All = All /\ SP!Status = Status
BY DEF SchedulerOK, SP!SchedulerOK, ListOK, SP!ListOK, Outranked, SP!Outranked,
       NoDuplicates, SP!NoDuplicates, Descending, SP!Descending, ToSet, SP!ToSet,
       All, SP!All, Status, SP!Status

\* thread_block blocks the running thread and no other.
LEMMA BlockKept ==
  ASSUME KernelInv, panic = "none", thread_block, UNCHANGED <<priority, panic>>
  PROVE  /\ KernelInv'
         /\ \A t \in Threads : status'[t] = "BLOCKED" <=> status[t] = "BLOCKED" \/ t = running
<1> DEFINE st == [status EXCEPT ![running] = "BLOCKED"]
<1>1. /\ priority \in [All -> Nat] /\ running \in All /\ status \in [All -> Status]
      /\ ready_list \in Seq(Threads)
  BY PriorityNat DEF KernelInv, ThreadsTypeOK
<1>2. SP!schedule(ready_list, st)
  BY DEF thread_block, schedule, SP!schedule, All, SP!All
<1>3. st \in [All -> Status] /\ \A t \in All : st[t] # "RUNNING"
  BY <1>1 DEF KernelInv, SchedulerOK, Status
<1>4. ListOK(priority, ready_list, st)
  BY <1>1, Distinct DEF KernelInv, SchedulerOK, ListOK
<1>5. \A t \in Threads : st[t] = "BLOCKED" <=> status[t] = "BLOCKED" \/ t = running
  BY <1>1, Distinct
<1>6. /\ SP!ListOK(priority, ready_list, st)
      /\ priority \in [SP!All -> Nat] /\ running \in SP!All /\ st \in [SP!All -> SP!Status]
      /\ \A t \in SP!All : st[t] # "RUNNING"
  BY <1>1, <1>3, <1>4, SameScheduler
<1> HIDE DEF st
<1>7. /\ SP!SchedulerOK(priority, ready_list', status', running')
      /\ SP!Outranked(priority, ready_list', running')
      /\ running' \in SP!All /\ status' \in [SP!All -> SP!Status] /\ thread_ticks' = 0
      /\ \A t \in Threads : status'[t] = "BLOCKED" <=> st[t] = "BLOCKED"
  BY <1>2, <1>6, KernelAssumptions, SP!ScheduleProperties
<1>8. /\ SchedulerOK(priority, ready_list', status', running')
      /\ Outranked(priority, ready_list', running')
      /\ running' \in All /\ status' \in [All -> Status]
  BY <1>7, SameScheduler
<1>9. ThreadsTypeOK'
  BY <1>7, <1>8, ThreadsAssumption DEF KernelInv, ThreadsTypeOK, SchedulerOK, ListOK
<1> QED  BY <1>5, <1>7, <1>8, <1>9 DEF KernelInv

\* thread_yield blocks and unblocks nobody.
LEMMA YieldKept ==
  ASSUME KernelInv, panic = "none", thread_yield, UNCHANGED <<priority, panic>>
  PROVE  /\ KernelInv'
         /\ \A t \in Threads : status'[t] = "BLOCKED" <=> status[t] = "BLOCKED"
<1>1. /\ priority \in [All -> Nat] /\ running \in All /\ status \in [All -> Status]
      /\ SchedulerOK(priority, ready_list, status, running)
  BY PriorityNat DEF KernelInv, ThreadsTypeOK
<1>2. SP!yield(priority, ready_list, status)
  BY DEF thread_yield, yield, SP!yield, schedule, SP!schedule, All, SP!All,
         insert_ordered_thread_priority, SP!insert_ordered_thread_priority,
         InsertAt, SP!InsertAt, Min, SP!Min
<1>3. /\ SP!SchedulerOK(priority, ready_list, status, running)
      /\ priority \in [SP!All -> Nat] /\ running \in SP!All
      /\ status \in [SP!All -> SP!Status]
  BY <1>1, SameScheduler
<1>4. /\ SP!SchedulerOK(priority, ready_list', status', running')
      /\ SP!Outranked(priority, ready_list', running')
      /\ running' \in SP!All /\ status' \in [SP!All -> SP!Status] /\ thread_ticks' = 0
      /\ \A t \in Threads : status'[t] = "BLOCKED" <=> status[t] = "BLOCKED"
  BY <1>2, <1>3, KernelAssumptions, SP!YieldProperties
<1>5. /\ SchedulerOK(priority, ready_list', status', running')
      /\ Outranked(priority, ready_list', running')
      /\ running' \in All /\ status' \in [All -> Status]
  BY <1>4, SameScheduler
<1>6. ThreadsTypeOK'
  BY <1>4, <1>5, ThreadsAssumption DEF KernelInv, ThreadsTypeOK, SchedulerOK, ListOK
<1> QED  BY <1>4, <1>5, <1>6 DEF KernelInv

\* thread_unblock in the handler unblocks its argument, or panics on one that
\* is not blocked.
LEMMA UnblockKept ==
  ASSUME KernelInv, panic = "none", irq = "loop", NEW t \in Threads,
         thread_unblock(t, TRUE), UNCHANGED <<priority, irq>>
  PROVE  /\ KernelInv'
         /\ status[t] # "BLOCKED" => panic' # "none"
         /\ \A u \in Threads : status'[u] = "BLOCKED" <=> status[u] = "BLOCKED" /\ u # t
<1>1. /\ priority \in [All -> Nat] /\ running \in All /\ status \in [All -> Status]
      /\ SchedulerOK(priority, ready_list, status, running)
      /\ Outranked(priority, ready_list, running) /\ thread_ticks \in 0 .. TIME_SLICE
  BY PriorityNat DEF KernelInv, ThreadsTypeOK
<1>2. CASE status[t] # "BLOCKED"
  <2>1. Panic("not_blocked", ready_list, status)
    BY <1>2 DEF thread_unblock, unblock
  <2> QED  BY <1>2, <2>1 DEF KernelInv, ThreadsTypeOK, Panic
<1>3. CASE status[t] = "BLOCKED"
  <2> DEFINE in_intr == TRUE
  <2>1. SP!unblock(priority, status, t, in_intr) /\ in_intr \in BOOLEAN
    BY DEF thread_unblock, unblock, SP!unblock, Panic, SP!Panic,
           yield, SP!yield, schedule, SP!schedule, All, SP!All,
           insert_ordered_thread_priority, SP!insert_ordered_thread_priority,
           InsertAt, SP!InsertAt, Min, SP!Min
  <2>2. /\ SP!SchedulerOK(priority, ready_list, status, running)
        /\ SP!Outranked(priority, ready_list, running)
        /\ priority \in [SP!All -> Nat] /\ running \in SP!All
        /\ status \in [SP!All -> SP!Status]
    BY <1>1, SameScheduler
  <2> HIDE DEF in_intr
  <2>3. /\ SP!SchedulerOK(priority, ready_list', status', running')
        /\ \/ panic' = "yield_in_interrupt"
           \/ SP!Outranked(priority, ready_list', running') /\ panic' = panic
        /\ running' \in SP!All /\ status' \in [SP!All -> SP!Status]
        /\ thread_ticks' \in 0 .. TIME_SLICE
        /\ \A u \in Threads : status'[u] = "BLOCKED" <=> status[u] = "BLOCKED" /\ u # t
    BY <1>1, <1>3, <2>1, <2>2, KernelAssumptions, SP!UnblockProperties
  <2>4. /\ SchedulerOK(priority, ready_list', status', running')
        /\ panic' = "none" => Outranked(priority, ready_list', running')
        /\ running' \in All /\ status' \in [All -> Status]
    BY <2>3, SameScheduler
  <2>5. ThreadsTypeOK'
    BY <2>3, <2>4 DEF KernelInv, ThreadsTypeOK, SchedulerOK, ListOK
  <2> QED  BY <1>3, <2>3, <2>4, <2>5 DEF KernelInv
<1> QED  BY <1>2, <1>3

----------------------------------------------------------------------------
\* A member of SetToSeqs lists the set, each element once.
LEMMA SeqsOfSet ==
  ASSUME NEW T, IsFiniteSet(T), NEW ls \in SetToSeqs(T)
  PROVE  ls \in Seq(T) /\ NoDuplicates(ls) /\ ToSet(ls) = T
<1> DEFINE n == Cardinality(T)
<1>1. n \in Nat
  BY FS_CardinalityType
<1>2. ls \in [1 .. n -> T] /\ \A i, j \in 1 .. n : i # j => ls[i] # ls[j]
  BY DEF SetToSeqs
<1> HIDE DEF n
<1>3. ls \in Seq(T) /\ Len(ls) = n
  BY <1>1, <1>2
<1>4. NoDuplicates(ls)
  BY <1>2, <1>3 DEF NoDuplicates
<1>5. ls \in Injection(1 .. n, T)
  BY <1>2 DEF Injection, IsInjective
<1>6. Cardinality(1 .. n) = n /\ n = Cardinality(T)
  BY <1>1, FS_Interval DEF n
<1>7. ls \in Surjection(1 .. n, T)
  BY <1>5, <1>6, FS_Injection
<1>8. ToSet(ls) = T
  BY <1>2, <1>3, <1>7 DEF Surjection, ToSet
<1> QED  BY <1>3, <1>4, <1>8

\* The initial state: nobody sleeps and timer_list is empty.
LEMMA InitRaceInv == ASSUME Init PROVE RaceInv
<1>1. running \in Threads /\ running \in All /\ running # Idle /\ Idle \in All
  BY Distinct DEF Init
<1>2. /\ priority \in [All -> Priorities \cup {0}]
      /\ \A u \in Threads : priority[u] \in Priorities /\ priority[u] <= priority[running]
  BY DEF Init
<1>3. /\ status \in [All -> Status]
      /\ \A t \in All : status[t] = "RUNNING" <=> t = running
      /\ \A t \in Threads : status[t] = (IF t = running THEN "RUNNING" ELSE "READY")
  BY <1>1, Distinct DEF Init, Status
<1>4. /\ ready_list \in Seq(Threads) /\ NoDuplicates(ready_list)
      /\ Descending(priority, ready_list) /\ ToSet(ready_list) = Threads \ {running}
  <2>1. IsFiniteSet(Threads \ {running})
    BY AlarmAssumption, FS_Subset
  <2>2. ready_list \in SetToSeqs(Threads \ {running}) /\ Descending(priority, ready_list)
    BY DEF Init
  <2>3. ready_list \in Seq(Threads \ {running}) /\ NoDuplicates(ready_list)
        /\ ToSet(ready_list) = Threads \ {running}
    BY <2>1, <2>2, SeqsOfSet
  <2> QED  BY <2>2, <2>3, SeqMonotonic
<1>5. /\ panic = "none" /\ thread_ticks = 0 /\ ticks = 0 /\ irq = "none" /\ e = NULL
      /\ exposed = FALSE /\ yield_on_return = FALSE /\ halted = TRUE
      /\ wake_up_tick = [t \in Threads |-> 0]
      /\ pc = [t \in Threads |-> "run"] /\ x = [t \in Threads |-> NULL]
      /\ next = [n \in Elems |-> IF n = HEAD THEN TAIL ELSE NULL]
      /\ prev = [n \in Elems |-> IF n = TAIL THEN HEAD ELSE NULL]
      /\ intr \in [Threads -> BOOLEAN]
  BY DEF Init
<1>6. KernelInv
  <2>1. ThreadsTypeOK
    BY <1>1, <1>2, <1>3, <1>4, <1>5, ThreadsAssumption DEF ThreadsTypeOK
  <2>2. SchedulerOK(priority, ready_list, status, running)
    BY <1>3, <1>4 DEF SchedulerOK, ListOK
  <2>3. Outranked(priority, ready_list, running)
    BY <1>2, <1>4 DEF Outranked
  <2> QED  BY <1>2, <1>5, <2>1, <2>2, <2>3 DEF KernelInv
<1>7. TypeOK /\ wake_up_tick \in [Threads -> Nat]
  <2>1. \A t \in Threads : \E n \in Naps \cup {0} : wake_up_tick[t] \in 0 .. ticks + n
    BY <1>5
  <2>2. /\ next \in [Elems -> Elems \cup {NULL}] /\ prev \in [Elems -> Elems \cup {NULL}]
        /\ x \in [Threads -> Elems \cup {NULL}] /\ pc \in [Threads -> PC]
    BY <1>5, Distinct DEF PC
  <2>3. exposed \in BOOLEAN /\ yield_on_return \in BOOLEAN /\ halted \in BOOLEAN
    BY <1>5, Zenon
  <2>4. ticks \in 0 .. MaxTicks /\ wake_up_tick \in [Threads -> Nat]
    BY <1>5, AlarmAssumption
  <2>5. irq \in {"none", "loop", "return"} /\ e \in Elems \cup {NULL}
    BY <1>5
  <2> QED  BY <1>5, <1>6, <2>1, <2>2, <2>3, <2>4, <2>5, Zenon DEF TypeOK, KernelInv
<1>8. PointerInv
  <2>1. Linked = {} /\ next[HEAD] = TAIL /\ prev[TAIL] = HEAD
    BY <1>5, Distinct DEF Linked
  <2> QED  BY <1>5, <2>1 DEF PointerInv
<1>9. CursorInv /\ NeverEarly
  BY <1>5 DEF CursorInv, NeverEarly
<1> QED  BY <1>6, <1>7, <1>8, <1>9 DEF RaceInv

\* The types, in the form the steps below use them.
LEMMA Facts ==
  ASSUME RaceInv
  PROVE  /\ next \in [Elems -> Elems \cup {NULL}] /\ prev \in [Elems -> Elems \cup {NULL}]
         /\ x \in [Threads -> Elems \cup {NULL}] /\ pc \in [Threads -> PC]
         /\ wake_up_tick \in [Threads -> Nat] /\ ticks \in Nat
         /\ priority \in [All -> Nat] /\ running \in All /\ Linked \subseteq Threads
         /\ NULL \notin Linked \cup {HEAD, TAIL}
BY PriorityNat, AlarmAssumption, Distinct DEF RaceInv, TypeOK, KernelInv, ThreadsTypeOK, Linked

LEMMA AtFacts ==
  ASSUME RaceInv, NEW place, At(place)
  PROVE  running \in Threads /\ panic = "none" /\ irq = "none" /\ pc[running] = place
BY Distinct DEF At, RaceInv, KernelInv, ThreadsTypeOK

\* Going to another place in timer_sleep.
LEMMA Moved ==
  ASSUME RaceInv, running \in Threads, NEW place \in PC, Goto(place)
  PROVE  /\ pc' \in [Threads -> PC] /\ pc'[running] = place
         /\ \A t \in Threads : t # running => pc'[t] = pc[t]
BY Facts DEF Goto

\* The steps of timer_sleep up to its thread_block, and its return, disturb
\* neither the scheduler nor the handler, and put nobody to sleep.
LEMMA SleepKept ==
  ASSUME RaceInv, irq = "none", UNCHANGED <<threadVars, irqVars, intr>>,
         exposed' \in BOOLEAN,
         next' \in [Elems -> Elems \cup {NULL}], prev' \in [Elems -> Elems \cup {NULL}],
         x' \in [Threads -> Elems \cup {NULL}], pc' \in [Threads -> PC],
         wake_up_tick' \in [Threads -> Nat],
         \A t \in Threads : \/ wake_up_tick'[t] = wake_up_tick[t]
                            \/ pc'[t] = "scan" /\ \E n \in Naps : wake_up_tick'[t] = ticks + n,
         \A t \in Threads : pc'[t] = "asleep" => pc[t] = "asleep",
         PointerInv'
  PROVE  RaceInv'
<1>1. KernelInv' /\ CursorInv'
  BY DEF RaceInv, KernelInv, ThreadsTypeOK, CursorInv, threadVars, irqVars
<1>2. NeverEarly'
  BY DEF RaceInv, NeverEarly, Asleep, threadVars, irqVars
<1>3. \A t \in Threads : \E n \in Naps \cup {0} : wake_up_tick'[t] \in 0 .. ticks + n
  <2> SUFFICES ASSUME NEW t \in Threads
               PROVE  \E n \in Naps \cup {0} : wake_up_tick'[t] \in 0 .. ticks + n
    OBVIOUS
  <2>1. CASE wake_up_tick'[t] = wake_up_tick[t]
    BY <2>1 DEF RaceInv, TypeOK
  <2>2. CASE \E n \in Naps : wake_up_tick'[t] = ticks + n
    <3>1. PICK n \in Naps : wake_up_tick'[t] = ticks + n
      BY <2>2
    <3>2. n \in Nat /\ ticks \in Nat
      BY AlarmAssumption, Facts
    <3> QED  BY <3>1, <3>2
  <2> QED  BY <2>1, <2>2
<1>4. TypeOK'
  BY <1>1, <1>3 DEF RaceInv, TypeOK, KernelInv, irqVars
<1> QED  BY <1>1, <1>2, <1>4 DEF RaceInv

\* Threads that follow no pointer.
LEMMA PointersKept ==
  ASSUME RaceInv, UNCHANGED listVars,
         \A t \in Threads :
           \/ pc'[t] = pc[t] /\ x'[t] = x[t]
           \/ pc'[t] = "run"
           \/ pc'[t] = "scan" /\ x'[t] \in Linked \cup {HEAD, TAIL}
           \/ pc'[t] \in {"same_tick", "insert"} /\ x'[t] \in Linked \cup {TAIL}
           \/ pc'[t] \in {"block", "asleep"} /\ t \in Linked
  PROVE  PointerInv'
<1>1. Linked' = Linked /\ next' = next /\ prev' = prev
  BY DEF Linked, listVars
<1> SUFFICES ASSUME NEW t \in Threads
             PROVE  /\ pc'[t] = "scan" => x'[t] \in Linked \cup {HEAD, TAIL}
                    /\ pc'[t] \in {"same_tick", "insert", "link_next", "link_prev"}
                         => x'[t] \in Linked \cup {TAIL}
                    /\ pc'[t] \in {"link_next", "link_prev", "block", "asleep"} => t \in Linked
  BY <1>1 DEF PointerInv, RaceInv
<1> QED  BY DEF PointerInv, RaceInv

LEMMA RaceCall == ASSUME RaceInv, NEW n \in Naps, timer_sleep(n) PROVE RaceInv'
<1>1. running \in Threads /\ irq = "none"
  BY AtFacts DEF timer_sleep
<1>2. /\ wake_up_tick' = [wake_up_tick EXCEPT ![running] = ticks + n]
      /\ x' = [x EXCEPT ![running] = HEAD] /\ Goto("scan")
      /\ exposed' = (exposed \/ intr[running])
      /\ UNCHANGED <<threadVars, listVars, intr, irqVars>>
  BY DEF timer_sleep, MoveTo
<1>3. /\ pc' \in [Threads -> PC] /\ pc'[running] = "scan"
      /\ \A t \in Threads : t # running => pc'[t] = pc[t]
  BY <1>1, <1>2, Moved DEF PC
<1>4. /\ x' \in [Threads -> Elems \cup {NULL}] /\ x'[running] = HEAD
      /\ \A t \in Threads : t # running => x'[t] = x[t]
  BY <1>1, <1>2, Facts, Distinct
<1>5. /\ wake_up_tick' \in [Threads -> Nat] /\ wake_up_tick'[running] = ticks + n
      /\ \A t \in Threads : t # running => wake_up_tick'[t] = wake_up_tick[t]
  <2>1. ticks + n \in Nat
    BY AlarmAssumption, Facts
  <2> QED  BY <1>1, <1>2, <2>1, Facts
<1>6. exposed' \in BOOLEAN
  BY <1>2
<1>7. PointerInv'
  BY <1>2, <1>3, <1>4, PointersKept
<1>8. \A t \in Threads : \/ wake_up_tick'[t] = wake_up_tick[t]
                         \/ pc'[t] = "scan" /\ \E m \in Naps : wake_up_tick'[t] = ticks + m
  BY <1>3, <1>5
<1>9. \A t \in Threads : pc'[t] = "asleep" => pc[t] = "asleep"
  BY <1>3
<1>10. next' \in [Elems -> Elems \cup {NULL}] /\ prev' \in [Elems -> Elems \cup {NULL}]
  BY <1>2, Facts DEF listVars
<1> QED  BY <1>1, <1>2, <1>3, <1>4, <1>5, <1>6, <1>7, <1>8, <1>9, <1>10, SleepKept

\* Walking along the list.
LEMMA RaceScan == ASSUME RaceInv, scan \/ scan_same_tick PROVE RaceInv'
<1>1. /\ running \in Threads /\ irq = "none"
      /\ \/ pc[running] = "scan" /\ scan
         \/ pc[running] = "same_tick" /\ scan_same_tick
  BY AtFacts DEF scan, scan_same_tick
<1>2. /\ UNCHANGED <<threadVars, listVars, wake_up_tick, intr, exposed, irqVars>>
  BY DEF scan, scan_same_tick
<1>3. /\ \A n \in Linked \cup {HEAD} : next[n] \in Linked \cup {TAIL}
      /\ pc[running] = "scan" => x[running] \in Linked \cup {HEAD, TAIL}
      /\ pc[running] = "same_tick" => x[running] \in Linked \cup {TAIL}
  BY <1>1 DEF RaceInv, PointerInv
<1>4. \/ /\ x' = [x EXCEPT ![running] = next[x[running]]] /\ pc' = pc
         /\ x[running] \in Linked \cup {HEAD}
      \/ /\ x' = x /\ (Goto("same_tick") \/ Goto("insert"))
         /\ x[running] \in Linked \cup {TAIL}
  BY <1>1, <1>3, Facts, Distinct DEF scan, scan_same_tick, Cursor, MoveTo
<1>5. CASE /\ x' = [x EXCEPT ![running] = next[x[running]]] /\ pc' = pc
           /\ x[running] \in Linked \cup {HEAD}
  <2>1. /\ x' \in [Threads -> Elems \cup {NULL}] /\ x'[running] \in Linked \cup {TAIL}
        /\ \A t \in Threads : t # running => x'[t] = x[t]
    BY <1>1, <1>3, <1>5, Facts DEF Elems
  <2>2. PointerInv'
    BY <1>1, <1>2, <1>5, <2>1, PointersKept
  <2> QED  BY <1>1, <1>2, <1>5, <2>1, <2>2, Facts, SleepKept DEF RaceInv, TypeOK, listVars
<1>6. CASE /\ x' = x /\ (Goto("same_tick") \/ Goto("insert"))
           /\ x[running] \in Linked \cup {TAIL}
  <2>1. /\ pc' \in [Threads -> PC] /\ pc'[running] \in {"same_tick", "insert"}
        /\ \A t \in Threads : t # running => pc'[t] = pc[t]
    BY <1>1, <1>6, Moved DEF PC
  <2>2. PointerInv'
    BY <1>1, <1>2, <1>6, <2>1, PointersKept
  <2>3. \A t \in Threads : pc'[t] = "asleep" => pc[t] = "asleep"
    BY <2>1
  <2> QED  BY <1>1, <1>2, <1>6, <2>1, <2>2, <2>3, Facts, SleepKept DEF RaceInv, TypeOK, listVars
<1> QED  BY <1>4, <1>5, <1>6

\* The assignments of list_insert; whatever the cursor points to by then.
LEMMA RaceInsert ==
  ASSUME RaceInv, insert_elem \/ insert_link_next \/ insert_link_prev
  PROVE  RaceInv'
<1> DEFINE r == running
           L == Linked
<1>1. /\ r \in Threads /\ irq = "none"
      /\ \/ pc[r] = "insert" /\ insert_elem
         \/ pc[r] = "link_next" /\ insert_link_next
         \/ pc[r] = "link_prev" /\ insert_link_prev
  BY AtFacts DEF insert_elem, insert_link_next, insert_link_prev
<1>2. /\ UNCHANGED <<threadVars, wake_up_tick, x, intr, exposed, irqVars>>
  BY DEF insert_elem, insert_link_next, insert_link_prev
<1>3. /\ \A n \in L \cup {HEAD} : next[n] \in L \cup {TAIL}
      /\ \A n \in L \cup {TAIL} : prev[n] \in L \cup {HEAD}
      /\ x[r] \in L \cup {TAIL}
      /\ pc[r] \in {"link_next", "link_prev"} => r \in L
  BY <1>1 DEF RaceInv, PointerInv
<1>4. L \subseteq Threads /\ L \cup {HEAD, TAIL} \subseteq Elems
  BY Facts, Distinct
<1>5. /\ pc' \in [Threads -> PC] /\ pc'[r] \in {"link_next", "link_prev", "block"}
      /\ \A t \in Threads : t # r => pc'[t] = pc[t]
  BY <1>1, Moved DEF PC, insert_elem, insert_link_next, insert_link_prev
<1>6. /\ next' \in [Elems -> Elems \cup {NULL}] /\ prev' \in [Elems -> Elems \cup {NULL}]
      /\ Linked' = L \cup {r}
      /\ \A n \in L \cup {r, HEAD} : next'[n] \in L \cup {r, TAIL}
      /\ \A n \in L \cup {r, TAIL} : prev'[n] \in L \cup {r, HEAD}
  <2>1. CASE pc[r] = "insert" /\ insert_elem
    <3>1. next' = [next EXCEPT ![r] = x[r]] /\ prev' = [prev EXCEPT ![r] = prev[x[r]]]
      BY <2>1 DEF insert_elem, Cursor
    <3>2. Linked' = L \cup {r}
      BY <1>1, <1>3, <1>4, <3>1, Facts, Distinct DEF Linked
    <3> HIDE DEF L
    <3> QED  BY <1>1, <1>3, <1>4, <3>1, <3>2, Facts, Distinct
  <2>2. CASE pc[r] = "link_next" /\ insert_link_next
    <3>1. next' = [next EXCEPT ![prev[x[r]]] = r] /\ prev' = prev
      BY <2>2 DEF insert_link_next, Cursor
    <3>2. Linked' = L
      BY <1>1, <1>3, <1>4, <2>2, <3>1, Facts, Distinct DEF Linked
    <3> HIDE DEF L
    <3> QED  BY <1>1, <1>3, <1>4, <2>2, <3>1, <3>2, Facts, Distinct
  <2>3. CASE pc[r] = "link_prev" /\ insert_link_prev
    <3>1. prev' = [prev EXCEPT ![x[r]] = r] /\ next' = next
      BY <2>3 DEF insert_link_prev, Cursor
    <3>2. Linked' = L
      BY <3>1 DEF Linked
    <3> HIDE DEF L
    <3> QED  BY <1>1, <1>3, <1>4, <2>3, <3>1, <3>2, Facts, Distinct
  <2> QED  BY <1>1, <2>1, <2>2, <2>3
<1>7. PointerInv'
  <2>1. /\ \A n \in Linked' \cup {HEAD} : next'[n] \in Linked' \cup {TAIL}
        /\ \A n \in Linked' \cup {TAIL} : prev'[n] \in Linked' \cup {HEAD}
    <3> HIDE DEF L
    <3> QED  BY <1>6
  <2>2. ASSUME NEW t \in Threads
        PROVE  /\ pc'[t] = "scan" => x'[t] \in Linked' \cup {HEAD, TAIL}
               /\ pc'[t] \in {"same_tick", "insert", "link_next", "link_prev"}
                    => x'[t] \in Linked' \cup {TAIL}
               /\ pc'[t] \in {"link_next", "link_prev", "block", "asleep"} => t \in Linked'
    <3>1. Linked \subseteq Linked' /\ r \in Linked' /\ x'[t] = x[t]
      BY <1>2, <1>6
    <3>2. CASE t = r
      BY <1>3, <1>5, <3>1, <3>2
    <3>3. CASE t # r
      BY <1>5, <3>1, <3>3 DEF RaceInv, PointerInv
    <3> QED  BY <3>2, <3>3
  <2> QED  BY <2>1, <2>2 DEF PointerInv
<1>8. \A t \in Threads : pc'[t] = "asleep" => pc[t] = "asleep"
  BY <1>5
<1> QED  BY <1>1, <1>2, <1>5, <1>6, <1>7, <1>8, Facts, SleepKept DEF RaceInv, TypeOK

\* timer_sleep returns.
LEMMA RaceReturn == ASSUME RaceInv, sleep_return PROVE RaceInv'
<1>1. running \in Threads /\ irq = "none"
  BY AtFacts DEF sleep_return
<1>2. Goto("run") /\ UNCHANGED <<threadVars, listVars, wake_up_tick, x, intr, exposed, irqVars>>
  BY DEF sleep_return
<1>3. /\ pc' \in [Threads -> PC] /\ pc'[running] = "run"
      /\ \A t \in Threads : t # running => pc'[t] = pc[t]
  BY <1>1, <1>2, Moved DEF PC
<1>4. PointerInv'
  BY <1>2, <1>3, PointersKept
<1>5. \A t \in Threads : pc'[t] = "asleep" => pc[t] = "asleep"
  BY <1>3
<1> QED  BY <1>1, <1>2, <1>3, <1>4, <1>5, Facts, SleepKept DEF RaceInv, TypeOK, listVars

\* Steps of the scheduler and of the handler that leave the list alone.
LEMMA SwitchKept ==
  ASSUME RaceInv, KernelInv', UNCHANGED <<listVars, wake_up_tick, x, exposed>>,
         intr' \in [Threads -> BOOLEAN], pc' \in [Threads -> PC],
         ticks' \in 0 .. MaxTicks, ticks' >= ticks,
         irq' \in {"none", "loop", "return"}, e' \in Elems \cup {NULL},
         yield_on_return' \in BOOLEAN, halted' \in BOOLEAN, CursorInv',
         \A t \in Threads : pc'[t] = pc[t] \/ (pc'[t] = "asleep" /\ t \in Linked),
         \A t \in Threads : \/ status'[t] = "BLOCKED"
                            \/ pc'[t] = pc[t] /\ status[t] # "BLOCKED"
  PROVE  RaceInv'
<1>1. PointerInv'
  BY PointersKept
<1>2. \A t \in Threads : \E n \in Naps \cup {0} : wake_up_tick'[t] \in 0 .. ticks' + n
  <2> SUFFICES ASSUME NEW t \in Threads
               PROVE  \E n \in Naps \cup {0} : wake_up_tick'[t] \in 0 .. ticks' + n
    OBVIOUS
  <2>1. PICK n \in Naps \cup {0} : wake_up_tick[t] \in 0 .. ticks + n
    BY DEF RaceInv, TypeOK
  <2>2. n \in Nat /\ ticks \in Nat /\ ticks' \in Nat
    BY AlarmAssumption, Facts
  <2> QED  BY <2>1, <2>2
<1>3. TypeOK'
  BY <1>2 DEF RaceInv, TypeOK, KernelInv, listVars
<1>4. NeverEarly'
  <2> SUFFICES ASSUME NEW t \in Threads, pc'[t] = "asleep", status'[t] # "BLOCKED"
               PROVE  ticks' >= wake_up_tick'[t]
    BY DEF NeverEarly, Asleep
  <2>1. ticks >= wake_up_tick[t]
    BY DEF RaceInv, NeverEarly, Asleep
  <2>2. ticks \in Nat /\ ticks' \in Nat /\ wake_up_tick[t] \in Nat
    BY AlarmAssumption, Facts
  <2> QED  BY <2>1, <2>2
<1> QED  BY <1>1, <1>3, <1>4 DEF RaceInv

LEMMA RaceBlock == ASSUME RaceInv, sleep_block PROVE RaceInv'
<1>1. running \in Threads /\ irq = "none" /\ panic = "none" /\ pc[running] = "block"
  BY AtFacts DEF sleep_block
<1>2. /\ KernelInv'
      /\ \A t \in Threads : status'[t] = "BLOCKED" <=> status[t] = "BLOCKED" \/ t = running
  BY <1>1, BlockKept DEF sleep_block, RaceInv
<1>3. /\ pc' \in [Threads -> PC] /\ pc'[running] = "asleep"
      /\ \A t \in Threads : t # running => pc'[t] = pc[t]
  BY <1>1, Moved DEF PC, sleep_block
<1>4. running \in Linked
  BY <1>1 DEF RaceInv, PointerInv
<1>5. intr' \in [Threads -> BOOLEAN]
  BY DEF sleep_block, RaceInv, TypeOK
<1>6. CursorInv'
  BY <1>1 DEF sleep_block, CursorInv, irqVars
<1>7. /\ UNCHANGED <<listVars, wake_up_tick, x, exposed>>
      /\ ticks' \in 0 .. MaxTicks /\ ticks' >= ticks
      /\ irq' \in {"none", "loop", "return"} /\ e' \in Elems \cup {NULL}
      /\ yield_on_return' \in BOOLEAN /\ halted' \in BOOLEAN
  BY Facts DEF sleep_block, irqVars, RaceInv, TypeOK
<1> QED  BY <1>2, <1>3, <1>4, <1>5, <1>6, <1>7, SwitchKept

LEMMA RaceYield == ASSUME RaceInv, yield_call PROVE RaceInv'
<1>1. irq = "none" /\ panic = "none"
  BY AtFacts DEF yield_call
<1>2. /\ KernelInv'
      /\ \A t \in Threads : status'[t] = "BLOCKED" <=> status[t] = "BLOCKED"
  BY <1>1, YieldKept DEF yield_call, RaceInv
<1>3. CursorInv'
  BY <1>1 DEF yield_call, CursorInv, irqVars
<1>4. /\ UNCHANGED <<listVars, wake_up_tick, x, exposed>>
      /\ intr' \in [Threads -> BOOLEAN] /\ pc' = pc
  BY DEF yield_call, sleepVars, RaceInv, TypeOK
<1>5. /\ ticks' \in 0 .. MaxTicks /\ ticks' >= ticks
      /\ irq' \in {"none", "loop", "return"} /\ e' \in Elems \cup {NULL}
      /\ yield_on_return' \in BOOLEAN /\ halted' \in BOOLEAN
  BY Facts DEF yield_call, irqVars, RaceInv, TypeOK
<1> QED  BY <1>1, <1>2, <1>3, <1>4, <1>5, Facts, SwitchKept

LEMMA RaceTick == ASSUME RaceInv, timer_interrupt PROVE RaceInv'
<1>1. KernelInv'
  <2>1. thread_ticks' \in 0 .. TIME_SLICE
    BY ThreadsAssumption DEF timer_interrupt, RaceInv, KernelInv, ThreadsTypeOK
  <2> QED  BY <2>1 DEF timer_interrupt, RaceInv, KernelInv, ThreadsTypeOK
<1>2. ticks' \in 0 .. MaxTicks /\ ticks' >= ticks
  BY AlarmAssumption DEF timer_interrupt, RaceInv, TypeOK
<1>3. next[HEAD] \in Linked \cup {TAIL} /\ Linked' = Linked /\ e' = next[HEAD] /\ next' = next
  BY DEF timer_interrupt, RaceInv, PointerInv, Linked, listVars
<1>4. CursorInv'
  BY <1>3 DEF CursorInv
<1>5. e' \in Elems \cup {NULL}
  BY <1>3, Facts, Distinct
<1>6. yield_on_return' \in BOOLEAN /\ halted' \in BOOLEAN
  BY DEF timer_interrupt
<1>7. /\ UNCHANGED <<listVars, wake_up_tick, x, exposed>>
      /\ intr' \in [Threads -> BOOLEAN] /\ pc' = pc /\ status' = status
      /\ irq' \in {"none", "loop", "return"}
  BY DEF timer_interrupt, sleepVars, RaceInv, TypeOK
<1> QED  BY <1>1, <1>2, <1>4, <1>5, <1>6, <1>7, Facts, SwitchKept

LEMMA RaceEnd == ASSUME RaceInv, wake_end PROVE RaceInv'
<1>1. KernelInv' /\ CursorInv'
  BY DEF wake_end, RaceInv, KernelInv, ThreadsTypeOK, CursorInv, threadVars
<1>2. /\ UNCHANGED <<listVars, wake_up_tick, x, exposed>>
      /\ intr' \in [Threads -> BOOLEAN] /\ pc' = pc /\ status' = status
  BY DEF wake_end, sleepVars, threadVars, RaceInv, TypeOK
<1>3. /\ ticks' \in 0 .. MaxTicks /\ ticks' >= ticks
      /\ irq' \in {"none", "loop", "return"} /\ e' \in Elems \cup {NULL}
      /\ yield_on_return' \in BOOLEAN /\ halted' \in BOOLEAN
  BY Facts DEF wake_end, irqVars, RaceInv, TypeOK
<1> QED  BY <1>1, <1>2, <1>3, Facts, SwitchKept

LEMMA RaceIrqReturn == ASSUME RaceInv, interrupt_return PROVE RaceInv'
<1>1. /\ KernelInv'
      /\ \A t \in Threads : status'[t] = "BLOCKED" <=> status[t] = "BLOCKED"
  <2>1. CASE yield_on_return
    BY <2>1, YieldKept DEF interrupt_return, RaceInv
  <2>2. CASE ~yield_on_return
    BY <2>2 DEF interrupt_return, RaceInv, KernelInv, ThreadsTypeOK
  <2> QED  BY <2>1, <2>2
<1>2. CursorInv'
  BY DEF interrupt_return, CursorInv
<1>3. /\ UNCHANGED <<listVars, wake_up_tick, x, exposed>>
      /\ intr' \in [Threads -> BOOLEAN] /\ pc' = pc
  BY DEF interrupt_return, sleepVars, RaceInv, TypeOK
<1>4. /\ ticks' \in 0 .. MaxTicks /\ ticks' >= ticks
      /\ irq' \in {"none", "loop", "return"} /\ e' \in Elems \cup {NULL}
      /\ halted' \in BOOLEAN
  BY Facts DEF interrupt_return, RaceInv, TypeOK
<1>5. yield_on_return' \in BOOLEAN
  BY Zenon DEF interrupt_return
<1> QED  BY <1>1, <1>2, <1>3, <1>4, <1>5, Facts, SwitchKept

LEMMA RaceIdle == ASSUME RaceInv, idle PROVE RaceInv'
<1>1. /\ KernelInv'
      /\ \A t \in Threads : status'[t] = "BLOCKED" <=> status[t] = "BLOCKED"
  BY BlockKept, Distinct DEF idle, RaceInv
<1>2. CursorInv'
  BY DEF idle, CursorInv
<1>3. /\ UNCHANGED <<listVars, wake_up_tick, x, exposed>>
      /\ intr' \in [Threads -> BOOLEAN] /\ pc' = pc
  BY DEF idle, sleepVars, RaceInv, TypeOK
<1>4. /\ ticks' \in 0 .. MaxTicks /\ ticks' >= ticks
      /\ irq' \in {"none", "loop", "return"} /\ e' \in Elems \cup {NULL}
      /\ yield_on_return' \in BOOLEAN /\ halted' \in BOOLEAN
  BY Facts DEF idle, irqVars, RaceInv, TypeOK
<1> QED  BY <1>1, <1>2, <1>3, <1>4, Facts, SwitchKept

\* One round of the handler's loop: list_pop_front takes an element off the
\* list, which has one whatever races there were.
LEMMA RaceWake == ASSUME RaceInv, wake PROVE RaceInv'
<1> DEFINE f == next[HEAD]
<1>1. /\ panic = "none" /\ irq = "loop" /\ e # TAIL /\ ticks >= wake_up_tick[e]
      /\ thread_unblock(e, TRUE)
      /\ UNCHANGED <<priority, sleepVars, ticks, irq, yield_on_return, halted>>
  BY DEF wake, Due
<1>2. /\ e \in Linked /\ e \in Threads
      /\ \/ e = f
         \/ f # TAIL /\ prev[f] # HEAD
  BY <1>1, Facts DEF RaceInv, CursorInv
<1>3. /\ KernelInv'
      /\ \A u \in Threads : status'[u] = "BLOCKED" <=> status[u] = "BLOCKED" /\ u # e
  BY <1>1, <1>2, UnblockKept DEF RaceInv
<1>4. NeverEarly'
  BY <1>1, <1>2, <1>3 DEF RaceInv, NeverEarly, Asleep, sleepVars
<1>5. /\ next' \in [Elems -> Elems \cup {NULL}] /\ prev' \in [Elems -> Elems \cup {NULL}]
      /\ e' \in Elems \cup {NULL} /\ PointerInv' /\ CursorInv'
  <2>1. CASE panic' # "none"
    <3>1. next' = next /\ prev' = prev /\ e' = e
      BY <2>1 DEF wake, listVars
    <3>2. PointerInv' /\ CursorInv'
      BY <1>1, <3>1 DEF RaceInv, PointerInv, CursorInv, Linked, sleepVars
    <3> QED  BY <3>1, <3>2, Facts DEF RaceInv, TypeOK
  <2>2. CASE panic' = "none"
    <3>1. /\ next' = [next EXCEPT ![prev[f]] = next[f]]
          /\ prev' = [prev EXCEPT ![next[f]] = prev[f]]
          /\ e' = next[e]
      BY <2>2 DEF wake, list_pop_front
    <3>2. /\ f \in Linked /\ next[f] \in Linked \cup {TAIL} /\ prev[f] \in Linked \cup {HEAD}
          /\ next[e] \in Linked \cup {TAIL}
      BY <1>2 DEF RaceInv, PointerInv
    <3>3. Linked' = Linked
      BY <3>1, <3>2, Facts, Distinct DEF Linked
    <3>4. /\ next' \in [Elems -> Elems \cup {NULL}] /\ prev' \in [Elems -> Elems \cup {NULL}]
          /\ \A n \in Elems : next'[n] = IF n = prev[f] THEN next[f] ELSE next[n]
          /\ \A n \in Elems : prev'[n] = IF n = next[f] THEN prev[f] ELSE prev[n]
      BY <3>1, <3>2, Facts, Distinct
    <3>5. Linked \cup {HEAD, TAIL} \subseteq Elems
      BY Facts, Distinct
    <3>6. PointerInv'
      <4>1. /\ \A n \in Linked \cup {HEAD} : next'[n] \in Linked \cup {TAIL}
            /\ \A n \in Linked \cup {TAIL} : prev'[n] \in Linked \cup {HEAD}
        BY <3>2, <3>4, <3>5 DEF RaceInv, PointerInv
      <4>2. x' = x /\ pc' = pc
        BY <1>1 DEF sleepVars
      <4> QED  BY <3>3, <4>1, <4>2 DEF RaceInv, PointerInv
    <3>7. CursorInv'
      <4>1. CASE prev[f] = HEAD
        <5>1. e' = next'[HEAD]
          BY <1>2, <3>1, <3>4, <3>5, <4>1
        <5> QED  BY <3>1, <3>2, <3>3, <5>1 DEF CursorInv
      <4>2. CASE prev[f] # HEAD
        <5>1. next'[HEAD] = f /\ f # TAIL /\ prev'[f] = prev[f]
          BY <3>2, <3>4, <3>5, <4>2, Facts, Distinct
        <5> QED  BY <3>1, <3>2, <3>3, <4>2, <5>1 DEF CursorInv
      <4> QED  BY <4>1, <4>2
    <3> QED  BY <3>1, <3>2, <3>4, <3>5, <3>6, <3>7
  <2> QED  BY <2>1, <2>2
<1>6. TypeOK' /\ wake_up_tick' = wake_up_tick
  BY <1>1, <1>3, <1>5 DEF RaceInv, TypeOK, KernelInv, sleepVars
<1> QED  BY <1>3, <1>4, <1>5, <1>6 DEF RaceInv

\* Every step keeps what holds whatever the races.
LEMMA NextRaceInv == RaceInv /\ [Next]_vars => RaceInv'
<1> SUFFICES ASSUME RaceInv, [Next]_vars PROVE RaceInv'
  OBVIOUS
<1>1. ASSUME UNCHANGED vars PROVE RaceInv'
  BY <1>1 DEF vars, threadVars, listVars, sleepVars, irqVars, RaceInv, TypeOK, KernelInv,
              ThreadsTypeOK, PointerInv, CursorInv, NeverEarly, Linked, Asleep
<1>2. CASE \E n \in Naps : timer_sleep(n)
  BY <1>2, RaceCall
<1>3. CASE scan \/ scan_same_tick
  BY <1>3, RaceScan
<1>4. CASE insert_elem \/ insert_link_next \/ insert_link_prev
  BY <1>4, RaceInsert
<1>5. CASE sleep_block
  BY <1>5, RaceBlock
<1>6. CASE sleep_return
  BY <1>6, RaceReturn
<1>7. CASE yield_call
  BY <1>7, RaceYield
<1>8. CASE timer_interrupt
  BY <1>8, RaceTick
<1>9. CASE wake
  BY <1>9, RaceWake
<1>10. CASE wake_end
  BY <1>10, RaceEnd
<1>11. CASE interrupt_return
  BY <1>11, RaceIrqReturn
<1>12. CASE idle
  BY <1>12, RaceIdle
<1>13. CASE Halt
  BY <1>1, <1>13 DEF Halt
<1> QED
  BY <1>1, <1>2, <1>3, <1>4, <1>5, <1>6, <1>7, <1>8, <1>9, <1>10, <1>11, <1>12, <1>13 DEF Next

\* However timer_sleep and timer_interrupt interleave, and whatever the
\* priorities, no pointer of timer_list is ever followed to nowhere.
THEOREM PointersValid == Spec => [](TypeOK /\ PointerInv /\ CursorInv)
<1>1. Init => RaceInv
  BY InitRaceInv
<1>2. RaceInv => TypeOK /\ PointerInv /\ CursorInv
  BY DEF RaceInv
<1> QED  BY <1>1, <1>2, NextRaceInv, PTL DEF Spec

\* No timer_sleep returns before its ticks have passed, however it interleaves
\* with timer_interrupt and whatever that does to timer_list.
THEOREM SleepsLongEnough == Spec => []NeverEarly
<1>1. Init => RaceInv
  BY InitRaceInv
<1>2. RaceInv => NeverEarly
  BY DEF RaceInv
<1> QED  BY <1>1, <1>2, NextRaceInv, PTL DEF Spec

----------------------------------------------------------------------------
(* Without a timer_sleep with interrupts on.                               *)

\* Nobody else is inside a timer_sleep that is under way.
LEMMA OthersOutside ==
  ASSUME RaceInv, QuietInv, NEW t \in Threads, t # running \/ irq # "none"
  PROVE  pc[t] \in {"run", "asleep"}
BY DEF QuietInv

\* The running thread is not on the list before it has inserted itself.
LEMMA RunningNotListed ==
  ASSUME RaceInv, running \in Threads, pc[running] # "block"
  PROVE  running \notin Listed
BY DEF RaceInv, KernelInv, SchedulerOK, Listed, Asleep, All

\* A step of the running thread between its call and its last assignment to
\* the list leaves the same threads on it.
LEMMA ListedKept ==
  ASSUME RaceInv, running \in Threads, UNCHANGED threadVars,
         pc[running] \notin {"block", "asleep"}, pc'[running] \notin {"block", "asleep"},
         \A t \in Threads : t # running => pc'[t] = pc[t]
  PROVE  Listed' = Listed
BY DEF Listed, Asleep, threadVars

\* What the chain says of its elements.
LEMMA ChainFacts ==
  ASSUME RaceInv, NEW n \in Nat, NEW c \in [0 .. n + 1 -> Elems], Chain(n, c)
  PROVE  /\ Listed \subseteq Threads
         /\ \A i \in 1 .. n : c[i] \in Threads /\ c[i] # HEAD /\ c[i] # TAIL
         /\ \A i \in 0 .. n + 1 : c[i] \in Elems /\ (i \in 1 .. n \/ c[i] \notin Threads)
         /\ c[0] = HEAD /\ c[n + 1] = TAIL
<1>1. Listed \subseteq Threads
  BY DEF Listed, Asleep
<1>2. \A i \in 1 .. n : c[i] \in Threads /\ c[i] # HEAD /\ c[i] # TAIL
  BY <1>1, Distinct DEF Chain
<1>3. c[0] = HEAD /\ c[n + 1] = TAIL
  BY DEF Chain
<1>4. \A i \in 0 .. n + 1 : i \in 1 .. n \/ i = 0 \/ i = n + 1
  OBVIOUS
<1> QED  BY <1>1, <1>2, <1>3, <1>4, Distinct

\* A thread that is not on the list is none of its elements.
LEMMA NotInChain ==
  ASSUME RaceInv, NEW n \in Nat, NEW c \in [0 .. n + 1 -> Elems], Chain(n, c),
         NEW t \in Threads, t \notin Listed
  PROVE  \A i \in 0 .. n + 1 : c[i] \in Elems /\ c[i] # t
<1> SUFFICES ASSUME NEW i \in 0 .. n + 1 PROVE c[i] # t
  OBVIOUS
<1>1. CASE i \in 1 .. n
  BY <1>1 DEF Chain
<1>2. CASE c[i] \notin Threads
  BY <1>2
<1> QED  BY <1>1, <1>2, ChainFacts

\* A step that leaves the list alone while nobody inserts.
LEMMA ListKept ==
  ASSUME NEW n \in Nat, NEW c \in [0 .. n + 1 -> Elems], NEW k \in 0 .. n + 1,
         ListInv(n, c, k), UNCHANGED <<listVars, wake_up_tick, priority>>, Listed' = Listed,
         ticks \in Nat, ticks' \in Nat, ticks' >= ticks,
         \A t \in Listed : wake_up_tick[t] \in Nat,
         running # Idle => pc[running] # "link_prev",
         running' # Idle => pc'[running'] \in {"run", "block", "asleep"}
  PROVE  ListInv(n, c, k)'
<1>1. Chain(n, c)'
  BY DEF ListInv, Chain
<1>2. Links(n, c, k)'
  BY DEF ListInv, Links, listVars
<1>3. Position(n, c, k)'
  BY DEF Position
<1>4. Ordered(n, c, k)'
  <2> SUFFICES ASSUME NEW i \in 1 .. n, NEW j \in 1 .. n, i < j,
                      wake_up_tick[c[i]] > wake_up_tick[c[j]], wake_up_tick[c[i]] > ticks'
               PROVE  Excused(n, c, wake_up_tick[c[i]], j)'
    BY DEF Ordered
  <2>1. wake_up_tick[c[i]] > ticks
    BY DEF ListInv, Chain
  <2>2. Excused(n, c, wake_up_tick[c[i]], j)
    BY <2>1 DEF ListInv, Ordered
  <2> QED  BY <2>2 DEF Excused, Outlasts
<1> QED  BY <1>1, <1>2, <1>3, <1>4 DEF ListInv

\* The same of the whole invariant, for steps that end outside a timer_sleep.
LEMMA QuietKept ==
  ASSUME RaceInv, QuietInv, UNCHANGED <<listVars, wake_up_tick, priority>>, Listed' = Listed,
         ticks' \in Nat, ticks' >= ticks,
         running # Idle => pc[running] # "link_prev",
         \A t \in Threads : \/ pc'[t] \in {"run", "asleep"}
                            \/ t = running' /\ pc'[t] = "block" /\ ~intr'[t] /\ irq' = "none",
         running' \in All,
         irq' = "loop" => e' = next[HEAD],
         LateOnlyBehindHigher'
  PROVE  QuietInv'
<1>1. PICK n \in Nat : \E c \in [0 .. n + 1 -> Elems] : \E k \in 0 .. n + 1 : ListInv(n, c, k)
  BY DEF QuietInv
<1>2. PICK c \in [0 .. n + 1 -> Elems] : \E k \in 0 .. n + 1 : ListInv(n, c, k)
  BY <1>1
<1>3. PICK k \in 0 .. n + 1 : ListInv(n, c, k)
  BY <1>2
<1>4. running' # Idle => pc'[running'] \in {"run", "block", "asleep"}
  BY Distinct
<1>5. ListInv(n, c, k)'
  <2>1. ticks \in Nat /\ \A t \in Listed : wake_up_tick[t] \in Nat
    BY Facts DEF Listed, Asleep
  <2> QED  BY <1>3, <1>4, <2>1, ListKept
<1>6. \A t \in Threads : pc'[t] \notin {"run", "asleep"}
                           => t = running' /\ ~intr'[t] /\ irq' = "none"
  OBVIOUS
<1> QED  BY <1>5, <1>6 DEF QuietInv, listVars

LEMMA QuietBlock == ASSUME RaceInv, QuietInv, sleep_block, RaceInv' PROVE QuietInv'
<1>1. running \in Threads /\ irq = "none" /\ panic = "none" /\ pc[running] = "block"
  BY AtFacts DEF sleep_block
<1>2. \A t \in Threads : status'[t] = "BLOCKED" <=> status[t] = "BLOCKED" \/ t = running
  BY <1>1, BlockKept DEF sleep_block, RaceInv
<1>3. /\ pc' \in [Threads -> PC] /\ pc'[running] = "asleep"
      /\ \A t \in Threads : t # running => pc'[t] = pc[t]
  BY <1>1, Moved DEF PC, sleep_block
<1>4. Listed' = Listed
  BY <1>1, <1>2, <1>3 DEF Listed, Asleep
<1>5. \A t \in Threads : pc'[t] \in {"run", "asleep"}
  BY <1>3, OthersOutside
<1>6. /\ UNCHANGED <<listVars, wake_up_tick, priority, ticks>> /\ irq' = "none"
      /\ running' \in All /\ ticks' \in Nat /\ ticks' >= ticks
  BY <1>1, Facts DEF sleep_block, irqVars, RaceInv, KernelInv, ThreadsTypeOK
<1> QED  BY <1>1, <1>4, <1>5, <1>6, QuietKept DEF LateOnlyBehindHigher

LEMMA QuietReturn == ASSUME RaceInv, QuietInv, sleep_return, RaceInv' PROVE QuietInv'
<1>1. running \in Threads /\ irq = "none" /\ panic = "none" /\ pc[running] = "asleep"
  BY AtFacts DEF sleep_return
<1>2. /\ pc' \in [Threads -> PC] /\ pc'[running] = "run"
      /\ \A t \in Threads : t # running => pc'[t] = pc[t]
  BY <1>1, Moved DEF PC, sleep_return
<1>3. status' = status /\ status[running] = "RUNNING"
  BY <1>1, Distinct DEF sleep_return, threadVars, RaceInv, KernelInv, SchedulerOK
<1>4. Listed' = Listed
  BY <1>1, <1>2, <1>3 DEF Listed, Asleep
<1>5. \A t \in Threads : pc'[t] \in {"run", "asleep"}
  BY <1>2, OthersOutside
<1>6. /\ UNCHANGED <<listVars, wake_up_tick, priority, ticks>> /\ irq' = "none"
      /\ running' \in All /\ ticks' \in Nat /\ ticks' >= ticks
  BY <1>1, Facts DEF sleep_return, irqVars, threadVars
<1> QED  BY <1>1, <1>4, <1>5, <1>6, QuietKept DEF LateOnlyBehindHigher

LEMMA QuietYield == ASSUME RaceInv, QuietInv, yield_call, RaceInv' PROVE QuietInv'
<1>1. running \in Threads /\ irq = "none" /\ panic = "none" /\ pc[running] = "run"
  BY AtFacts DEF yield_call
<1>2. \A t \in Threads : status'[t] = "BLOCKED" <=> status[t] = "BLOCKED"
  BY <1>1, YieldKept DEF yield_call, RaceInv
<1>3. /\ UNCHANGED <<listVars, wake_up_tick, pc, priority, ticks>> /\ irq' = "none"
      /\ running' \in All /\ ticks' \in Nat /\ ticks' >= ticks
  BY <1>1, Facts DEF yield_call, irqVars, sleepVars, RaceInv, KernelInv, ThreadsTypeOK
<1>4. Listed' = Listed
  BY <1>2, <1>3 DEF Listed, Asleep
<1>5. \A t \in Threads : pc'[t] \in {"run", "asleep"}
  BY <1>1, <1>3, OthersOutside
<1> QED  BY <1>1, <1>3, <1>4, <1>5, QuietKept DEF LateOnlyBehindHigher

\* A timer interrupt finds nobody inside a timer_sleep.
LEMMA QuietTick == ASSUME RaceInv, QuietInv, timer_interrupt, RaceInv' PROVE QuietInv'
<1>1. \A t \in Threads : pc[t] \in {"run", "asleep"}
  BY Distinct DEF timer_interrupt, QuietInv
<1>2. /\ UNCHANGED <<listVars, wake_up_tick, pc, status, priority>>
      /\ irq' = "loop" /\ e' = next[HEAD]
      /\ running' \in All /\ ticks' \in Nat /\ ticks' >= ticks
  BY Facts DEF timer_interrupt, sleepVars
<1>3. Listed' = Listed
  BY <1>2 DEF Listed, Asleep
<1>4. running # Idle => pc[running] # "link_prev"
  BY <1>1, Facts, Distinct
<1> QED  BY <1>1, <1>2, <1>3, <1>4, QuietKept DEF LateOnlyBehindHigher

\* The loop has woken everybody who is due, but for those behind a later
\* sleeper: one that outranks them has got between.
LEMMA QuietEnd == ASSUME RaceInv, QuietInv, wake_end, RaceInv' PROVE QuietInv'
<1>1. irq = "loop" /\ ~Due /\ irq' = "return" /\ e = next[HEAD]
  BY DEF wake_end, QuietInv
<1>2. \A t \in Threads : pc[t] \in {"run", "asleep"}
  BY <1>1, OthersOutside
<1>3. /\ UNCHANGED <<listVars, wake_up_tick, pc, status, priority, ticks>>
      /\ running' \in All /\ ticks' \in Nat /\ ticks' >= ticks
  BY Facts DEF wake_end, sleepVars, threadVars
<1>4. Listed' = Listed /\ Asleep' = Asleep /\ Asleep \subseteq Listed
  BY <1>3 DEF Listed, Asleep
<1>5. running # Idle => pc[running] # "link_prev"
  BY <1>2, Facts, Distinct
<1>6. ASSUME NEW t \in Asleep, ticks >= wake_up_tick[t]
      PROVE  \E u \in Asleep : Outlasts(u, ticks + 1, t)
  <2>1. PICK n \in Nat : \E c \in [0 .. n + 1 -> Elems] : \E k \in 0 .. n + 1 : ListInv(n, c, k)
    BY DEF QuietInv
  <2>2. PICK c \in [0 .. n + 1 -> Elems] : \E k \in 0 .. n + 1 : ListInv(n, c, k)
    BY <2>1
  <2>3. PICK k \in 0 .. n + 1 : ListInv(n, c, k)
    BY <2>2
  <2>4. PICK i \in 1 .. n : c[i] = t
    BY <1>4, <2>3 DEF ListInv, Chain
  <2>5. e = c[1] /\ 1 \in 1 .. n /\ c[1] \in Threads /\ c[1] # TAIL
    <3>1. 0 \in 0 .. n /\ 0 + 1 = 1 /\ 1 \in 1 .. n
      BY <2>4
    <3>2. next[c[0]] = c[1] /\ c[0] = HEAD
      BY <1>5, <2>3, <3>1 DEF ListInv, Links, Chain
    <3>3. Chain(n, c)
      BY <2>3 DEF ListInv
    <3>4. \A j \in 1 .. n : c[j] \in Threads /\ c[j] # TAIL
      BY <3>3, ChainFacts
    <3>5. e = next[HEAD]
      BY <1>1
    <3> QED  BY <3>1, <3>2, <3>4, <3>5
  <2>6. ticks < wake_up_tick[c[1]]
    BY <1>1, <2>5, Facts DEF Due
  <2>7. /\ ticks \in Nat /\ wake_up_tick[c[1]] \in Nat /\ wake_up_tick[t] \in Nat
        /\ \A j \in 1 .. n : c[j] \in Asleep /\ wake_up_tick[c[j]] \in Nat
    <3>1. \A j \in 1 .. n : c[j] \in Listed
      BY <2>3 DEF ListInv, Chain
    <3>2. Listed = Asleep /\ Asleep \subseteq Threads
      BY <1>2 DEF Listed, Asleep
    <3> QED  BY <2>5, <3>1, <3>2, Facts
  <2>8. i \in 1 .. n /\ 1 < i /\ wake_up_tick[c[1]] > wake_up_tick[c[i]] /\ wake_up_tick[c[1]] > ticks
    BY <1>6, <2>4, <2>5, <2>6, <2>7
  <2>9. Excused(n, c, wake_up_tick[c[1]], i)
    BY <2>3, <2>5, <2>8 DEF ListInv, Ordered
  <2>10. PICK d \in 1 .. n : wake_up_tick[c[d]] >= wake_up_tick[c[1]] /\ priority[c[d]] > priority[t]
    BY <2>4, <2>9 DEF Excused, Outlasts
  <2>11. c[d] \in Asleep /\ wake_up_tick[c[d]] >= ticks + 1
    BY <2>6, <2>7, <2>10
  <2> QED  BY <2>10, <2>11 DEF Outlasts
<1>7. LateOnlyBehindHigher'
  BY <1>3, <1>4, <1>6 DEF LateOnlyBehindHigher, Outlasts
<1> QED  BY <1>1, <1>2, <1>3, <1>4, <1>5, <1>7, QuietKept

LEMMA QuietIrqReturn == ASSUME RaceInv, QuietInv, interrupt_return, RaceInv' PROVE QuietInv'
<1>1. irq = "return" /\ panic = "none" /\ irq' = "none"
  BY DEF interrupt_return
<1>2. \A t \in Threads : pc[t] \in {"run", "asleep"}
  BY <1>1, OthersOutside
<1>3. \A t \in Threads : status'[t] = "BLOCKED" <=> status[t] = "BLOCKED"
  BY <1>1, YieldKept DEF interrupt_return, RaceInv
<1>4. /\ UNCHANGED <<listVars, wake_up_tick, pc, priority, ticks>>
      /\ running' \in All /\ ticks' \in Nat /\ ticks' >= ticks
  BY Facts DEF interrupt_return, sleepVars, RaceInv, KernelInv, ThreadsTypeOK
<1>5. Listed' = Listed
  BY <1>3, <1>4 DEF Listed, Asleep
<1>6. running # Idle => pc[running] # "link_prev"
  BY <1>2, Facts, Distinct
<1> QED  BY <1>1, <1>2, <1>4, <1>5, <1>6, QuietKept DEF LateOnlyBehindHigher

LEMMA QuietIdle == ASSUME RaceInv, QuietInv, idle, RaceInv' PROVE QuietInv'
<1>1. irq = "none" /\ panic = "none" /\ irq' = "none" /\ running = Idle
  BY DEF idle
<1>2. \A t \in Threads : pc[t] \in {"run", "asleep"}
  BY <1>1, Distinct, OthersOutside
<1>3. \A t \in Threads : status'[t] = "BLOCKED" <=> status[t] = "BLOCKED"
  BY <1>1, BlockKept, Distinct DEF idle, RaceInv
<1>4. /\ UNCHANGED <<listVars, wake_up_tick, pc, priority, ticks>>
      /\ running' \in All /\ ticks' \in Nat /\ ticks' >= ticks
  BY Facts DEF idle, sleepVars, RaceInv, KernelInv, ThreadsTypeOK
<1>5. Listed' = Listed
  BY <1>3, <1>4 DEF Listed, Asleep
<1> QED  BY <1>1, <1>2, <1>4, <1>5, QuietKept DEF LateOnlyBehindHigher

\* A step inside timer_sleep that takes the cursor from element k to element l
\* and inserts nothing yet: what is to be shown of the order.
LEMMA OrderKept ==
  ASSUME NEW n \in Nat, NEW c \in [0 .. n + 1 -> Elems], NEW k, NEW l,
         ListInv(n, c, k), UNCHANGED <<threadVars, irqVars, wake_up_tick>>, running # Idle,
         pc[running] \in {"scan", "same_tick", "insert", "link_next", "link_prev"},
         \A i \in 1 .. n : i < l /\ wake_up_tick[c[i]] > wake_up_tick[running]
                             => priority[c[i]] > priority[running],
         pc'[running] \in {"same_tick", "insert", "link_next", "link_prev"}
           => \A j \in 1 .. n : j >= l /\ wake_up_tick[running] > wake_up_tick[c[j]]
                                  => Excused(n, c, wake_up_tick[running], j)
  PROVE  Ordered(n, c, l)'
<1>1. /\ priority' = priority /\ running' = running /\ ticks' = ticks
      /\ wake_up_tick' = wake_up_tick
  BY DEF threadVars, irqVars
<1>2. ASSUME NEW j, NEW u PROVE Excused(n, c, u, j)' <=> Excused(n, c, u, j)
  BY <1>1 DEF Excused, Outlasts
<1>3. /\ \A i, j \in 1 .. n :
            /\ i < j /\ wake_up_tick[c[i]] > wake_up_tick[c[j]] /\ wake_up_tick[c[i]] > ticks
            => Excused(n, c, wake_up_tick[c[i]], j)
      /\ wake_up_tick[running] > ticks
  BY DEF ListInv, Ordered
<1> QED  BY <1>1, <1>2, <1>3 DEF Ordered

\* A step of the running thread inside timer_sleep, with interrupts off.
LEMMA QuietMid ==
  ASSUME RaceInv, QuietInv, running \in Threads, ~intr[running], irq = "none",
         UNCHANGED <<threadVars, irqVars, intr>>,
         \A t \in Threads : t # running => pc'[t] = pc[t],
         NEW n \in Nat, NEW c \in [0 .. n + 1 -> Elems], NEW k \in 0 .. n + 1,
         ListInv(n, c, k)'
  PROVE  QuietInv'
<1>1. running' = running /\ irq' = "none" /\ intr' = intr
  BY DEF threadVars, irqVars
<1>2. \A t \in Threads : pc'[t] \notin {"run", "asleep"}
                           => t = running' /\ ~intr'[t] /\ irq' = "none"
  BY <1>1, OthersOutside
<1> QED  BY <1>1, <1>2 DEF QuietInv, LateOnlyBehindHigher

\* What QuietInv says when the running thread is at a place before its block.
LEMMA MidFacts ==
  ASSUME RaceInv, QuietInv, NEW place, At(place), place \notin {"run", "asleep"}
  PROVE  /\ running \in Threads /\ running # Idle /\ ~intr[running] /\ irq = "none"
         /\ pc[running] = place
         /\ \E n \in Nat : \E c \in [0 .. n + 1 -> Elems] : \E k \in 0 .. n + 1 : ListInv(n, c, k)
BY AtFacts, Distinct DEF QuietInv

LEMMA QuietCall ==
  ASSUME RaceInv, QuietInv, NEW m \in Naps, timer_sleep(m), ~exposed'
  PROVE  QuietInv'
<1>1. running \in Threads /\ running # Idle /\ irq = "none" /\ pc[running] = "run"
  BY AtFacts, Distinct DEF timer_sleep
<1>2. ~intr[running]
  BY DEF timer_sleep
<1>3. /\ pc' \in [Threads -> PC] /\ pc'[running] = "scan"
      /\ \A t \in Threads : t # running => pc'[t] = pc[t]
  BY <1>1, Moved DEF PC, timer_sleep
<1>4. /\ UNCHANGED <<threadVars, listVars, irqVars, intr>> /\ running' = running
      /\ next' = next /\ prev' = prev
      /\ x'[running] = HEAD
      /\ \A t \in Threads : t # running => wake_up_tick'[t] = wake_up_tick[t]
  BY <1>1, Facts DEF timer_sleep, threadVars, listVars, MoveTo
<1>5. Listed' = Listed /\ running \notin Listed
  BY <1>1, <1>3, <1>4, ListedKept, RunningNotListed
<1>6. PICK n \in Nat : \E c \in [0 .. n + 1 -> Elems] : \E k \in 0 .. n + 1 : ListInv(n, c, k)
  BY DEF QuietInv
<1>7. PICK c \in [0 .. n + 1 -> Elems] : \E k \in 0 .. n + 1 : ListInv(n, c, k)
  BY <1>6
<1>8. PICK k \in 0 .. n + 1 : ListInv(n, c, k)
  BY <1>7
<1>9. ListInv(n, c, 0)'
  <2>1. Chain(n, c)'
    BY <1>5, <1>8 DEF ListInv, Chain
  <2>2. Links(n, c, 0)'
    BY <1>1, <1>4, <1>8 DEF ListInv, Links
  <2>3. Position(n, c, 0)'
    BY <1>3, <1>4, <2>1 DEF Position, Chain
  <2>4. Ordered(n, c, 0)'
    <3>1. \A i \in 1 .. n : wake_up_tick'[c[i]] = wake_up_tick[c[i]]
      BY <1>4, <1>5, <1>8 DEF ListInv, Chain, Listed, Asleep
    <3>2. ticks' = ticks /\ priority' = priority
      BY <1>4 DEF threadVars, irqVars
    <3>3. ASSUME NEW j \in 1 .. n, NEW u, Excused(n, c, u, j) PROVE Excused(n, c, u, j)'
      BY <3>1, <3>2, <3>3 DEF Excused, Outlasts
    <3>4. wake_up_tick'[running] > ticks'
      <4>1. wake_up_tick'[running] = ticks + m
        BY <1>1, Facts DEF timer_sleep
      <4>2. m \in Nat /\ m > 0 /\ ticks \in Nat
        BY AlarmAssumption, Facts
      <4> QED  BY <3>2, <4>1, <4>2
    <3> QED  BY <1>3, <1>4, <1>8, <3>1, <3>2, <3>3, <3>4 DEF ListInv, Ordered
  <2> QED  BY <2>1, <2>2, <2>3, <2>4 DEF ListInv
<1>10. 0 \in 0 .. n + 1
  OBVIOUS
<1> QED  BY <1>1, <1>2, <1>3, <1>4, <1>9, <1>10, QuietMid

\* Walking along the list keeps the cursor on it.
LEMMA QuietScan == ASSUME RaceInv, QuietInv, scan PROVE QuietInv'
<1> DEFINE r == running
           w == wake_up_tick
<1>1. /\ r \in Threads /\ r # Idle /\ ~intr[r] /\ irq = "none" /\ pc[r] = "scan"
      /\ \E n \in Nat : \E c \in [0 .. n + 1 -> Elems] : \E k \in 0 .. n + 1 : ListInv(n, c, k)
  BY MidFacts DEF scan
<1>2. /\ UNCHANGED <<threadVars, listVars, irqVars, intr, wake_up_tick>> /\ running' = r
      /\ next' = next /\ prev' = prev
  BY DEF scan, threadVars, listVars
<1>3. PICK n \in Nat : \E c \in [0 .. n + 1 -> Elems] : \E k \in 0 .. n + 1 : ListInv(n, c, k)
  BY <1>1
<1>4. PICK c \in [0 .. n + 1 -> Elems] : \E k \in 0 .. n + 1 : ListInv(n, c, k)
  BY <1>3
<1>5. PICK k \in 0 .. n + 1 : ListInv(n, c, k)
  BY <1>4
<1>6. /\ Chain(n, c) /\ x[r] = c[k]
      /\ \A i \in 0 .. n : next[c[i]] = c[i + 1] /\ prev[c[i + 1]] = c[i]
  BY <1>1, <1>5 DEF ListInv, Links, Position
<1>7. /\ \A i \in 1 .. n : c[i] \in Threads /\ c[i] # HEAD /\ c[i] # TAIL /\ w[c[i]] \in Nat
      /\ \A i \in 0 .. n + 1 : i \in 1 .. n \/ c[i] \notin Threads
      /\ c[0] = HEAD /\ c[n + 1] = TAIL /\ w[r] \in Nat
  <2>1. /\ Listed \subseteq Threads
        /\ \A i \in 1 .. n : c[i] \in Threads /\ c[i] # HEAD /\ c[i] # TAIL
        /\ \A i \in 0 .. n + 1 : c[i] \in Elems /\ (i \in 1 .. n \/ c[i] \notin Threads)
        /\ c[0] = HEAD /\ c[n + 1] = TAIL
    BY <1>6, ChainFacts, ZenonT(60)
  <2>2. w \in [Threads -> Nat]
    BY Facts
  <2> QED  BY <1>1, <2>1, <2>2
<1>8. CASE /\ x[r] = HEAD \/ (x[r] \in Threads /\ w[x[r]] < w[r])
           /\ x' = [x EXCEPT ![r] = next[x[r]]] /\ pc' = pc
  <2>1. k \in 0 .. n /\ (k \in 1 .. n => w[c[k]] < w[r])
    BY <1>6, <1>7, <1>8, Distinct
  <2>2. x'[r] = c[k + 1] /\ k + 1 \in 0 .. n + 1
    BY <1>1, <1>6, <1>8, <2>1, Facts
  <2>3. Listed' = Listed
    BY <1>1, <1>2, <1>8, ListedKept
  <2>4. Chain(n, c)' /\ Links(n, c, k + 1)' /\ Position(n, c, k + 1)'
    BY <1>1, <1>2, <1>6, <1>8, <2>2, <2>3 DEF Chain, Links, Position
  <2>5. Ordered(n, c, k + 1)'
    <3>1. \A i \in 1 .. n : i < k /\ w[c[i]] > w[r] => priority[c[i]] > priority[r]
      BY <1>1, <1>5 DEF ListInv, Ordered
    <3>2. \A i \in 1 .. n : i < k + 1 /\ w[c[i]] > w[r] => priority[c[i]] > priority[r]
      BY <1>7, <2>1, <3>1
    <3> QED  BY <1>1, <1>2, <1>5, <1>8, <3>2, OrderKept
  <2>6. ListInv(n, c, k + 1)'
    BY <2>4, <2>5 DEF ListInv
  <2> QED  BY <1>1, <1>2, <1>8, <2>2, <2>6, QuietMid
<1>9. ASSUME NEW place \in {"same_tick", "insert"}, Goto(place), x' = x,
             \/ place = "same_tick" /\ x[r] \in Threads /\ w[x[r]] = w[r]
             \/ place = "insert" /\ (x[r] = TAIL \/ (x[r] \in Threads /\ w[x[r]] > w[r]))
      PROVE  QuietInv'
  <2>1. /\ pc' \in [Threads -> PC] /\ pc'[r] = place
        /\ \A t \in Threads : t # r => pc'[t] = pc[t]
    BY <1>1, <1>9, Moved DEF PC
  <2>2. /\ k \in 1 .. n + 1
        /\ place = "same_tick" => k <= n /\ w[c[k]] = w[r]
        /\ place = "insert" /\ k <= n => w[c[k]] > w[r]
    BY <1>6, <1>7, <1>9, Distinct
  <2>3. Listed' = Listed
    BY <1>1, <1>2, <2>1, ListedKept
  <2>4. Chain(n, c)' /\ Links(n, c, k)' /\ Position(n, c, k)'
    BY <1>1, <1>2, <1>6, <1>9, <2>1, <2>2, <2>3 DEF Chain, Links, Position
  <2>5. Ordered(n, c, k)'
    <3>1. /\ \A i, j \in 1 .. n : i < j /\ w[c[i]] > w[c[j]] /\ w[c[i]] > ticks
                                   => Excused(n, c, w[c[i]], j)
          /\ \A i \in 1 .. n : i < k /\ w[c[i]] > w[r] => priority[c[i]] > priority[r]
          /\ w[r] > ticks /\ ticks \in Nat
      BY <1>1, <1>5, Facts DEF ListInv, Ordered
    <3>2. ASSUME NEW j \in 1 .. n, j >= k, w[r] > w[c[j]] PROVE Excused(n, c, w[r], j)
      <4> HIDE DEF r, w
      <4>1. k \in 1 .. n /\ w[c[k]] >= w[r] /\ w[c[k]] \in Nat /\ w[c[j]] \in Nat
        BY <1>7, <2>2, <3>2
      <4>2. k < j /\ w[c[k]] > w[c[j]] /\ w[c[k]] > ticks
        BY <1>7, <3>1, <3>2, <4>1
      <4>3. Excused(n, c, w[c[k]], j)
        BY <3>1, <4>1, <4>2
      <4>4. PICK d \in 1 .. n : d < j /\ w[c[d]] >= w[c[k]] /\ priority[c[d]] > priority[c[j]]
        BY <4>3 DEF Excused, Outlasts, w
      <4>5. w[c[d]] >= w[r]
        BY <1>7, <4>1, <4>4
      <4> QED  BY <4>4, <4>5 DEF Excused, Outlasts, w
    <3> QED  BY <1>1, <1>2, <1>5, <3>1, <3>2, OrderKept
  <2>6. ListInv(n, c, k)'
    BY <2>4, <2>5 DEF ListInv
  <2> QED  BY <1>1, <1>2, <2>1, <2>6, QuietMid
<1> QED  BY <1>8, <1>9 DEF scan, Cursor, MoveTo

\* The inner loop passes only what outranks the new element.
LEMMA QuietSameTick == ASSUME RaceInv, QuietInv, scan_same_tick PROVE QuietInv'
<1> DEFINE r == running
           w == wake_up_tick
<1>1. /\ r \in Threads /\ r # Idle /\ ~intr[r] /\ irq = "none" /\ pc[r] = "same_tick"
      /\ \E n \in Nat : \E c \in [0 .. n + 1 -> Elems] : \E k \in 0 .. n + 1 : ListInv(n, c, k)
  BY MidFacts DEF scan_same_tick
<1>2. /\ UNCHANGED <<threadVars, listVars, irqVars, intr, wake_up_tick>> /\ running' = r
      /\ next' = next /\ prev' = prev
  BY DEF scan_same_tick, threadVars, listVars
<1>3. PICK n \in Nat : \E c \in [0 .. n + 1 -> Elems] : \E k \in 0 .. n + 1 : ListInv(n, c, k)
  BY <1>1
<1>4. PICK c \in [0 .. n + 1 -> Elems] : \E k \in 0 .. n + 1 : ListInv(n, c, k)
  BY <1>3
<1>5. PICK k \in 0 .. n + 1 : ListInv(n, c, k)
  BY <1>4
<1>6. /\ Chain(n, c) /\ x[r] = c[k] /\ k \in 1 .. n + 1
      /\ \A i \in 0 .. n : next[c[i]] = c[i + 1] /\ prev[c[i + 1]] = c[i]
  BY <1>1, <1>5 DEF ListInv, Links, Position
<1>7. /\ \A i \in 1 .. n : c[i] \in Threads /\ c[i] # TAIL /\ w[c[i]] \in Nat
      /\ c[n + 1] = TAIL /\ w[r] \in Nat
  BY <1>1, <1>6, ChainFacts, Facts, ZenonT(60)
<1>8. CASE (x[r] = TAIL \/ priority[x[r]] <= priority[r]) /\ Goto("insert") /\ x' = x
  <2>1. /\ pc' \in [Threads -> PC] /\ pc'[r] = "insert"
        /\ \A t \in Threads : t # r => pc'[t] = pc[t]
    BY <1>1, <1>8, Moved DEF PC
  <2>2. Listed' = Listed
    BY <1>1, <1>2, <2>1, ListedKept
  <2>3. Chain(n, c)' /\ Links(n, c, k)' /\ Position(n, c, k)'
    BY <1>1, <1>2, <1>6, <1>8, <2>1, <2>2 DEF Chain, Links, Position
  <2>4. Ordered(n, c, k)'
    <3>1. /\ \A i \in 1 .. n : i < k /\ w[c[i]] > w[r] => priority[c[i]] > priority[r]
          /\ \A j \in 1 .. n : j >= k /\ w[r] > w[c[j]] => Excused(n, c, w[r], j)
      BY <1>1, <1>5 DEF ListInv, Ordered
    <3> QED  BY <1>1, <1>2, <1>5, <3>1, OrderKept
  <2>5. ListInv(n, c, k)'
    BY <2>3, <2>4 DEF ListInv
  <2> QED  BY <1>1, <1>2, <2>1, <2>5, QuietMid
<1>9. CASE /\ x[r] # TAIL /\ ~(priority[x[r]] <= priority[r])
           /\ x' = [x EXCEPT ![r] = next[x[r]]] /\ pc' = pc
  <2>1. k \in 1 .. n
    BY <1>6, <1>7, <1>9
  <2>2. x'[r] = c[k + 1] /\ k + 1 \in 0 .. n + 1
    BY <1>1, <1>6, <1>9, <2>1, Facts
  <2>3. Listed' = Listed
    BY <1>1, <1>2, <1>9, ListedKept
  <2>4. Chain(n, c)' /\ Links(n, c, k + 1)' /\ Position(n, c, k + 1)'
    BY <1>1, <1>2, <1>6, <1>9, <2>2, <2>3 DEF Chain, Links, Position
  <2>5. Ordered(n, c, k + 1)'
    <3>1. /\ \A i \in 1 .. n : i < k /\ w[c[i]] > w[r] => priority[c[i]] > priority[r]
          /\ \A j \in 1 .. n : j >= k /\ w[r] > w[c[j]] => Excused(n, c, w[r], j)
      BY <1>1, <1>5 DEF ListInv, Ordered
    <3>2. priority[c[k]] > priority[r]
      <4>1. priority[c[k]] \in Nat /\ priority[r] \in Nat
        BY <1>1, <1>7, <2>1, Facts, Distinct
      <4> QED  BY <1>6, <1>9, <4>1
    <3>3. \A i \in 1 .. n : i < k + 1 /\ w[c[i]] > w[r] => priority[c[i]] > priority[r]
      BY <2>1, <3>1, <3>2
    <3>4. \A j \in 1 .. n : j >= k + 1 /\ w[r] > w[c[j]] => Excused(n, c, w[r], j)
      BY <2>1, <3>1
    <3> QED  BY <1>1, <1>2, <1>5, <3>3, <3>4, OrderKept
  <2>6. ListInv(n, c, k + 1)'
    BY <2>4, <2>5 DEF ListInv
  <2> QED  BY <1>1, <1>2, <1>9, <2>2, <2>6, QuietMid
<1> QED  BY <1>8, <1>9 DEF scan_same_tick, Cursor, MoveTo

\* list_insert before element k: the links of the new element,
LEMMA QuietInsertElem == ASSUME RaceInv, QuietInv, insert_elem PROVE QuietInv'
<1> DEFINE r == running
           w == wake_up_tick
<1>1. /\ r \in Threads /\ r # Idle /\ ~intr[r] /\ irq = "none" /\ pc[r] = "insert"
      /\ \E n \in Nat : \E c \in [0 .. n + 1 -> Elems] : \E k \in 0 .. n + 1 : ListInv(n, c, k)
  BY MidFacts DEF insert_elem
<1>2. /\ UNCHANGED <<threadVars, irqVars, intr, wake_up_tick, x>> /\ running' = r
      /\ prev' = [prev EXCEPT ![r] = prev[x[r]]] /\ next' = [next EXCEPT ![r] = x[r]]
  BY DEF insert_elem, threadVars, Cursor
<1>3. PICK n \in Nat : \E c \in [0 .. n + 1 -> Elems] : \E k \in 0 .. n + 1 : ListInv(n, c, k)
  BY <1>1
<1>4. PICK c \in [0 .. n + 1 -> Elems] : \E k \in 0 .. n + 1 : ListInv(n, c, k)
  BY <1>3
<1>5. PICK k \in 0 .. n + 1 : ListInv(n, c, k)
  BY <1>4
<1>6. /\ Chain(n, c) /\ x[r] = c[k] /\ k \in 1 .. n + 1
      /\ \A i \in 0 .. n : next[c[i]] = c[i + 1] /\ prev[c[i + 1]] = c[i]
  BY <1>1, <1>5 DEF ListInv, Links, Position
<1>7. /\ pc' \in [Threads -> PC] /\ pc'[r] = "link_next"
      /\ \A t \in Threads : t # r => pc'[t] = pc[t]
  BY <1>1, Moved DEF PC, insert_elem
<1>8. Listed' = Listed /\ r \notin Listed
  BY <1>1, <1>2, <1>7, ListedKept, RunningNotListed
<1>9. \A i \in 0 .. n + 1 : c[i] # r /\ next'[c[i]] = next[c[i]] /\ prev'[c[i]] = prev[c[i]]
  <2>1. \A i \in 0 .. n + 1 : c[i] \in Elems /\ c[i] # r
    BY <1>1, <1>6, <1>8, NotInChain, ZenonT(60)
  <2> QED  BY <1>2, <2>1, Facts
<1>10. next'[r] = c[k] /\ prev'[r] = c[k - 1]
  <2>1. k - 1 \in 0 .. n /\ (k - 1) + 1 = k
    BY <1>6
  <2>2. prev[c[k]] = c[k - 1]
    BY <1>6, <2>1
  <2> QED  BY <1>1, <1>2, <1>6, <2>2, Facts, Distinct
<1>11. Chain(n, c)' /\ Position(n, c, k)'
  BY <1>1, <1>2, <1>6, <1>7, <1>8, <1>10 DEF Chain, Position
<1>12. Links(n, c, k)'
  BY <1>6, <1>9, SMTT(30) DEF Links
<1>13. Ordered(n, c, k)'
  <2>1. /\ \A i \in 1 .. n : i < k /\ w[c[i]] > w[r] => priority[c[i]] > priority[r]
        /\ \A j \in 1 .. n : j >= k /\ w[r] > w[c[j]] => Excused(n, c, w[r], j)
    BY <1>1, <1>5 DEF ListInv, Ordered
  <2> QED  BY <1>1, <1>2, <1>5, <2>1, OrderKept
<1>14. ListInv(n, c, k)'
  BY <1>11, <1>12, <1>13 DEF ListInv
<1> QED  BY <1>1, <1>2, <1>7, <1>14, QuietMid

\* the link forward to it,
LEMMA QuietLinkNext == ASSUME RaceInv, QuietInv, insert_link_next PROVE QuietInv'
<1> DEFINE r == running
           w == wake_up_tick
<1>1. /\ r \in Threads /\ r # Idle /\ ~intr[r] /\ irq = "none" /\ pc[r] = "link_next"
      /\ \E n \in Nat : \E c \in [0 .. n + 1 -> Elems] : \E k \in 0 .. n + 1 : ListInv(n, c, k)
  BY MidFacts DEF insert_link_next
<1>2. /\ UNCHANGED <<threadVars, irqVars, intr, wake_up_tick, x, prev>> /\ running' = r
      /\ next' = [next EXCEPT ![prev[x[r]]] = r]
  BY DEF insert_link_next, threadVars, Cursor
<1>3. PICK n \in Nat : \E c \in [0 .. n + 1 -> Elems] : \E k \in 0 .. n + 1 : ListInv(n, c, k)
  BY <1>1
<1>4. PICK c \in [0 .. n + 1 -> Elems] : \E k \in 0 .. n + 1 : ListInv(n, c, k)
  BY <1>3
<1>5. PICK k \in 0 .. n + 1 : ListInv(n, c, k)
  BY <1>4
<1>6. /\ Chain(n, c) /\ x[r] = c[k] /\ k \in 1 .. n + 1 /\ next[r] = c[k] /\ prev[r] = c[k - 1]
      /\ \A i \in 0 .. n : next[c[i]] = c[i + 1] /\ prev[c[i + 1]] = c[i]
  BY <1>1, <1>5 DEF ListInv, Links, Position
<1>7. /\ pc' \in [Threads -> PC] /\ pc'[r] = "link_prev"
      /\ \A t \in Threads : t # r => pc'[t] = pc[t]
  BY <1>1, Moved DEF PC, insert_link_next
<1>8. Listed' = Listed /\ r \notin Listed
  BY <1>1, <1>2, <1>7, ListedKept, RunningNotListed
<1>9. k - 1 \in 0 .. n /\ prev[x[r]] = c[k - 1]
  <2>1. k - 1 \in 0 .. n /\ (k - 1) + 1 = k
    BY <1>6
  <2> QED  BY <1>6, <2>1
<1>10. /\ next'[c[k - 1]] = r /\ next'[r] = next[r]
       /\ \A i \in 0 .. n : i # k - 1 => next'[c[i]] = next[c[i]]
  <2>1. \A i \in 0 .. n + 1 : c[i] \in Elems /\ c[i] # r
    BY <1>1, <1>6, <1>8, NotInChain, ZenonT(60)
  <2>2. \A i \in 0 .. n : i # k - 1 => c[i] # c[k - 1]
    BY <1>6, <1>9 DEF Chain
  <2> QED  BY <1>1, <1>2, <1>9, <2>1, <2>2, Facts, Distinct
<1>11. Chain(n, c)'
  BY <1>6, <1>8 DEF Chain
<1>12. Position(n, c, k)'
  <2>1. x'[r] = c[k] /\ k >= 1 /\ next'[r] = c[k] /\ prev'[r] = c[k - 1]
    BY <1>2, <1>6, <1>10
  <2> QED  BY <1>2, <1>7, <1>10, <2>1 DEF Position
<1>13. Links(n, c, k)'
  <2>1. \A i \in 0 .. n : prev'[c[i + 1]] = c[i]
    BY <1>2, <1>6
  <2>2. \A i \in 0 .. n : next'[c[i]] = c[i + 1] \/ i + 1 = k
    BY <1>6, <1>10
  <2> QED  BY <1>1, <1>2, <1>7, <2>1, <2>2 DEF Links
<1>14. Ordered(n, c, k)'
  <2>1. /\ \A i \in 1 .. n : i < k /\ w[c[i]] > w[r] => priority[c[i]] > priority[r]
        /\ \A j \in 1 .. n : j >= k /\ w[r] > w[c[j]] => Excused(n, c, w[r], j)
    BY <1>1, <1>5 DEF ListInv, Ordered
  <2> QED  BY <1>1, <1>2, <1>5, <2>1, OrderKept
<1>15. ListInv(n, c, k)'
  BY <1>11, <1>13, <1>14, <1>12 DEF ListInv
<1> QED  BY <1>1, <1>2, <1>7, <1>15, QuietMid

\* the link back to it, after which it is an element of the list.
LEMMA QuietLinkPrev == ASSUME RaceInv, QuietInv, insert_link_prev PROVE QuietInv'
<1> DEFINE r == running
           w == wake_up_tick
<1>1. /\ r \in Threads /\ r # Idle /\ ~intr[r] /\ irq = "none" /\ pc[r] = "link_prev"
      /\ \E n \in Nat : \E c \in [0 .. n + 1 -> Elems] : \E k \in 0 .. n + 1 : ListInv(n, c, k)
  BY MidFacts DEF insert_link_prev
<1>2. /\ UNCHANGED <<threadVars, irqVars, intr, wake_up_tick, x, next>> /\ running' = r
      /\ prev' = [prev EXCEPT ![x[r]] = r]
  BY DEF insert_link_prev, threadVars, Cursor
<1>3. PICK n \in Nat : \E c \in [0 .. n + 1 -> Elems] : \E k \in 0 .. n + 1 : ListInv(n, c, k)
  BY <1>1
<1>4. PICK c \in [0 .. n + 1 -> Elems] : \E k \in 0 .. n + 1 : ListInv(n, c, k)
  BY <1>3
<1>5. PICK k \in 0 .. n + 1 : ListInv(n, c, k)
  BY <1>4
<1>6. /\ Chain(n, c) /\ x[r] = c[k] /\ k \in 1 .. n + 1 /\ next[r] = c[k] /\ prev[r] = c[k - 1]
      /\ next[c[k - 1]] = r
      /\ \A i \in 0 .. n : i + 1 # k => next[c[i]] = c[i + 1]
      /\ \A i \in 0 .. n : prev[c[i + 1]] = c[i]
  BY <1>1, <1>5 DEF ListInv, Links, Position
<1>7. /\ pc' \in [Threads -> PC] /\ pc'[r] = "block"
      /\ \A t \in Threads : t # r => pc'[t] = pc[t]
  BY <1>1, Moved DEF PC, insert_link_prev
<1>8. Listed' = Listed \cup {r} /\ r \notin Listed
  <2>1. r \notin Listed
    BY <1>1, RunningNotListed
  <2>2. status' = status
    BY <1>2 DEF threadVars
  <2> QED  BY <1>1, <1>7, <2>1, <2>2 DEF Listed, Asleep
<1>9. /\ \A i \in 0 .. n + 1 : c[i] \in Elems /\ c[i] # r
      /\ \A i, j \in 0 .. n + 1 : c[i] = c[j] => i = j
      /\ \A i \in 1 .. n : c[i] \in Listed
      /\ \A t \in Listed : \E i \in 1 .. n : c[i] = t
      /\ c[0] = HEAD /\ c[n + 1] = TAIL
  <2>1. \A i \in 0 .. n + 1 : c[i] \in Elems /\ c[i] # r
    BY <1>1, <1>6, <1>8, NotInChain, ZenonT(60)
  <2> QED  BY <1>6, <2>1 DEF Chain
<1>10. /\ prev'[c[k]] = r /\ prev'[r] = c[k - 1]
       /\ \A i \in 0 .. n + 1 : i # k => prev'[c[i]] = prev[c[i]]
  BY <1>1, <1>2, <1>6, <1>9, Facts, Distinct
<1>11. k \in 1 .. n + 1
  BY <1>6
<1>12. PICK m \in Nat : m = n + 1 /\ k \in 0 .. m + 1 /\ k \in 1 .. m
  BY <1>11
<1>13. PICK d \in [0 .. m + 1 -> Elems] :
         /\ \A i \in 0 .. m + 1 : i < k => d[i] = c[i] /\ i \in 0 .. n
         /\ d[k] = r
         /\ \A i \in 0 .. m + 1 : i > k => d[i] = c[i - 1] /\ i - 1 \in k .. n + 1
  <2> DEFINE f == [i \in 0 .. m + 1 |-> IF i < k THEN c[i] ELSE IF i = k THEN r ELSE c[i - 1]]
  <2>1. \A i \in 0 .. m + 1 : i < k => i \in 0 .. n + 1
    BY <1>11
  <2>2. \A i \in 0 .. m + 1 : i > k => i - 1 \in 0 .. n + 1
    BY <1>11, <1>12
  <2>3. r \in Elems
    BY <1>1, Distinct
  <2>4. f \in [0 .. m + 1 -> Elems]
    BY <1>9, <1>11, <2>1, <2>2, <2>3
  <2>5. /\ \A i \in 0 .. m + 1 : i < k => f[i] = c[i] /\ i \in 0 .. n
        /\ f[k] = r
        /\ \A i \in 0 .. m + 1 : i > k => f[i] = c[i - 1] /\ i - 1 \in k .. n + 1
    BY <1>11, <1>12
  <2> HIDE DEF f
  <2> QED  BY <2>4, <2>5
<1>14. Chain(m, d)'
  <2>1. d[0] = HEAD /\ d[m + 1] = TAIL
    <3>1. d[m + 1] = c[n + 1] /\ d[0] = c[0]
      BY <1>11, <1>12, <1>13
    <3> QED  BY <1>9, <3>1
  <2>2. \A i \in 1 .. m : d[i] \in Listed'
    <3> SUFFICES ASSUME NEW i \in 1 .. m PROVE d[i] \in Listed'
      OBVIOUS
    <3>1. CASE i < k
      <4>1. d[i] = c[i] /\ i \in 1 .. n
        BY <1>11, <1>12, <1>13, <3>1
      <4> QED  BY <1>8, <1>9, <4>1
    <3>2. CASE i = k
      BY <1>8, <1>13, <3>2
    <3>3. CASE i > k
      <4>1. d[i] = c[i - 1] /\ i - 1 \in 1 .. n
        BY <1>11, <1>12, <1>13, <3>3
      <4> QED  BY <1>8, <1>9, <4>1
    <3> QED  BY <1>11, <3>1, <3>2, <3>3
  <2>3. \A i, j \in 0 .. m + 1 : d[i] = d[j] => i = j
    <3> SUFFICES ASSUME NEW i \in 0 .. m + 1, NEW j \in 0 .. m + 1, d[i] = d[j]
                 PROVE  i = j
      OBVIOUS
    <3>1. /\ i < k => d[i] = c[i] /\ i \in 0 .. n + 1
          /\ i > k => d[i] = c[i - 1] /\ i - 1 \in k .. n + 1
          /\ i = k => d[i] = r
      BY <1>11, <1>12, <1>13
    <3>2. /\ j < k => d[j] = c[j] /\ j \in 0 .. n + 1
          /\ j > k => d[j] = c[j - 1] /\ j - 1 \in k .. n + 1
          /\ j = k => d[j] = r
      BY <1>11, <1>12, <1>13
    <3> QED  BY <1>9, <1>11, <3>1, <3>2
  <2>4. \A t \in Listed' : \E i \in 1 .. m : d[i] = t
    <3>1. ASSUME NEW t \in Listed PROVE \E i \in 1 .. m : d[i] = t
      <4>1. PICK i \in 1 .. n : c[i] = t
        BY <1>9
      <4>2. CASE i < k
        <5>1. i \in 1 .. m /\ d[i] = t
          BY <1>11, <1>12, <1>13, <4>1, <4>2
        <5> QED  BY <5>1
      <4>3. CASE i >= k
        <5>1. i + 1 \in 1 .. m /\ i + 1 \in 0 .. m + 1 /\ i + 1 > k /\ (i + 1) - 1 = i
          BY <1>11, <1>12, <4>3
        <5>2. d[i + 1] = t
          BY <1>13, <4>1, <5>1
        <5> QED  BY <5>1, <5>2
      <4> QED  BY <1>11, <4>2, <4>3
    <3> QED  BY <1>8, <1>12, <1>13, <3>1
  <2> QED  BY <2>1, <2>2, <2>3, <2>4 DEF Chain
<1>15. Links(m, d, k)'
  <2>1. ASSUME NEW i \in 0 .. m PROVE next'[d[i]] = d[i + 1] /\ prev'[d[i + 1]] = d[i]
    <3>1. CASE i < k - 1
      <4>1. d[i] = c[i] /\ d[i + 1] = c[i + 1] /\ i \in 0 .. n /\ i + 1 # k /\ i + 1 \in 0 .. n + 1
        BY <1>11, <1>12, <1>13, <3>1
      <4>2. next[c[i]] = c[i + 1] /\ prev[c[i + 1]] = c[i]
        BY <1>6, <4>1
      <4> QED  BY <1>2, <1>10, <4>1, <4>2
    <3>2. CASE i = k - 1
      <4>1. d[i] = c[k - 1] /\ d[i + 1] = r
        BY <1>11, <1>12, <1>13, <3>2
      <4> QED  BY <1>2, <1>6, <1>10, <4>1
    <3>3. CASE i = k
      <4>1. d[i] = r /\ d[i + 1] = c[k]
        BY <1>11, <1>12, <1>13, <3>3
      <4> QED  BY <1>2, <1>6, <1>10, <4>1
    <3>4. CASE i > k
      <4>1. /\ d[i] = c[i - 1] /\ d[i + 1] = c[i] /\ i - 1 \in 0 .. n /\ (i - 1) + 1 = i
            /\ i # k /\ i \in 0 .. n + 1
        BY <1>11, <1>12, <1>13, <3>4
      <4>2. next[c[i - 1]] = c[i] /\ prev[c[i]] = c[i - 1]
        BY <1>6, <4>1
      <4> QED  BY <1>2, <1>10, <4>1, <4>2
    <3> QED  BY <1>11, <3>1, <3>2, <3>3, <3>4
  <2> QED  BY <2>1 DEF Links
<1>16. Position(m, d, k)'
  BY <1>2, <1>7 DEF Position
<1>17. Ordered(m, d, k)'
  <2>1. /\ \A i, j \in 1 .. n : i < j /\ w[c[i]] > w[c[j]] /\ w[c[i]] > ticks
                                => Excused(n, c, w[c[i]], j)
        /\ \A i \in 1 .. n : i < k /\ w[c[i]] > w[r] => priority[c[i]] > priority[r]
        /\ \A j \in 1 .. n : j >= k /\ w[r] > w[c[j]] => Excused(n, c, w[r], j)
    BY <1>1, <1>5 DEF ListInv, Ordered
  <2>2. w[r] \in Nat /\ \A i \in 1 .. n : w[c[i]] \in Nat
    BY <1>1, <1>6, ChainFacts, Facts, ZenonT(60)
  \* What was excused before element j of c is excused before its place in d.
  <2>3. ASSUME NEW u, NEW j \in 1 .. n, NEW l \in 1 .. m, d[l] = c[j],
               l = IF j < k THEN j ELSE j + 1, Excused(n, c, u, j)
        PROVE  Excused(m, d, u, l)
    <3>1. PICK i \in 1 .. n : i < j /\ Outlasts(c[i], u, c[j])
      BY <2>3 DEF Excused
    <3>2. CASE i < k
      <4>1. i \in 1 .. m /\ d[i] = c[i] /\ i < l
        BY <1>11, <1>12, <1>13, <2>3, <3>1, <3>2
      <4> QED  BY <2>3, <3>1, <4>1 DEF Excused
    <3>3. CASE i >= k
      <4>1. i + 1 \in 1 .. m /\ i + 1 \in 0 .. m + 1 /\ i + 1 > k /\ (i + 1) - 1 = i /\ i + 1 < l
        BY <1>11, <1>12, <2>3, <3>1, <3>3
      <4>2. d[i + 1] = c[i]
        BY <1>13, <4>1
      <4> QED  BY <2>3, <3>1, <4>1, <4>2 DEF Excused
    <3> QED  BY <1>11, <3>2, <3>3
  <2>4. ASSUME NEW i \in 1 .. m, NEW j \in 1 .. m, i < j, w[d[i]] > w[d[j]], w[d[i]] > ticks
        PROVE  Excused(m, d, w[d[i]], j)
    <3> HIDE DEF w, r
    <3>1. /\ i < k => d[i] = c[i] /\ i \in 1 .. n
          /\ i > k => d[i] = c[i - 1] /\ i - 1 \in 1 .. n /\ i - 1 >= k
          /\ i = k => d[i] = r
      BY <1>11, <1>12, <1>13
    <3>2. /\ j < k => d[j] = c[j] /\ j \in 1 .. n
          /\ j > k => d[j] = c[j - 1] /\ j - 1 \in 1 .. n /\ j - 1 >= k
          /\ j = k => d[j] = r
      BY <1>11, <1>12, <1>13
    <3>3. CASE j < k
      <4>1. i < k /\ Excused(n, c, w[c[i]], j)
        BY <1>11, <2>1, <2>4, <3>1, <3>2, <3>3
      <4> QED  BY <2>3, <3>1, <3>2, <3>3, <4>1
    <3>4. CASE i > k
      <4>1. j > k /\ i - 1 < j - 1 /\ ~(j - 1 < k) /\ (j - 1) + 1 = j
        BY <1>11, <2>4, <3>4
      <4>2. Excused(n, c, w[c[i - 1]], j - 1)
        BY <2>1, <2>4, <3>1, <3>2, <3>4, <4>1
      <4> QED  BY <2>3, <3>1, <3>2, <3>4, <4>1, <4>2
    <3>5. CASE j = k
      <4>1. i \in 1 .. n /\ d[i] = c[i] /\ i < k /\ w[c[i]] > w[r]
        BY <2>4, <3>1, <3>2, <3>5
      <4>2. priority[c[i]] > priority[r]
        BY <2>1, <4>1
      <4>3. w[d[i]] >= w[d[i]]
        BY <2>2, <4>1
      <4> QED  BY <2>4, <3>2, <3>5, <4>1, <4>2, <4>3 DEF Excused, Outlasts, w
    <3>6. CASE i = k
      <4>1. j > k /\ ~(j - 1 < k) /\ (j - 1) + 1 = j
        BY <1>11, <2>4, <3>6
      <4>2. Excused(n, c, w[r], j - 1)
        BY <2>1, <2>4, <3>1, <3>2, <3>6, <4>1
      <4> QED  BY <2>3, <3>1, <3>2, <3>6, <4>1, <4>2
    <3>7. CASE i < k /\ j > k
      <4>1. i < j - 1 /\ ~(j - 1 < k) /\ (j - 1) + 1 = j
        BY <1>11, <3>2, <3>7
      <4>2. Excused(n, c, w[c[i]], j - 1)
        BY <2>1, <2>4, <3>1, <3>2, <3>7, <4>1
      <4> QED  BY <2>3, <3>1, <3>2, <3>7, <4>1, <4>2
    <3> QED  BY <1>11, <3>3, <3>4, <3>5, <3>6, <3>7
  <2>5. wake_up_tick' = wake_up_tick /\ ticks' = ticks /\ priority' = priority
    BY <1>2 DEF threadVars, irqVars
  <2>6. ASSUME NEW u, NEW j PROVE Excused(m, d, u, j)' <=> Excused(m, d, u, j)
    BY <2>5 DEF Excused, Outlasts
  <2> QED  BY <1>2, <1>7, <2>4, <2>5, <2>6 DEF Ordered
<1>18. ListInv(m, d, k)'
  BY <1>14, <1>15, <1>16, <1>17 DEF ListInv
<1> QED  BY <1>1, <1>2, <1>7, <1>12, <1>13, <1>18, QuietMid

\* The handler takes the first element off the list and goes on to the next.
LEMMA QuietWake ==
  ASSUME RaceInv, QuietInv, wake, panic' = "none", RaceInv'
  PROVE  QuietInv'
<1>1. /\ panic = "none" /\ irq = "loop" /\ irq' = "loop" /\ e # TAIL /\ e = next[HEAD]
      /\ thread_unblock(e, TRUE) /\ list_pop_front /\ e' = next[e]
      /\ UNCHANGED <<priority, ticks, irq, sleepVars>> /\ pc' = pc /\ wake_up_tick' = wake_up_tick
      /\ ticks >= wake_up_tick[e]
  BY DEF wake, Due, QuietInv, sleepVars
<1>2. e \in Threads
  BY <1>1, Facts DEF RaceInv, CursorInv
<1>3. \A u \in Threads : status'[u] = "BLOCKED" <=> status[u] = "BLOCKED" /\ u # e
  BY <1>1, <1>2, UnblockKept DEF RaceInv
<1>4. \A t \in Threads : pc[t] \in {"run", "asleep"}
  BY <1>1, OthersOutside
<1>5. Listed' = Listed \ {e}
  BY <1>1, <1>3, <1>4 DEF Listed, Asleep
<1>6. running' # Idle => running' \in Threads /\ pc'[running'] \in {"run", "asleep"}
  BY <1>1, <1>4, Distinct DEF RaceInv, KernelInv, ThreadsTypeOK
<1>7. running # Idle => pc[running] # "link_prev"
  BY <1>4, Facts, Distinct
<1>8. PICK n \in Nat : \E c \in [0 .. n + 1 -> Elems] : \E k \in 0 .. n + 1 : ListInv(n, c, k)
  BY DEF QuietInv
<1>9. PICK c \in [0 .. n + 1 -> Elems] : \E k \in 0 .. n + 1 : ListInv(n, c, k)
  BY <1>8
<1>10. PICK k \in 0 .. n + 1 : ListInv(n, c, k)
  BY <1>9
<1>11. /\ Chain(n, c)
       /\ \A i \in 0 .. n : next[c[i]] = c[i + 1]
       /\ \A i \in 0 .. n : prev[c[i + 1]] = c[i]
  BY <1>7, <1>10 DEF ListInv, Links
<1>12. /\ c[0] = HEAD /\ c[n + 1] = TAIL /\ \A i \in 0 .. n + 1 : c[i] \in Elems
       /\ \A i, j \in 0 .. n + 1 : c[i] = c[j] => i = j
       /\ \A i \in 1 .. n : c[i] \in Listed
       /\ \A t \in Listed : \E i \in 1 .. n : c[i] = t
  BY <1>11 DEF Chain
<1>13. e = c[1] /\ n >= 1
  <2>1. next[c[0]] = c[0 + 1]
    BY <1>11
  <2>2. e = c[1]
    BY <1>1, <1>12, <2>1
  <2> QED  BY <1>1, <1>12, <2>2
<1>14. next[e] = c[2] /\ prev[e] = HEAD
  <2>1. 1 \in 0 .. n /\ 0 \in 0 .. n
    BY <1>13
  <2>2. next[c[1]] = c[1 + 1] /\ prev[c[0 + 1]] = c[0]
    BY <1>11, <2>1
  <2> QED  BY <1>12, <1>13, <2>2
<1>15. next' = [next EXCEPT ![HEAD] = c[2]] /\ prev' = [prev EXCEPT ![c[2]] = HEAD]
  BY <1>1, <1>14 DEF list_pop_front
<1>16. /\ next'[HEAD] = c[2] /\ \A i \in 1 .. n + 1 : next'[c[i]] = next[c[i]]
       /\ prev'[c[2]] = HEAD /\ \A i \in 3 .. n + 1 : prev'[c[i]] = prev[c[i]]
  <2>1. \A i \in 1 .. n + 1 : c[i] # HEAD /\ c[i] \in Elems
    BY <1>12
  <2>2. \A i \in 3 .. n + 1 : c[i] # c[2] /\ c[i] \in Elems
    BY <1>12, <1>13
  <2>3. c[2] \in Elems
    BY <1>12, <1>13
  <2> QED  BY <1>15, <2>1, <2>2, <2>3, Facts, Distinct
<1>17. PICK m \in Nat : n = m + 1
  <2>1. n - 1 \in Nat /\ n = (n - 1) + 1
    BY <1>13
  <2> QED  BY <2>1
<1>18. PICK d \in [0 .. m + 1 -> Elems] :
         d[0] = HEAD /\ \A i \in 1 .. m + 1 : d[i] = c[i + 1] /\ i + 1 \in 2 .. n + 1
  <2> DEFINE f == [i \in 0 .. m + 1 |-> IF i = 0 THEN HEAD ELSE c[i + 1]]
  <2>1. \A i \in 1 .. m + 1 : i + 1 \in 2 .. n + 1 /\ i + 1 \in 0 .. n + 1
    BY <1>17
  <2>2. f \in [0 .. m + 1 -> Elems]
    BY <1>12, <2>1, Distinct
  <2>3. f[0] = HEAD /\ \A i \in 1 .. m + 1 : f[i] = c[i + 1]
    OBVIOUS
  <2> HIDE DEF f
  <2> QED  BY <2>1, <2>2, <2>3
<1>19. Chain(m, d)'
  <2>1. d[0] = HEAD /\ d[m + 1] = TAIL
    <3>1. d[m + 1] = c[(m + 1) + 1]
      BY <1>18
    <3> QED  BY <1>12, <1>17, <1>18, <3>1
  <2>2. ASSUME NEW i \in 1 .. m PROVE d[i] \in Listed'
    <3>1. d[i] = c[i + 1] /\ i + 1 \in 1 .. n /\ i + 1 # 1
      BY <1>17, <1>18
    <3> QED  BY <1>5, <1>12, <1>13, <3>1
  <2>3. ASSUME NEW i \in 0 .. m + 1, NEW j \in 0 .. m + 1, d[i] = d[j] PROVE i = j
    <3>1. /\ i # 0 => d[i] = c[i + 1] /\ i + 1 \in 0 .. n + 1 /\ i + 1 # 0
          /\ j # 0 => d[j] = c[j + 1] /\ j + 1 \in 0 .. n + 1 /\ j + 1 # 0
      BY <1>18
    <3> QED  BY <1>12, <1>18, <2>3, <3>1
  <2>4. ASSUME NEW t \in Listed' PROVE \E i \in 1 .. m : d[i] = t
    <3>1. PICK i \in 1 .. n : c[i] = t /\ i # 1
      BY <1>5, <1>12, <1>13
    <3>2. i - 1 \in 1 .. m /\ i - 1 \in 1 .. m + 1 /\ (i - 1) + 1 = i
      BY <1>17, <3>1
    <3>3. d[i - 1] = t
      BY <1>18, <3>1, <3>2
    <3> QED  BY <3>2, <3>3
  <2> QED  BY <2>1, <2>2, <2>3, <2>4 DEF Chain
<1>20. Links(m, d, 0)'
  <2>1. ASSUME NEW i \in 0 .. m PROVE next'[d[i]] = d[i + 1] /\ prev'[d[i + 1]] = d[i]
    <3>1. CASE i = 0
      <4>1. d[i] = HEAD /\ d[i + 1] = c[2]
        BY <1>17, <1>18, <3>1
      <4> QED  BY <1>16, <4>1
    <3>2. CASE i # 0
      <4>1. /\ d[i] = c[i + 1] /\ d[i + 1] = c[(i + 1) + 1] /\ i + 1 \in 0 .. n
            /\ i + 1 \in 1 .. n + 1 /\ (i + 1) + 1 \in 3 .. n + 1
        BY <1>17, <1>18, <3>2
      <4>2. next[c[i + 1]] = c[(i + 1) + 1] /\ prev[c[(i + 1) + 1]] = c[i + 1]
        BY <1>11, <4>1
      <4> QED  BY <1>16, <4>1, <4>2
    <3> QED  BY <3>1, <3>2
  <2> QED  BY <2>1 DEF Links
<1>21. Position(m, d, 0)'
  BY <1>6 DEF Position
<1>22. Ordered(m, d, 0)'
  <2>1. \A i, j \in 1 .. n :
          /\ i < j /\ wake_up_tick[c[i]] > wake_up_tick[c[j]] /\ wake_up_tick[c[i]] > ticks
          => Excused(n, c, wake_up_tick[c[i]], j)
    BY <1>10 DEF ListInv, Ordered
  <2>2. ASSUME NEW i \in 1 .. m, NEW j \in 1 .. m, i < j,
               wake_up_tick[d[i]] > wake_up_tick[d[j]], wake_up_tick[d[i]] > ticks
        PROVE  Excused(m, d, wake_up_tick[d[i]], j)
    <3>1. /\ d[i] = c[i + 1] /\ d[j] = c[j + 1] /\ i + 1 \in 1 .. n /\ j + 1 \in 1 .. n
          /\ i + 1 < j + 1
      BY <1>17, <1>18, <2>2
    <3>2. Excused(n, c, wake_up_tick[c[i + 1]], j + 1)
      BY <2>1, <2>2, <3>1
    <3>3. PICK l \in 1 .. n : l < j + 1 /\ Outlasts(c[l], wake_up_tick[c[i + 1]], c[j + 1])
      BY <3>2 DEF Excused
    <3>4. l # 1
      <4>1. /\ wake_up_tick[c[l]] \in Nat /\ wake_up_tick[c[i + 1]] \in Nat
            /\ wake_up_tick[e] \in Nat /\ ticks \in Nat
        BY <1>2, <1>11, <3>1, ChainFacts, Facts, ZenonT(60)
      <4>2. wake_up_tick[c[l]] >= wake_up_tick[c[i + 1]]
        BY <3>3 DEF Outlasts
      <4> QED  BY <1>1, <1>13, <2>2, <3>1, <4>1, <4>2
    <3>5. l - 1 \in 1 .. m /\ l - 1 < j /\ (l - 1) + 1 = l /\ l - 1 \in 1 .. m + 1
      BY <1>17, <3>3, <3>4
    <3>6. d[l - 1] = c[l]
      BY <1>18, <3>5
    <3> QED  BY <3>1, <3>3, <3>5, <3>6 DEF Excused
  <2>3. wake_up_tick' = wake_up_tick /\ ticks' = ticks /\ priority' = priority
    BY <1>1
  <2>4. ASSUME NEW u, NEW j PROVE Excused(m, d, u, j)' <=> Excused(m, d, u, j)
    BY <2>3 DEF Excused, Outlasts
  <2> QED  BY <1>1, <1>6, <2>2, <2>3, <2>4 DEF Ordered
<1>23. ListInv(m, d, 0)' /\ 0 \in 0 .. m + 1
  BY <1>19, <1>20, <1>21, <1>22 DEF ListInv
<1>24. e' = next'[HEAD]
  BY <1>1, <1>14, <1>16
<1>25. \A t \in Threads : pc'[t] \in {"run", "asleep"}
  BY <1>1, <1>4
<1> QED  BY <1>1, <1>23, <1>24, <1>25 DEF QuietInv, LateOnlyBehindHigher

----------------------------------------------------------------------------
\* At first nobody sleeps, and timer_list is empty.
LEMMA InitIInv == ASSUME Init PROVE IInv
<1>1. RaceInv
  BY InitRaceInv
<1>2. /\ running \in Threads /\ irq = "none" /\ \A t \in Threads : pc[t] = "run"
      /\ next[HEAD] = TAIL /\ prev[TAIL] = HEAD
  BY Distinct DEF Init
<1>3. Listed = {}
  BY <1>2 DEF Listed, Asleep
<1>4. PICK c \in [0 .. 0 + 1 -> Elems] : c[0] = HEAD /\ c[1] = TAIL
  <2> DEFINE f == [i \in 0 .. 0 + 1 |-> IF i = 0 THEN HEAD ELSE TAIL]
  <2>1. f \in [0 .. 0 + 1 -> Elems] /\ f[0] = HEAD /\ f[1] = TAIL
    BY Distinct
  <2> HIDE DEF f
  <2> QED  BY <2>1
<1>5. ListInv(0, c, 0)
  <2>1. Chain(0, c)
    <3>1. \A i \in 0 .. 0 + 1 : i = 0 \/ i = 1
      OBVIOUS
    <3> QED  BY <1>3, <1>4, <3>1, Distinct DEF Chain
  <2>2. Links(0, c, 0)
    <3>1. \A i \in 0 .. 0 : i = 0 /\ i + 1 = 1
      OBVIOUS
    <3> QED  BY <1>2, <1>4, <3>1 DEF Links
  <2>3. Position(0, c, 0) /\ Ordered(0, c, 0)
    BY <1>2 DEF Position, Ordered
  <2> QED  BY <2>1, <2>2, <2>3 DEF ListInv
<1>6. 0 \in Nat /\ 0 \in 0 .. 0 + 1
  OBVIOUS
<1>7. QuietInv
  BY <1>2, <1>5, <1>6 DEF QuietInv, LateOnlyBehindHigher
<1> QED  BY <1>1, <1>7 DEF IInv

\* Every step keeps the invariant.
LEMMA NextIInv == IInv /\ [Next]_vars => IInv'
<1> SUFFICES ASSUME IInv, [Next]_vars PROVE IInv'
  OBVIOUS
<1>1. RaceInv'
  BY NextRaceInv DEF IInv
<1> SUFFICES ASSUME ~exposed', panic' = "none" PROVE QuietInv'
  BY <1>1 DEF IInv
<1>2. RaceInv
  BY DEF IInv
<1>3. ASSUME UNCHANGED vars PROVE QuietInv'
  <2>1. QuietInv /\ Listed' = Listed /\ Asleep' = Asleep
    BY <1>3 DEF IInv, vars, threadVars, sleepVars, Listed, Asleep
  <2>2. /\ pc' = pc /\ running' = running /\ intr' = intr /\ irq' = irq /\ e' = e /\ x' = x
        /\ next' = next /\ prev' = prev /\ wake_up_tick' = wake_up_tick /\ ticks' = ticks
        /\ exposed' = exposed /\ priority' = priority
    BY <1>3 DEF vars, threadVars, listVars, sleepVars, irqVars
  <2>3. ASSUME NEW n, NEW c, NEW k PROVE ListInv(n, c, k)' <=> ListInv(n, c, k)
    BY <2>1, <2>2 DEF ListInv, Chain, Links, Position, Ordered, Excused, Outlasts
  <2>4. LateOnlyBehindHigher' <=> LateOnlyBehindHigher
    BY <2>1, <2>2 DEF LateOnlyBehindHigher, Outlasts
  <2> QED  BY <2>1, <2>2, <2>3, <2>4 DEF QuietInv
<1>4. ASSUME ~exposed, panic = "none", Next PROVE QuietInv'
  <2>1. QuietInv
    BY <1>4 DEF IInv
  <2>2. CASE \E m \in Naps : timer_sleep(m)
    BY <1>2, <2>1, <2>2, QuietCall
  <2>3. CASE scan
    BY <1>2, <2>1, <2>3, QuietScan
  <2>4. CASE scan_same_tick
    BY <1>2, <2>1, <2>4, QuietSameTick
  <2>5. CASE insert_elem
    BY <1>2, <2>1, <2>5, QuietInsertElem
  <2>6. CASE insert_link_next
    BY <1>2, <2>1, <2>6, QuietLinkNext
  <2>7. CASE insert_link_prev
    BY <1>2, <2>1, <2>7, QuietLinkPrev
  <2>8. CASE sleep_block
    BY <1>1, <1>2, <2>1, <2>8, QuietBlock
  <2>9. CASE sleep_return
    BY <1>1, <1>2, <2>1, <2>9, QuietReturn
  <2>10. CASE yield_call
    BY <1>1, <1>2, <2>1, <2>10, QuietYield
  <2>11. CASE timer_interrupt
    BY <1>1, <1>2, <2>1, <2>11, QuietTick
  <2>12. CASE wake
    BY <1>1, <1>2, <2>1, <2>12, QuietWake
  <2>13. CASE wake_end
    BY <1>1, <1>2, <2>1, <2>13, QuietEnd
  <2>14. CASE interrupt_return
    BY <1>1, <1>2, <2>1, <2>14, QuietIrqReturn
  <2>15. CASE idle
    BY <1>1, <1>2, <2>1, <2>15, QuietIdle
  <2>16. CASE Halt
    BY <1>3, <2>16 DEF Halt
  <2> QED
    BY <1>4, <2>2, <2>3, <2>4, <2>5, <2>6, <2>7, <2>8, <2>9, <2>10, <2>11, <2>12, <2>13, <2>14,
       <2>15, <2>16 DEF Next
<1>5. CASE Next /\ panic # "none"
  <2>1. UNCHANGED vars
    BY <1>5 DEF Next, timer_sleep, scan, scan_same_tick, insert_elem, insert_link_next,
                insert_link_prev, sleep_block, sleep_return, yield_call, At, timer_interrupt,
                wake, wake_end, interrupt_return, idle, Halt
  <2> QED  BY <1>3, <2>1
<1>6. CASE Next /\ panic = "none"
  <2>1. CASE exposed
    <3>1. exposed'
      BY <1>6, <2>1 DEF Next, timer_sleep, scan, scan_same_tick, insert_elem, insert_link_next,
                insert_link_prev, sleep_block, sleep_return, yield_call, timer_interrupt,
                wake, wake_end, interrupt_return, idle, Halt, vars, sleepVars
    <3> QED  BY <3>1
  <2> QED  BY <1>4, <1>6, <2>1
<1> QED  BY <1>3, <1>5, <1>6

\* The invariant of timer_list, of timer_interrupt's cursor and of a sleeper
\* that is linking itself in holds in every reachable state.
THEOREM Invariance == Spec => []IInv
<1>1. Init => IInv
  BY InitIInv
<1> QED  BY <1>1, NextIInv, PTL DEF Spec

\* The links of a chain with n elements, as TimerListOrdered writes it.
LEMMA ChainLinks ==
  ASSUME NEW n \in Nat, NEW c \in [0 .. n + 1 -> Elems], NEW ls \in [1 .. n -> Threads],
         c[0] = HEAD, c[n + 1] = TAIL, \A i \in 1 .. n : ls[i] = c[i]
  PROVE  LET chain == <<HEAD>> \o ls \o <<TAIL>>
         IN  Len(chain) = n + 2 /\ \A i \in 1 .. n + 2 : chain[i] = c[i - 1]
<1> DEFINE hs == <<HEAD>> \o ls
           chain == hs \o <<TAIL>>
<1>1. /\ <<HEAD>> \in Seq(Elems) /\ <<TAIL>> \in Seq(Elems)
      /\ Len(<<HEAD>>) = 1 /\ Len(<<TAIL>>) = 1 /\ <<HEAD>>[1] = HEAD /\ <<TAIL>>[1] = TAIL
  BY Distinct
<1>2. ls \in Seq(Elems) /\ Len(ls) = n
  BY Distinct
<1>3. /\ hs \in Seq(Elems) /\ Len(hs) = n + 1
      /\ \A i \in 1 .. n + 1 : hs[i] = IF i <= 1 THEN <<HEAD>>[i] ELSE ls[i - 1]
  BY <1>1, <1>2, ConcatProperties
<1> HIDE DEF hs
<1>4. /\ Len(chain) = n + 2
      /\ \A i \in 1 .. n + 2 : chain[i] = IF i <= n + 1 THEN hs[i] ELSE <<TAIL>>[i - (n + 1)]
  BY <1>1, <1>3, ConcatProperties
<1> HIDE DEF chain
<1>5. ASSUME NEW i \in 1 .. n + 2 PROVE chain[i] = c[i - 1]
  <2>1. CASE i = 1
    BY <1>1, <1>3, <1>4, <2>1
  <2>2. CASE i = n + 2
    BY <1>1, <1>4, <2>2
  <2>3. CASE i \in 2 .. n + 1
    <3>1. i - 1 \in 1 .. n
      BY <2>3
    <3> QED  BY <1>3, <1>4, <2>3, <3>1
  <2> QED  BY <2>1, <2>2, <2>3
<1> QED  BY <1>4, <1>5 DEF chain, hs

\* The invariant gives the order that TimerListOrdered asks for.
LEMMA OrderedList == ASSUME IInv PROVE TimerListOrdered
<1> SUFFICES ASSUME ~exposed, panic = "none",
                    \A t \in Threads : pc[t] \notin {"link_next", "link_prev", "block"}
             PROVE  \E ls \in SetToSeqs(Asleep) :
                      LET chain == <<HEAD>> \o ls \o <<TAIL>>
                      IN  /\ \A i \in 1 .. Len(chain) - 1 :
                               next[chain[i]] = chain[i + 1] /\ prev[chain[i + 1]] = chain[i]
                          /\ \A i, j \in 1 .. Len(ls) :
                               /\ i < j /\ wake_up_tick[ls[i]] > wake_up_tick[ls[j]]
                               /\ wake_up_tick[ls[i]] > ticks
                               => \E d \in 1 .. j - 1 :
                                    Outlasts(ls[d], wake_up_tick[ls[i]], ls[j])
  BY DEF TimerListOrdered
<1>1. RaceInv /\ QuietInv
  BY DEF IInv
<1>2. Listed = Asleep /\ (running # Idle => pc[running] # "link_prev")
  BY <1>1, Facts, Distinct DEF Listed
<1>3. PICK n \in Nat : \E c \in [0 .. n + 1 -> Elems] : \E k \in 0 .. n + 1 : ListInv(n, c, k)
  BY <1>1 DEF QuietInv
<1>4. PICK c \in [0 .. n + 1 -> Elems] : \E k \in 0 .. n + 1 : ListInv(n, c, k)
  BY <1>3
<1>5. PICK k \in 0 .. n + 1 : ListInv(n, c, k)
  BY <1>4
<1>6. /\ c[0] = HEAD /\ c[n + 1] = TAIL
      /\ \A i \in 1 .. n : c[i] \in Asleep
      /\ \A i, j \in 0 .. n + 1 : c[i] = c[j] => i = j
      /\ \A t \in Asleep : \E i \in 1 .. n : c[i] = t
  BY <1>2, <1>5 DEF ListInv, Chain
<1>7. /\ \A i \in 0 .. n : next[c[i]] = c[i + 1] /\ prev[c[i + 1]] = c[i]
      /\ \A i, j \in 1 .. n :
           /\ i < j /\ wake_up_tick[c[i]] > wake_up_tick[c[j]] /\ wake_up_tick[c[i]] > ticks
           => Excused(n, c, wake_up_tick[c[i]], j)
  BY <1>2, <1>5 DEF ListInv, Links, Ordered
<1> DEFINE ls == [i \in 1 .. n |-> c[i]]
<1>8. /\ ls \in [1 .. n -> Asleep] /\ ls \in [1 .. n -> Threads]
      /\ \A i \in 1 .. n : ls[i] = c[i]
      /\ Len(ls) = n
  BY <1>6 DEF Asleep
<1> HIDE DEF ls
<1>9. ls \in SetToSeqs(Asleep)
  <2>1. \A i, j \in 1 .. n : i # j => ls[i] # ls[j]
    BY <1>6, <1>8
  <2>2. ls \in Bijection(1 .. n, Asleep)
    BY <1>6, <1>8, <2>1 DEF Bijection, Injection, IsInjective, Surjection
  <2>3. Cardinality(Asleep) = n
    BY <2>2, FS_CountingElements DEF ExistsBijection
  <2> QED  BY <1>8, <2>1, <2>3 DEF SetToSeqs
<1> DEFINE chain == <<HEAD>> \o ls \o <<TAIL>>
<1>10. Len(chain) = n + 2 /\ \A i \in 1 .. n + 2 : chain[i] = c[i - 1]
  BY <1>6, <1>8, ChainLinks
<1> HIDE DEF chain
<1>11. ASSUME NEW i \in 1 .. Len(chain) - 1
       PROVE  next[chain[i]] = chain[i + 1] /\ prev[chain[i + 1]] = chain[i]
  <2>1. i - 1 \in 0 .. n /\ (i - 1) + 1 = i /\ chain[i] = c[i - 1] /\ chain[i + 1] = c[i]
    BY <1>10
  <2> QED  BY <1>7, <2>1
<1>12. ASSUME NEW i \in 1 .. Len(ls), NEW j \in 1 .. Len(ls), i < j,
              wake_up_tick[ls[i]] > wake_up_tick[ls[j]], wake_up_tick[ls[i]] > ticks
       PROVE  \E d \in 1 .. j - 1 : Outlasts(ls[d], wake_up_tick[ls[i]], ls[j])
  <2>1. i \in 1 .. n /\ j \in 1 .. n /\ ls[i] = c[i] /\ ls[j] = c[j]
    BY <1>8
  <2>2. Excused(n, c, wake_up_tick[c[i]], j)
    BY <1>7, <1>12, <2>1
  <2>3. PICK d \in 1 .. n : d < j /\ Outlasts(c[d], wake_up_tick[c[i]], c[j])
    BY <2>2 DEF Excused
  <2>4. d \in 1 .. j - 1 /\ ls[d] = c[d]
    BY <1>8, <2>1, <2>3
  <2> QED  BY <2>1, <2>3, <2>4
<1> QED  BY <1>9, <1>11, <1>12 DEF chain

\* As long as every timer_sleep runs with interrupts off, and whatever the
\* priorities, timer_list is a list of the sleeping threads, linked both ways,
\* whenever no list_insert is under way, in the order of their ticks but for
\* threads behind sleepers that outrank them; its pointers have their types in
\* any case.
THEOREM TimerListKept == Spec => []TimerListConsistent
<1>1. IInv => TimerListConsistent
  BY OrderedList DEF TimerListConsistent, IInv, RaceInv
<1> QED  BY <1>1, Invariance, PTL

\* Under the same condition, a timer interrupt leaves a thread asleep whose
\* wake-up tick has come only behind a later sleeper of a higher priority.
THEOREM LateBehindHigher == Spec => []LateOnlyBehindHigher
<1>1. IInv => LateOnlyBehindHigher
  <2> SUFFICES ASSUME IInv, irq = "return", ~exposed PROVE LateOnlyBehindHigher
    BY DEF LateOnlyBehindHigher
  <2>1. panic = "none"
    BY DEF IInv, RaceInv, KernelInv
  <2> QED  BY <2>1 DEF IInv, QuietInv
<1> QED  BY <1>1, Invariance, PTL
=============================================================================
