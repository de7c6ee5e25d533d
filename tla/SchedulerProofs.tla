-------------------------- MODULE SchedulerProofs --------------------------
(***************************************************************************)
(* Proofs about Scheduler, for every set of threads, quantum, priorities   *)
(* and number of ticks.                                                    *)
(***************************************************************************)
EXTENDS Scheduler, FiniteSetTheorems, SequenceTheorems, TLAPS

NoDuplicates(q) == \A i, j \in 1 .. Len(q) : i # j => q[i] # q[j]

Times == [Threads -> Nat]

TypeInv ==
  /\ alg \in Algorithms /\ quant \in Quanta /\ priority \in [Threads -> Priorities]
  /\ ready_queue \in Seq(Threads) /\ io_queue \in Seq(Threads) /\ done_queue \in Seq(Threads)
  /\ cur_t \in Threads \cup {NULL} /\ io_t \in Threads \cup {NULL}
  /\ ticks \in 0 .. MaxTicks /\ last_on_total \in Nat
  /\ running_time \in Times /\ waiting_time \in Times /\ last_on \in Times
  /\ beg_time \in Times /\ waited \in Times
  /\ dispatched \in Threads \cup {NULL} /\ device \in Seq(Threads) /\ started \in BOOLEAN
  /\ fresh \subseteq Threads /\ on_cpu \in BOOLEAN

\* A thread is in one place, and there once; nothing queues for an idle device.
PlaceInv ==
  LET R == ToSet(ready_queue)
      Q == ToSet(io_queue)
      D == ToSet(done_queue)
  IN  /\ NoDuplicates(ready_queue) /\ NoDuplicates(io_queue) /\ NoDuplicates(done_queue)
      /\ R \cap Q = {} /\ R \cap D = {} /\ Q \cap D = {}
      /\ cur_t \notin R \cup Q \cup D /\ io_t \notin R \cup Q \cup D
      /\ cur_t = io_t => cur_t = NULL
      /\ io_t = NULL => io_queue = <<>> /\ started = FALSE

\* The threads that have requested I/O and do not have it yet.
OnDevice == ToSet(io_queue) \cup ({io_t} \ {NULL})
Queueing(t) == t \in OnDevice /\ ~ (started /\ t = io_t)

\* Every time stamp lies in the past; one of a request of an earlier tick does
\* so strictly, or io_starting would add a negative wait.
TimeInv ==
  /\ \A t \in Threads : /\ waiting_time[t] <= last_on[t] /\ last_on[t] <= ticks
                        /\ beg_time[t] <= ticks /\ running_time[t] <= ticks
                        /\ waited[t] <= ticks
  /\ last_on_total <= ticks
  /\ \A t \in OnDevice \ fresh : last_on[t] < ticks
  /\ \A t \in fresh : Queueing(t) => last_on[t] = ticks

\* The wait so far is in waiting_time, but for the one that is not over yet.
WaitInv ==
  \A t \in Threads :
    /\ t \in ToSet(ready_queue) => waited[t] = waiting_time[t] + (ticks - last_on[t])
    /\ Queueing(t) /\ t \notin fresh =>
         waited[t] = waiting_time[t] + ((ticks - 1) - last_on[t])
    /\ t \notin ToSet(ready_queue) /\ (Queueing(t) => t \in fresh) =>
         waited[t] = waiting_time[t]

\* What the running thread may still use of its quantum.
Rest == IF cur_t = NULL \/ last_on_total >= quant THEN 0 ELSE quant - last_on_total

\* Round robin: how long a thread has been on the ready queue and the longest
\* it may still stay there, behind the threads in front of it.
RoundRobinInv ==
  alg = ROUND_ROBIN =>
    \A i \in 1 .. Len(ready_queue) :
      ticks - last_on[ready_queue[i]] + quant * (i - 1) + Rest
        <= quant * (Cardinality(Threads) - 1)

IInv ==
  /\ TypeInv /\ PlaceInv /\ SimulatorAgrees
  /\ TimeInv /\ WaitInv /\ RoundRobinInv

----------------------------------------------------------------------------
(* The queues.                                                             *)

\* Membership in ToSet by index.
LEMMA ToSetIndex ==
  ASSUME NEW S, NEW q \in Seq(S), NEW e
  PROVE  e \in ToSet(q) <=> \E i \in 1 .. Len(q) : q[i] = e
<1>1. DOMAIN q = 1 .. Len(q)
  BY LenProperties
<1> QED  BY <1>1 DEF ToSet

LEMMA ToSetSubset ==
  ASSUME NEW S, NEW q \in Seq(S)
  PROVE  ToSet(q) \subseteq S
<1> SUFFICES ASSUME NEW e \in ToSet(q) PROVE e \in S
  OBVIOUS
<1>1. PICK i \in 1 .. Len(q) : q[i] = e
  BY ToSetIndex
<1> QED  BY <1>1

\* queue_enqueue.
LEMMA AppendFacts ==
  ASSUME NEW S, NEW q \in Seq(S), NEW t \in S
  PROVE  /\ Append(q, t) \in Seq(S) /\ Append(q, t) # <<>>
         /\ Len(Append(q, t)) = Len(q) + 1
         /\ \A i \in 1 .. Len(q) : Append(q, t)[i] = q[i]
         /\ Append(q, t)[Len(q) + 1] = t
         /\ ToSet(Append(q, t)) = ToSet(q) \cup {t}
         /\ NoDuplicates(q) /\ t \notin ToSet(q) => NoDuplicates(Append(q, t))
<1> DEFINE a == Append(q, t)
<1>1. /\ a \in Seq(S) /\ a # <<>> /\ Len(a) = Len(q) + 1 /\ Len(q) \in Nat
      /\ \A i \in 1 .. Len(q) : a[i] = q[i]
      /\ a[Len(q) + 1] = t
  BY AppendProperties, LenProperties
<1> HIDE DEF a
<1>2. ToSet(a) = ToSet(q) \cup {t}
  <2>1. ASSUME NEW e \in ToSet(a) PROVE e \in ToSet(q) \cup {t}
    <3>1. PICK i \in 1 .. Len(q) + 1 : a[i] = e
      BY <1>1, <2>1, ToSetIndex
    <3>2. i # Len(q) + 1 => i \in 1 .. Len(q)
      BY <1>1
    <3> QED  BY <1>1, <3>1, <3>2, ToSetIndex
  <2>2. ASSUME NEW e \in ToSet(q) PROVE e \in ToSet(a)
    <3>1. PICK i \in 1 .. Len(q) : q[i] = e
      BY <2>2, ToSetIndex
    <3>2. i \in 1 .. Len(a) /\ a[i] = e
      BY <1>1, <3>1
    <3> QED  BY <1>1, <3>2, ToSetIndex
  <2>3. t \in ToSet(a)
    <3>1. Len(a) \in 1 .. Len(a) /\ a[Len(a)] = t
      BY <1>1
    <3> QED  BY <1>1, <3>1, ToSetIndex
  <2> QED  BY <2>1, <2>2, <2>3
<1>3. ASSUME NoDuplicates(q), t \notin ToSet(q), NEW i \in 1 .. Len(a), NEW j \in 1 .. Len(a), i < j
      PROVE  a[i] # a[j]
  <2>1. i \in 1 .. Len(q) /\ a[i] = q[i] /\ q[i] # t
    BY <1>1, <1>3, ToSetIndex
  <2>2. CASE j = Len(q) + 1
    BY <1>1, <2>1, <2>2
  <2>3. CASE j \in 1 .. Len(q)
    BY <1>1, <1>3, <2>1, <2>3 DEF NoDuplicates
  <2> QED  BY <1>1, <2>2, <2>3
<1>4. NoDuplicates(q) /\ t \notin ToSet(q) => NoDuplicates(a)
  <2> SUFFICES ASSUME NoDuplicates(q), t \notin ToSet(q),
                      NEW i \in 1 .. Len(a), NEW j \in 1 .. Len(a), i # j
               PROVE  a[i] # a[j]
    BY DEF NoDuplicates
  <2>1. i < j \/ j < i
    BY <1>1
  <2> QED  BY <1>3, <2>1
<1> QED  BY <1>1, <1>2, <1>4 DEF a

\* queue_dequeue.
LEMMA TailFacts ==
  ASSUME NEW S, NEW q \in Seq(S), q # <<>>
  PROVE  /\ Head(q) \in S /\ Head(q) = q[1]
         /\ Tail(q) \in Seq(S) /\ Len(Tail(q)) = Len(q) - 1 /\ Len(q) >= 1
         /\ \A i \in 1 .. Len(Tail(q)) : i + 1 \in 1 .. Len(q) /\ Tail(q)[i] = q[i + 1]
         /\ ToSet(q) = ToSet(Tail(q)) \cup {Head(q)}
         /\ NoDuplicates(q) => NoDuplicates(Tail(q)) /\ Head(q) \notin ToSet(Tail(q))
<1> DEFINE h == Head(q)
           tl == Tail(q)
<1>1. /\ h \in S /\ h = q[1] /\ tl \in Seq(S) /\ Len(tl) = Len(q) - 1 /\ Len(q) >= 1
      /\ Len(q) \in Nat /\ \A i \in 1 .. Len(tl) : tl[i] = q[i + 1]
  BY HeadTailProperties, LenProperties
<1> HIDE DEF h, tl
<1>2. \A i \in 1 .. Len(tl) : i + 1 \in 1 .. Len(q) /\ i + 1 # 1
  BY <1>1
<1>3. ToSet(q) = ToSet(tl) \cup {h}
  <2>1. ASSUME NEW e \in ToSet(q) PROVE e \in ToSet(tl) \cup {h}
    <3>1. PICK i \in 1 .. Len(q) : q[i] = e
      BY <2>1, ToSetIndex
    <3>2. i > 1 => i - 1 \in 1 .. Len(tl) /\ tl[i - 1] = e
      BY <1>1, <3>1
    <3> QED  BY <1>1, <3>1, <3>2, ToSetIndex
  <2>2. ASSUME NEW e \in ToSet(tl) PROVE e \in ToSet(q)
    <3>1. PICK i \in 1 .. Len(tl) : tl[i] = e
      BY <1>1, <2>2, ToSetIndex
    <3> QED  BY <1>1, <1>2, <3>1, ToSetIndex
  <2>3. h \in ToSet(q)
    <3>1. 1 \in 1 .. Len(q) /\ q[1] = h
      BY <1>1
    <3> QED  BY <3>1, ToSetIndex
  <2> QED  BY <2>1, <2>2, <2>3
<1>4. ASSUME NoDuplicates(q) PROVE NoDuplicates(tl) /\ h \notin ToSet(tl)
  <2>1. NoDuplicates(tl)
    BY <1>1, <1>4 DEF NoDuplicates
  <2>2. ASSUME h \in ToSet(tl) PROVE FALSE
    <3>1. PICK i \in 1 .. Len(tl) : tl[i] = h
      BY <1>1, <2>2, ToSetIndex
    <3> QED  BY <1>1, <1>2, <1>4, <3>1 DEF NoDuplicates
  <2> QED  BY <2>1, <2>2
<1> QED  BY <1>1, <1>2, <1>3, <1>4 DEF h, tl

\* The empty queue.
LEMMA EmptyFacts == /\ NoDuplicates(<<>>) /\ ToSet(<<>>) = {} /\ Len(<<>>) = 0
                    /\ \A S : <<>> \in Seq(S)
BY DEF NoDuplicates, ToSet

LEMMA NotEmpty ==
  ASSUME NEW S, NEW q \in Seq(S)
  PROVE  q = <<>> <=> ToSet(q) = {}
<1>1. CASE q = <<>>
  BY <1>1, EmptyFacts
<1>2. CASE q # <<>>
  <2>1. Head(q) \in ToSet(q)
    BY <1>2, TailFacts
  <2> QED  BY <1>2, <2>1
<1> QED  BY <1>1, <1>2

\* A queue without duplicates is as long as the set of its elements.
LEMMA Counted ==
  ASSUME NEW q \in Seq(Threads), NoDuplicates(q)
  PROVE  /\ IsFiniteSet(ToSet(q)) /\ Cardinality(ToSet(q)) = Len(q)
         /\ Cardinality(Threads) \in Nat /\ Len(q) <= Cardinality(Threads)
<1> DEFINE n == Len(q)
           T == ToSet(q)
<1>1. n \in Nat /\ DOMAIN q = 1 .. n /\ q \in [1 .. n -> Threads]
  BY LenProperties
<1>2. q \in Surjection(1 .. n, T) /\ T \subseteq Threads
  BY <1>1 DEF Surjection, ToSet
<1>3. q \in Injection(1 .. n, T)
  BY <1>1, <1>2 DEF Surjection, Injection, IsInjective, NoDuplicates
<1>4. ExistsBijection(1 .. n, T)
  BY <1>2, <1>3 DEF ExistsBijection, Bijection
<1>5. IsFiniteSet(Threads)
  BY SchedulerAssumption
<1>6. Cardinality(T) = n
  BY <1>1, <1>4, FS_CountingElements
<1>7. IsFiniteSet(T) /\ Cardinality(T) <= Cardinality(Threads)
  BY <1>2, <1>5, FS_Subset
<1>8. Cardinality(Threads) \in Nat
  BY <1>5, FS_CardinalityType
<1> QED  BY <1>6, <1>7, <1>8

\* Threads that are not on the queue leave that much room on it.
LEMMA Room ==
  ASSUME NEW q \in Seq(Threads), NoDuplicates(q), NEW t \in Threads, t \notin ToSet(q)
  PROVE  /\ Len(q) + 1 <= Cardinality(Threads)
         /\ \A u \in Threads : u # t /\ u \notin ToSet(q) => Len(q) + 2 <= Cardinality(Threads)
<1>1. /\ Append(q, t) \in Seq(Threads) /\ NoDuplicates(Append(q, t))
      /\ Len(Append(q, t)) = Len(q) + 1 /\ ToSet(Append(q, t)) = ToSet(q) \cup {t}
  BY AppendFacts
<1>2. ASSUME NEW u \in Threads, u # t, u \notin ToSet(q)
      PROVE  Len(q) + 2 <= Cardinality(Threads)
  <2> DEFINE a == Append(q, t)
  <2>1. a \in Seq(Threads) /\ NoDuplicates(a) /\ u \notin ToSet(a) /\ Len(a) = Len(q) + 1
    BY <1>1, <1>2
  <2> HIDE DEF a
  <2>2. Append(a, u) \in Seq(Threads) /\ NoDuplicates(Append(a, u)) /\ Len(Append(a, u)) = Len(a) + 1
    BY <2>1, AppendFacts
  <2>3. Len(a) + 1 <= Cardinality(Threads) /\ Len(q) \in Nat
    BY <2>2, Counted, LenProperties
  <2> QED  BY <2>1, <2>3
<1> QED  BY <1>1, <1>2, Counted

\* queue_sort keeps the threads and puts none in front of one of a smaller
\* number.
LEMMA OrderFacts ==
  ASSUME NEW q \in Seq(Threads), NoDuplicates(q), NEW p \in priority_order(q)
  PROVE  /\ p \in Seq(Threads) /\ NoDuplicates(p) /\ ToSet(p) = ToSet(q) /\ Len(p) = Len(q)
         /\ \A i, j \in 1 .. Len(p) : i < j => priority[p[i]] <= priority[p[j]]
<1> DEFINE n == Len(q)
           T == ToSet(q)
<1>1. n \in Nat /\ Cardinality(T) = n /\ IsFiniteSet(T)
  BY Counted, LenProperties
<1>2. T \subseteq Threads
  BY ToSetSubset
<1>3. /\ p \in [1 .. n -> T] /\ \A i, j \in 1 .. n : i # j => p[i] # p[j]
      /\ \A i, j \in 1 .. n : i < j => priority[p[i]] <= priority[p[j]]
  BY <1>1 DEF priority_order, SetToSeqs
<1>4. p \in Seq(Threads) /\ Len(p) = n
  BY <1>1, <1>2, <1>3
<1>5. NoDuplicates(p)
  BY <1>3, <1>4 DEF NoDuplicates
<1>6. p \in Injection(1 .. n, T)
  BY <1>3 DEF Injection, IsInjective
<1>7. Cardinality(1 .. n) = n
  <2>1. 1 \in Int /\ n \in Int /\ n \in Nat
    BY <1>1
  <2> HIDE DEF n
  <2>2. Cardinality(1 .. n) = IF 1 > n THEN 0 ELSE n - 1 + 1
    BY <2>1, FS_Interval
  <2> QED  BY <2>1, <2>2
<1>8. p \in Surjection(1 .. n, T)
  BY <1>1, <1>6, <1>7, FS_Injection
<1>9. ToSet(p) = T
  BY <1>3, <1>8, ZenonT(60) DEF Surjection, ToSet
<1> QED  BY <1>3, <1>4, <1>5, <1>9

\* One request in front of the others.
LEMMA ConsFacts ==
  ASSUME NEW S, NEW e \in S, NEW q \in Seq(S)
  PROVE  /\ <<e>> \o q \in Seq(S) /\ <<e>> \o q # <<>>
         /\ Head(<<e>> \o q) = e /\ Tail(<<e>> \o q) = q
         /\ ToSet(<<e>> \o q) = {e} \cup ToSet(q)
         /\ <<>> \o q = q /\ q \o <<>> = q
<1> DEFINE c == <<e>> \o q
<1>1. <<e>> \in Seq(S) /\ Len(<<e>>) = 1 /\ <<e>>[1] = e /\ Len(q) \in Nat
  BY LenProperties
<1>2. /\ c \in Seq(S) /\ Len(c) = 1 + Len(q)
      /\ \A i \in 1 .. 1 + Len(q) : c[i] = IF i <= 1 THEN <<e>>[i] ELSE q[i - 1]
  BY <1>1, ConcatProperties
<1>3. c # <<>> /\ c[1] = e
  BY <1>1, <1>2
<1> HIDE DEF c
<1>4. Head(c) = e /\ Tail(c) \in Seq(S) /\ Len(Tail(c)) = Len(q) /\ ToSet(c) = ToSet(Tail(c)) \cup {e}
      /\ \A i \in 1 .. Len(q) : Tail(c)[i] = c[i + 1]
  BY <1>1, <1>2, <1>3, TailFacts
<1>5. Tail(c) = q
  <2>1. \A i \in 1 .. Len(q) : Tail(c)[i] = q[i]
    <3> SUFFICES ASSUME NEW i \in 1 .. Len(q) PROVE Tail(c)[i] = q[i]
      OBVIOUS
    <3>1. i + 1 \in 1 .. 1 + Len(q) /\ ~ (i + 1 <= 1) /\ (i + 1) - 1 = i
      BY <1>1
    <3> QED  BY <1>2, <1>4, <3>1
  <2> QED  BY <1>4, <2>1, SeqEqual
<1>6. <<>> \o q = q /\ q \o <<>> = q
  BY ConcatEmptySeq
<1> QED  BY <1>2, <1>3, <1>4, <1>5, <1>6 DEF c

LEMMA ConsAppend ==
  ASSUME NEW S, NEW e \in S, NEW q \in Seq(S), NEW t \in S
  PROVE  Append(<<e>> \o q, t) = <<e>> \o Append(q, t)
<1>1. <<e>> \in Seq(S) /\ <<t>> \in Seq(S) /\ <<e>> \o q \in Seq(S)
  BY ConsFacts
<1> QED  BY <1>1, AppendIsConcat, ConcatAssociative

\* queue_dequeue takes the queue apart.
LEMMA HeadAndTail ==
  ASSUME NEW S, NEW q \in Seq(S), q # <<>>
  PROVE  <<Head(q)>> \o Tail(q) = q
<1> DEFINE h == Head(q)
           tl == Tail(q)
           c == <<h>> \o tl
<1>1. /\ h \in S /\ h = q[1] /\ tl \in Seq(S) /\ Len(tl) = Len(q) - 1 /\ Len(q) \in Nat
      /\ \A i \in 1 .. Len(tl) : tl[i] = q[i + 1]
  BY TailFacts, LenProperties
<1>2. <<h>> \in Seq(S) /\ Len(<<h>>) = 1 /\ <<h>>[1] = h
  BY <1>1
<1> HIDE DEF h, tl
<1>3. /\ c \in Seq(S) /\ Len(c) = 1 + Len(tl)
      /\ \A i \in 1 .. 1 + Len(tl) : c[i] = IF i <= 1 THEN <<h>>[i] ELSE tl[i - 1]
  BY <1>1, <1>2, ConcatProperties
<1> HIDE DEF c
<1>4. ASSUME NEW i \in 1 .. Len(c) PROVE c[i] = q[i]
  <2>1. CASE i = 1
    BY <1>1, <1>2, <1>3, <2>1
  <2>2. CASE i > 1
    <3>1. i - 1 \in 1 .. Len(tl) /\ (i - 1) + 1 = i /\ i \in 1 .. 1 + Len(tl) /\ ~ (i <= 1)
      BY <1>1, <1>3, <2>2
    <3> QED  BY <1>1, <1>3, <3>1
  <2> QED  BY <1>1, <1>3, <2>1, <2>2
<1>5. c = q
  BY <1>1, <1>3, <1>4, SeqEqual
<1> QED  BY <1>5 DEF c, h, tl

----------------------------------------------------------------------------
(* What the invariant says of sets.                                        *)

LEMMA Sets ==
  ASSUME TypeInv
  PROVE  /\ ToSet(ready_queue) \subseteq Threads /\ ToSet(io_queue) \subseteq Threads
         /\ ToSet(done_queue) \subseteq Threads /\ OnDevice \subseteq Threads
         /\ NULL \notin Threads /\ quant \in Nat /\ quant >= 1 /\ Cardinality(Threads) \in Nat
<1>1. /\ ToSet(ready_queue) \subseteq Threads /\ ToSet(io_queue) \subseteq Threads
      /\ ToSet(done_queue) \subseteq Threads
  BY ToSetSubset DEF TypeInv
<1>2. Cardinality(Threads) \in Nat
  BY SchedulerAssumption, FS_CardinalityType
<1> QED  BY <1>1, <1>2, SchedulerAssumption DEF TypeInv, OnDevice

\* The simulator's requests are io_t and the queue behind it.
LEMMA DeviceFacts ==
  ASSUME TypeInv, PlaceInv, SimulatorAgrees
  PROVE  /\ ToSet(device) = OnDevice
         /\ device = <<>> <=> io_t = NULL
         /\ device # <<>> => io_t \in Threads /\ Head(device) = io_t /\ Tail(device) = io_queue
<1>1. CASE io_t = NULL
  <2>1. device = <<>> /\ io_queue = <<>>
    BY <1>1, ConcatEmptySeq DEF PlaceInv, SimulatorAgrees
  <2> QED  BY <1>1, <2>1, EmptyFacts DEF OnDevice
<1>2. CASE io_t # NULL
  <2>1. io_t \in Threads /\ io_queue \in Seq(Threads) /\ device = <<io_t>> \o io_queue
    BY <1>2 DEF TypeInv, SimulatorAgrees
  <2> QED  BY <1>2, <2>1, ConsFacts DEF OnDevice
<1> QED  BY <1>1, <1>2

\* Nothing is known of any thread at first.
LEMMA InitIInv == Init => IInv
<1> SUFFICES ASSUME Init PROVE IInv
  OBVIOUS
<1> USE DEF Init
<1>1. \A t \in Threads : Zero[t] = 0
  BY DEF Zero
<1>2. Zero \in Times
  BY DEF Zero, Times
<1>3. TypeInv
  <2>1. ticks \in 0 .. MaxTicks /\ last_on_total \in Nat
    BY SchedulerAssumption
  <2>2. started \in BOOLEAN /\ on_cpu \in BOOLEAN
    OBVIOUS
  <2>3. alg \in Algorithms /\ quant \in Quanta /\ priority \in [Threads -> Priorities]
    OBVIOUS
  <2> QED  BY <1>2, <2>1, <2>2, <2>3, EmptyFacts DEF TypeInv
<1>4. PlaceInv /\ SimulatorAgrees
  <2>1. NULL \notin ToSet(<<>>)
    BY EmptyFacts
  <2>2. SimulatorAgrees
    BY ConcatEmptySeq DEF SimulatorAgrees
  <2> QED  BY <2>1, <2>2, EmptyFacts DEF PlaceInv
<1>5. OnDevice = {} /\ ToSet(ready_queue) = {} /\ Len(ready_queue) = 0
  BY EmptyFacts DEF OnDevice
<1>6. TimeInv
  BY <1>1, <1>5 DEF TimeInv
<1>7. WaitInv
  BY <1>1, <1>5 DEF WaitInv, Queueing
<1>8. RoundRobinInv
  BY <1>5 DEF RoundRobinInv
<1> QED  BY <1>3, <1>4, <1>6, <1>7, <1>8 DEF IInv

----------------------------------------------------------------------------
(* The bound of round robin.                                               *)

LEMMA Monotone ==
  ASSUME NEW k \in Nat, NEW a \in Int, NEW b \in Int, a <= b
  PROVE  k * a <= k * b /\ k * a \in Int /\ k * b \in Int /\ k * (a + 1) = k * a + k
<1>1. k * (b - a) >= 0 /\ k * (b - a) = k * b - k * a
  OBVIOUS
<1> QED  BY <1>1

Bound == quant * (Cardinality(Threads) - 1)

\* A thread that is put on the ready queue finds room on it.
LEMMA NewBound ==
  ASSUME TypeInv, PlaceInv, NEW t \in Threads, t \notin ToSet(ready_queue), t # cur_t
  PROVE  quant * Len(ready_queue) + Rest <= Bound
<1> DEFINE n == Len(ready_queue)
           N == Cardinality(Threads)
<1>1. n \in Nat /\ N \in Nat /\ quant \in Nat /\ n + 1 <= N /\ last_on_total \in Nat
  BY Sets, Room, LenProperties DEF TypeInv, PlaceInv
<1>2. cur_t # NULL => n + 2 <= N
  BY Room DEF TypeInv, PlaceInv
<1>3. Rest \in Nat /\ Rest <= quant /\ (cur_t = NULL => Rest = 0)
  BY <1>1 DEF Rest
<1> HIDE DEF n, N
<1>4. CASE cur_t = NULL
  <2>1. quant * n <= quant * (N - 1) /\ quant * n \in Int /\ quant * (N - 1) \in Int
    BY <1>1, Monotone
  <2> QED  BY <1>3, <1>4, <2>1 DEF Bound, n, N
<1>5. CASE cur_t # NULL
  <2>1. quant * (n + 1) <= quant * (N - 1) /\ quant * (n + 1) \in Int /\ quant * (N - 1) \in Int
    BY <1>1, <1>2, <1>5, Monotone
  <2>2. quant * (n + 1) = quant * n + quant /\ quant * n \in Int
    BY <1>1, Monotone
  <2> QED  BY <1>1, <1>3, <2>1, <2>2 DEF Bound, n, N
<1> QED  BY <1>4, <1>5

\* The invariant for the ready queue with t behind it, its stamp new.
LEMMA AppendBound ==
  ASSUME IInv, alg = ROUND_ROBIN, NEW t \in Threads, t \notin ToSet(ready_queue), t # cur_t,
         NEW i \in 1 .. Len(ready_queue) + 1
  PROVE  ticks - stamp(t)[Append(ready_queue, t)[i]] + quant * (i - 1) + Rest <= Bound
<1> DEFINE n == Len(ready_queue)
<1>1. /\ n \in Nat /\ \A k \in 1 .. n : Append(ready_queue, t)[k] = ready_queue[k]
      /\ Append(ready_queue, t)[n + 1] = t /\ ready_queue \in Seq(Threads)
  BY AppendFacts, LenProperties DEF IInv, TypeInv
<1>2. last_on \in Times /\ ticks \in Nat
  BY SchedulerAssumption DEF IInv, TypeInv
<1>3. CASE i = n + 1
  <2>1. stamp(t)[t] = ticks /\ i - 1 = n
    BY <1>1, <1>2, <1>3 DEF stamp, Times
  <2>2. quant * n + Rest <= Bound
    BY NewBound DEF IInv
  <2>3. quant * n \in Int /\ Rest \in Int
    BY <1>1, Sets, Monotone DEF Rest, IInv, TypeInv
  <2> HIDE DEF n
  <2> QED  BY <1>1, <1>2, <1>3, <2>1, <2>2, <2>3
<1>4. CASE i \in 1 .. n
  <2>1. ready_queue[i] \in ToSet(ready_queue) /\ ready_queue[i] \in Threads
    BY <1>1, <1>4, ToSetIndex
  <2>2. stamp(t)[ready_queue[i]] = last_on[ready_queue[i]]
    BY <1>2, <2>1 DEF stamp, Times
  <2>3. ticks - last_on[ready_queue[i]] + quant * (i - 1) + Rest <= Bound
    BY <1>4 DEF IInv, RoundRobinInv, Bound
  <2> QED  BY <1>1, <1>4, <2>2, <2>3
<1> QED  BY <1>1, <1>3, <1>4

----------------------------------------------------------------------------
(* Every callback keeps the invariant.                                     *)

LEMMA Numbers ==
  ASSUME TypeInv
  PROVE  /\ ticks \in Nat /\ ticks <= MaxTicks /\ last_on_total \in Nat /\ MaxTicks \in Nat
         /\ \A t \in Threads :
              /\ running_time[t] \in Nat /\ waiting_time[t] \in Nat /\ last_on[t] \in Nat
              /\ beg_time[t] \in Nat /\ waited[t] \in Nat
BY SchedulerAssumption DEF TypeInv, Times

LEMMA StampFacts ==
  ASSUME TypeInv, NEW t \in Threads
  PROVE  /\ ticks \in Nat /\ stamp(t) \in Times /\ stamp(t)[t] = ticks
         /\ \A u \in Threads : u # t => stamp(t)[u] = last_on[u]
BY SchedulerAssumption DEF TypeInv, stamp, Times

\* sys_exec: the thread was nowhere and is now on the CPU or the ready queue.
LEMMA ExecStep == ASSUME IInv, NEW t \in Threads, sys_exec(t) PROVE IInv'
<1> DEFINE R == ToSet(ready_queue)
           n == Len(ready_queue)
<1>1. /\ TypeInv /\ PlaceInv /\ SimulatorAgrees /\ TimeInv /\ WaitInv /\ RoundRobinInv
  BY DEF IInv
<1>2. t \notin R \cup ToSet(io_queue) \cup ToSet(done_queue) /\ t # cur_t /\ t # io_t /\ t # NULL
  BY SchedulerAssumption DEF sys_exec, Known
<1>3. /\ UNCHANGED <<alg, quant, priority, io_queue, done_queue, io_t, ticks, last_on_total,
                     running_time, waiting_time, device, started, fresh, waited>>
      /\ last_on' = stamp(t) /\ beg_time' = [beg_time EXCEPT ![t] = ticks]
  BY DEF sys_exec, fixedVars
<1>4. /\ ticks \in Nat /\ last_on' \in Times /\ last_on'[t] = ticks
      /\ \A u \in Threads : u # t => last_on'[u] = last_on[u]
  BY <1>1, <1>3, StampFacts
<1>5. /\ beg_time' \in Times /\ beg_time'[t] = ticks
      /\ \A u \in Threads : u # t => beg_time'[u] = beg_time[u]
  BY <1>1, <1>3, <1>4 DEF TypeInv, Times
<1>6. OnDevice' = OnDevice /\ t \notin OnDevice /\ OnDevice \subseteq Threads /\ ~ Queueing(t)
      /\ \A u : Queueing(u)' <=> Queueing(u)
  BY <1>1, <1>2, <1>3, Sets DEF OnDevice, Queueing
<1>7. TimeInv'
  <2>1. ASSUME NEW u \in Threads
        PROVE  /\ waiting_time[u] <= last_on'[u] /\ last_on'[u] <= ticks
               /\ beg_time'[u] <= ticks /\ running_time[u] <= ticks /\ waited[u] <= ticks
    BY <1>1, <1>4, <1>5, Numbers DEF TimeInv
  <2>2. \A u \in OnDevice \ fresh : last_on'[u] < ticks
    BY <1>1, <1>4, <1>6 DEF TimeInv
  <2>3. \A u \in fresh : Queueing(u) => last_on'[u] = ticks
    BY <1>1, <1>4, <1>6 DEF TimeInv, TypeInv
  <2> QED  BY <1>1, <1>3, <1>6, <2>1, <2>2, <2>3 DEF TimeInv
<1>8. CASE cur_t' = t /\ dispatched' = t /\ on_cpu' = FALSE /\ UNCHANGED ready_queue /\ ready_queue = <<>>
  <2>1. TypeInv'
    BY <1>1, <1>3, <1>4, <1>5, <1>8 DEF TypeInv
  <2>2. PlaceInv' /\ SimulatorAgrees'
    BY <1>1, <1>2, <1>3, <1>8 DEF PlaceInv, SimulatorAgrees
  <2>3. WaitInv'
    BY <1>1, <1>2, <1>3, <1>4, <1>6, <1>8 DEF WaitInv
  <2>4. RoundRobinInv'
    BY <1>8, EmptyFacts DEF RoundRobinInv
  <2> QED  BY <1>7, <2>1, <2>2, <2>3, <2>4 DEF IInv
<1>9. CASE ready_queue' = Append(ready_queue, t) /\ UNCHANGED <<cur_t, dispatched, on_cpu>>
  <2>1. /\ ready_queue' \in Seq(Threads) /\ NoDuplicates(ready_queue')
        /\ ToSet(ready_queue') = R \cup {t} /\ Len(ready_queue') = n + 1
    BY <1>1, <1>2, <1>9, AppendFacts DEF TypeInv, PlaceInv
  <2>2. TypeInv'
    BY <1>1, <1>3, <1>4, <1>5, <1>9, <2>1 DEF TypeInv
  <2>3. PlaceInv' /\ SimulatorAgrees'
    BY <1>1, <1>2, <1>3, <1>9, <2>1 DEF PlaceInv, SimulatorAgrees
  <2>4. WaitInv'
    <3>1. waited[t] = waiting_time[t] /\ ticks - ticks = 0
      BY <1>1, <1>2, <1>4, <1>6 DEF WaitInv, Queueing
    <3>2. waiting_time[t] \in Nat
      BY <1>1 DEF TypeInv, Times
    <3>3. \A u \in Threads : u # t => (u \in ToSet(ready_queue') <=> u \in R)
      BY <2>1
    <3> QED  BY <1>1, <1>3, <1>4, <1>6, <2>1, <3>1, <3>2, <3>3 DEF WaitInv
  <2>5. RoundRobinInv'
    <3> SUFFICES ASSUME alg = ROUND_ROBIN, NEW i \in 1 .. n + 1
                 PROVE  ticks - last_on'[ready_queue'[i]] + quant * (i - 1) + Rest <= Bound
      BY <1>3, <1>9, <2>1 DEF RoundRobinInv, Bound, Rest
    <3> QED  BY <1>2, <1>3, <1>9, AppendBound
  <2> QED  BY <1>7, <2>2, <2>3, <2>4, <2>5 DEF IInv
<1> QED  BY <1>8, <1>9 DEF sys_exec

\* sys_exit: the running thread is done.
LEMMA ExitStep == ASSUME IInv, sys_exit PROVE IInv'
<1>1. /\ TypeInv /\ PlaceInv /\ SimulatorAgrees /\ TimeInv /\ WaitInv /\ RoundRobinInv
  BY DEF IInv
<1>2. cur_t \in Threads /\ cur_t # NULL /\ cur_t # io_t
  BY <1>1 DEF sys_exit, TypeInv, SimulatorAgrees, PlaceInv
<1>3. /\ UNCHANGED <<alg, quant, priority, ready_queue, io_queue, io_t, ticks, last_on_total,
                     waiting_time, last_on, beg_time, device, started, fresh, waited>>
      /\ running_time' = [running_time EXCEPT ![cur_t] = ticks - beg_time[cur_t]]
      /\ done_queue' = Append(done_queue, cur_t)
      /\ cur_t' = NULL /\ dispatched' = NULL /\ on_cpu' = FALSE
  BY DEF sys_exit, fixedVars
<1>4. /\ running_time' \in Times
      /\ \A u \in Threads : running_time'[u] <= ticks
  <2>1. ticks - beg_time[cur_t] \in Nat /\ ticks - beg_time[cur_t] <= ticks
    BY <1>1, <1>2, Numbers DEF TimeInv
  <2> QED  BY <1>1, <1>3, <2>1 DEF TypeInv, TimeInv, Times
<1>5. /\ done_queue' \in Seq(Threads) /\ NoDuplicates(done_queue')
      /\ ToSet(done_queue') = ToSet(done_queue) \cup {cur_t}
  BY <1>1, <1>2, <1>3, AppendFacts DEF TypeInv, PlaceInv
<1>6. OnDevice' = OnDevice /\ \A u : Queueing(u)' <=> Queueing(u)
  BY <1>3 DEF OnDevice, Queueing
<1>7. TypeInv'
  BY <1>1, <1>3, <1>4, <1>5 DEF TypeInv
<1>8. PlaceInv' /\ SimulatorAgrees'
  <2>1. NULL \notin ToSet(ready_queue) \cup ToSet(io_queue) \cup ToSet(done_queue)
    BY <1>1, Sets
  <2> QED  BY <1>1, <1>2, <1>3, <1>5, <2>1 DEF PlaceInv, SimulatorAgrees
<1>9. TimeInv' /\ WaitInv'
  BY <1>1, <1>3, <1>4, <1>6 DEF TimeInv, WaitInv
<1>10. RoundRobinInv'
  <2> SUFFICES ASSUME alg = ROUND_ROBIN, NEW i \in 1 .. Len(ready_queue)
               PROVE  ticks - last_on[ready_queue[i]] + quant * (i - 1) + 0 <= Bound
    BY <1>3 DEF RoundRobinInv, Bound, Rest
  <2> DEFINE e == ticks - last_on[ready_queue[i]]
             b == quant * (i - 1)
  <2>1. e + b + Rest <= Bound /\ Rest >= 0 /\ Rest \in Int
    BY <1>1, Sets, SMTT(30) DEF RoundRobinInv, Bound, Rest, TypeInv
  <2>2. e \in Int /\ b \in Int /\ Bound \in Int
    <3>1. ready_queue[i] \in Threads
      BY <1>1 DEF TypeInv
    <3>2. e \in Int /\ quant \in Nat /\ i - 1 \in Int /\ Cardinality(Threads) - 1 \in Int
      BY <1>1, <3>1, Sets, Numbers
    <3> QED  BY <3>2 DEF Bound
  <2> HIDE DEF e, b
  <2> QED  BY <2>1, <2>2 DEF e, b
<1> QED  BY <1>7, <1>8, <1>9, <1>10 DEF IInv

\* sys_read, sys_write: the running thread goes to the device or its queue.
LEMMA IoStep == ASSUME IInv, sys_io PROVE IInv'
<1>1. /\ TypeInv /\ PlaceInv /\ SimulatorAgrees /\ TimeInv /\ WaitInv /\ RoundRobinInv
  BY DEF IInv
<1>2. cur_t \in Threads /\ cur_t # NULL /\ cur_t # io_t /\ NULL \notin Threads
  BY <1>1, Sets DEF sys_io, TypeInv, SimulatorAgrees, PlaceInv
<1>3. /\ UNCHANGED <<alg, quant, priority, ready_queue, done_queue, ticks, last_on_total,
                     running_time, waiting_time, beg_time, started, waited>>
      /\ last_on' = stamp(cur_t) /\ fresh' = fresh \cup {cur_t} /\ device' = Append(device, cur_t)
      /\ cur_t' = NULL /\ dispatched' = NULL /\ on_cpu' = FALSE
  BY DEF sys_io, fixedVars
<1>4. /\ ticks \in Nat /\ last_on' \in Times /\ last_on'[cur_t] = ticks
      /\ \A u \in Threads : u # cur_t => last_on'[u] = last_on[u]
  BY <1>1, <1>2, <1>3, StampFacts
<1>5. /\ io_t' \in Threads /\ io_queue' \in Seq(Threads) /\ NoDuplicates(io_queue')
      /\ OnDevice' = OnDevice \cup {cur_t}
      /\ ToSet(io_queue') \cup {io_t'} = OnDevice \cup {cur_t}
      /\ io_t' \notin ToSet(io_queue')
      /\ device' = <<io_t'>> \o io_queue'
      /\ started => io_t' = io_t
  <2>1. CASE io_t = NULL
    <3>1. io_t' = cur_t /\ io_queue' = <<>> /\ io_queue = <<>> /\ started = FALSE
      BY <1>1, <2>1 DEF sys_io, PlaceInv
    <3>2. device = <<>> /\ Append(<<>>, cur_t) = <<cur_t>> /\ <<cur_t>> \o <<>> = <<cur_t>>
      <4>1. device = <<>>
        BY <1>1, <2>1, DeviceFacts
      <4>2. Append(<<>>, cur_t) = <<cur_t>> /\ <<cur_t>> \o <<>> = <<cur_t>>
        OBVIOUS
      <4> QED  BY <4>1, <4>2
    <3> QED  BY <1>2, <1>3, <2>1, <3>1, <3>2, EmptyFacts DEF OnDevice
  <2>2. CASE io_t # NULL
    <3>1. io_t \in Threads /\ io_queue \in Seq(Threads) /\ cur_t \notin ToSet(io_queue)
          /\ io_t \notin ToSet(io_queue) /\ NoDuplicates(io_queue) /\ device = <<io_t>> \o io_queue
      BY <1>1, <2>2 DEF TypeInv, PlaceInv, SimulatorAgrees
    <3>2. io_t' = io_t /\ io_queue' = Append(io_queue, cur_t)
      BY <2>2 DEF sys_io
    <3>3. /\ io_queue' \in Seq(Threads) /\ NoDuplicates(io_queue')
          /\ ToSet(io_queue') = ToSet(io_queue) \cup {cur_t}
      BY <1>2, <3>1, <3>2, AppendFacts
    <3>4. device' = <<io_t>> \o io_queue'
      <4>1. Append(<<io_t>> \o io_queue, cur_t) = <<io_t>> \o Append(io_queue, cur_t)
        BY <1>2, <3>1, ConsAppend
      <4> QED  BY <1>3, <3>1, <3>2, <4>1
    <3> QED  BY <1>2, <2>2, <3>1, <3>2, <3>3, <3>4 DEF OnDevice
  <2> QED  BY <2>1, <2>2
<1>6. /\ cur_t \notin OnDevice /\ OnDevice \subseteq Threads
      /\ \A u \in Threads : u # cur_t => (Queueing(u)' <=> Queueing(u))
  <2>1. cur_t \notin OnDevice /\ OnDevice \subseteq Threads
    BY <1>1, <1>2, Sets DEF OnDevice, PlaceInv
  <2> QED  BY <1>3, <1>5, <2>1 DEF Queueing
<1>7. TypeInv'
  <2>1. device' \in Seq(Threads)
    BY <1>1, <1>2, <1>3, AppendFacts DEF TypeInv
  <2> QED  BY <1>1, <1>2, <1>3, <1>4, <1>5, <2>1 DEF TypeInv
<1>8. PlaceInv' /\ SimulatorAgrees'
  <2>1. NULL \notin ToSet(ready_queue) \cup ToSet(io_queue') \cup ToSet(done_queue)
    BY <1>1, <1>2, <1>5, Sets, ToSetSubset
  <2>2. OnDevice \cap (ToSet(ready_queue) \cup ToSet(done_queue)) = {}
    BY <1>1 DEF PlaceInv, OnDevice
  <2>3. ToSet(io_queue') \subseteq OnDevice \cup {cur_t} /\ io_t' \in OnDevice \cup {cur_t} /\ io_t' # NULL
    BY <1>2, <1>5
  <2>4. SimulatorAgrees'
    BY <1>3, <1>5, <2>3 DEF SimulatorAgrees
  <2> QED  BY <1>1, <1>3, <1>5, <2>1, <2>2, <2>3, <2>4 DEF PlaceInv
<1>9. TimeInv'
  <2>1. ASSUME NEW u \in Threads
        PROVE  /\ waiting_time[u] <= last_on'[u] /\ last_on'[u] <= ticks
    BY <1>1, <1>2, <1>4, Numbers DEF TimeInv
  <2>2. \A u \in OnDevice' \ fresh' : last_on'[u] < ticks
    BY <1>1, <1>3, <1>4, <1>5, <1>6 DEF TimeInv
  <2>3. \A u \in fresh' : Queueing(u)' => last_on'[u] = ticks
    BY <1>1, <1>2, <1>3, <1>4, <1>6 DEF TimeInv, TypeInv
  <2> QED  BY <1>1, <1>3, <2>1, <2>2, <2>3 DEF TimeInv
<1>10. WaitInv'
  <2>1. waited[cur_t] = waiting_time[cur_t] /\ cur_t \notin ToSet(ready_queue)
    BY <1>1, <1>2, <1>6 DEF WaitInv, PlaceInv, Queueing
  <2> QED  BY <1>1, <1>2, <1>3, <1>4, <1>6, <2>1 DEF WaitInv
<1>11. RoundRobinInv'
  <2> SUFFICES ASSUME alg = ROUND_ROBIN, NEW i \in 1 .. Len(ready_queue)
               PROVE  ticks - last_on'[ready_queue[i]] + quant * (i - 1) + 0 <= Bound
    BY <1>3 DEF RoundRobinInv, Bound, Rest
  <2> DEFINE e == ticks - last_on[ready_queue[i]]
             b == quant * (i - 1)
  <2>1. e + b + Rest <= Bound /\ Rest >= 0 /\ Rest \in Int
    BY <1>1, Sets, SMTT(30) DEF RoundRobinInv, Bound, Rest, TypeInv
  <2>2. e \in Int /\ b \in Int /\ Bound \in Int /\ last_on'[ready_queue[i]] = last_on[ready_queue[i]]
    <3>1. ready_queue[i] \in Threads /\ ready_queue[i] \in ToSet(ready_queue)
      BY <1>1, ToSetIndex DEF TypeInv
    <3>2. e \in Int /\ quant \in Nat /\ i - 1 \in Int /\ Cardinality(Threads) - 1 \in Int
      BY <1>1, <3>1, Sets, Numbers
    <3>3. ready_queue[i] # cur_t
      BY <1>1, <3>1 DEF PlaceInv
    <3> QED  BY <1>4, <3>1, <3>2, <3>3 DEF Bound
  <2> HIDE DEF e, b
  <2> QED  BY <2>1, <2>2 DEF e, b
<1> QED  BY <1>7, <1>8, <1>9, <1>10, <1>11 DEF IInv

\* io_starting: what the thread has queued for the device is its waiting time.
LEMMA StartingStep == ASSUME IInv, io_starting PROVE IInv'
<1>1. /\ TypeInv /\ PlaceInv /\ SimulatorAgrees /\ TimeInv /\ WaitInv /\ RoundRobinInv
  BY DEF IInv
<1>2. /\ io_t \in Threads /\ Head(device) = io_t /\ io_t \notin fresh /\ ~ started /\ io_t \in OnDevice
      /\ io_t # NULL /\ io_t \notin ToSet(ready_queue) /\ io_t # cur_t
  BY <1>1, DeviceFacts, Sets DEF io_starting, OnDevice, PlaceInv
<1>3. /\ UNCHANGED <<alg, quant, priority, ready_queue, io_queue, done_queue, cur_t, io_t, ticks,
                     last_on_total, running_time, beg_time, dispatched, device, on_cpu, waited>>
      /\ started' = TRUE /\ fresh' = fresh \cup {io_t} /\ last_on' = stamp(io_t)
      /\ waiting_time' = [waiting_time EXCEPT ![io_t] = @ + (ticks - 1) - last_on[io_t]]
  BY <1>2 DEF io_starting, fixedVars, queueVars
<1>4. /\ ticks \in Nat /\ last_on' \in Times /\ last_on'[io_t] = ticks
      /\ \A u \in Threads : u # io_t => last_on'[u] = last_on[u]
  BY <1>1, <1>2, <1>3, StampFacts
<1>5. Queueing(io_t) /\ waited[io_t] = waiting_time[io_t] + ((ticks - 1) - last_on[io_t])
      /\ last_on[io_t] < ticks
  BY <1>1, <1>2 DEF WaitInv, TimeInv, Queueing
<1>6. /\ waiting_time' \in Times /\ waiting_time'[io_t] = waited[io_t]
      /\ \A u \in Threads : u # io_t => waiting_time'[u] = waiting_time[u]
  <2>1. waiting_time[io_t] + (ticks - 1) - last_on[io_t] = waited[io_t] /\ waited[io_t] \in Nat
    BY <1>1, <1>2, <1>5, Numbers
  <2>2. waiting_time \in Times
    BY <1>1 DEF TypeInv
  <2>3. waiting_time' = [waiting_time EXCEPT ![io_t] = waited[io_t]]
    BY <1>3, <2>1
  <2> QED  BY <1>2, <2>1, <2>2, <2>3 DEF Times
<1>7. /\ OnDevice' = OnDevice /\ ~ Queueing(io_t)' /\ OnDevice \subseteq Threads
      /\ \A u : u # io_t => (Queueing(u)' <=> Queueing(u))
  BY <1>1, <1>2, <1>3, Sets DEF OnDevice, Queueing
<1>8. TypeInv'
  BY <1>1, <1>2, <1>3, <1>4, <1>6 DEF TypeInv
<1>9. PlaceInv' /\ SimulatorAgrees'
  BY <1>1, <1>2, <1>3 DEF PlaceInv, SimulatorAgrees
<1>10. TimeInv'
  <2>1. ASSUME NEW u \in Threads
        PROVE  /\ waiting_time'[u] <= last_on'[u] /\ last_on'[u] <= ticks
    BY <1>1, <1>2, <1>4, <1>6, Numbers DEF TimeInv
  <2>2. \A u \in OnDevice' \ fresh' : last_on'[u] < ticks
    BY <1>1, <1>3, <1>4, <1>7 DEF TimeInv
  <2>3. \A u \in fresh' : Queueing(u)' => last_on'[u] = ticks
    BY <1>1, <1>2, <1>3, <1>4, <1>7 DEF TimeInv, TypeInv
  <2> QED  BY <1>1, <1>3, <2>1, <2>2, <2>3 DEF TimeInv
<1>11. WaitInv'
  BY <1>1, <1>2, <1>3, <1>4, <1>6, <1>7 DEF WaitInv
<1>12. RoundRobinInv'
  <2> SUFFICES ASSUME alg = ROUND_ROBIN, NEW i \in 1 .. Len(ready_queue)
               PROVE  ticks - last_on'[ready_queue[i]] + quant * (i - 1) + Rest <= Bound
    BY <1>3 DEF RoundRobinInv, Bound, Rest
  <2>1. ready_queue[i] \in Threads /\ ready_queue[i] \in ToSet(ready_queue)
    BY <1>1, ToSetIndex DEF TypeInv
  <2>2. last_on'[ready_queue[i]] = last_on[ready_queue[i]]
    BY <1>2, <1>4, <2>1
  <2> QED  BY <1>1, <2>2 DEF RoundRobinInv, Bound
<1> QED  BY <1>8, <1>9, <1>10, <1>11, <1>12 DEF IInv

\* The bound is kept when the head of a queue gets the CPU: the others move up
\* a place, which is worth the quantum that begins.
LEMMA TailBound ==
  ASSUME NEW k \in Nat, NEW i \in Nat, NEW e \in Int, NEW b \in Int, NEW r \in Int,
         e + k * (i + 1) <= b, r <= k
  PROVE  e + k * i + r <= b
<1>1. k * (i + 1) = k * i + k /\ k * i \in Int
  BY Monotone
<1> QED  BY <1>1

\* io_complete: the thread goes to the ready queue, an idle CPU to its head.
LEMMA CompleteStep == ASSUME IInv, io_complete PROVE IInv'
<1> DEFINE rq == Append(ready_queue, io_t)
           times == stamp(io_t)
           h == Head(rq)
           n == Len(ready_queue)
<1>1. /\ TypeInv /\ PlaceInv /\ SimulatorAgrees /\ TimeInv /\ WaitInv /\ RoundRobinInv
  BY DEF IInv
<1>2. /\ io_t \in Threads /\ Head(device) = io_t /\ io_t \notin fresh /\ started
      /\ Tail(device) = io_queue /\ io_t \in OnDevice /\ NULL \notin Threads
      /\ io_t # NULL /\ io_t # cur_t
      /\ io_t \notin ToSet(ready_queue) \cup ToSet(io_queue) \cup ToSet(done_queue)
  BY <1>1, DeviceFacts, Sets DEF io_complete, OnDevice, PlaceInv
<1>3. /\ UNCHANGED <<alg, quant, priority, done_queue, ticks, last_on_total, running_time,
                     beg_time, fresh, waited>>
      /\ io_t' = (IF io_queue = <<>> THEN NULL ELSE Head(io_queue))
      /\ io_queue' = (IF io_queue = <<>> THEN <<>> ELSE Tail(io_queue))
      /\ started' = FALSE /\ device' = io_queue
  BY <1>2 DEF io_complete, fixedVars
<1>4. /\ ticks \in Nat /\ times \in Times /\ times[io_t] = ticks
      /\ \A u \in Threads : u # io_t => times[u] = last_on[u]
  BY <1>1, <1>2, StampFacts
<1>5. /\ rq \in Seq(Threads) /\ rq # <<>> /\ NoDuplicates(rq) /\ Len(rq) = n + 1
      /\ ToSet(rq) = ToSet(ready_queue) \cup {io_t} /\ n \in Nat
  BY <1>1, <1>2, AppendFacts, LenProperties DEF TypeInv, PlaceInv
<1>6. /\ h \in ToSet(rq) /\ h \in Threads /\ Tail(rq) \in Seq(Threads) /\ NoDuplicates(Tail(rq))
      /\ h \notin ToSet(Tail(rq)) /\ ToSet(rq) = ToSet(Tail(rq)) \cup {h} /\ Len(Tail(rq)) = n
      /\ \A i \in 1 .. n : i + 1 \in 1 .. n + 1 /\ Tail(rq)[i] = rq[i + 1]
  <2> HIDE DEF rq
  <2>1. /\ h \in Threads /\ Tail(rq) \in Seq(Threads) /\ NoDuplicates(Tail(rq))
        /\ h \notin ToSet(Tail(rq)) /\ ToSet(rq) = ToSet(Tail(rq)) \cup {h}
        /\ Len(Tail(rq)) = Len(rq) - 1
        /\ \A i \in 1 .. Len(Tail(rq)) : i + 1 \in 1 .. Len(rq) /\ Tail(rq)[i] = rq[i + 1]
    BY <1>5, TailFacts
  <2>2. Len(rq) - 1 = n
    BY <1>5
  <2> QED  BY <1>5, <2>1, <2>2
<1>7. /\ cur_t = NULL => /\ cur_t' = h /\ dispatched' = h /\ ready_queue' = Tail(rq) /\ on_cpu' = FALSE
                         /\ last_on' = [times EXCEPT ![h] = ticks]
                         /\ waiting_time' = [waiting_time EXCEPT ![h] = @ + ticks - times[h]]
      /\ cur_t # NULL => /\ ready_queue' = rq /\ last_on' = times
                         /\ UNCHANGED <<cur_t, dispatched, waiting_time, on_cpu>>
  BY DEF io_complete, dispatch
<1> HIDE DEF rq, times, h, n
<1>8. /\ io_t' \in Threads \cup {NULL} /\ io_queue' \in Seq(Threads) /\ NoDuplicates(io_queue')
      /\ OnDevice' = OnDevice \ {io_t} /\ OnDevice' = ToSet(io_queue)
      /\ ToSet(io_queue') \subseteq ToSet(io_queue)
      /\ io_t' # NULL => io_t' \in ToSet(io_queue)
      /\ io_t' \notin ToSet(io_queue')
      /\ device' = (IF io_t' = NULL THEN <<>> ELSE <<io_t'>>) \o io_queue'
      /\ io_t' = NULL => io_queue' = <<>>
  <2>1. io_queue \in Seq(Threads) /\ NoDuplicates(io_queue) /\ OnDevice = ToSet(io_queue) \cup {io_t}
    BY <1>1, <1>2 DEF TypeInv, PlaceInv, OnDevice
  <2>2. CASE io_queue = <<>>
    <3>1. io_t' = NULL /\ io_queue' = <<>> /\ ToSet(io_queue) = {} /\ <<>> \o <<>> = <<>>
      BY <1>3, <2>2, EmptyFacts
    <3> QED  BY <1>2, <1>3, <2>1, <2>2, <3>1, EmptyFacts DEF OnDevice
  <2>3. CASE io_queue # <<>>
    <3>1. io_t' = Head(io_queue) /\ io_queue' = Tail(io_queue)
      BY <1>3, <2>3
    <3>2. /\ io_t' \in Threads /\ io_queue' \in Seq(Threads) /\ NoDuplicates(io_queue')
          /\ ToSet(io_queue) = ToSet(io_queue') \cup {io_t'} /\ io_t' \notin ToSet(io_queue')
      BY <2>1, <2>3, <3>1, TailFacts
    <3>3. <<io_t'>> \o io_queue' = io_queue
      BY <2>1, <2>3, <3>1, HeadAndTail
    <3>4. io_t' # NULL /\ device' = (IF io_t' = NULL THEN <<>> ELSE <<io_t'>>) \o io_queue'
      BY <1>2, <1>3, <3>2, <3>3
    <3>5. OnDevice' = ToSet(io_queue)
      BY <3>2, <3>4 DEF OnDevice
    <3> QED  BY <1>2, <2>1, <3>2, <3>4, <3>5
  <2> QED  BY <2>2, <2>3
<1>9. \A u : Queueing(u)' <=> Queueing(u)
  BY <1>2, <1>3, <1>8 DEF Queueing
<1>10. /\ \A u \in ToSet(rq) : waited[u] = waiting_time[u] + (ticks - times[u])
       /\ \A u \in Threads : waiting_time[u] <= times[u] /\ times[u] <= ticks /\ times[u] \in Nat
  <2>1. waited[io_t] = waiting_time[io_t] /\ waiting_time[io_t] \in Nat
    BY <1>1, <1>2, Numbers DEF WaitInv, Queueing
  <2>2. ASSUME NEW u \in ToSet(ready_queue) PROVE waited[u] = waiting_time[u] + (ticks - times[u])
    BY <1>1, <1>2, <1>4, Sets DEF WaitInv
  <2>3. \A u \in Threads : waiting_time[u] <= times[u] /\ times[u] <= ticks /\ times[u] \in Nat
    BY <1>1, <1>2, <1>4, Numbers DEF TimeInv
  <2>4. waited[io_t] = waiting_time[io_t] + (ticks - times[io_t])
    BY <1>4, <2>1
  <2> QED  BY <1>5, <2>2, <2>3, <2>4
<1>11. /\ waiting_time' \in Times /\ last_on' \in Times
       /\ \A u \in Threads : u # cur_t' => waiting_time'[u] = waiting_time[u] /\ last_on'[u] = times[u]
       /\ cur_t' = NULL \/ waited[cur_t'] = waiting_time'[cur_t']
       /\ \A u \in Threads : waiting_time'[u] <= last_on'[u] /\ last_on'[u] <= ticks
  <2>1. CASE cur_t = NULL
    <3>1. /\ waiting_time[h] + ticks - times[h] = waited[h] /\ waited[h] \in Nat /\ waited[h] <= ticks
      BY <1>1, <1>4, <1>6, <1>10, Numbers DEF TimeInv
    <3>2. waiting_time \in Times
      BY <1>1 DEF TypeInv
    <3>3. waiting_time' = [waiting_time EXCEPT ![h] = waited[h]] /\ last_on' = [times EXCEPT ![h] = ticks]
      BY <1>7, <2>1, <3>1
    <3>4. /\ waiting_time' \in Times /\ last_on' \in Times
          /\ waiting_time'[h] = waited[h] /\ last_on'[h] = ticks
          /\ \A u \in Threads : u # h => waiting_time'[u] = waiting_time[u] /\ last_on'[u] = times[u]
      BY <1>4, <1>6, <3>1, <3>2, <3>3 DEF Times
    <3> QED  BY <1>4, <1>7, <1>10, <2>1, <3>1, <3>4
  <2>2. CASE cur_t # NULL
    <3>1. cur_t \in Threads /\ waited[cur_t] = waiting_time[cur_t]
      BY <1>1, <2>2 DEF WaitInv, Queueing, OnDevice, TypeInv, PlaceInv
    <3> QED  BY <1>1, <1>4, <1>7, <1>10, <2>2, <3>1 DEF TypeInv
  <2> QED  BY <2>1, <2>2
<1>12. /\ cur_t' \in Threads \cup {NULL} /\ dispatched' = cur_t' /\ on_cpu' \in BOOLEAN
       /\ ready_queue' \in Seq(Threads) /\ NoDuplicates(ready_queue')
       /\ cur_t' \notin ToSet(ready_queue') /\ cur_t' # NULL
       /\ ToSet(ready_queue') \subseteq ToSet(rq) /\ cur_t' \in ToSet(rq) \cup {cur_t}
       /\ ToSet(rq) \subseteq ToSet(ready_queue') \cup {cur_t'}
  <2>1. CASE cur_t = NULL
    BY <1>2, <1>6, <1>7, <2>1
  <2>2. CASE cur_t # NULL
    BY <1>1, <1>2, <1>5, <1>7, <2>2 DEF TypeInv, PlaceInv, SimulatorAgrees
  <2> QED  BY <2>1, <2>2
<1>13. TypeInv'
  BY <1>1, <1>3, <1>8, <1>11, <1>12 DEF TypeInv
<1>14. PlaceInv' /\ SimulatorAgrees'
  <2>1. NULL \notin ToSet(ready_queue) \cup ToSet(io_queue) \cup ToSet(done_queue)
    BY <1>1, <1>2, Sets
  <2>2. SimulatorAgrees'
    BY <1>8, <1>12 DEF SimulatorAgrees
  <2>3. /\ ToSet(rq) \cap (ToSet(io_queue) \cup ToSet(done_queue)) = {}
        /\ cur_t \notin ToSet(io_queue) \cup ToSet(done_queue)
        /\ ToSet(io_queue) \cap ToSet(done_queue) = {} /\ NoDuplicates(done_queue)
        /\ NULL \notin ToSet(rq)
    BY <1>1, <1>2, <1>5, <2>1 DEF PlaceInv
  <2> QED  BY <1>3, <1>8, <1>12, <2>1, <2>2, <2>3 DEF PlaceInv
<1>15. TimeInv'
  <2>1. OnDevice \subseteq Threads /\ \A u \in OnDevice' : u # cur_t' /\ u # io_t /\ u \in OnDevice
    <3>1. ToSet(io_queue) \cap (ToSet(rq) \cup {cur_t}) = {}
      BY <1>1, <1>2, <1>5 DEF PlaceInv
    <3> QED  BY <1>1, <1>2, <1>8, <1>12, <3>1, Sets
  <2>2. \A u \in OnDevice' \ fresh : last_on'[u] < ticks
    BY <1>1, <1>4, <1>11, <2>1 DEF TimeInv
  <2>3. \A u \in fresh : Queueing(u)' => last_on'[u] = ticks
    <3>1. \A u : Queueing(u)' => u \in OnDevice'
      BY DEF Queueing
    <3> QED  BY <1>1, <1>4, <1>9, <1>11, <2>1, <3>1 DEF TimeInv
  <2> QED  BY <1>1, <1>3, <1>11, <2>2, <2>3 DEF TimeInv
<1>16. WaitInv'
  <2> SUFFICES ASSUME NEW u \in Threads
               PROVE  /\ u \in ToSet(ready_queue') => waited[u] = waiting_time'[u] + (ticks - last_on'[u])
                      /\ Queueing(u) /\ u \notin fresh =>
                           waited[u] = waiting_time'[u] + ((ticks - 1) - last_on'[u])
                      /\ u \notin ToSet(ready_queue') /\ (Queueing(u) => u \in fresh) =>
                           waited[u] = waiting_time'[u]
    BY <1>3, <1>9 DEF WaitInv
  <2>1. CASE u = cur_t'
    <3>1. ~ Queueing(u)
      BY <1>1, <1>2, <1>5, <1>12, <2>1 DEF Queueing, OnDevice, PlaceInv
    <3> QED  BY <1>11, <1>12, <2>1, <3>1
  <2>2. CASE u # cur_t' /\ u \in ToSet(rq)
    <3>1. ~ Queueing(u) /\ u \in ToSet(ready_queue')
      BY <1>1, <1>2, <1>5, <1>12, <2>2 DEF Queueing, OnDevice, PlaceInv
    <3> QED  BY <1>10, <1>11, <2>2, <3>1
  <2>3. CASE u # cur_t' /\ u \notin ToSet(rq)
    <3>1. u \notin ToSet(ready_queue) /\ u \notin ToSet(ready_queue') /\ u # io_t
      BY <1>5, <1>12, <2>3
    <3> QED  BY <1>1, <1>4, <1>11, <2>3, <3>1 DEF WaitInv
  <2> QED  BY <2>1, <2>2, <2>3
<1>17. RoundRobinInv'
  <2>1. ASSUME alg = ROUND_ROBIN, NEW i \in 1 .. n + 1
        PROVE  ticks - times[rq[i]] + quant * (i - 1) + Rest <= Bound
    BY <1>2, <2>1, AppendBound DEF rq, times, n
  <2>2. quant \in Nat /\ Bound \in Int /\ Bound' = Bound /\ last_on_total \in Nat
    BY <1>1, <1>3, Sets, Numbers DEF Bound
  <2>3. CASE cur_t # NULL
    <3>1. Rest' = Rest
      BY <1>3, <1>7, <2>3 DEF Rest
    <3> QED  BY <1>3, <1>5, <1>7, <2>1, <2>3, <3>1 DEF RoundRobinInv, Bound
  <2>4. CASE cur_t = NULL
    <3>1. Rest = 0 /\ Rest' \in Int /\ Rest' <= quant
      BY <1>3, <2>2, <2>4 DEF Rest
    <3> SUFFICES ASSUME alg = ROUND_ROBIN, NEW i \in 1 .. n
                 PROVE  ticks - last_on'[Tail(rq)[i]] + quant * (i - 1) + Rest' <= Bound
      BY <1>3, <1>6, <1>7, <2>4 DEF RoundRobinInv, Bound
    <3> DEFINE v == Tail(rq)[i]
    <3>2. v = rq[i + 1] /\ i + 1 \in 1 .. n + 1 /\ v \in Threads /\ v \in ToSet(Tail(rq))
      <4>1. Tail(rq) \in Seq(Threads) /\ i \in 1 .. Len(Tail(rq))
        BY <1>6
      <4> QED  BY <1>6, <4>1, ToSetIndex, ElementOfSeq
    <3>3. last_on'[v] = times[v] /\ times[v] \in Nat
      BY <1>6, <1>7, <1>10, <1>11, <2>4, <3>2
    <3> DEFINE e == ticks - times[v]
               j == i - 1
    <3>4. e + quant * (j + 1) + Rest <= Bound
      <4>1. (i + 1) - 1 = j + 1
        BY <1>5
      <4> QED  BY <2>1, <3>2, <4>1
    <3>5. e \in Int /\ j \in Nat /\ j + 1 \in Int
      BY <1>4, <1>5, <3>3
    <3> HIDE DEF e, j, v
    <3>6. e + quant * (j + 1) <= Bound
      <4>1. quant * (j + 1) \in Int
        BY <2>2, <3>5
      <4> QED  BY <3>1, <3>4, <3>5, <4>1
    <3>7. e + quant * j + Rest' <= Bound
      BY <2>2, <3>1, <3>5, <3>6, TailBound
    <3> QED  BY <3>3, <3>7 DEF e, j, v
  <2> QED  BY <2>3, <2>4
<1> QED  BY <1>13, <1>14, <1>15, <1>16, <1>17 DEF IInv

\* The queue that tick looks at: the ready queue, perhaps sorted.
Candidate(rq) ==
  rq \in IF alg = P_PRIORITY \/ (alg = NP_PRIORITY /\ cur_t = NULL)
         THEN priority_order(ready_queue) ELSE {ready_queue}

\* What tick does with it; h is its head.
Takes(rq) == rq # <<>> /\ (cur_t = NULL \/ outranks(Head(rq)) \/ expired)

TickTakes(rq) ==
  LET h == Head(rq)
  IN  /\ Takes(rq) /\ cur_t' = h /\ dispatched' = h
      /\ waiting_time' = [waiting_time EXCEPT ![h] = @ + ticks - last_on[h]]
      /\ last_on' = [t \in Threads |-> IF t \in {h, cur_t} THEN ticks ELSE last_on[t]]
      /\ ready_queue' = IF cur_t = NULL THEN Tail(rq) ELSE Append(Tail(rq), cur_t)
      /\ last_on_total' = IF h # NULL THEN restart_total(TRUE, outranks(h)) + 1
                          ELSE IF restart_total(TRUE, outranks(h)) = quant THEN 0
                               ELSE restart_total(TRUE, outranks(h))

TickStays(rq) ==
  /\ ~ Takes(rq) /\ ready_queue' = rq
  /\ UNCHANGED <<cur_t, dispatched, waiting_time, last_on>>
  /\ last_on_total' = IF cur_t # NULL THEN last_on_total + 1
                      ELSE IF last_on_total = quant THEN 0 ELSE last_on_total

LEMMA TickCases ==
  ASSUME tick
  PROVE  /\ \E rq : Candidate(rq) /\ (TickTakes(rq) \/ TickStays(rq))
         /\ UNCHANGED <<alg, quant, priority, io_queue, done_queue, io_t, running_time, beg_time,
                        device, started>>
         /\ ticks < MaxTicks /\ ticks' = ticks + 1 /\ fresh' = {} /\ on_cpu' = (cur_t' # NULL)
         /\ waited' = [t \in Threads |->
               IF \/ t \in ToSet(ready_queue')
                  \/ t \in ToSet(device) \ fresh /\ (started => t # Head(device))
               THEN waited[t] + 1 ELSE waited[t]]
<1> DEFINE takes(rq) == rq # <<>> /\ (cur_t = NULL \/ (rq # <<>> /\ outranks(Head(rq))) \/ expired)
           total(rq) == restart_total(takes(rq), rq # <<>> /\ outranks(Head(rq)))
<1>1. PICK rq \in IF alg = P_PRIORITY \/ (alg = NP_PRIORITY /\ cur_t = NULL)
                  THEN priority_order(ready_queue) ELSE {ready_queue} :
        /\ IF takes(rq)
           THEN /\ dispatch(Head(rq), last_on[Head(rq)])
                /\ last_on' = [t \in Threads |-> IF t \in {Head(rq), cur_t} THEN ticks ELSE last_on[t]]
                /\ ready_queue' = IF cur_t = NULL THEN Tail(rq) ELSE Append(Tail(rq), cur_t)
           ELSE /\ ready_queue' = rq
                /\ UNCHANGED <<cur_t, dispatched, waiting_time, last_on>>
        /\ last_on_total' = IF cur_t' # NULL THEN total(rq) + 1
                            ELSE IF total(rq) = quant THEN 0 ELSE total(rq)
  BY DEF tick
<1>2. CASE takes(rq)
  <2>1. takes(rq) = TRUE /\ (rq # <<>> /\ outranks(Head(rq))) = outranks(Head(rq))
    BY <1>2 DEF outranks
  <2> QED  BY <1>1, <1>2, <2>1 DEF TickTakes, Takes, Candidate, dispatch, tick, fixedVars
<1>3. CASE ~ takes(rq)
  <2>1. total(rq) = last_on_total /\ ~ Takes(rq)
    BY <1>3 DEF restart_total, Takes
  <2> QED  BY <1>1, <1>3, <2>1 DEF TickStays, Candidate, tick, fixedVars
<1> QED  BY <1>2, <1>3

\* Sorted or not, it holds the same threads.
LEMMA CandidateFacts ==
  ASSUME TypeInv, PlaceInv, NEW rq, Candidate(rq)
  PROVE  /\ rq \in Seq(Threads) /\ NoDuplicates(rq) /\ ToSet(rq) = ToSet(ready_queue)
         /\ Len(rq) = Len(ready_queue)
         /\ alg = ROUND_ROBIN => rq = ready_queue
         /\ alg = P_PRIORITY =>
              \A i, j \in 1 .. Len(rq) : i < j => priority[rq[i]] <= priority[rq[j]]
<1>1. ready_queue \in Seq(Threads) /\ NoDuplicates(ready_queue)
  BY DEF TypeInv, PlaceInv
<1>2. CASE rq \in priority_order(ready_queue) /\ alg \in {P_PRIORITY, NP_PRIORITY}
  BY <1>1, <1>2, OrderFacts DEF ROUND_ROBIN, P_PRIORITY, NP_PRIORITY
<1>3. CASE rq = ready_queue /\ alg # P_PRIORITY
  BY <1>1, <1>3
<1> QED  BY <1>2, <1>3 DEF Candidate

\* The clock interrupt.  What it makes of the CPU and of the ready queue:
\* nobody comes or goes, a thread that gets the CPU has its wait added up, one
\* that loses it is stamped.
LEMMA TickMoves ==
  ASSUME IInv, NEW rq, Candidate(rq), TickTakes(rq) \/ TickStays(rq)
  PROVE  /\ cur_t' \in Threads \cup {NULL} /\ dispatched' = cur_t'
         /\ ready_queue' \in Seq(Threads) /\ NoDuplicates(ready_queue')
         /\ cur_t' \notin ToSet(ready_queue')
         /\ ToSet(ready_queue') \subseteq ToSet(ready_queue) \cup ({cur_t} \ {NULL})
         /\ cur_t' \in ToSet(ready_queue) \cup {cur_t}
         /\ ToSet(ready_queue) \cup ({cur_t} \ {NULL}) \subseteq ToSet(ready_queue') \cup {cur_t'}
         /\ waiting_time' \in Times /\ last_on' \in Times
         /\ \A u \in Threads : waiting_time'[u] <= last_on'[u] /\ last_on'[u] <= ticks
         /\ \A u \in ToSet(ready_queue') : waited[u] = waiting_time'[u] + (ticks - last_on'[u])
         /\ cur_t' # NULL => waited[cur_t'] = waiting_time'[cur_t']
         /\ \A u \in Threads : u \notin ToSet(ready_queue) \cup {cur_t}
              => waiting_time'[u] = waiting_time[u] /\ last_on'[u] = last_on[u]
         /\ last_on_total' \in Nat /\ last_on_total' <= ticks + 1
<1>1. /\ TypeInv /\ PlaceInv /\ SimulatorAgrees /\ TimeInv /\ WaitInv
  BY DEF IInv
<1>2. rq \in Seq(Threads) /\ NoDuplicates(rq) /\ ToSet(rq) = ToSet(ready_queue)
  BY <1>1, CandidateFacts
<1>3. /\ ToSet(ready_queue) \subseteq Threads /\ NULL \notin Threads /\ cur_t \in Threads \cup {NULL}
      /\ cur_t \notin ToSet(ready_queue)
  BY <1>1, Sets DEF TypeInv, PlaceInv
<1>4. cur_t # NULL => waited[cur_t] = waiting_time[cur_t]
  BY <1>1, <1>3 DEF WaitInv, Queueing, OnDevice, PlaceInv
<1>5. ticks \in Nat /\ last_on_total \in Nat /\ last_on_total <= ticks
  BY <1>1, Numbers DEF TimeInv
<1>6. CASE TickStays(rq)
  <2>1. /\ ready_queue' = rq /\ UNCHANGED <<cur_t, dispatched, waiting_time, last_on>>
        /\ last_on_total' = IF cur_t # NULL THEN last_on_total + 1
                            ELSE IF last_on_total = quant THEN 0 ELSE last_on_total
    BY <1>6 DEF TickStays
  <2>2. last_on_total' \in Nat /\ last_on_total' <= ticks + 1
    BY <1>5, <2>1
  <2>3. waiting_time \in Times /\ last_on \in Times /\ dispatched = cur_t
    BY <1>1 DEF TypeInv, SimulatorAgrees
  <2>4. /\ \A u \in Threads : waiting_time[u] <= last_on[u] /\ last_on[u] <= ticks
        /\ \A u \in ToSet(ready_queue) : waited[u] = waiting_time[u] + (ticks - last_on[u])
    BY <1>1, <1>3 DEF TimeInv, WaitInv
  <2> QED  BY <1>2, <1>3, <1>4, <2>1, <2>2, <2>3, <2>4
<1>7. CASE TickTakes(rq)
  <2> DEFINE h == Head(rq)
             tl == Tail(rq)
  <2>1. /\ rq # <<>> /\ cur_t' = h /\ dispatched' = h
        /\ waiting_time' = [waiting_time EXCEPT ![h] = @ + ticks - last_on[h]]
        /\ last_on' = [t \in Threads |-> IF t \in {h, cur_t} THEN ticks ELSE last_on[t]]
        /\ ready_queue' = IF cur_t = NULL THEN tl ELSE Append(tl, cur_t)
        /\ last_on_total' = IF h # NULL THEN restart_total(TRUE, outranks(h)) + 1
                            ELSE IF restart_total(TRUE, outranks(h)) = quant THEN 0
                                 ELSE restart_total(TRUE, outranks(h))
    BY <1>7 DEF TickTakes, Takes
  <2>2. /\ h \in Threads /\ tl \in Seq(Threads) /\ NoDuplicates(tl) /\ h \notin ToSet(tl)
        /\ ToSet(ready_queue) = ToSet(tl) \cup {h}
    BY <1>2, <2>1, TailFacts
  <2> HIDE DEF h, tl
  <2>3. /\ ready_queue' \in Seq(Threads) /\ NoDuplicates(ready_queue')
        /\ ToSet(ready_queue') = ToSet(tl) \cup ({cur_t} \ {NULL})
    <3>1. CASE cur_t = NULL
      BY <2>1, <2>2, <3>1
    <3>2. CASE cur_t # NULL
      <4>1. cur_t \in Threads /\ cur_t \notin ToSet(tl)
        BY <1>3, <2>2, <3>2
      <4>2. /\ Append(tl, cur_t) \in Seq(Threads) /\ NoDuplicates(Append(tl, cur_t))
            /\ ToSet(Append(tl, cur_t)) = ToSet(tl) \cup {cur_t}
        BY <2>2, <4>1, AppendFacts
      <4> QED  BY <2>1, <3>2, <4>2
    <3> QED  BY <3>1, <3>2
  <2>4. h # NULL /\ h # cur_t /\ h \in ToSet(ready_queue)
    BY <1>3, <2>2
  <2>5. /\ waiting_time[h] + ticks - last_on[h] = waited[h] /\ waited[h] \in Nat /\ waited[h] <= ticks
    BY <1>1, <2>2, <2>4, Numbers DEF WaitInv, TimeInv
  <2>6. /\ waiting_time' \in Times /\ waiting_time'[h] = waited[h]
        /\ \A u \in Threads : u # h => waiting_time'[u] = waiting_time[u]
    <3>1. waiting_time \in Times /\ waiting_time' = [waiting_time EXCEPT ![h] = waited[h]]
      BY <1>1, <2>1, <2>5 DEF TypeInv
    <3> QED  BY <2>2, <2>5, <3>1 DEF Times
  <2>7. /\ last_on' \in Times /\ \A u \in Threads : last_on'[u] = IF u = h \/ u = cur_t THEN ticks ELSE last_on[u]
    <3>1. last_on \in Times
      BY <1>1 DEF TypeInv
    <3> QED  BY <1>5, <2>1, <3>1 DEF Times
  <2>8. last_on_total' \in Nat /\ last_on_total' <= ticks + 1
    BY <1>5, <2>1, <2>4 DEF restart_total
  <2>9. ASSUME NEW u \in Threads PROVE waiting_time'[u] <= last_on'[u] /\ last_on'[u] <= ticks
    <3>1. waiting_time[u] <= last_on[u] /\ last_on[u] <= ticks /\ waiting_time[u] \in Nat /\ last_on[u] \in Nat
      BY <1>1, Numbers DEF TimeInv
    <3> QED  BY <1>5, <2>5, <2>6, <2>7, <3>1
  <2>10. ASSUME NEW u \in ToSet(ready_queue') PROVE waited[u] = waiting_time'[u] + (ticks - last_on'[u])
    <3>1. u \in Threads /\ u # h
      BY <1>3, <2>2, <2>3, <2>4
    <3>2. CASE u = cur_t
      <4>1. waiting_time[u] \in Nat
        BY <1>1, <3>1, Numbers
      <4>2. u # NULL /\ waited[u] = waiting_time'[u] /\ last_on'[u] = ticks
        BY <1>3, <1>4, <2>6, <2>7, <3>1, <3>2
      <4> QED  BY <1>5, <2>6, <3>1, <4>1, <4>2
    <3>3. CASE u # cur_t
      <4>1. u \in ToSet(ready_queue)
        BY <2>2, <2>3, <3>3
      <4> QED  BY <1>1, <2>6, <2>7, <3>1, <3>3, <4>1 DEF WaitInv
    <3> QED  BY <3>2, <3>3
  <2>11. cur_t' = h /\ dispatched' = h /\ h \notin ToSet(ready_queue')
    BY <2>1, <2>2, <2>3, <2>4
  <2>12. \A u \in Threads : u \notin ToSet(ready_queue) \cup {cur_t}
           => waiting_time'[u] = waiting_time[u] /\ last_on'[u] = last_on[u]
    BY <2>4, <2>6, <2>7
  <2> QED  BY <2>2, <2>3, <2>4, <2>6, <2>7, <2>8, <2>9, <2>10, <2>11, <2>12
<1> QED  BY <1>6, <1>7

\* Round robin: a tick brings every ready thread nearer to the CPU by as much
\* as it has waited.
LEMMA TickBound ==
  ASSUME IInv, NEW rq, Candidate(rq), TickTakes(rq) \/ TickStays(rq),
         alg = ROUND_ROBIN, alg' = alg, quant' = quant, NEW i \in 1 .. Len(ready_queue')
  PROVE  (ticks + 1) - last_on'[ready_queue'[i]] + quant * (i - 1) + Rest' <= Bound
<1> DEFINE n == Len(ready_queue)
<1>1. TypeInv /\ PlaceInv /\ RoundRobinInv
  BY DEF IInv
<1>2. /\ rq = ready_queue /\ ready_queue \in Seq(Threads) /\ n \in Nat /\ NoDuplicates(ready_queue)
  BY <1>1, CandidateFacts, LenProperties DEF TypeInv, PlaceInv
<1>3. /\ quant \in Nat /\ quant >= 1 /\ Bound \in Int /\ ticks \in Nat /\ last_on_total \in Nat
      /\ \A u \in Threads : last_on[u] \in Nat
  <2>1. quant \in Nat /\ quant >= 1 /\ Cardinality(Threads) - 1 \in Int
    BY <1>1, Sets
  <2> QED  BY <1>1, <2>1, Numbers DEF Bound
<1>4. \A k \in 1 .. n : /\ ready_queue[k] \in Threads /\ ready_queue[k] \in ToSet(ready_queue)
                        /\ ready_queue[k] # cur_t
  BY <1>1, <1>2, ToSetIndex DEF PlaceInv
<1>5. \A k \in 1 .. n : ticks - last_on[ready_queue[k]] + quant * (k - 1) + Rest <= Bound
  BY <1>1 DEF RoundRobinInv, Bound
<1>6. \A t : ~ outranks(t)
  BY DEF outranks, ROUND_ROBIN, P_PRIORITY
<1>7. CASE TickStays(rq)
  <2>1. /\ ready_queue' = ready_queue /\ last_on' = last_on /\ cur_t' = cur_t /\ ~ Takes(rq)
        /\ cur_t # NULL => last_on_total' = last_on_total + 1
    BY <1>2, <1>7 DEF TickStays
  <2>2. ready_queue # <<>> /\ i \in 1 .. n
    BY <1>2, <2>1, EmptyFacts
  <2>3. cur_t # NULL /\ last_on_total < quant
    BY <1>2, <1>3, <2>1, <2>2 DEF Takes, expired
  <2>4. Rest' = Rest - 1 /\ Rest \in Nat
    BY <1>3, <2>1, <2>3 DEF Rest
  <2> DEFINE e == last_on[ready_queue[i]]
             b == quant * (i - 1)
  <2>5. e \in Nat /\ b \in Int
    <3>1. i - 1 \in Int
      BY <2>2
    <3> QED  BY <1>3, <1>4, <2>2, <3>1
  <2>6. ticks - e + b + Rest <= Bound
    BY <1>5, <2>2
  <2> HIDE DEF e, b
  <2>7. (ticks + 1) - e + b + Rest' <= Bound
    BY <1>3, <2>4, <2>5, <2>6
  <2> QED  BY <2>1, <2>7 DEF e, b
<1>8. CASE TickTakes(rq)
  <2> DEFINE h == Head(ready_queue)
             tl == Tail(ready_queue)
  <2>1. /\ Takes(rq) /\ ready_queue # <<>> /\ cur_t' = h
        /\ last_on' = [t \in Threads |-> IF t \in {h, cur_t} THEN ticks ELSE last_on[t]]
        /\ ready_queue' = IF cur_t = NULL THEN tl ELSE Append(tl, cur_t)
        /\ h # NULL => last_on_total' = restart_total(TRUE, outranks(h)) + 1
    BY <1>2, <1>8 DEF TickTakes, Takes
  <2>2. /\ h \in Threads /\ tl \in Seq(Threads) /\ NoDuplicates(tl) /\ h \notin ToSet(tl)
        /\ ToSet(ready_queue) = ToSet(tl) \cup {h} /\ Len(tl) = n - 1 /\ n >= 1
        /\ \A k \in 1 .. n - 1 : k + 1 \in 1 .. n /\ tl[k] = ready_queue[k + 1]
    BY <1>2, <2>1, TailFacts
  <2> HIDE DEF h, tl
  <2>3. Rest = 0
    BY <1>3, <1>6, <2>1 DEF Takes, Rest, expired
  <2>4. h # NULL /\ h # cur_t /\ h \in ToSet(ready_queue)
    BY <1>1, <2>2, Sets DEF PlaceInv
  <2>5. Rest' = quant - 1 /\ Rest' \in Int /\ Rest' + 1 <= quant
    <3>1. last_on_total' = 1 /\ cur_t' # NULL
      BY <1>6, <2>1, <2>4 DEF restart_total
    <3> QED  BY <1>3, <3>1 DEF Rest
  <2>6. CASE i \in 1 .. n - 1
    <3> DEFINE v == ready_queue[i + 1]
               e == ticks - last_on[v]
               j == i - 1
    <3>1. ready_queue'[i] = tl[i] /\ tl[i] = v /\ i + 1 \in 1 .. n
      <4>1. Append(tl, cur_t)[i] = tl[i]
        BY <2>2, <2>6, AppendProperties
      <4> QED  BY <2>1, <2>2, <2>6, <4>1
    <3>2. v \in ToSet(tl) /\ v \in Threads /\ v # cur_t
      <4>1. i \in 1 .. Len(tl)
        BY <2>2, <2>6
      <4> QED  BY <1>4, <2>2, <3>1, <4>1, ToSetIndex
    <3>3. last_on'[v] = last_on[v]
      BY <2>1, <2>2, <3>2
    <3>4. e \in Int /\ j \in Nat /\ (i + 1) - 1 = j + 1 /\ quant * (j + 1) \in Int
      <4>1. e \in Int /\ j \in Nat /\ (i + 1) - 1 = j + 1 /\ j + 1 \in Int
        BY <1>2, <1>3, <2>6, <3>2
      <4> QED  BY <1>3, <4>1
    <3>5. e + quant * (j + 1) + Rest <= Bound
      BY <1>5, <3>1, <3>4
    <3> HIDE DEF e, j, v
    <3>6. e + quant * (j + 1) <= Bound
      BY <2>3, <3>4, <3>5
    <3>7. e + quant * j + (Rest' + 1) <= Bound
      BY <1>3, <2>5, <3>4, <3>6, TailBound
    <3>8. quant * j \in Int
      BY <1>3, <3>4
    <3>9. (e + 1) + quant * j + Rest' <= Bound
      BY <1>3, <2>5, <3>4, <3>7, <3>8
    <3>10. (ticks + 1) - last_on'[ready_queue'[i]] = e + 1
      <4>1. last_on[v] \in Nat /\ ticks \in Nat
        BY <1>3, <3>2
      <4>2. last_on'[ready_queue'[i]] = last_on[v]
        BY <3>1, <3>3
      <4>3. \A m, k \in Nat : (m + 1) - k = (m - k) + 1
        OBVIOUS
      <4> QED  BY <4>1, <4>2, <4>3 DEF e
    <3> QED  BY <3>9, <3>10 DEF j
  <2>7. CASE i \notin 1 .. n - 1
    <3>1. cur_t # NULL /\ cur_t \in Threads
      BY <1>1, <2>1, <2>2, <2>7 DEF TypeInv
    <3>2. i = n /\ ready_queue'[i] = cur_t
      <4>1. Len(Append(tl, cur_t)) = Len(tl) + 1 /\ Append(tl, cur_t)[Len(tl) + 1] = cur_t
        BY <2>2, <3>1, AppendProperties
      <4> QED  BY <1>2, <2>1, <2>2, <2>7, <3>1, <4>1
    <3>3. last_on'[cur_t] = ticks
      BY <2>1, <3>1
    <3>4. n + 1 <= Cardinality(Threads) /\ Cardinality(Threads) - 1 \in Int
      BY <1>1, <1>2, <3>1, Sets, Room DEF PlaceInv
    <3>5. quant * n <= Bound /\ quant * n \in Int
      <4>1. n <= Cardinality(Threads) - 1
        BY <1>2, <1>1, <3>4, Sets
      <4> QED  BY <1>2, <1>3, <3>4, <4>1, Monotone DEF Bound
    <3>6. quant * ((n - 1) + 1) = quant * (n - 1) + quant /\ (n - 1) + 1 = n /\ quant * (n - 1) \in Int
      <4>1. n - 1 \in Int
        BY <1>2
      <4> QED  BY <1>2, <1>3, <4>1, Monotone
    <3> HIDE DEF n
    <3>7. 1 + quant * (n - 1) + Rest' <= Bound
      BY <1>3, <2>5, <3>5, <3>6
    <3>8. (ticks + 1) - ticks = 1
      BY <1>3
    <3> QED  BY <3>2, <3>3, <3>7, <3>8
  <2> QED  BY <2>6, <2>7
<1> QED  BY <1>7, <1>8

LEMMA TickStep == ASSUME IInv, tick PROVE IInv'
<1> DEFINE R == ToSet(ready_queue)
<1>1. /\ TypeInv /\ PlaceInv /\ SimulatorAgrees /\ TimeInv /\ WaitInv /\ RoundRobinInv
  BY DEF IInv
<1>2. PICK rq : Candidate(rq) /\ (TickTakes(rq) \/ TickStays(rq))
  BY TickCases
<1>3. /\ UNCHANGED <<alg, quant, priority, io_queue, done_queue, io_t, running_time, beg_time,
                     device, started>>
      /\ ticks < MaxTicks /\ ticks' = ticks + 1 /\ fresh' = {} /\ on_cpu' = (cur_t' # NULL)
  BY TickCases
<1>4. /\ cur_t' \in Threads \cup {NULL} /\ dispatched' = cur_t'
      /\ ready_queue' \in Seq(Threads) /\ NoDuplicates(ready_queue')
      /\ cur_t' \notin ToSet(ready_queue')
      /\ ToSet(ready_queue') \subseteq R \cup ({cur_t} \ {NULL})
      /\ cur_t' \in R \cup {cur_t}
      /\ R \cup ({cur_t} \ {NULL}) \subseteq ToSet(ready_queue') \cup {cur_t'}
      /\ waiting_time' \in Times /\ last_on' \in Times
      /\ \A u \in Threads : waiting_time'[u] <= last_on'[u] /\ last_on'[u] <= ticks
      /\ \A u \in ToSet(ready_queue') : waited[u] = waiting_time'[u] + (ticks - last_on'[u])
      /\ cur_t' # NULL => waited[cur_t'] = waiting_time'[cur_t']
      /\ \A u \in Threads : u \notin R \cup {cur_t}
           => waiting_time'[u] = waiting_time[u] /\ last_on'[u] = last_on[u]
      /\ last_on_total' \in Nat /\ last_on_total' <= ticks + 1
  BY <1>2, TickMoves
<1>5. /\ ToSet(ready_queue') \subseteq Threads /\ R \subseteq Threads /\ NULL \notin Threads
      /\ OnDevice \subseteq Threads /\ OnDevice' = OnDevice
      /\ OnDevice \cap (R \cup {cur_t}) = {} /\ NULL \notin OnDevice
  BY <1>1, <1>3, <1>4, Sets, ToSetSubset DEF OnDevice, PlaceInv
<1>6. \A u : Queueing(u)' <=> Queueing(u)
  BY <1>3 DEF Queueing, OnDevice
<1>7. \A u \in Threads : waited'[u] = IF u \in ToSet(ready_queue') \/ (Queueing(u) /\ u \notin fresh)
                                      THEN waited[u] + 1 ELSE waited[u]
  <2>1. ASSUME NEW u \in Threads
        PROVE  u \in ToSet(device) \ fresh /\ (started => u # Head(device))
                 <=> Queueing(u) /\ u \notin fresh
    <3>1. ToSet(device) = OnDevice
      BY <1>1, DeviceFacts
    <3>2. u \in OnDevice => Head(device) = io_t
      <4>1. device = <<>> => OnDevice = {}
        BY <3>1, EmptyFacts
      <4> QED  BY <1>1, <4>1, DeviceFacts
    <3> QED  BY <3>1, <3>2 DEF Queueing
  <2> QED  BY <2>1, TickCases
<1>8. waited' \in Times /\ \A u \in Threads : waited'[u] <= ticks + 1
  <2>1. \A u \in Threads : waited'[u] \in Nat /\ waited'[u] <= ticks + 1
    BY <1>1, <1>7, Numbers DEF TimeInv
  <2>2. waited' = [u \in Threads |-> waited'[u]]
    BY TickCases
  <2> QED  BY <2>1, <2>2 DEF Times
<1>9. TypeInv'
  <2>1. ticks' \in 0 .. MaxTicks /\ on_cpu' \in BOOLEAN /\ fresh' \subseteq Threads
    BY <1>1, <1>3, Numbers
  <2> QED  BY <1>1, <1>3, <1>4, <1>8, <2>1 DEF TypeInv
<1>10. PlaceInv' /\ SimulatorAgrees'
  <2>1. SimulatorAgrees'
    BY <1>1, <1>3, <1>4 DEF SimulatorAgrees
  <2>2. /\ ToSet(ready_queue') \cap (ToSet(io_queue) \cup ToSet(done_queue)) = {}
        /\ cur_t' \notin ToSet(io_queue) \cup ToSet(done_queue)
        /\ io_t \notin ToSet(ready_queue') /\ (cur_t' = io_t => cur_t' = NULL)
    BY <1>1, <1>4 DEF PlaceInv
  <2> QED  BY <1>1, <1>3, <1>4, <2>1, <2>2 DEF PlaceInv
<1>11. TimeInv'
  <2>1. ticks \in Nat /\ \A u \in Threads : /\ last_on'[u] \in Nat /\ waiting_time'[u] \in Nat
                                            /\ beg_time[u] \in Nat /\ running_time[u] \in Nat
    BY <1>1, <1>4, Numbers DEF Times
  <2>2. \A u \in Threads : last_on'[u] <= ticks + 1 /\ last_on'[u] < ticks + 1
    BY <1>4, <2>1
  <2>3. \A u \in Threads : beg_time[u] <= ticks + 1 /\ running_time[u] <= ticks + 1
    BY <1>1, <2>1 DEF TimeInv
  <2> QED  BY <1>3, <1>4, <1>5, <1>8, <2>2, <2>3 DEF TimeInv
<1>12. WaitInv'
  <2> SUFFICES ASSUME NEW u \in Threads
               PROVE  /\ u \in ToSet(ready_queue') => waited'[u] = waiting_time'[u] + ((ticks + 1) - last_on'[u])
                      /\ Queueing(u) => waited'[u] = waiting_time'[u] + (((ticks + 1) - 1) - last_on'[u])
                      /\ u \notin ToSet(ready_queue') /\ ~ Queueing(u) => waited'[u] = waiting_time'[u]
    BY <1>3, <1>6 DEF WaitInv
  <2>1. /\ ticks \in Nat /\ waiting_time'[u] \in Nat /\ last_on'[u] \in Nat /\ waited[u] \in Nat
    BY <1>1, <1>4, Numbers DEF Times
  <2>2. CASE u \in ToSet(ready_queue')
    <3>1. ~ Queueing(u)
      BY <1>4, <1>5, <2>2 DEF Queueing
    <3>2. waited[u] = waiting_time'[u] + (ticks - last_on'[u]) /\ waited'[u] = waited[u] + 1
      BY <1>4, <1>7, <2>2
    <3> QED  BY <2>1, <2>2, <3>1, <3>2
  <2>3. CASE Queueing(u)
    <3>1. /\ u \notin ToSet(ready_queue') /\ u \notin R \cup {cur_t}
      BY <1>4, <1>5, <2>3 DEF Queueing
    <3>2. waiting_time'[u] = waiting_time[u] /\ last_on'[u] = last_on[u]
      BY <1>4, <3>1
    <3>3. CASE u \in fresh
      <4>1. waited[u] = waiting_time[u] /\ last_on[u] = ticks /\ waited'[u] = waited[u]
        BY <1>1, <1>7, <2>3, <3>1, <3>3 DEF WaitInv, TimeInv
      <4> QED  BY <2>1, <2>3, <3>1, <3>2, <4>1
    <3>4. CASE u \notin fresh
      <4>1. waited[u] = waiting_time[u] + ((ticks - 1) - last_on[u]) /\ waited'[u] = waited[u] + 1
        BY <1>1, <1>7, <2>3, <3>4 DEF WaitInv
      <4> QED  BY <2>1, <2>3, <3>1, <3>2, <4>1
    <3> QED  BY <3>3, <3>4
  <2>4. CASE u \notin ToSet(ready_queue') /\ ~ Queueing(u)
    <3>1. waited'[u] = waited[u]
      BY <1>7, <2>4
    <3>2. CASE u = cur_t'
      BY <1>4, <1>5, <2>4, <3>1, <3>2
    <3>3. CASE u # cur_t'
      <4>1. u \notin R \cup {cur_t}
        BY <1>4, <1>5, <2>4, <3>3
      <4> QED  BY <1>1, <1>4, <2>4, <3>1, <4>1 DEF WaitInv
    <3> QED  BY <2>4, <3>2, <3>3
  <2> QED  BY <2>2, <2>3, <2>4
<1>13. RoundRobinInv'
  <2> SUFFICES ASSUME alg = ROUND_ROBIN, NEW i \in 1 .. Len(ready_queue')
               PROVE  (ticks + 1) - last_on'[ready_queue'[i]] + quant * (i - 1) + Rest' <= Bound
    BY <1>3 DEF RoundRobinInv, Bound
  <2> QED  BY <1>2, <1>3, TickBound
<1> QED  BY <1>9, <1>10, <1>11, <1>12, <1>13 DEF IInv

\* stats empties the queue of the threads that are done.
LEMMA StatsStep == ASSUME IInv, stats PROVE IInv'
<1>1. /\ TypeInv /\ PlaceInv /\ SimulatorAgrees /\ TimeInv /\ WaitInv /\ RoundRobinInv
  BY DEF IInv
<1>2. /\ UNCHANGED <<alg, quant, priority, ready_queue, io_queue, cur_t, io_t, ticks, last_on_total,
                     running_time, waiting_time, last_on, beg_time, dispatched, device, started,
                     fresh, on_cpu, waited>>
      /\ done_queue' = <<>>
  BY DEF stats, fixedVars, timeVars, simVars
<1>3. TypeInv'
  BY <1>1, <1>2, EmptyFacts DEF TypeInv
<1>4. PlaceInv' /\ SimulatorAgrees'
  BY <1>1, <1>2, EmptyFacts DEF PlaceInv, SimulatorAgrees
<1>5. TimeInv' /\ WaitInv' /\ RoundRobinInv'
  BY <1>1, <1>2 DEF TimeInv, WaitInv, RoundRobinInv, Rest, Queueing, OnDevice
<1> QED  BY <1>3, <1>4, <1>5 DEF IInv

LEMMA NextIInv == IInv /\ [Next]_vars => IInv'
<1> SUFFICES ASSUME IInv, [Next]_vars PROVE IInv'
  OBVIOUS
<1>1. CASE UNCHANGED vars
  <2>1. UNCHANGED <<alg, quant, priority, ready_queue, io_queue, done_queue, cur_t, io_t, ticks,
                    last_on_total, running_time, waiting_time, last_on, beg_time, dispatched,
                    device, started, fresh, on_cpu, waited>>
    BY <1>1 DEF vars, fixedVars, queueVars, timeVars, simVars
  <2> QED
    BY <2>1 DEF IInv, TypeInv, PlaceInv, SimulatorAgrees, TimeInv, WaitInv, RoundRobinInv,
                Rest, Queueing, OnDevice
<1>2. ASSUME NEW t \in Threads, sys_exec(t) PROVE IInv'
  BY <1>2, ExecStep
<1> QED
  BY <1>1, <1>2, TickStep, ExitStep, IoStep, CompleteStep, StartingStep, StatsStep DEF Next, Stop

----------------------------------------------------------------------------
\* The inductive invariant holds in every state of the simulation.
THEOREM Invariance == Spec => []IInv
BY InitIInv, NextIInv, PTL DEF Spec

\* A pointer that may be null counts for one thread or none.
LEMMA PointerCounted ==
  ASSUME NEW p
  PROVE  /\ IsFiniteSet({p} \ {NULL})
         /\ Cardinality({p} \ {NULL}) = IF p = NULL THEN 0 ELSE 1
<1>1. CASE p = NULL
  <2>1. {p} \ {NULL} = {}
    BY <1>1
  <2>2. IsFiniteSet({}) /\ Cardinality({}) = 0
    BY FS_EmptySet
  <2> QED  BY <1>1, <2>1, <2>2
<1>2. CASE p # NULL
  <2>1. {p} \ {NULL} = {p}
    BY <1>2
  <2>2. IsFiniteSet({p}) /\ Cardinality({p}) = 1
    BY FS_Singleton
  <2> QED  BY <1>2, <2>1, <2>2
<1> QED  BY <1>1, <1>2

LEMMA DisjointUnion ==
  ASSUME NEW X, NEW Y, IsFiniteSet(X), IsFiniteSet(Y), X \cap Y = {}
  PROVE  /\ IsFiniteSet(X \cup Y)
         /\ Cardinality(X \cup Y) = Cardinality(X) + Cardinality(Y)
<1>1. Cardinality(X) \in Nat /\ Cardinality(Y) \in Nat
  BY FS_CardinalityType
<1>2. Cardinality(X \cap Y) = 0
  <2>1. Cardinality({}) = 0
    BY FS_EmptySet
  <2> QED  BY <2>1
<1>3. /\ IsFiniteSet(X \cup Y)
      /\ Cardinality(X \cup Y) = Cardinality(X) + Cardinality(Y) - Cardinality(X \cap Y)
  BY FS_Union
<1> QED  BY <1>1, <1>2, <1>3

\* The threads known to the scheduler are counted by its queues and pointers.
LEMMA CountKnown == ASSUME TypeInv, PlaceInv PROVE EachThreadOnce
<1> DEFINE R == ToSet(ready_queue)
           Q == ToSet(io_queue)
           D == ToSet(done_queue)
           C == {cur_t} \ {NULL}
           I == {io_t} \ {NULL}
<1>1. /\ IsFiniteSet(R) /\ Cardinality(R) = Len(ready_queue)
      /\ IsFiniteSet(Q) /\ Cardinality(Q) = Len(io_queue)
      /\ IsFiniteSet(D) /\ Cardinality(D) = Len(done_queue)
  BY Counted DEF TypeInv, PlaceInv
<1>2. Len(ready_queue) \in Nat /\ Len(io_queue) \in Nat /\ Len(done_queue) \in Nat
  BY LenProperties DEF TypeInv
<1>3. /\ IsFiniteSet(C) /\ Cardinality(C) = IF cur_t = NULL THEN 0 ELSE 1
      /\ IsFiniteSet(I) /\ Cardinality(I) = IF io_t = NULL THEN 0 ELSE 1
  BY PointerCounted
<1>4. /\ R \cap Q = {} /\ (R \cup Q) \cap D = {} /\ (R \cup Q \cup D) \cap C = {}
      /\ (R \cup Q \cup D \cup C) \cap I = {} /\ Known = R \cup Q \cup D \cup C \cup I
  BY DEF PlaceInv, Known
<1> HIDE DEF R, Q, D, C, I
<1>5. IsFiniteSet(R \cup Q) /\ Cardinality(R \cup Q) = Cardinality(R) + Cardinality(Q)
  <2>1. IsFiniteSet(R) /\ IsFiniteSet(Q) /\ R \cap Q = {}
    BY <1>1, <1>4
  <2> QED  BY <2>1, DisjointUnion
<1>6. /\ IsFiniteSet(R \cup Q \cup D)
      /\ Cardinality(R \cup Q \cup D) = Cardinality(R \cup Q) + Cardinality(D)
  <2>1. IsFiniteSet(R \cup Q) /\ IsFiniteSet(D) /\ (R \cup Q) \cap D = {}
    BY <1>1, <1>4, <1>5
  <2> QED  BY <2>1, DisjointUnion
<1>7. /\ IsFiniteSet(R \cup Q \cup D \cup C)
      /\ Cardinality(R \cup Q \cup D \cup C) = Cardinality(R \cup Q \cup D) + Cardinality(C)
  BY <1>3, <1>4, <1>6, DisjointUnion
<1>8. Cardinality(Known) = Cardinality(R \cup Q \cup D \cup C) + Cardinality(I)
  BY <1>3, <1>4, <1>7, DisjointUnion
<1>9. Cardinality(Known) =
        Len(ready_queue) + Len(io_queue) + Len(done_queue) + Cardinality(C) + Cardinality(I)
  BY <1>1, <1>5, <1>6, <1>7, <1>8
<1> QED  BY <1>3, <1>9 DEF EachThreadOnce

\* scheduler.c keeps every thread in one place, once, and that is where the
\* simulator has it, although the callbacks ignore which thread they are for.
THEOREM QueuesKept == Spec => []QueuesConsistent
<1>1. IInv => QueuesConsistent
  <2> SUFFICES ASSUME IInv PROVE QueuesConsistent
    OBVIOUS
  <2>1. TypeInv /\ PlaceInv /\ SimulatorAgrees /\ TimeInv
    BY DEF IInv
  <2>2. last_on_total \in 0 .. MaxTicks
    BY <2>1, Numbers DEF TimeInv
  <2>3. \A t \in Threads :
           /\ running_time[t] \in 0 .. MaxTicks /\ waiting_time[t] \in 0 .. MaxTicks
           /\ last_on[t] \in 0 .. MaxTicks /\ beg_time[t] \in 0 .. MaxTicks
           /\ waited[t] \in 0 .. MaxTicks
    BY <2>1, Numbers DEF TimeInv
  <2>4. /\ running_time \in [Threads -> 0 .. MaxTicks] /\ waiting_time \in [Threads -> 0 .. MaxTicks]
        /\ last_on \in [Threads -> 0 .. MaxTicks] /\ beg_time \in [Threads -> 0 .. MaxTicks]
        /\ waited \in [Threads -> 0 .. MaxTicks]
    BY <2>1, <2>3 DEF TypeInv, Times
  <2>5. TypeOK
    BY <2>1, <2>2, <2>4 DEF TypeInv, TypeOK
  <2> QED  BY <2>1, <2>5, CountKnown DEF QueuesConsistent
<1> QED  BY <1>1, Invariance, PTL

\* The waiting time that stats reports is the time the thread has waited.
THEOREM WaitsReported == Spec => []WaitingTimeExact
<1>1. IInv => WaitingTimeExact
  <2> SUFFICES ASSUME IInv, NEW t \in ToSet(done_queue) \cup ({cur_t} \ {NULL})
               PROVE  waiting_time[t] = waited[t]
    BY DEF WaitingTimeExact
  <2>1. t \in Threads /\ t \notin ToSet(ready_queue) /\ t \notin OnDevice
    BY Sets DEF IInv, TypeInv, PlaceInv, OnDevice
  <2> QED  BY <2>1 DEF IInv, WaitInv, Queueing
<1> QED  BY <1>1, Invariance, PTL

\* Under round robin no thread is on the ready queue for longer than a quantum
\* of each of the others, although io_complete does not restart the quantum.
THEOREM RoundRobinFair == Spec => []RoundRobinBound
<1>1. IInv => RoundRobinBound
  <2> SUFFICES ASSUME IInv, alg = ROUND_ROBIN, NEW t \in ToSet(ready_queue)
               PROVE  ticks - last_on[t] <= quant * (Cardinality(Threads) - 1)
    BY DEF RoundRobinBound
  <2>1. TypeInv /\ ready_queue \in Seq(Threads) /\ last_on_total \in Nat
    BY DEF IInv, TypeInv
  <2>2. PICK i \in 1 .. Len(ready_queue) : ready_queue[i] = t
    BY <2>1, ToSetIndex
  <2>3. ticks - last_on[t] + quant * (i - 1) + Rest <= Bound
    BY <2>2 DEF IInv, RoundRobinInv, Bound
  <2>4. t \in Threads /\ quant \in Nat /\ Cardinality(Threads) - 1 \in Int
        /\ i - 1 \in Nat /\ ticks - last_on[t] \in Int
    BY <2>1, <2>2, Sets, Numbers
  <2>5. quant * (i - 1) \in Nat /\ Rest \in Nat /\ Bound \in Int
    BY <2>1, <2>4 DEF Rest, Bound
  <2>6. ticks - last_on[t] <= Bound
    BY <2>3, <2>4, <2>5
  <2> QED  BY <2>6 DEF Bound
<1> QED  BY <1>1, Invariance, PTL

\* After a clock interrupt nothing on the ready queue outranks the thread on
\* the CPU, and the CPU is idle only if the queue is empty.
THEOREM PriorityKept == Spec => PriorityAfterTick
<1> DEFINE A == ticks' # ticks =>
                  /\ cur_t' = NULL => ready_queue' = <<>>
                  /\ alg = P_PRIORITY /\ cur_t' # NULL =>
                       \A t \in ToSet(ready_queue') : priority[t] >= priority[cur_t']
<1>1. IInv /\ [Next]_vars => [A]_vars
  <2> SUFFICES ASSUME IInv, Next, ticks' # ticks PROVE A
    OBVIOUS
  <2>1. tick
    BY DEF Next, sys_exec, sys_exit, sys_io, io_complete, io_starting, stats, Stop,
           vars, queueVars
  <2>2. PICK rq : Candidate(rq) /\ (TickTakes(rq) \/ TickStays(rq))
    BY <2>1, TickCases
  <2>3. TypeInv /\ PlaceInv
    BY DEF IInv
  <2>4. /\ rq \in Seq(Threads) /\ NoDuplicates(rq) /\ ToSet(rq) = ToSet(ready_queue)
        /\ alg = P_PRIORITY => \A i, j \in 1 .. Len(rq) : i < j => priority[rq[i]] <= priority[rq[j]]
    BY <2>2, <2>3, CandidateFacts
  <2>5. NULL \notin Threads /\ \A t \in Threads : priority[t] \in Nat
    BY <2>3, SchedulerAssumption DEF TypeInv
  <2>6. CASE rq = <<>>
    BY <2>2, <2>6, EmptyFacts DEF TickTakes, Takes, TickStays
  <2>7. CASE rq # <<>>
    <3> DEFINE h == Head(rq)
               tl == Tail(rq)
    <3>1. /\ h \in Threads /\ h = rq[1] /\ tl \in Seq(Threads) /\ Len(rq) >= 1 /\ Len(rq) \in Nat
          /\ ToSet(rq) = ToSet(tl) \cup {h}
      BY <2>4, <2>7, TailFacts, LenProperties
    <3>2. ASSUME alg = P_PRIORITY, NEW t \in ToSet(rq) PROVE priority[t] >= priority[h] /\ t \in Threads
      <4>1. PICK i \in 1 .. Len(rq) : rq[i] = t
        BY <2>4, <3>2, ToSetIndex
      <4>2. t \in Threads
        BY <2>4, <4>1, ElementOfSeq
      <4>3. i = 1 \/ 1 < i
        BY <3>1
      <4> QED  BY <2>4, <2>5, <3>1, <3>2, <4>1, <4>2, <4>3
    <3> HIDE DEF h, tl
    <3>3. CASE TickTakes(rq)
      <4>1. cur_t' = h /\ h # NULL /\ ready_queue' = (IF cur_t = NULL THEN tl ELSE Append(tl, cur_t))
            /\ (cur_t = NULL \/ outranks(h) \/ expired)
        BY <2>5, <3>1, <3>3 DEF TickTakes, Takes, h, tl
      <4>2. ASSUME alg = P_PRIORITY, NEW t \in ToSet(ready_queue') PROVE priority[t] >= priority[h]
        <5>1. CASE t \in ToSet(tl)
          BY <3>1, <3>2, <4>2, <5>1
        <5>2. CASE t \notin ToSet(tl)
          <6>1. cur_t # NULL /\ cur_t \in Threads
            BY <2>3, <4>1, <4>2, <5>2 DEF TypeInv
          <6>2. t = cur_t
            BY <3>1, <4>1, <4>2, <5>2, <6>1, AppendFacts
          <6>3. outranks(h)
            BY <4>1, <4>2, <6>1 DEF expired, ROUND_ROBIN, P_PRIORITY
          <6> QED  BY <2>5, <3>1, <6>1, <6>2, <6>3 DEF outranks
        <5> QED  BY <5>1, <5>2
      <4> QED  BY <4>1, <4>2
    <3>4. CASE TickStays(rq)
      <4>1. /\ cur_t' = cur_t /\ ready_queue' = rq /\ cur_t # NULL /\ ~ outranks(h)
        BY <2>7, <3>4 DEF TickStays, Takes, h
      <4>2. ASSUME alg = P_PRIORITY, NEW t \in ToSet(rq) PROVE priority[t] >= priority[cur_t]
        <5>1. cur_t \in Threads
          BY <2>3, <4>1 DEF TypeInv
        <5>2. ~ (priority[h] < priority[cur_t])
          BY <4>1, <4>2 DEF outranks
        <5>3. priority[t] >= priority[h] /\ t \in Threads
          BY <3>2, <4>2
        <5> QED  BY <2>5, <3>1, <5>1, <5>2, <5>3
      <4> QED  BY <4>1, <4>2
    <3> QED  BY <2>2, <3>3, <3>4
  <2> QED  BY <2>6, <2>7
<1>2. []IInv /\ [][Next]_vars => [][A]_vars
  BY <1>1, PTL
<1> QED  BY <1>2, Invariance, PTL DEF Spec, PriorityAfterTick

=============================================================================
