-------------------------- MODULE SemaphoreProofs --------------------------
(***************************************************************************)
(* Proofs about Semaphore, for every set of threads, priorities and        *)
(* semaphores.                                                             *)
(***************************************************************************)
EXTENDS Semaphore, SequenceTheorems, WellFoundedInduction, FiniteSetTheorems, TLAPS

(* What insert_ordered_thread_priority and the scheduler's fragments do    *)
(* to a list, for every list and every priority.                           *)
\* A non-empty set of naturals has a smallest element.
LEMMA NatHasMin ==
  ASSUME NEW S \in SUBSET Nat, S # {}
  PROVE  \E n \in S : \A m \in S : n <= m
<1>1. \E n \in S : \A m \in S : ~ (<<m, n>> \in OpToRel(<, Nat))
  BY NatLessThanWellFounded, WFMin
<1>2. PICK n \in S : \A m \in S : ~ (<<m, n>> \in OpToRel(<, Nat))
  BY <1>1
<1>3. \A m \in S : ~ (m < n)
  BY <1>2 DEF OpToRel
<1> QED
  BY <1>3

\* Membership in ToSet by index.
LEMMA ToSetIndex ==
  ASSUME NEW S, NEW s \in Seq(S), NEW e
  PROVE  e \in ToSet(s) <=> \E i \in 1 .. Len(s) : s[i] = e
<1>1. DOMAIN s = 1 .. Len(s)
  BY LenProperties
<1> QED
  BY <1>1 DEF ToSet

\* r is the list ls with t at position k, behind everything of its priority
\* or higher and in front of something lower.
InsertedAt(prio, ls, t, r, k) ==
  /\ r \in Seq(Threads)
  /\ Len(r) = Len(ls) + 1
  /\ k \in 1 .. Len(ls) + 1
  /\ \A i \in 1 .. k - 1 : r[i] = ls[i]
  /\ r[k] = t
  /\ \A i \in k + 1 .. Len(ls) + 1 : r[i] = ls[i - 1]
  /\ \A i \in 1 .. k - 1 : prio[ls[i]] >= prio[t]
  /\ k <= Len(ls) => prio[ls[k]] < prio[t]

\* insert_ordered_thread_priority finds such a position.
LEMMA InsertPosition ==
  ASSUME NEW prio \in [All -> Nat], NEW ls \in Seq(Threads), NEW t \in Threads
  PROVE  \E k : InsertedAt(prio, ls, t, insert_ordered_thread_priority(prio, ls, t), k)
<1> DEFINE I == {i \in 1 .. Len(ls) : prio[ls[i]] < prio[t]} \cup {Len(ls) + 1}
           p == Min(I)
           r == insert_ordered_thread_priority(prio, ls, t)
           front == SubSeq(ls, 1, p - 1)
           back == SubSeq(ls, p, Len(ls))
<1>1. p \in I /\ \A m \in I : p <= m
  <2>1. I \in SUBSET Nat /\ I # {}
    OBVIOUS
  <2>2. \E n \in I : \A m \in I : n <= m
    BY <2>1, NatHasMin
  <2> QED
    BY <2>2 DEF Min
<1>2. r = (front \o <<t>>) \o back
  BY DEF insert_ordered_thread_priority, InsertAt
<1>3. /\ p \in 1 .. Len(ls) + 1
      /\ p <= Len(ls) => prio[ls[p]] < prio[t]
      /\ \A i \in 1 .. p - 1 : ~ (prio[ls[i]] < prio[t])
  <2>1. p \in 1 .. Len(ls) + 1 /\ (p <= Len(ls) => prio[ls[p]] < prio[t])
    BY <1>1
  <2>2. ASSUME NEW i \in 1 .. p - 1, prio[ls[i]] < prio[t] PROVE FALSE
    <3>1. i \in I
      BY <2>1, <2>2
    <3>2. p <= i
      BY <1>1, <3>1
    <3> QED
      BY <2>1, <3>2
  <2> QED
    BY <2>1, <2>2
<1> HIDE DEF p
<1>4. \A i \in 1 .. p - 1 : prio[ls[i]] >= prio[t]
  <2>1. \A i \in 1 .. p - 1 : prio[ls[i]] \in Nat
    BY <1>3 DEF All
  <2> QED
    BY <1>3, <2>1 DEF All
<1>5. /\ front \in Seq(Threads) /\ Len(front) = p - 1
      /\ \A i \in 1 .. p - 1 : front[i] = ls[i]
  <2>1. \A i \in 1 .. p - 1 : ls[i] \in Threads
    BY <1>3
  <2> QED
    BY <1>3, <2>1, SubSeqProperties
<1>6. /\ back \in Seq(Threads) /\ Len(back) = Len(ls) - p + 1
      /\ \A i \in 1 .. Len(ls) - p + 1 : back[i] = ls[p + i - 1]
  <2>1. \A i \in p .. Len(ls) : ls[i] \in Threads
    BY <1>3
  <2> QED
    BY <1>3, <2>1, SubSeqProperties
<1> HIDE DEF front, back
<1>7. <<t>> \in Seq(Threads) /\ Len(<<t>>) = 1 /\ <<t>>[1] = t
  OBVIOUS
<1>8. /\ front \o <<t>> \in Seq(Threads)
      /\ Len(front \o <<t>>) = p
      /\ \A i \in 1 .. p : (front \o <<t>>)[i] = IF i < p THEN ls[i] ELSE t
  BY <1>3, <1>5, <1>7, ConcatProperties
<1> HIDE DEF r
<1>9. /\ r \in Seq(Threads)
      /\ Len(r) = Len(ls) + 1
      /\ \A i \in 1 .. Len(ls) + 1 :
           r[i] = IF i <= p THEN (front \o <<t>>)[i] ELSE back[i - p]
  <2> DEFINE f == front \o <<t>>
  <2>1. p + (Len(ls) - p + 1) = Len(ls) + 1
    BY <1>3
  <2>2. f \in Seq(Threads) /\ Len(f) = p /\ r = f \o back
    BY <1>2, <1>8
  <2> HIDE DEF f
  <2>3. /\ f \o back \in Seq(Threads)
        /\ Len(f \o back) = p + (Len(ls) - p + 1)
        /\ \A i \in 1 .. p + (Len(ls) - p + 1) :
             (f \o back)[i] = IF i <= p THEN f[i] ELSE back[i - p]
    BY <1>6, <2>2, ConcatProperties, SMTT(30)
  <2> QED
    BY <2>1, <2>2, <2>3 DEF f
<1>10. /\ \A i \in 1 .. p - 1 : r[i] = ls[i]
       /\ r[p] = t
       /\ \A i \in p + 1 .. Len(ls) + 1 : r[i] = ls[i - 1]
  <2>1. \A i \in 1 .. p - 1 : r[i] = ls[i]
    BY <1>3, <1>8, <1>9
  <2>2. r[p] = t
    BY <1>3, <1>8, <1>9
  <2>3. ASSUME NEW i \in p + 1 .. Len(ls) + 1 PROVE r[i] = ls[i - 1]
    <3>1. i - p \in 1 .. Len(ls) - p + 1 /\ p + (i - p) - 1 = i - 1
      BY <1>3
    <3>2. r[i] = back[i - p]
      BY <1>3, <1>9
    <3> QED
      BY <1>6, <3>1, <3>2
  <2> QED
    BY <2>1, <2>2, <2>3
<1>11. InsertedAt(prio, ls, t, r, p)
  BY <1>3, <1>4, <1>9, <1>10 DEF InsertedAt
<1> QED
  BY <1>11 DEF r

\* Nothing but t is added, nothing is lost.
LEMMA InsertedSet ==
  ASSUME NEW prio, NEW ls \in Seq(Threads), NEW t, NEW r, NEW k,
         InsertedAt(prio, ls, t, r, k)
  PROVE  ToSet(r) = ToSet(ls) \cup {t}
<1> USE DEF InsertedAt
<1>1. ASSUME NEW e \in ToSet(r) PROVE e \in ToSet(ls) \cup {t}
  <2>1. PICK i \in 1 .. Len(r) : r[i] = e
    BY <1>1, ToSetIndex
  <2>2. i < k => i \in 1 .. Len(ls) /\ ls[i] = e
    BY <2>1
  <2>3. i > k => i - 1 \in 1 .. Len(ls) /\ ls[i - 1] = e
    BY <2>1
  <2>4. i = k => e = t
    BY <2>1
  <2> QED
    BY <2>2, <2>3, <2>4, ToSetIndex
<1>2. t \in ToSet(r)
  BY ToSetIndex
<1>3. ASSUME NEW e \in ToSet(ls) PROVE e \in ToSet(r)
  <2>1. PICK i \in 1 .. Len(ls) : ls[i] = e
    BY <1>3, ToSetIndex
  <2>2. i < k => r[i] = e /\ i \in 1 .. Len(r)
    BY <2>1
  <2>3. ~ (i < k) => r[i + 1] = e /\ i + 1 \in 1 .. Len(r)
    BY <2>1
  <2> QED
    BY <2>2, <2>3, ToSetIndex
<1> QED
  BY <1>1, <1>2, <1>3

\* Inserting a thread that is not on the list makes no duplicate.
LEMMA InsertedOnce ==
  ASSUME NEW prio, NEW ls \in Seq(Threads), NEW t, NEW r, NEW k,
         InsertedAt(prio, ls, t, r, k),
         NoDuplicates(ls), t \notin ToSet(ls)
  PROVE  NoDuplicates(r)
<1>1. \A i \in 1 .. Len(ls) : ls[i] # t
  BY ToSetIndex
<1> SUFFICES ASSUME NEW i \in 1 .. Len(r), NEW j \in 1 .. Len(r), r[i] = r[j], i < j
             PROVE  FALSE
  BY DEF NoDuplicates, InsertedAt
<1>2. CASE j < k
  BY <1>2, SMTT(30) DEF NoDuplicates, InsertedAt
<1>3. CASE i > k
  BY <1>3, SMTT(30) DEF NoDuplicates, InsertedAt
<1>4. CASE i < k /\ j > k
  <2>1. r[i] = ls[i] /\ r[j] = ls[j - 1] /\ i # j - 1
        /\ i \in 1 .. Len(ls) /\ j - 1 \in 1 .. Len(ls)
    BY <1>4 DEF InsertedAt
  <2> QED
    BY <2>1 DEF NoDuplicates
<1>5. CASE i = k
  <2>1. r[i] = t /\ r[j] = ls[j - 1] /\ j - 1 \in 1 .. Len(ls)
    BY <1>5 DEF InsertedAt
  <2> QED
    BY <1>1, <2>1
<1>6. CASE j = k
  <2>1. r[j] = t /\ r[i] = ls[i] /\ i \in 1 .. Len(ls)
    BY <1>6 DEF InsertedAt
  <2> QED
    BY <1>1, <2>1
<1> QED
  BY <1>2, <1>3, <1>4, <1>5, <1>6 DEF InsertedAt

\* Inserting into a sorted list gives a sorted list.
LEMMA InsertedSorted ==
  ASSUME NEW prio \in [All -> Nat], NEW ls \in Seq(Threads), NEW t \in Threads,
         NEW r, NEW k, InsertedAt(prio, ls, t, r, k), Descending(prio, ls)
  PROVE  Descending(prio, r)
<1>1. \A i \in 1 .. Len(ls) : prio[ls[i]] \in Nat
  BY DEF All
<1>2. prio[t] \in Nat
  BY DEF All
<1>3. \A i \in 1 .. Len(ls) : i >= k => prio[ls[i]] < prio[t]
  <2> SUFFICES ASSUME NEW i \in 1 .. Len(ls), i >= k PROVE prio[ls[i]] < prio[t]
    OBVIOUS
  <2>1. k \in 1 .. Len(ls) /\ prio[ls[k]] < prio[t]
    BY DEF InsertedAt
  <2>2. i = k \/ prio[ls[k]] >= prio[ls[i]]
    BY <2>1 DEF Descending
  <2> QED
    BY <1>1, <1>2, <2>1, <2>2
<1>4. \A i \in 1 .. Len(ls) : i < k => prio[ls[i]] >= prio[t]
  BY DEF InsertedAt
<1> SUFFICES ASSUME NEW i \in 1 .. Len(r), NEW j \in 1 .. Len(r), i < j
             PROVE  prio[r[i]] >= prio[r[j]]
  BY DEF Descending
<1>5. CASE j < k
  BY <1>5, SMTT(30) DEF Descending, InsertedAt
<1>6. CASE i > k
  <2>1. /\ r[i] = ls[i - 1] /\ r[j] = ls[j - 1]
        /\ i - 1 \in 1 .. Len(ls) /\ j - 1 \in 1 .. Len(ls) /\ i - 1 < j - 1
    BY <1>6 DEF InsertedAt
  <2> QED
    BY <2>1 DEF Descending
<1>7. CASE i < k /\ j > k
  <2>1. /\ r[i] = ls[i] /\ r[j] = ls[j - 1]
        /\ i \in 1 .. Len(ls) /\ j - 1 \in 1 .. Len(ls) /\ i <= j - 1
    BY <1>7 DEF InsertedAt
  <2> QED
    BY <1>1, <2>1 DEF Descending
<1>8. CASE i = k
  <2>1. r[i] = t /\ r[j] = ls[j - 1] /\ j - 1 \in 1 .. Len(ls) /\ j - 1 >= k
    BY <1>8 DEF InsertedAt
  <2> QED
    BY <1>1, <1>2, <1>3, <2>1
<1>9. CASE j = k
  <2>1. r[j] = t /\ r[i] = ls[i] /\ i \in 1 .. Len(ls)
    BY <1>9 DEF InsertedAt
  <2> QED
    BY <1>1, <1>2, <1>4, <1>9, <2>1
<1> QED
  BY <1>5, <1>6, <1>7, <1>8, <1>9 DEF InsertedAt

\* The four facts about insert_ordered_thread_priority the proofs cite.
LEMMA InsertProperties ==
  ASSUME NEW prio \in [All -> Nat], NEW ls \in Seq(Threads), NEW t \in Threads
  PROVE  /\ insert_ordered_thread_priority(prio, ls, t) \in Seq(Threads)
         /\ insert_ordered_thread_priority(prio, ls, t) # <<>>
         /\ ToSet(insert_ordered_thread_priority(prio, ls, t)) = ToSet(ls) \cup {t}
         /\ NoDuplicates(ls) /\ t \notin ToSet(ls)
              => NoDuplicates(insert_ordered_thread_priority(prio, ls, t))
         /\ Descending(prio, ls)
              => Descending(prio, insert_ordered_thread_priority(prio, ls, t))
<1> DEFINE r == insert_ordered_thread_priority(prio, ls, t)
<1>1. PICK k : InsertedAt(prio, ls, t, r, k)
  BY InsertPosition
<1> HIDE DEF r
<1>2. r \in Seq(Threads) /\ r # <<>>
  BY <1>1 DEF InsertedAt
<1>3. ToSet(r) = ToSet(ls) \cup {t}
  BY <1>1, InsertedSet
<1>4. NoDuplicates(ls) /\ t \notin ToSet(ls) => NoDuplicates(r)
  BY <1>1, InsertedOnce
<1>5. Descending(prio, ls) => Descending(prio, r)
  BY <1>1, InsertedSorted
<1> QED
  BY <1>2, <1>3, <1>4, <1>5 DEF r

----------------------------------------------------------------------------
(* The head and the tail of a sorted list without duplicates.             *)
LEMMA TailProperties ==
  ASSUME NEW prio \in [All -> Nat], NEW ls \in Seq(Threads), ls # <<>>
  PROVE  /\ Head(ls) \in Threads
         /\ Tail(ls) \in Seq(Threads)
         /\ ToSet(ls) = ToSet(Tail(ls)) \cup {Head(ls)}
         /\ NoDuplicates(ls) => NoDuplicates(Tail(ls)) /\ Head(ls) \notin ToSet(Tail(ls))
         /\ Descending(prio, ls) =>
              /\ Descending(prio, Tail(ls))
              /\ \A t \in ToSet(Tail(ls)) : prio[t] <= prio[Head(ls)]
<1> DEFINE h == Head(ls)
           tl == Tail(ls)
<1>1. /\ h \in Threads /\ h = ls[1] /\ tl \in Seq(Threads) /\ Len(tl) = Len(ls) - 1
      /\ \A i \in 1 .. Len(tl) : tl[i] = ls[i + 1]
      /\ Len(ls) >= 1
  BY HeadTailProperties
<1> HIDE DEF h, tl
<1>2. ToSet(ls) = ToSet(tl) \cup {h}
  <2>1. ASSUME NEW e \in ToSet(ls) PROVE e \in ToSet(tl) \cup {h}
    <3>1. PICK i \in 1 .. Len(ls) : ls[i] = e
      BY <2>1, ToSetIndex
    <3>2. i > 1 => i - 1 \in 1 .. Len(tl) /\ tl[i - 1] = e
      BY <1>1, <3>1
    <3> QED
      BY <1>1, <3>1, <3>2, ToSetIndex
  <2>2. ASSUME NEW e \in ToSet(tl) PROVE e \in ToSet(ls)
    <3>1. PICK i \in 1 .. Len(tl) : tl[i] = e
      BY <1>1, <2>2, ToSetIndex
    <3>2. i + 1 \in 1 .. Len(ls) /\ ls[i + 1] = e
      BY <1>1, <3>1
    <3> QED
      BY <3>2, ToSetIndex
  <2>3. h \in ToSet(ls)
    BY <1>1, ToSetIndex
  <2> QED
    BY <2>1, <2>2, <2>3
<1>3. ASSUME NoDuplicates(ls) PROVE NoDuplicates(tl) /\ h \notin ToSet(tl)
  <2>1. NoDuplicates(tl)
    BY <1>1, <1>3 DEF NoDuplicates
  <2>2. ASSUME h \in ToSet(tl) PROVE FALSE
    <3>1. PICK i \in 1 .. Len(tl) : tl[i] = h
      BY <1>1, <2>2, ToSetIndex
    <3> QED
      BY <1>1, <1>3, <3>1 DEF NoDuplicates
  <2> QED
    BY <2>1, <2>2
<1>4. ASSUME Descending(prio, ls)
      PROVE  Descending(prio, tl) /\ \A t \in ToSet(tl) : prio[t] <= prio[h]
  <2>1. Descending(prio, tl)
    BY <1>1, <1>4, SMTT(30) DEF Descending
  <2>2. ASSUME NEW t \in ToSet(tl) PROVE prio[t] <= prio[h]
    <3>1. PICK i \in 1 .. Len(tl) : tl[i] = t
      BY <1>1, <2>2, ToSetIndex
    <3>2. prio[ls[1]] >= prio[ls[i + 1]]
      BY <1>1, <1>4, <3>1 DEF Descending
    <3>3. prio[h] \in Nat /\ prio[t] \in Nat
      BY <1>1, <3>1 DEF All
    <3> QED
      BY <1>1, <3>1, <3>2, <3>3
  <2> QED
    BY <2>1, <2>2
<1> QED
  BY <1>1, <1>2, <1>3, <1>4 DEF h, tl

----------------------------------------------------------------------------
\* schedule() leaves a consistent scheduler in which the running thread is of
\* the highest priority, and blocks or unblocks nobody.
LEMMA ScheduleProperties ==
  ASSUME NEW prio \in [All -> Nat], NEW rl, NEW st \in [All -> Status],
         ListOK(prio, rl, st), running \in All,
         \A t \in All : st[t] # "RUNNING",
         schedule(rl, st)
  PROVE  /\ SchedulerOK(prio, ready_list', status', running')
         /\ Outranked(prio, ready_list', running')
         /\ running' \in All /\ status' \in [All -> Status] /\ thread_ticks' = 0
         /\ \A t \in Threads : status'[t] = "BLOCKED" <=> st[t] = "BLOCKED"
         /\ \A t \in Threads :
              status'[t] \in {"FREE", "DYING"} <=> st[t] \in {"FREE", "DYING"}
<1>1. CASE rl = <<>>
  <2>1. /\ running' = Idle /\ ready_list' = <<>> /\ thread_ticks' = 0
        /\ status' = [t \in All |->
              IF t = Idle THEN "RUNNING"
              ELSE IF t = running /\ st[t] = "DYING" /\ t # Main THEN "FREE"
              ELSE st[t]]
    BY <1>1 DEF schedule
  <2>2. \A t \in Threads : t \in All /\ t # Idle
    BY ThreadsAssumption DEF All
  <2> QED
    BY <1>1, <2>1, <2>2 DEF SchedulerOK, ListOK, Outranked, Status, All
<1>2. CASE rl # <<>>
  <2>1. /\ running' = Head(rl) /\ ready_list' = Tail(rl) /\ thread_ticks' = 0
        /\ status' = [t \in All |->
              IF t = Head(rl) THEN "RUNNING"
              ELSE IF t = running /\ st[t] = "DYING" /\ t # Main THEN "FREE"
              ELSE st[t]]
    BY <1>2 DEF schedule
  <2>2. /\ Head(rl) \in Threads
        /\ Tail(rl) \in Seq(Threads)
        /\ ToSet(rl) = ToSet(Tail(rl)) \cup {Head(rl)}
        /\ NoDuplicates(Tail(rl)) /\ Head(rl) \notin ToSet(Tail(rl))
        /\ Descending(prio, Tail(rl))
        /\ \A t \in ToSet(Tail(rl)) : prio[t] <= prio[Head(rl)]
    BY <1>2, TailProperties DEF ListOK
  <2>3. \A t \in Threads : t \in All /\ t # Idle
    BY ThreadsAssumption DEF All
  <2>4. st[Head(rl)] = "READY"
    BY <2>2 DEF ListOK
  <2>5. ListOK(prio, ready_list', status')
    BY <2>1, <2>2, <2>3 DEF ListOK
  <2> QED
    BY <2>1, <2>2, <2>3, <2>4, <2>5 DEF SchedulerOK, Outranked, Status
<1> QED
  BY <1>1, <1>2

\* The same of thread_yield: the running thread joins the READY ones.
LEMMA YieldProperties ==
  ASSUME NEW prio \in [All -> Nat], NEW rl, NEW st \in [All -> Status],
         SchedulerOK(prio, rl, st, running), running \in All,
         yield(prio, rl, st)
  PROVE  /\ SchedulerOK(prio, ready_list', status', running')
         /\ Outranked(prio, ready_list', running')
         /\ running' \in All /\ status' \in [All -> Status] /\ thread_ticks' = 0
         /\ \A t \in Threads : status'[t] = "BLOCKED" <=> st[t] = "BLOCKED"
         /\ \A t \in Threads :
              status'[t] \in {"FREE", "DYING"} <=> st[t] \in {"FREE", "DYING"}
<1> DEFINE rl2 == IF running = Idle THEN rl
                  ELSE insert_ordered_thread_priority(prio, rl, running)
           st2 == [st EXCEPT ![running] = "READY"]
<1>1. st2 \in [All -> Status] /\ \A t \in All : st2[t] # "RUNNING"
  BY DEF SchedulerOK, Status
<1>2. ListOK(prio, rl2, st2)
  <2>1. CASE running = Idle
    BY <2>1, ThreadsAssumption DEF SchedulerOK, ListOK, All
  <2>2. CASE running # Idle
    <3>1. running \in Threads /\ running \notin ToSet(rl)
      BY <2>2 DEF SchedulerOK, ListOK, All
    <3>2. /\ rl2 \in Seq(Threads) /\ NoDuplicates(rl2) /\ Descending(prio, rl2)
          /\ ToSet(rl2) = ToSet(rl) \cup {running}
      BY <2>2, <3>1, InsertProperties DEF SchedulerOK, ListOK
    <3> HIDE DEF rl2
    <3> QED
      BY <3>1, <3>2 DEF SchedulerOK, ListOK, All
  <2> QED
    BY <2>1, <2>2
<1>3. schedule(rl2, st2)
  BY DEF yield
<1>4. \A t \in Threads : t \in All
  BY DEF All
<1> HIDE DEF rl2
<1>5. /\ SchedulerOK(prio, ready_list', status', running')
      /\ Outranked(prio, ready_list', running')
      /\ running' \in All /\ status' \in [All -> Status] /\ thread_ticks' = 0
      /\ \A t \in Threads : status'[t] = "BLOCKED" <=> st2[t] = "BLOCKED"
      /\ \A t \in Threads :
           status'[t] \in {"FREE", "DYING"} <=> st2[t] \in {"FREE", "DYING"}
  <2> HIDE DEF st2
  <2> QED
    BY <1>1, <1>2, <1>3, ScheduleProperties
<1>6. \A t \in Threads : /\ st2[t] = "BLOCKED" <=> st[t] = "BLOCKED"
                         /\ st2[t] \in {"FREE", "DYING"} <=> st[t] \in {"FREE", "DYING"}
  BY <1>4 DEF SchedulerOK
<1> QED
  BY <1>5, <1>6

\* thread_unblock of a blocked thread makes that thread READY, or RUNNING,
\* and blocks or unblocks no other; it leaves no ready thread outranking the
\* running one unless it panics.
LEMMA UnblockProperties ==
  ASSUME NEW prio \in [All -> Nat], NEW st \in [All -> Status],
         SchedulerOK(prio, ready_list, st, running), running \in All,
         Outranked(prio, ready_list, running), thread_ticks \in 0 .. TIME_SLICE,
         NEW t \in Threads, st[t] = "BLOCKED", NEW in_intr \in BOOLEAN,
         unblock(prio, st, t, in_intr)
  PROVE  /\ SchedulerOK(prio, ready_list', status', running')
         /\ \/ panic' = "yield_in_interrupt"
            \/ Outranked(prio, ready_list', running') /\ panic' = panic
         /\ running' \in All /\ status' \in [All -> Status]
         /\ thread_ticks' \in 0 .. TIME_SLICE
         /\ \A u \in Threads : status'[u] = "BLOCKED" <=> st[u] = "BLOCKED" /\ u # t
         /\ \A u \in Threads :
              status'[u] \in {"FREE", "DYING"} <=> st[u] \in {"FREE", "DYING"}
<1> DEFINE rl == insert_ordered_thread_priority(prio, ready_list, t)
           st2 == [st EXCEPT ![t] = "READY"]
<1>1. t \in All /\ t # Idle /\ t # running /\ t \notin ToSet(ready_list)
  BY ThreadsAssumption DEF All, SchedulerOK, ListOK
<1>2. /\ rl \in Seq(Threads) /\ NoDuplicates(rl) /\ Descending(prio, rl)
      /\ ToSet(rl) = ToSet(ready_list) \cup {t}
  BY <1>1, InsertProperties DEF SchedulerOK, ListOK
<1>3. st2 \in [All -> Status]
  BY DEF Status
<1> HIDE DEF rl
<1>4. SchedulerOK(prio, rl, st2, running)
  BY <1>1, <1>2 DEF SchedulerOK, ListOK, All
<1>5. \A u \in Threads : /\ st2[u] = "BLOCKED" <=> st[u] = "BLOCKED" /\ u # t
                         /\ st2[u] \in {"FREE", "DYING"} <=> st[u] \in {"FREE", "DYING"}
  BY DEF All
<1> DEFINE preempts == prio[t] > prio[running] /\ running # Idle
<1>6. CASE preempts /\ in_intr
  <2>1. Panic("yield_in_interrupt", rl, st2)
    BY <1>6 DEF unblock, rl
  <2> QED
    BY <1>3, <1>4, <1>5, <2>1 DEF Panic
<1>7. CASE preempts /\ ~in_intr
  <2>1. yield(prio, rl, st2) /\ panic' = panic
    BY <1>7 DEF unblock, rl
  <2>2. /\ SchedulerOK(prio, ready_list', status', running')
        /\ Outranked(prio, ready_list', running')
        /\ running' \in All /\ status' \in [All -> Status] /\ thread_ticks' = 0
        /\ \A u \in Threads : status'[u] = "BLOCKED" <=> st2[u] = "BLOCKED"
        /\ \A u \in Threads :
             status'[u] \in {"FREE", "DYING"} <=> st2[u] \in {"FREE", "DYING"}
    <3> HIDE DEF st2
    <3> QED
      BY <1>3, <1>4, <2>1, YieldProperties
  <2>3. thread_ticks' \in 0 .. TIME_SLICE
    BY <2>2, ThreadsAssumption
  <2> QED
    BY <1>5, <2>1, <2>2, <2>3
<1>8. CASE ~preempts
  <2>1. /\ ready_list' = rl /\ status' = st2 /\ panic' = panic
        /\ running' = running /\ thread_ticks' = thread_ticks
    BY <1>8 DEF unblock, rl
  <2>2. Outranked(prio, rl, running)
    <3>1. prio[t] \in Nat /\ prio[running] \in Nat
      BY <1>1
    <3> QED
      BY <1>2, <1>8, <3>1 DEF Outranked
  <2> QED
    BY <1>3, <1>4, <1>5, <2>1, <2>2
<1> QED
  BY <1>6, <1>7, <1>8

----------------------------------------------------------------------------

\* The waiters of s are the threads blocked in its loop, once, by priority.
QueueOK(s) ==
  /\ NoDuplicates(waiters[s])
  /\ Descending(priority, waiters[s])
  /\ \A t \in Threads :
       t \in ToSet(waiters[s]) <=> status[t] = "BLOCKED" /\ wait_on[t] = s

\* A free page, or the dead main thread, is in no semaphore's loop.
DeadWaitNowhere ==
  \A t \in Threads : status[t] \in {"FREE", "DYING"} => wait_on[t] = NoSema

\* The inductive invariant: the lists mirror status and wait_on, the running
\* thread is unique and unoutranked.
IInv ==
  /\ TypeOK
  /\ SchedulerOK(priority, ready_list, status, running)
  /\ panic = "none" => Outranked(priority, ready_list, running)
  /\ \A s \in Semas : QueueOK(s)
  /\ DeadWaitNowhere
  /\ panic # "not_blocked"

----------------------------------------------------------------------------
\* Priorities are natural numbers.
LEMMA PriorityNat == ASSUME TypeOK PROVE priority \in [All -> Nat]
<1>1. \A p \in Priorities \cup {0} : p \in Nat
  BY ThreadsAssumption
<1> QED
  BY <1>1 DEF TypeOK, ThreadsTypeOK

\* The running thread, when it is not idle, is one of Threads.
LEMMA RunningThread == ASSUME TypeOK, running # Idle PROVE running \in Threads
BY DEF TypeOK, ThreadsTypeOK, All

\* A step that blocks and unblocks nobody, and changes no priority of a
\* blocked thread, keeps the queues.
LEMMA QueuesKept ==
  ASSUME TypeOK, \A s \in Semas : QueueOK(s),
         waiters' = waiters, wait_on' = wait_on,
         \A t \in Threads : status'[t] = "BLOCKED" <=> status[t] = "BLOCKED",
         \A t \in Threads : status[t] = "BLOCKED" => priority'[t] = priority[t]
  PROVE  \A s \in Semas : QueueOK(s)'
<1> SUFFICES ASSUME NEW s \in Semas PROVE QueueOK(s)'
  OBVIOUS
<1>1. waiters[s] \in Seq(Threads)
  BY DEF TypeOK
<1>2. \A i \in 1 .. Len(waiters[s]) : priority'[waiters[s][i]] = priority[waiters[s][i]]
  <2> SUFFICES ASSUME NEW i \in 1 .. Len(waiters[s])
               PROVE  priority'[waiters[s][i]] = priority[waiters[s][i]]
    OBVIOUS
  <2>1. waiters[s][i] \in Threads /\ waiters[s][i] \in ToSet(waiters[s])
    BY <1>1, ToSetIndex
  <2> QED
    BY <2>1 DEF QueueOK
<1>3. Descending(priority, waiters[s])'
  BY <1>2 DEF QueueOK, Descending
<1> QED
  BY <1>3 DEF QueueOK

\* The initial state satisfies the invariant.
LEMMA InitIInv == Init => IInv
<1> SUFFICES ASSUME Init PROVE IInv
  OBVIOUS
<1> USE ThreadsAssumption, SemaphoreAssumption
<1>0. Main \in All /\ Idle \in All /\ Main # Idle
  BY DEF All
<1>1. status \in [All -> Status] /\ status[Main] = "RUNNING"
      /\ (\A t \in All : status[t] = "RUNNING" <=> t = Main)
      /\ (\A t \in Threads : status[t] # "READY" /\ status[t] # "BLOCKED")
  BY <1>0 DEF Init, ThreadsInit, Status, All
<1>2. ready_list \in Seq(Threads) /\ ToSet(ready_list) = {} /\ Len(ready_list) = 0
  BY DEF Init, ThreadsInit, ToSet
<1>3. TypeOK
  <2>1. priority \in [All -> Priorities \cup {0}]
    BY DEF Init, ThreadsInit
  <2>2. value \in [Semas -> 0 .. MaxValue]
    BY DEF Init
  <2> QED
    BY <1>0, <1>1, <1>2, <2>1, <2>2 DEF Init, ThreadsInit, TypeOK, ThreadsTypeOK
<1>4. SchedulerOK(priority, ready_list, status, running)
  BY <1>0, <1>1, <1>2 DEF SchedulerOK, ListOK, NoDuplicates, Descending, Init, ThreadsInit
<1>5. Outranked(priority, ready_list, running)
  BY <1>2 DEF Outranked
<1>6. \A s \in Semas : QueueOK(s)
  BY <1>1 DEF QueueOK, Init, NoDuplicates, Descending, ToSet
<1>7. DeadWaitNowhere /\ panic = "none"
  BY DEF DeadWaitNowhere, Init, ThreadsInit
<1> QED
  BY <1>3, <1>4, <1>5, <1>6, <1>7 DEF IInv

----------------------------------------------------------------------------
\* semaphore_down: the thread leaves the loop with a unit, or blocks.
LEMMA DownStep ==
  ASSUME IInv, NEW s \in Semas, semaphore_down(s)
  PROVE  IInv'
<1> USE DEF IInv
<1>1. running \in Threads /\ panic = "none"
  BY RunningThread DEF semaphore_down
<1>2. priority \in [All -> Nat]
  BY PriorityNat
<1>3. status[running] = "RUNNING"
  BY <1>1 DEF SchedulerOK, All
<1>4. running \notin ToSet(waiters[s])
  BY <1>1, <1>3 DEF QueueOK
<1>5. CASE value[s] = 0
  <2> DEFINE st == [status EXCEPT ![running] = "BLOCKED"]
             q == insert_ordered_thread_priority(priority, waiters[s], running)
  <2>1. /\ waiters' = [waiters EXCEPT ![s] = q]
        /\ wait_on' = [wait_on EXCEPT ![running] = s]
        /\ schedule(ready_list, st)
        /\ UNCHANGED <<priority, panic, value, halted>>
    BY <1>5 DEF semaphore_down, thread_block, TypeOK
  <2>2. /\ q \in Seq(Threads) /\ NoDuplicates(q) /\ Descending(priority, q)
        /\ ToSet(q) = ToSet(waiters[s]) \cup {running}
    BY <1>1, <1>2, <1>4, InsertProperties, SMTT(30) DEF QueueOK, TypeOK
  <2> HIDE DEF q
  <2>3. st \in [All -> Status] /\ (\A t \in All : st[t] # "RUNNING")
    BY DEF TypeOK, ThreadsTypeOK, SchedulerOK, Status
  <2>4. ListOK(priority, ready_list, st)
    BY <1>1, <1>3 DEF SchedulerOK, ListOK, TypeOK, ThreadsTypeOK, All
  <2>5. \A t \in Threads : t \in All
    BY DEF All
  <2>6. /\ \A t \in Threads : st[t] = "BLOCKED" <=> status[t] = "BLOCKED" \/ t = running
        /\ \A t \in Threads : st[t] \in {"FREE", "DYING"} <=> status[t] \in {"FREE", "DYING"}
    BY <1>3, <2>5 DEF TypeOK, ThreadsTypeOK
  <2>7. /\ SchedulerOK(priority, ready_list', status', running')
        /\ Outranked(priority, ready_list', running')
        /\ running' \in All /\ status' \in [All -> Status] /\ thread_ticks' = 0
        /\ \A t \in Threads : status'[t] = "BLOCKED" <=> st[t] = "BLOCKED"
        /\ \A t \in Threads :
             status'[t] \in {"FREE", "DYING"} <=> st[t] \in {"FREE", "DYING"}
    <3> HIDE DEF st
    <3> QED
      BY <1>2, <2>1, <2>3, <2>4, ScheduleProperties DEF TypeOK, ThreadsTypeOK
  <2> HIDE DEF st
  <2>8. TypeOK'
    <3>1. ready_list' \in Seq(Threads) /\ thread_ticks' \in 0 .. TIME_SLICE
      BY <2>7, ThreadsAssumption DEF SchedulerOK, ListOK
    <3>2. waiters' \in [Semas -> Seq(Threads)] /\ wait_on' \in [Threads -> Semas \cup {NoSema}]
      BY <1>1, <2>1, <2>2 DEF TypeOK
    <3> QED
      BY <2>1, <2>7, <3>1, <3>2 DEF TypeOK, ThreadsTypeOK
  <2>9. ASSUME NEW r \in Semas PROVE QueueOK(r)'
    <3>1. CASE r = s
      <4>1. waiters'[r] = q
        BY <2>1, <3>1 DEF TypeOK
      <4>2. \A t \in Threads : wait_on'[t] = IF t = running THEN s ELSE wait_on[t]
        BY <1>1, <2>1 DEF TypeOK
      <4> QED
        BY <2>1, <2>2, <2>6, <2>7, <3>1, <4>1, <4>2 DEF QueueOK
    <3>2. CASE r # s
      <4>1. waiters'[r] = waiters[r]
        BY <2>1, <3>2 DEF TypeOK
      <4>2. \A t \in Threads : wait_on'[t] = IF t = running THEN s ELSE wait_on[t]
        BY <1>1, <2>1 DEF TypeOK
      <4> QED
        BY <1>3, <2>1, <2>6, <2>7, <3>2, <4>1, <4>2 DEF QueueOK
    <3> QED
      BY <3>1, <3>2
  <2>10. DeadWaitNowhere'
    BY <1>1, <1>3, <2>1, <2>6, <2>7 DEF DeadWaitNowhere, TypeOK
  <2> QED
    BY <1>1, <2>1, <2>7, <2>8, <2>9, <2>10
<1>6. CASE value[s] # 0
  <2>1. /\ value' = [value EXCEPT ![s] = @ - 1] /\ value[s] > 0
        /\ wait_on' = [wait_on EXCEPT ![running] = NoSema]
        /\ UNCHANGED <<threadVars, waiters, halted>>
    BY <1>6 DEF semaphore_down
  <2>2. TypeOK'
    <3>1. value[s] - 1 \in 0 .. MaxValue
      BY <2>1, SemaphoreAssumption DEF TypeOK
    <3>2. value' \in [Semas -> 0 .. MaxValue] /\ wait_on' \in [Threads -> Semas \cup {NoSema}]
      BY <1>1, <2>1, <3>1 DEF TypeOK
    <3> QED
      BY <2>1, <3>2 DEF TypeOK, ThreadsTypeOK, threadVars
  <2>3. \A t \in Threads : wait_on'[t] = IF t = running THEN NoSema ELSE wait_on[t]
    BY <1>1, <2>1 DEF TypeOK
  <2>4. \A r \in Semas : QueueOK(r)'
    BY <1>3, <2>1, <2>3 DEF QueueOK, threadVars
  <2>5. DeadWaitNowhere'
    BY <2>1, <2>3 DEF DeadWaitNowhere, threadVars
  <2> QED
    BY <2>1, <2>2, <2>4, <2>5 DEF threadVars
<1> QED
  BY <1>5, <1>6

\* up: the unit is added and the first waiter, if any, is unblocked.
LEMMA UpStep ==
  ASSUME IInv, panic = "none", NEW s \in Semas, NEW in_intr \in BOOLEAN,
         up(s, in_intr), halted' \in BOOLEAN
  PROVE  IInv'
<1> USE DEF IInv
<1>1. priority \in [All -> Nat]
  BY PriorityNat
<1>2. value' \in [Semas -> 0 .. MaxValue]
  <2>1. value[s] + 1 \in 0 .. MaxValue
    BY SemaphoreAssumption DEF up, TypeOK
  <2> QED
    BY <2>1 DEF up, TypeOK
<1>3. CASE waiters[s] = <<>>
  <2>1. UNCHANGED <<threadVars, waiters, wait_on>>
    BY <1>3 DEF up
  <2>2. TypeOK'
    BY <1>2, <2>1 DEF TypeOK, ThreadsTypeOK, threadVars
  <2>3. \A r \in Semas : QueueOK(r)'
    BY <2>1 DEF QueueOK, threadVars
  <2> QED
    BY <2>1, <2>2, <2>3 DEF threadVars, DeadWaitNowhere
<1>4. CASE waiters[s] # <<>>
  <2> DEFINE h == Head(waiters[s])
             q == Tail(waiters[s])
  <2>1. /\ waiters' = [waiters EXCEPT ![s] = q]
        /\ unblock(priority, status, h, in_intr)
        /\ UNCHANGED <<priority, wait_on>>
    BY <1>4 DEF up, thread_unblock, TypeOK
  <2>2. waiters[s] \in Seq(Threads)
    BY DEF TypeOK
  <2>3. /\ h \in Threads /\ q \in Seq(Threads)
        /\ ToSet(waiters[s]) = ToSet(q) \cup {h}
        /\ NoDuplicates(q) /\ h \notin ToSet(q) /\ Descending(priority, q)
    BY <1>1, <1>4, <2>2, TailProperties DEF QueueOK
  <2> HIDE DEF h, q
  <2>4. status[h] = "BLOCKED" /\ wait_on[h] = s
    BY <2>3 DEF QueueOK
  <2>5. /\ SchedulerOK(priority, ready_list', status', running')
        /\ \/ panic' = "yield_in_interrupt"
           \/ Outranked(priority, ready_list', running') /\ panic' = panic
        /\ running' \in All /\ status' \in [All -> Status]
        /\ thread_ticks' \in 0 .. TIME_SLICE
        /\ \A u \in Threads : status'[u] = "BLOCKED" <=> status[u] = "BLOCKED" /\ u # h
        /\ \A u \in Threads :
             status'[u] \in {"FREE", "DYING"} <=> status[u] \in {"FREE", "DYING"}
    <3>1. /\ status \in [All -> Status] /\ running \in All
          /\ thread_ticks \in 0 .. TIME_SLICE
          /\ SchedulerOK(priority, ready_list, status, running)
          /\ Outranked(priority, ready_list, running)
      BY DEF TypeOK, ThreadsTypeOK
    <3>2. h \in Threads /\ unblock(priority, status, h, in_intr)
      BY <2>1, <2>3
    <3> HIDE DEF IInv
    <3> QED
      BY <1>1, <2>4, <3>1, <3>2, UnblockProperties
  <2>6. TypeOK'
    <3>1. ready_list' \in Seq(Threads) /\ waiters' \in [Semas -> Seq(Threads)]
      BY <2>1, <2>3, <2>5 DEF SchedulerOK, ListOK, TypeOK
    <3> QED
      BY <1>2, <2>1, <2>5, <3>1 DEF TypeOK, ThreadsTypeOK
  <2>7. ASSUME NEW r \in Semas PROVE QueueOK(r)'
    <3>1. CASE r = s
      <4>1. waiters'[r] = q
        BY <2>1, <3>1 DEF TypeOK
      <4> QED
        BY <2>1, <2>3, <2>5, <3>1, <4>1 DEF QueueOK
    <3>2. CASE r # s
      <4>1. waiters'[r] = waiters[r]
        BY <2>1, <3>2 DEF TypeOK
      <4> QED
        BY <2>1, <2>4, <2>5, <3>2, <4>1 DEF QueueOK
    <3> QED
      BY <3>1, <3>2
  <2>8. DeadWaitNowhere'
    BY <2>1, <2>5 DEF DeadWaitNowhere
  <2> QED
    BY <2>1, <2>5, <2>6, <2>7, <2>8
<1> QED
  BY <1>3, <1>4

\* A context switch that blocks nobody: thread_yield with the priorities of
\* the next state, those of the threads that are not running unchanged.
LEMMA YieldStep ==
  ASSUME IInv, panic = "none", yield(priority', ready_list, status),
         priority' \in [All -> Priorities \cup {0}],
         \A t \in Threads : t # running => priority'[t] = priority[t],
         UNCHANGED <<panic, semaVars>>, halted' \in BOOLEAN
  PROVE  IInv'
<1> USE DEF IInv
<1>1. priority' \in [All -> Nat]
  <2>1. \A p \in Priorities \cup {0} : p \in Nat
    BY ThreadsAssumption
  <2> QED
    BY <2>1
<1>2. running \in All /\ status \in [All -> Status]
  BY DEF TypeOK, ThreadsTypeOK
<1>3. SchedulerOK(priority', ready_list, status, running)
  <2>1. ASSUME NEW i \in 1 .. Len(ready_list)
        PROVE  priority'[ready_list[i]] = priority[ready_list[i]]
    <3>1. ready_list[i] \in Threads /\ ready_list[i] \in ToSet(ready_list)
      BY ToSetIndex DEF SchedulerOK, ListOK
    <3>2. status[ready_list[i]] = "READY" /\ status[running] = "RUNNING"
      BY <1>2, <3>1 DEF SchedulerOK, ListOK
    <3> QED
      BY <3>1, <3>2
  <2>2. Descending(priority', ready_list)
    BY <2>1 DEF SchedulerOK, ListOK, Descending
  <2> QED
    BY <2>2 DEF SchedulerOK, ListOK
<1>4. /\ SchedulerOK(priority', ready_list', status', running')
      /\ Outranked(priority', ready_list', running')
      /\ running' \in All /\ status' \in [All -> Status] /\ thread_ticks' = 0
      /\ \A t \in Threads : status'[t] = "BLOCKED" <=> status[t] = "BLOCKED"
      /\ \A t \in Threads :
           status'[t] \in {"FREE", "DYING"} <=> status[t] \in {"FREE", "DYING"}
  BY <1>1, <1>2, <1>3, YieldProperties
<1>5. TypeOK'
  <2>1. ready_list' \in Seq(Threads) /\ thread_ticks' \in 0 .. TIME_SLICE
    BY <1>4, ThreadsAssumption DEF SchedulerOK, ListOK
  <2> QED
    BY <1>4, <2>1 DEF TypeOK, ThreadsTypeOK, semaVars
<1>6. \A t \in Threads : status[t] = "BLOCKED" => priority'[t] = priority[t]
  BY <1>2 DEF SchedulerOK, All
<1>7. \A s \in Semas : QueueOK(s)'
  BY <1>4, <1>6, QueuesKept DEF semaVars
<1>8. DeadWaitNowhere'
  BY <1>4 DEF DeadWaitNowhere, semaVars
<1> QED
  BY <1>4, <1>5, <1>7, <1>8

\* thread_create: the new thread joins the READY ones or runs at once.
LEMMA CreateStep ==
  ASSUME IInv, NEW u \in Threads, NEW p \in Priorities, thread_create(u, p)
  PROVE  IInv'
<1> USE DEF IInv
<1> DEFINE st == [status EXCEPT ![u] = "BLOCKED"]
<1>1. /\ panic = "none" /\ status[u] = "FREE" /\ wait_on[running] = NoSema
      /\ running # Idle
      /\ priority' = [priority EXCEPT ![u] = p]
      /\ unblock(priority', st, u, FALSE)
      /\ UNCHANGED <<semaVars, halted>>
  BY DEF thread_create, Preemptible
<1>2. priority' \in [All -> Priorities \cup {0}] /\ u \in All
  BY <1>1 DEF TypeOK, ThreadsTypeOK, All
<1>3. priority' \in [All -> Nat]
  <2>1. \A x \in Priorities \cup {0} : x \in Nat
    BY ThreadsAssumption
  <2> QED
    BY <1>2, <2>1
<1>4. running \in All /\ status \in [All -> Status] /\ st \in [All -> Status]
  BY DEF TypeOK, ThreadsTypeOK, Status
<1>5. \A t \in Threads : t # u => priority'[t] = priority[t] /\ st[t] = status[t]
  BY <1>1, <1>4 DEF TypeOK, ThreadsTypeOK, All
<1>6. u \notin ToSet(ready_list) /\ u # running
  BY <1>1, <1>2, <1>4 DEF SchedulerOK, ListOK
<1>7. SchedulerOK(priority', ready_list, st, running)
  <2>1. ASSUME NEW i \in 1 .. Len(ready_list)
        PROVE  priority'[ready_list[i]] = priority[ready_list[i]]
    <3>1. ready_list[i] \in Threads /\ ready_list[i] \in ToSet(ready_list)
      BY ToSetIndex DEF SchedulerOK, ListOK
    <3> QED
      BY <1>5, <1>6, <3>1
  <2>2. Descending(priority', ready_list)
    BY <2>1 DEF SchedulerOK, ListOK, Descending
  <2>3. \A t \in Threads : st[t] = "READY" <=> t \in ToSet(ready_list)
    BY <1>2, <1>4, <1>5, <1>6 DEF SchedulerOK, ListOK
  <2>4. \A t \in All : st[t] = "RUNNING" <=> t = running
    BY <1>1, <1>4, <1>6 DEF SchedulerOK
  <2> QED
    BY <2>2, <2>3, <2>4 DEF SchedulerOK, ListOK
<1>8. Outranked(priority', ready_list, running)
  <2>1. running \in Threads
    BY <1>1, RunningThread
  <2>2. \A t \in ToSet(ready_list) : t \in Threads
    BY ToSetIndex DEF SchedulerOK, ListOK
  <2> QED
    BY <1>1, <1>5, <1>6, <2>1, <2>2 DEF Outranked
<1>9. st[u] = "BLOCKED"
  BY <1>2, <1>4
<1>10. \A t \in Threads : /\ st[t] = "BLOCKED" /\ t # u <=> status[t] = "BLOCKED"
                          /\ st[t] \in {"FREE", "DYING"} => status[t] \in {"FREE", "DYING"}
  BY <1>1, <1>5, <1>9
<1> HIDE DEF st
<1>11. /\ SchedulerOK(priority', ready_list', status', running')
       /\ \/ panic' = "yield_in_interrupt"
          \/ Outranked(priority', ready_list', running') /\ panic' = panic
       /\ running' \in All /\ status' \in [All -> Status]
       /\ thread_ticks' \in 0 .. TIME_SLICE
       /\ \A t \in Threads : status'[t] = "BLOCKED" <=> st[t] = "BLOCKED" /\ t # u
       /\ \A t \in Threads :
            status'[t] \in {"FREE", "DYING"} <=> st[t] \in {"FREE", "DYING"}
  <2>1. thread_ticks \in 0 .. TIME_SLICE /\ FALSE \in BOOLEAN
    BY DEF TypeOK, ThreadsTypeOK
  <2>2. unblock(priority', st, u, FALSE)
    BY <1>1
  <2> HIDE DEF IInv
  <2> QED
    BY <1>3, <1>4, <1>7, <1>8, <1>9, <2>1, <2>2, UnblockProperties
<1>12. TypeOK'
  <2>1. ready_list' \in Seq(Threads)
    BY <1>11 DEF SchedulerOK, ListOK
  <2> QED
    BY <1>1, <1>2, <1>11, <2>1 DEF TypeOK, ThreadsTypeOK, semaVars
<1>13. \A s \in Semas : QueueOK(s)'
  <2>1. \A t \in Threads : status'[t] = "BLOCKED" <=> status[t] = "BLOCKED"
    BY <1>10, <1>11
  <2>2. \A t \in Threads : status[t] = "BLOCKED" => priority'[t] = priority[t]
    BY <1>1, <1>5
  <2> QED
    BY <1>1, <2>1, <2>2, QueuesKept DEF semaVars
<1>14. DeadWaitNowhere'
  BY <1>1, <1>10, <1>11 DEF DeadWaitNowhere, semaVars
<1> QED
  BY <1>1, <1>11, <1>12, <1>13, <1>14

\* schedule() on the way out of the running thread, whose status st has
\* become DYING (thread_exit) or BLOCKED (the idle loop).
LEMMA LeaveStep ==
  ASSUME IInv, panic = "none", NEW how \in {"DYING", "BLOCKED"},
         how = "BLOCKED" => running = Idle,
         running # Idle => wait_on[running] = NoSema,
         schedule(ready_list, [status EXCEPT ![running] = how]),
         UNCHANGED <<priority, panic, semaVars>>, halted' \in BOOLEAN
  PROVE  IInv'
<1> USE DEF IInv
<1> DEFINE st == [status EXCEPT ![running] = how]
<1>1. priority \in [All -> Nat]
  BY PriorityNat
<1>2. running \in All /\ status \in [All -> Status] /\ status[running] = "RUNNING"
  BY DEF TypeOK, ThreadsTypeOK, SchedulerOK
<1>3. st \in [All -> Status] /\ (\A t \in All : st[t] # "RUNNING")
  BY <1>2 DEF SchedulerOK, Status
<1>4. ListOK(priority, ready_list, st)
  BY <1>2 DEF SchedulerOK, ListOK, All
<1>5. \A t \in Threads : t \in All /\ t # Idle
  BY ThreadsAssumption DEF All
<1>6. \A t \in Threads : st[t] = "BLOCKED" <=> status[t] = "BLOCKED"
  BY <1>2, <1>5
<1>7. \A t \in Threads : st[t] \in {"FREE", "DYING"} =>
                           status[t] \in {"FREE", "DYING"} \/ wait_on[t] = NoSema
  BY <1>2, <1>5
<1>8. /\ SchedulerOK(priority, ready_list', status', running')
      /\ Outranked(priority, ready_list', running')
      /\ running' \in All /\ status' \in [All -> Status] /\ thread_ticks' = 0
      /\ \A t \in Threads : status'[t] = "BLOCKED" <=> st[t] = "BLOCKED"
      /\ \A t \in Threads :
           status'[t] \in {"FREE", "DYING"} <=> st[t] \in {"FREE", "DYING"}
  <2>1. schedule(ready_list, st)
    OBVIOUS
  <2> HIDE DEF st, IInv
  <2> QED
    BY <1>1, <1>2, <1>3, <1>4, <2>1, ScheduleProperties
<1> HIDE DEF st
<1>9. TypeOK'
  <2>1. ready_list' \in Seq(Threads) /\ thread_ticks' \in 0 .. TIME_SLICE
    BY <1>8, ThreadsAssumption DEF SchedulerOK, ListOK
  <2> QED
    BY <1>8, <2>1 DEF TypeOK, ThreadsTypeOK, semaVars
<1>10. \A s \in Semas : QueueOK(s)'
  BY <1>6, <1>8, QueuesKept DEF semaVars
<1>11. DeadWaitNowhere'
  BY <1>7, <1>8 DEF DeadWaitNowhere, semaVars
<1> QED
  BY <1>8, <1>9, <1>10, <1>11

\* A step that changes no more than thread_ticks and halted.
LEMMA TickStep ==
  ASSUME IInv, thread_ticks' \in 0 .. TIME_SLICE, halted' \in BOOLEAN,
         UNCHANGED <<ready_list, status, priority, running, panic, semaVars>>
  PROVE  IInv'
<1>1. TypeOK'
  BY DEF IInv, TypeOK, ThreadsTypeOK, semaVars
<1>2. \A s \in Semas : QueueOK(s)'
  BY DEF IInv, QueueOK, semaVars
<1> QED
  BY <1>1, <1>2 DEF IInv, DeadWaitNowhere, semaVars

\* Every step preserves the invariant.
LEMMA NextIInv == IInv /\ [Next]_vars => IInv'
<1> SUFFICES ASSUME IInv, [Next]_vars PROVE IInv'
  OBVIOUS
<1>0. /\ halted \in BOOLEAN /\ thread_ticks \in 0 .. TIME_SLICE
      /\ priority \in [All -> Priorities \cup {0}]
  BY DEF IInv, TypeOK, ThreadsTypeOK
<1>1. ASSUME NEW s \in Semas, semaphore_down(s) PROVE IInv'
  BY <1>1, DownStep
<1>2. ASSUME NEW s \in Semas, semaphore_up(s) PROVE IInv'
  <2>1. panic = "none" /\ up(s, FALSE) /\ halted' \in BOOLEAN /\ FALSE \in BOOLEAN
    BY <1>0, <1>2 DEF semaphore_up, Preemptible
  <2> QED
    BY <2>1, UpStep
<1>3. ASSUME NEW s \in Semas, device_interrupt(s) PROVE IInv'
  <2>1. panic = "none" /\ up(s, TRUE) /\ halted' \in BOOLEAN /\ TRUE \in BOOLEAN
    BY <1>0, <1>3 DEF device_interrupt, InterruptsOn
  <2> QED
    BY <2>1, UpStep
<1>4. CASE yield_call
  <2>1. /\ panic = "none" /\ priority' = priority /\ halted' \in BOOLEAN
        /\ yield(priority', ready_list, status) /\ UNCHANGED <<panic, semaVars>>
    BY <1>0, <1>4 DEF yield_call, Preemptible, thread_yield
  <2> QED
    BY <1>0, <2>1, YieldStep
<1>5. ASSUME NEW p \in Priorities, thread_set_priority(p) PROVE IInv'
  <2>1. /\ panic = "none" /\ priority' = [priority EXCEPT ![running] = p]
        /\ halted' \in BOOLEAN
        /\ yield(priority', ready_list, status) /\ UNCHANGED <<panic, semaVars>>
    BY <1>0, <1>5 DEF thread_set_priority, Preemptible
  <2>2. /\ priority' \in [All -> Priorities \cup {0}]
        /\ \A t \in Threads : t # running => priority'[t] = priority[t]
    BY <1>0, <2>1 DEF All
  <2> QED
    BY <2>1, <2>2, YieldStep
<1>6. ASSUME NEW u \in Threads, NEW p \in Priorities, thread_create(u, p) PROVE IInv'
  BY <1>6, CreateStep
<1>7. CASE thread_exit
  <2>1. /\ panic = "none" /\ halted' \in BOOLEAN /\ wait_on[running] = NoSema
        /\ schedule(ready_list, [status EXCEPT ![running] = "DYING"])
        /\ UNCHANGED <<priority, panic, semaVars>>
    BY <1>0, <1>7 DEF thread_exit, Preemptible
  <2> QED
    BY <2>1, LeaveStep
<1>8. CASE timer_interrupt
  <2>1. /\ panic = "none" /\ halted' \in BOOLEAN
        /\ priority' = priority /\ UNCHANGED <<panic, semaVars>>
    BY <1>0, <1>8 DEF timer_interrupt, InterruptsOn
  <2>2. CASE thread_ticks + 1 >= TIME_SLICE
    <3>1. yield(priority', ready_list, status)
      BY <1>8, <2>1, <2>2 DEF timer_interrupt, thread_yield
    <3> QED
      BY <1>0, <2>1, <3>1, YieldStep
  <2>3. CASE ~ (thread_ticks + 1 >= TIME_SLICE)
    <3>1. thread_ticks' \in 0 .. TIME_SLICE /\ UNCHANGED <<ready_list, status, running>>
      BY <1>0, <1>8, <2>3, ThreadsAssumption DEF timer_interrupt
    <3> QED
      BY <2>1, <3>1, TickStep
  <2> QED
    BY <2>2, <2>3
<1>9. CASE idle
  <2>1. /\ panic = "none" /\ halted' \in BOOLEAN /\ running = Idle
        /\ schedule(ready_list, [status EXCEPT ![running] = "BLOCKED"])
        /\ UNCHANGED <<priority, panic, semaVars>>
    BY <1>9 DEF idle, thread_block
  <2> QED
    BY <2>1, LeaveStep
<1>10. CASE UNCHANGED vars
  BY <1>0, <1>10, TickStep DEF vars, threadVars
<1> QED
  BY <1>1, <1>2, <1>3, <1>4, <1>5, <1>6, <1>7, <1>8, <1>9, <1>10 DEF Next, Halt

\* The inductive invariant holds in every reachable state.
THEOREM Invariance == Spec => []IInv
BY InitIInv, NextIInv, PTL DEF Spec

\* Type correctness of the scheduler and of the semaphores.
THEOREM TypeCorrect == Spec => []TypeOK
<1>1. IInv => TypeOK
  BY DEF IInv
<1> QED
  BY Invariance, <1>1, PTL

\* Every thread is on the list its status calls for, and on no other.
THEOREM ListMembership == Spec => []ListsMatchStatus
<1>1. IInv => ListsMatchStatus
  BY DEF IInv, TypeOK, ThreadsTypeOK, SchedulerOK, ListOK, QueueOK, ListsMatchStatus
<1> QED
  BY Invariance, <1>1, PTL

\* All lists stay sorted by the priorities in force.
THEOREM ListOrder == Spec => []ListsSorted
<1>1. IInv => ListsSorted
  BY DEF IInv, SchedulerOK, ListOK, QueueOK, ListsSorted
<1> QED
  BY Invariance, <1>1, PTL

\* The lists are consistent: types, membership and order together.
THEOREM ListsAreConsistent == Spec => []ListsConsistent
<1>1. TypeOK /\ ListsMatchStatus /\ ListsSorted => ListsConsistent
  BY DEF ListsConsistent
<1> QED
  BY TypeCorrect, ListMembership, ListOrder, <1>1, PTL

\* Strict priority scheduling: no ready thread outranks the running one.
THEOREM PriorityScheduling == Spec => []RunningHighest
<1>1. IInv => RunningHighest
  BY DEF IInv, Outranked, RunningHighest
<1> QED
  BY Invariance, <1>1, PTL

----------------------------------------------------------------------------
\* The woken threads of a semaphore are finitely many.
LEMMA PendingFinite ==
  \A s \in Semas : IsFiniteSet(Pending(s)) /\ Cardinality(Pending(s)) \in Nat
<1> SUFFICES ASSUME NEW s \in Semas
             PROVE  IsFiniteSet(Pending(s)) /\ Cardinality(Pending(s)) \in Nat
  OBVIOUS
<1>1. Pending(s) \subseteq Threads
  BY DEF Pending
<1> QED
  BY <1>1, SemaphoreAssumption, FS_Subset, FS_CardinalityType

\* A unit is added together with a woken thread, and is taken together with
\* at most one.
LEMMA WakeupStep == IInv /\ NoLostWakeup /\ [Next]_vars => NoLostWakeup'
<1> SUFFICES ASSUME IInv, NoLostWakeup, [Next]_vars PROVE NoLostWakeup'
  OBVIOUS
<1>1. ASSUME UNCHANGED semaVars PROVE NoLostWakeup'
  BY <1>1 DEF NoLostWakeup, Pending, semaVars
<1>2. ASSUME NEW s \in Semas, NEW in_intr \in BOOLEAN, up(s, in_intr) PROVE NoLostWakeup'
  <2>1. /\ value' = [value EXCEPT ![s] = @ + 1] /\ wait_on' = wait_on
        /\ value \in [Semas -> 0 .. MaxValue] /\ waiters \in [Semas -> Seq(Threads)]
    BY <1>2 DEF up, IInv, TypeOK
  <2> SUFFICES ASSUME NEW r \in Semas, waiters'[r] # <<>>
               PROVE  Cardinality(Pending(r)') >= value'[r]
    BY DEF NoLostWakeup
  <2>2. CASE waiters[s] = <<>>
    <3>1. waiters' = waiters
      BY <1>2, <2>2 DEF up
    <3>2. r # s /\ Pending(r)' = Pending(r) /\ value'[r] = value[r]
      BY <2>1, <2>2, <3>1 DEF Pending
    <3> QED
      BY <3>1, <3>2 DEF NoLostWakeup
  <2>3. CASE waiters[s] # <<>> /\ r = s
    <3> DEFINE h == Head(waiters[s])
               q == Tail(waiters[s])
    <3>1. waiters'[s] = q
      BY <1>2, <2>1, <2>3 DEF up
    <3>2. h \in Threads /\ ToSet(waiters[s]) = ToSet(q) \cup {h} /\ h \notin ToSet(q)
      BY <2>1, <2>3, PriorityNat, TailProperties DEF IInv, QueueOK
    <3> HIDE DEF h, q
    <3>3. wait_on[h] = s
      BY <3>2 DEF IInv, QueueOK
    <3>4. h \notin Pending(s) /\ Pending(s)' = Pending(s) \cup {h}
      BY <2>1, <3>1, <3>2, <3>3 DEF Pending
    <3>5. Cardinality(Pending(s)') = Cardinality(Pending(s)) + 1
      BY <3>4, PendingFinite, FS_AddElement
    <3>6. Cardinality(Pending(s)) >= value[s]
      BY <2>3 DEF NoLostWakeup
    <3>7. value'[s] = value[s] + 1 /\ value[s] \in Nat
      BY <2>1
    <3> QED
      BY <2>3, <3>5, <3>6, <3>7, PendingFinite
  <2>4. CASE waiters[s] # <<>> /\ r # s
    <3>1. waiters'[r] = waiters[r] /\ value'[r] = value[r]
      BY <1>2, <2>1, <2>4 DEF up
    <3>2. Pending(r)' = Pending(r)
      BY <2>1, <3>1 DEF Pending
    <3> QED
      BY <3>1, <3>2 DEF NoLostWakeup
  <2> QED
    BY <2>2, <2>3, <2>4
<1>3. ASSUME NEW s \in Semas, semaphore_down(s) PROVE NoLostWakeup'
  <2>1. /\ value \in [Semas -> 0 .. MaxValue] /\ waiters \in [Semas -> Seq(Threads)]
        /\ wait_on \in [Threads -> Semas \cup {NoSema}]
        /\ running \in Threads /\ status[running] = "RUNNING"
        /\ wait_on[running] \in {NoSema, s}
    BY <1>3, RunningThread DEF semaphore_down, IInv, TypeOK, SchedulerOK, All
  <2> SUFFICES ASSUME NEW r \in Semas, waiters'[r] # <<>>
               PROVE  Cardinality(Pending(r)') >= value'[r]
    BY DEF NoLostWakeup
  <2>2. CASE value[s] = 0 /\ r = s
    <3>1. value' = value
      BY <1>3, <2>2 DEF semaphore_down
    <3>2. Cardinality(Pending(r)') \in Nat
      <4>1. Pending(r)' \subseteq Threads
        BY DEF Pending
      <4> QED
        BY <4>1, SemaphoreAssumption, FS_Subset, FS_CardinalityType
    <3> QED
      BY <2>2, <3>1, <3>2
  <2>3. CASE value[s] = 0 /\ r # s
    <3>1. /\ value' = value /\ waiters'[r] = waiters[r]
          /\ wait_on' = [wait_on EXCEPT ![running] = s]
      BY <1>3, <2>1, <2>3 DEF semaphore_down
    <3>2. Pending(r)' = Pending(r)
      BY <2>1, <2>3, <3>1, SemaphoreAssumption DEF Pending
    <3> QED
      BY <3>1, <3>2 DEF NoLostWakeup
  <2>4. CASE value[s] # 0
    <3>1. /\ value' = [value EXCEPT ![s] = @ - 1]
          /\ wait_on' = [wait_on EXCEPT ![running] = NoSema]
          /\ waiters' = waiters
      BY <1>3, <2>4 DEF semaphore_down
    <3>2. CASE r # s
      <4>1. Pending(r)' = Pending(r) /\ value'[r] = value[r]
        BY <2>1, <3>1, <3>2, SemaphoreAssumption DEF Pending
      <4> QED
        BY <3>1, <4>1 DEF NoLostWakeup
    <3>3. CASE r = s
      <4>1. Pending(s)' = Pending(s) \ {running}
        BY <2>1, <3>1, SemaphoreAssumption DEF Pending
      <4>2. Cardinality(Pending(s)') >= Cardinality(Pending(s)) - 1
        <5>1. CASE running \in Pending(s)
          <6>1. Cardinality(Pending(s) \ {running}) = Cardinality(Pending(s)) - 1
            BY <5>1, PendingFinite, FS_RemoveElement
          <6>2. Cardinality(Pending(s)) - 1 >= Cardinality(Pending(s)) - 1
            BY PendingFinite
          <6> QED
            BY <4>1, <6>1, <6>2
        <5>2. CASE running \notin Pending(s)
          <6>1. Pending(s)' = Pending(s)
            BY <4>1, <5>2
          <6> QED
            BY <6>1, PendingFinite
        <5> QED
          BY <5>1, <5>2
      <4>3. Cardinality(Pending(s)) >= value[s]
        BY <3>1, <3>3 DEF NoLostWakeup
      <4>4. value'[s] = value[s] - 1 /\ value[s] \in Nat
        BY <2>1, <3>1
      <4>5. Cardinality(Pending(s)') \in Nat /\ Cardinality(Pending(s)) \in Nat
        <5>1. Pending(s)' \subseteq Threads
          BY DEF Pending
        <5> QED
          BY <5>1, PendingFinite, SemaphoreAssumption, FS_Subset, FS_CardinalityType
      <4> QED
        BY <3>3, <4>2, <4>3, <4>4, <4>5
    <3> QED
      BY <3>2, <3>3
  <2> QED
    BY <2>2, <2>3, <2>4
<1>4. ASSUME NEW s \in Semas, semaphore_up(s) \/ device_interrupt(s) PROVE NoLostWakeup'
  BY <1>2, <1>4 DEF semaphore_up, device_interrupt
<1>5. CASE \/ yield_call \/ (\E p \in Priorities : thread_set_priority(p))
           \/ (\E u \in Threads, p \in Priorities : thread_create(u, p))
           \/ thread_exit \/ timer_interrupt \/ idle \/ UNCHANGED vars
  BY <1>1, <1>5 DEF yield_call, thread_set_priority, thread_create, thread_exit,
                    timer_interrupt, idle, vars
<1> QED
  BY <1>3, <1>4, <1>5 DEF Next, Halt

\* No up of a semaphore is lost, for any number of threads and semaphores.
THEOREM WakeupsDelivered == Spec => []NoLostWakeup
<1>1. Init => NoLostWakeup
  BY DEF Init, NoLostWakeup
<1> QED
  BY <1>1, WakeupStep, Invariance, PTL DEF Spec

\* semaphore_up serves the waiters by priority.
THEOREM PriorityWakeup == Spec => WakesFirstOfHighest
<1>1. IInv /\ [Next]_vars =>
        [\A s \in Semas : Len(waiters'[s]) < Len(waiters[s]) =>
           \A i \in 2 .. Len(waiters[s]) :
             /\ waiters[s][1] \notin ToSet(waiters'[s])
             /\ priority[waiters[s][i]] <= priority[waiters[s][1]]]_vars
  <2> SUFFICES ASSUME IInv, Next, NEW s \in Semas, Len(waiters'[s]) < Len(waiters[s]),
                      NEW i \in 2 .. Len(waiters[s])
               PROVE  /\ waiters[s][1] \notin ToSet(waiters'[s])
                      /\ priority[waiters[s][i]] <= priority[waiters[s][1]]
    OBVIOUS
  <2>1. waiters \in [Semas -> Seq(Threads)] /\ priority \in [All -> Nat] /\ QueueOK(s)
    BY PriorityNat DEF IInv, TypeOK
  <2>2. priority[waiters[s][1]] >= priority[waiters[s][i]]
    BY <2>1 DEF QueueOK, Descending
  <2>3. priority[waiters[s][1]] \in Nat /\ priority[waiters[s][i]] \in Nat
    BY <2>1 DEF All
  <2>4. waiters'[s] = Tail(waiters[s])
    <3>1. CASE UNCHANGED waiters
      BY <2>1, <3>1
    <3>2. ASSUME NEW r \in Semas, semaphore_down(r) PROVE waiters'[s] = Tail(waiters[s])
      <4>1. CASE value[r] = 0 /\ r = s
        <5>1. running \in Threads
          BY <3>2, RunningThread DEF semaphore_down, IInv
        <5>2. waiters'[s] = insert_ordered_thread_priority(priority, waiters[s], running)
          BY <2>1, <3>2, <4>1 DEF semaphore_down
        <5>3. Len(waiters'[s]) = Len(waiters[s]) + 1
          BY <2>1, <5>1, <5>2, InsertPosition DEF InsertedAt
        <5> QED
          BY <2>1, <5>3
      <4>2. CASE value[r] = 0 /\ r # s
        BY <2>1, <3>2, <4>2 DEF semaphore_down
      <4>3. CASE value[r] # 0
        BY <3>1, <3>2, <4>3 DEF semaphore_down
      <4> QED
        BY <4>1, <4>2, <4>3
    <3>3. ASSUME NEW r \in Semas, NEW in_intr \in BOOLEAN, up(r, in_intr)
          PROVE  waiters'[s] = Tail(waiters[s])
      <4>1. \/ waiters' = waiters
            \/ waiters' = [waiters EXCEPT ![r] = Tail(waiters[r])]
        BY <3>3 DEF up
      <4>2. CASE waiters' = [waiters EXCEPT ![r] = Tail(waiters[r])]
        <5>1. CASE r = s
          BY <2>1, <4>2, <5>1
        <5>2. CASE r # s
          <6>1. Len(waiters'[s]) = Len(waiters[s])
            BY <2>1, <4>2, <5>2
          <6> QED
            BY <2>1, <6>1
        <5> QED
          BY <5>1, <5>2
      <4> QED
        BY <3>1, <4>1, <4>2
    <3>4. ASSUME NEW r \in Semas, semaphore_up(r) \/ device_interrupt(r)
          PROVE  waiters'[s] = Tail(waiters[s])
      BY <3>3, <3>4 DEF semaphore_up, device_interrupt
    <3>5. CASE \/ yield_call \/ (\E p \in Priorities : thread_set_priority(p))
               \/ (\E u \in Threads, p \in Priorities : thread_create(u, p))
               \/ thread_exit \/ timer_interrupt \/ idle \/ Halt
      <4>1. UNCHANGED semaVars
        BY <3>5 DEF yield_call, thread_set_priority, thread_create, thread_exit,
                    timer_interrupt, idle, Halt, vars
      <4> QED
        BY <3>1, <4>1 DEF semaVars
    <3>6. \/ \E r \in Semas : semaphore_down(r) \/ semaphore_up(r) \/ device_interrupt(r)
          \/ yield_call \/ (\E p \in Priorities : thread_set_priority(p))
          \/ (\E u \in Threads, p \in Priorities : thread_create(u, p))
          \/ thread_exit \/ timer_interrupt \/ idle \/ Halt
      BY DEF Next
    <3> QED
      BY <3>2, <3>4, <3>5, <3>6
  <2>5. waiters[s] # <<>> /\ Head(waiters[s]) = waiters[s][1]
    BY <2>1
  <2>6. waiters[s][1] \notin ToSet(waiters'[s])
    BY <2>1, <2>4, <2>5, TailProperties DEF QueueOK
  <2> QED
    BY <2>2, <2>3, <2>6
<1> QED
  BY <1>1, Invariance, PTL DEF Spec, WakesFirstOfHighest
=============================================================================
