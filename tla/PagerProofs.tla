---------------------------- MODULE PagerProofs ----------------------------
(***************************************************************************)
(* Proofs about Pager, for every set of pages, number of frames and number *)
(* of requests.                                                            *)
(***************************************************************************)
EXTENDS Pager, FiniteSetTheorems, SequenceTheorems, WellFoundedInduction, TLAPS

NoDuplicates(q) == \A i, j \in 1 .. Len(q) : i # j => q[i] # q[j]

Times == [Pages -> Nat]

TypeInv ==
  /\ alg \in Algorithms /\ max_size \in Frames
  /\ queue \in Seq(Pages) /\ Len(queue) <= max_size
  /\ bit_refs \in [Pages -> 0 .. 1]
  /\ step \in 0 .. MaxRequests /\ live \in BOOLEAN
  /\ victim \in Pages \cup {NoPage}
  /\ freq_list \in Times /\ uses \in Times /\ last \in Times /\ loaded_at \in Times
  /\ requested_at \in Times /\ passed_at \in Times /\ requests \in Times /\ since_load \in Times

\* Nothing is counted or stamped that has not been requested yet.
StepInv ==
  \A p \in Pages :
    /\ freq_list[p] <= step /\ uses[p] <= step /\ last[p] <= step /\ loaded_at[p] <= step
    /\ requested_at[p] <= step /\ passed_at[p] <= step /\ requests[p] <= step
    /\ since_load[p] <= step

\* A page is resident once, has been requested, and is given up only when all
\* frames are in use.
QueueInv ==
  /\ NoDuplicates(queue)
  /\ \A p \in Resident : requests[p] > 0
  /\ live => \A p \in Pages \ Resident : requests[p] > 0 => Full

\* The queue is in the order of the times f, and all of it later than the
\* pages that are not in it.
InOrder(q, f) == \A i, j \in 1 .. Len(q) : i < j => f[q[i]] < f[q[j]]

OrderInv(f) ==
  /\ InOrder(queue, f)
  /\ \A p \in Resident, o \in Pages \ Resident : f[o] < f[p]

\* sort_freq: p comes before q.
Before(us, ls, p, q) == us[p] < us[q] \/ (us[p] = us[q] /\ ls[p] < ls[q])

\* LFU: struct freq_page holds what the history says, freq_list is zero for
\* the other pages, and the queue is sorted.
LfuInv ==
  /\ \A p \in Resident : uses[p] = since_load[p] /\ last[p] + 1 = requested_at[p]
  /\ \A p, q \in Resident : p # q => requested_at[p] # requested_at[q]
  /\ live => \A p \in Pages \ Resident : freq_list[p] = 0
  /\ \A i, j \in 1 .. Len(queue) : i < j => Before(uses, last, queue[i], queue[j])

\* The bit that earns a page a second chance.
chance_bit == IF alg = SECOND_CHANCE THEN 1 ELSE 0

\* The queue is in the order of the turns w.
InTurn(q, w) == \A i, j \in 1 .. Len(q) : i < j => w[q[i]] <= w[q[j]]

Turns == [p \in Pages |-> Turn(p)]

\* The clocks: the queue is in the order of the turns, the bit says whether
\* the page was referenced, and a page not resident starts without it.
ClockInv ==
  /\ InTurn(queue, Turns)
  /\ \A p \in Resident : bit_refs[p] = chance_bit <=> Referenced(p)
  /\ live /\ alg = SECOND_CHANCE => \A p \in Pages \ Resident : bit_refs[p] = 0

IInv ==
  /\ TypeInv /\ StepInv /\ QueueInv
  /\ alg = FIRST_IN_FIRST_OUT => OrderInv(loaded_at)
  /\ alg = LEAST_RECENTLY_USED => OrderInv(requested_at)
  /\ alg = LEAST_FREQUENTLY_USED => LfuInv
  /\ alg \in {SECOND_CHANCE, CIRCULAR_QUEUE} => ClockInv

----------------------------------------------------------------------------
(* The queue.                                                              *)

\* Membership in ToSet by index.
LEMMA ToSetIndex ==
  ASSUME NEW S, NEW q \in Seq(S), NEW e
  PROVE  e \in ToSet(q) <=> \E i \in 1 .. Len(q) : q[i] = e
<1>1. DOMAIN q = 1 .. Len(q)
  BY LenProperties
<1> QED  BY <1>1 DEF ToSet

LEMMA ToSetSubset ==
  ASSUME NEW S, NEW q \in Seq(S)
  PROVE  ToSet(q) \subseteq S
<1> SUFFICES ASSUME NEW e \in ToSet(q) PROVE e \in S
  OBVIOUS
<1>1. PICK i \in 1 .. Len(q) : q[i] = e
  BY ToSetIndex
<1> QED  BY <1>1

\* queue_enqueue.
LEMMA AppendFacts ==
  ASSUME NEW S, NEW q \in Seq(S), NEW t \in S
  PROVE  /\ Append(q, t) \in Seq(S) /\ Append(q, t) # <<>>
         /\ Len(Append(q, t)) = Len(q) + 1
         /\ \A i \in 1 .. Len(q) : Append(q, t)[i] = q[i]
         /\ Append(q, t)[Len(q) + 1] = t
         /\ ToSet(Append(q, t)) = ToSet(q) \cup {t}
         /\ NoDuplicates(q) /\ t \notin ToSet(q) => NoDuplicates(Append(q, t))
<1> DEFINE a == Append(q, t)
<1>1. /\ a \in Seq(S) /\ a # <<>> /\ Len(a) = Len(q) + 1 /\ Len(q) \in Nat
      /\ \A i \in 1 .. Len(q) : a[i] = q[i]
      /\ a[Len(q) + 1] = t
  BY AppendProperties, LenProperties
<1> HIDE DEF a
<1>2. ToSet(a) = ToSet(q) \cup {t}
  <2>1. ASSUME NEW e \in ToSet(a) PROVE e \in ToSet(q) \cup {t}
    <3>1. PICK i \in 1 .. Len(q) + 1 : a[i] = e
      BY <1>1, <2>1, ToSetIndex
    <3>2. i # Len(q) + 1 => i \in 1 .. Len(q)
      BY <1>1
    <3> QED  BY <1>1, <3>1, <3>2, ToSetIndex
  <2>2. ASSUME NEW e \in ToSet(q) PROVE e \in ToSet(a)
    <3>1. PICK i \in 1 .. Len(q) : q[i] = e
      BY <2>2, ToSetIndex
    <3>2. i \in 1 .. Len(a) /\ a[i] = e
      BY <1>1, <3>1
    <3> QED  BY <1>1, <3>2, ToSetIndex
  <2>3. t \in ToSet(a)
    <3>1. Len(a) \in 1 .. Len(a) /\ a[Len(a)] = t
      BY <1>1
    <3> QED  BY <1>1, <3>1, ToSetIndex
  <2> QED  BY <2>1, <2>2, <2>3
<1>3. ASSUME NoDuplicates(q), t \notin ToSet(q), NEW i \in 1 .. Len(a), NEW j \in 1 .. Len(a), i < j
      PROVE  a[i] # a[j]
  <2>1. i \in 1 .. Len(q) /\ a[i] = q[i] /\ q[i] # t
    BY <1>1, <1>3, ToSetIndex
  <2>2. CASE j = Len(q) + 1
    BY <1>1, <2>1, <2>2
  <2>3. CASE j \in 1 .. Len(q)
    BY <1>1, <1>3, <2>1, <2>3 DEF NoDuplicates
  <2> QED  BY <1>1, <2>2, <2>3
<1>4. NoDuplicates(q) /\ t \notin ToSet(q) => NoDuplicates(a)
  <2> SUFFICES ASSUME NoDuplicates(q), t \notin ToSet(q),
                      NEW i \in 1 .. Len(a), NEW j \in 1 .. Len(a), i # j
               PROVE  a[i] # a[j]
    BY DEF NoDuplicates
  <2>1. i < j \/ j < i
    BY <1>1
  <2> QED  BY <1>3, <2>1
<1> QED  BY <1>1, <1>2, <1>4 DEF a

\* queue_dequeue.
LEMMA TailFacts ==
  ASSUME NEW S, NEW q \in Seq(S), q # <<>>
  PROVE  /\ Head(q) \in S /\ Head(q) = q[1]
         /\ Tail(q) \in Seq(S) /\ Len(Tail(q)) = Len(q) - 1 /\ Len(q) >= 1
         /\ \A i \in 1 .. Len(Tail(q)) : i + 1 \in 1 .. Len(q) /\ Tail(q)[i] = q[i + 1]
         /\ ToSet(q) = ToSet(Tail(q)) \cup {Head(q)}
         /\ NoDuplicates(q) => NoDuplicates(Tail(q)) /\ Head(q) \notin ToSet(Tail(q))
<1> DEFINE h == Head(q)
           tl == Tail(q)
<1>1. /\ h \in S /\ h = q[1] /\ tl \in Seq(S) /\ Len(tl) = Len(q) - 1 /\ Len(q) >= 1
      /\ Len(q) \in Nat /\ \A i \in 1 .. Len(tl) : tl[i] = q[i + 1]
  BY HeadTailProperties, LenProperties
<1> HIDE DEF h, tl
<1>2. \A i \in 1 .. Len(tl) : i + 1 \in 1 .. Len(q) /\ i + 1 # 1
  BY <1>1
<1>3. ToSet(q) = ToSet(tl) \cup {h}
  <2>1. ASSUME NEW e \in ToSet(q) PROVE e \in ToSet(tl) \cup {h}
    <3>1. PICK i \in 1 .. Len(q) : q[i] = e
      BY <2>1, ToSetIndex
    <3>2. i > 1 => i - 1 \in 1 .. Len(tl) /\ tl[i - 1] = e
      BY <1>1, <3>1
    <3> QED  BY <1>1, <3>1, <3>2, ToSetIndex
  <2>2. ASSUME NEW e \in ToSet(tl) PROVE e \in ToSet(q)
    <3>1. PICK i \in 1 .. Len(tl) : tl[i] = e
      BY <1>1, <2>2, ToSetIndex
    <3> QED  BY <1>1, <1>2, <3>1, ToSetIndex
  <2>3. h \in ToSet(q)
    <3>1. 1 \in 1 .. Len(q) /\ q[1] = h
      BY <1>1
    <3> QED  BY <3>1, ToSetIndex
  <2> QED  BY <2>1, <2>2, <2>3
<1>4. ASSUME NoDuplicates(q) PROVE NoDuplicates(tl) /\ h \notin ToSet(tl)
  <2>1. NoDuplicates(tl)
    BY <1>1, <1>4 DEF NoDuplicates
  <2>2. ASSUME h \in ToSet(tl) PROVE FALSE
    <3>1. PICK i \in 1 .. Len(tl) : tl[i] = h
      BY <1>1, <2>2, ToSetIndex
    <3> QED  BY <1>1, <1>2, <1>4, <3>1 DEF NoDuplicates
  <2> QED  BY <2>1, <2>2
<1> QED  BY <1>1, <1>2, <1>3, <1>4 DEF h, tl

\* The empty queue.
LEMMA EmptyFacts == /\ NoDuplicates(<<>>) /\ ToSet(<<>>) = {} /\ Len(<<>>) = 0
                    /\ \A S : <<>> \in Seq(S)
BY DEF NoDuplicates, ToSet

\* A queue without duplicates is as long as the set of its elements.
LEMMA Counted ==
  ASSUME NEW q \in Seq(Pages), NoDuplicates(q)
  PROVE  /\ IsFiniteSet(ToSet(q)) /\ Cardinality(ToSet(q)) = Len(q)
         /\ Cardinality(Pages) \in Nat /\ Len(q) <= Cardinality(Pages)
<1> DEFINE n == Len(q)
           T == ToSet(q)
<1>1. n \in Nat /\ DOMAIN q = 1 .. n /\ q \in [1 .. n -> Pages]
  BY LenProperties
<1>2. q \in Surjection(1 .. n, T) /\ T \subseteq Pages
  BY <1>1 DEF Surjection, ToSet
<1>3. q \in Injection(1 .. n, T)
  BY <1>1, <1>2 DEF Surjection, Injection, IsInjective, NoDuplicates
<1>4. ExistsBijection(1 .. n, T)
  BY <1>2, <1>3 DEF ExistsBijection, Bijection
<1>5. IsFiniteSet(Pages)
  BY PagerAssumption
<1>6. Cardinality(T) = n
  BY <1>1, <1>4, FS_CountingElements
<1>7. IsFiniteSet(T) /\ Cardinality(T) <= Cardinality(Pages)
  BY <1>2, <1>5, FS_Subset
<1>8. Cardinality(Pages) \in Nat
  BY <1>5, FS_CardinalityType
<1> QED  BY <1>6, <1>7, <1>8

\* A non-empty set of naturals has a smallest element.
LEMMA NatHasMin ==
  ASSUME NEW S \in SUBSET Nat, S # {}
  PROVE  \E n \in S : \A m \in S : n <= m
<1>1. \E n \in S : \A m \in S : ~ (<<m, n>> \in OpToRel(<, Nat))
  BY NatLessThanWellFounded, WFMin
<1>2. PICK n \in S : \A m \in S : ~ (<<m, n>> \in OpToRel(<, Nat))
  BY <1>1
<1>3. \A m \in S : ~ (m < n)
  BY <1>2 DEF OpToRel
<1> QED
  BY <1>3

\* A queue without an element: find_elem under LRU.
LEMMA RemoveFacts ==
  ASSUME NEW S, NEW q \in Seq(S), NoDuplicates(q), NEW k \in 1 .. Len(q)
  PROVE  /\ RemoveAt(q, k) \in Seq(S) /\ Len(RemoveAt(q, k)) = Len(q) - 1
         /\ \A i \in 1 .. Len(q) - 1 :
              RemoveAt(q, k)[i] = q[IF i < k THEN i ELSE i + 1]
         /\ NoDuplicates(RemoveAt(q, k))
         /\ ToSet(RemoveAt(q, k)) = ToSet(q) \ {q[k]}
<1> DEFINE n == Len(q)
           a == SubSeq(q, 1, k - 1)
           b == SubSeq(q, k + 1, n)
           r == RemoveAt(q, k)
<1>1. n \in Nat /\ k \in 1 .. n /\ \A i \in 1 .. n : q[i] \in S
  BY LenProperties
<1>2. /\ a \in Seq(S) /\ Len(a) = k - 1 /\ \A i \in 1 .. k - 1 : a[i] = q[i]
  <2>1. \A i \in 1 .. k - 1 : q[i] \in S
    BY <1>1
  <2> QED  BY <1>1, <2>1, SubSeqProperties
<1>3. /\ b \in Seq(S) /\ Len(b) = n - k /\ \A i \in 1 .. n - k : b[i] = q[k + i]
  <2>1. \A i \in k + 1 .. n : q[i] \in S
    BY <1>1
  <2> QED  BY <1>1, <2>1, SubSeqProperties
<1>4. r = a \o b
  BY DEF RemoveAt
<1> HIDE DEF a, b, r, n
<1>5. /\ r \in Seq(S) /\ Len(r) = Len(a) + Len(b)
      /\ \A i \in 1 .. Len(a) + Len(b) : r[i] = IF i <= Len(a) THEN a[i] ELSE b[i - Len(a)]
  BY <1>2, <1>3, <1>4, ConcatProperties
<1>6. Len(a) + Len(b) = n - 1
  BY <1>1, <1>2, <1>3
<1>7. ASSUME NEW i \in 1 .. n - 1 PROVE r[i] = q[IF i < k THEN i ELSE i + 1]
  <2>1. CASE i < k
    <3>1. i <= Len(a) /\ i \in 1 .. k - 1
      BY <1>1, <1>2, <2>1
    <3> QED  BY <1>2, <1>5, <1>6, <2>1, <3>1
  <2>2. CASE ~ (i < k)
    <3>1. ~ (i <= Len(a)) /\ i - Len(a) \in 1 .. n - k /\ k + (i - Len(a)) = i + 1
      BY <1>1, <1>2, <2>2
    <3> QED  BY <1>3, <1>5, <1>6, <2>2, <3>1
  <2> QED  BY <2>1, <2>2
<1>8. NoDuplicates(r)
  <2> SUFFICES ASSUME NEW i \in 1 .. n - 1, NEW j \in 1 .. n - 1, i # j PROVE r[i] # r[j]
    BY <1>5, <1>6 DEF NoDuplicates
  <2> DEFINE x == IF i < k THEN i ELSE i + 1
             y == IF j < k THEN j ELSE j + 1
  <2>1. x \in 1 .. n /\ y \in 1 .. n /\ x # y
    BY <1>1
  <2>2. q[x] # q[y]
    BY <2>1 DEF NoDuplicates, n
  <2> QED  BY <1>7, <2>2
<1>9. ToSet(r) = ToSet(q) \ {q[k]}
  <2>1. ASSUME NEW e \in ToSet(r) PROVE e \in ToSet(q) /\ e # q[k]
    <3>1. PICK i \in 1 .. n - 1 : r[i] = e
      BY <1>5, <1>6, <2>1, ToSetIndex, SMTT(30)
    <3> DEFINE x == IF i < k THEN i ELSE i + 1
    <3>2. x \in 1 .. n /\ x # k /\ q[x] = e
      BY <1>1, <1>7, <3>1
    <3> HIDE DEF x
    <3>3. q[x] # q[k]
      BY <1>1, <3>2 DEF NoDuplicates, n
    <3>4. e \in ToSet(q)
      BY <3>2, ToSetIndex DEF n
    <3> QED  BY <3>2, <3>3, <3>4
  <2>2. ASSUME NEW e \in ToSet(q), e # q[k] PROVE e \in ToSet(r)
    <3>1. PICK i \in 1 .. n : q[i] = e
      BY <2>2, ToSetIndex DEF n
    <3> DEFINE x == IF i < k THEN i ELSE i - 1
    <3>2. i # k
      BY <2>2, <3>1
    <3>3. x \in 1 .. n - 1 /\ (IF x < k THEN x ELSE x + 1) = i
      BY <1>1, <3>2
    <3>4. r[x] = e
      BY <1>7, <3>1, <3>3
    <3> QED  BY <1>5, <1>6, <3>3, <3>4, ToSetIndex
  <2> QED  BY <2>1, <2>2
<1> QED  BY <1>5, <1>6, <1>7, <1>8, <1>9 DEF r, n

\* The pages at the front that are moved to the end of the queue.
LEMMA FrontFacts ==
  ASSUME NEW S, NEW q \in Seq(S), NEW k \in 0 .. Len(q)
  PROVE  /\ SubSeq(q, 1, k) \in Seq(S) /\ Len(SubSeq(q, 1, k)) = k
         /\ \A i \in 1 .. k : SubSeq(q, 1, k)[i] = q[i]
         /\ \A e : e \in ToSet(SubSeq(q, 1, k)) <=> \E i \in 1 .. k : q[i] = e
<1>1. Len(q) \in Nat /\ \A i \in 1 .. Len(q) : q[i] \in S
  BY LenProperties
<1>2. \A i \in 1 .. k : q[i] \in S
  BY <1>1
<1>3. /\ SubSeq(q, 1, k) \in Seq(S) /\ Len(SubSeq(q, 1, k)) = k
      /\ \A i \in 1 .. k : SubSeq(q, 1, k)[i] = q[i]
  BY <1>1, <1>2, SubSeqProperties
<1>4. ASSUME NEW e PROVE e \in ToSet(SubSeq(q, 1, k)) <=> \E i \in 1 .. k : q[i] = e
  <2>1. e \in ToSet(SubSeq(q, 1, k)) <=> \E i \in 1 .. k : SubSeq(q, 1, k)[i] = e
    BY <1>3, ToSetIndex, ZenonT(60)
  <2> QED  BY <1>3, <2>1
<1> QED  BY <1>3, <1>4

Rotated(q, k) == SubSeq(q, k + 1, Len(q)) \o SubSeq(q, 1, k)

LEMMA RotateFacts ==
  ASSUME NEW S, NEW q \in Seq(S), NoDuplicates(q), NEW k \in 0 .. Len(q)
  PROVE  /\ Rotated(q, k) \in Seq(S) /\ Len(Rotated(q, k)) = Len(q)
         /\ \A i \in 1 .. Len(q) :
              Rotated(q, k)[i] = q[IF i <= Len(q) - k THEN k + i ELSE i - (Len(q) - k)]
         /\ NoDuplicates(Rotated(q, k)) /\ ToSet(Rotated(q, k)) = ToSet(q)
<1> DEFINE n == Len(q)
           a == SubSeq(q, k + 1, n)
           b == SubSeq(q, 1, k)
           r == Rotated(q, k)
<1>1. n \in Nat /\ k \in 0 .. n /\ \A i \in 1 .. n : q[i] \in S
  BY LenProperties
<1>2. b \in Seq(S) /\ Len(b) = k /\ \A i \in 1 .. k : b[i] = q[i]
  BY FrontFacts
<1>3. /\ a \in Seq(S) /\ Len(a) = n - k /\ \A i \in 1 .. n - k : a[i] = q[k + i]
  <2>1. \A i \in k + 1 .. n : q[i] \in S
    BY <1>1
  <2> QED  BY <1>1, <2>1, SubSeqProperties
<1>4. r = a \o b
  BY DEF Rotated
<1> HIDE DEF a, b, r, n
<1>5. /\ r \in Seq(S) /\ Len(r) = Len(a) + Len(b)
      /\ \A i \in 1 .. Len(a) + Len(b) : r[i] = IF i <= Len(a) THEN a[i] ELSE b[i - Len(a)]
  BY <1>2, <1>3, <1>4, ConcatProperties
<1>6. Len(a) + Len(b) = n
  BY <1>1, <1>2, <1>3
<1>7. ASSUME NEW i \in 1 .. n PROVE r[i] = q[IF i <= n - k THEN k + i ELSE i - (n - k)]
  <2>1. CASE i <= n - k
    <3>1. i \in 1 .. n - k
      BY <1>1, <2>1
    <3> QED  BY <1>3, <1>5, <1>6, <2>1, <3>1
  <2>2. CASE ~ (i <= n - k)
    <3>1. i - (n - k) \in 1 .. k
      BY <1>1, <2>2
    <3> QED  BY <1>2, <1>3, <1>5, <1>6, <2>2, <3>1
  <2> QED  BY <2>1, <2>2
<1>8. NoDuplicates(r)
  <2> SUFFICES ASSUME NEW i \in 1 .. n, NEW j \in 1 .. n, i # j PROVE r[i] # r[j]
    BY <1>5, <1>6 DEF NoDuplicates
  <2> DEFINE x == IF i <= n - k THEN k + i ELSE i - (n - k)
             y == IF j <= n - k THEN k + j ELSE j - (n - k)
  <2>1. x \in 1 .. n /\ y \in 1 .. n /\ x # y
    BY <1>1
  <2>2. q[x] # q[y]
    BY <2>1 DEF NoDuplicates, n
  <2> QED  BY <1>7, <2>2
<1>9. ToSet(r) = ToSet(q)
  <2>1. ASSUME NEW e \in ToSet(r) PROVE e \in ToSet(q)
    <3>1. PICK i \in 1 .. n : r[i] = e
      BY <1>5, <1>6, <2>1, ToSetIndex
    <3> DEFINE x == IF i <= n - k THEN k + i ELSE i - (n - k)
    <3>2. x \in 1 .. n /\ q[x] = e
      BY <1>1, <1>7, <3>1
    <3> QED  BY <3>2, ToSetIndex DEF n
  <2>2. ASSUME NEW e \in ToSet(q) PROVE e \in ToSet(r)
    <3>1. PICK i \in 1 .. n : q[i] = e
      BY <2>2, ToSetIndex DEF n
    <3> DEFINE x == IF i <= k THEN i + (n - k) ELSE i - k
    <3>2. x \in 1 .. n /\ (IF x <= n - k THEN k + x ELSE x - (n - k)) = i
      BY <1>1
    <3>3. r[x] = e
      BY <1>7, <3>1, <3>2
    <3> QED  BY <1>5, <1>6, <3>2, <3>3, ToSetIndex
  <2> QED  BY <2>1, <2>2
<1> QED  BY <1>5, <1>6, <1>7, <1>8, <1>9 DEF r, n

----------------------------------------------------------------------------
(* queue_sort under LFU.                                                   *)

\* One of the pages comes before all others.
LEMMA FirstOfAll ==
  ASSUME NEW us \in Times, NEW ls \in Times, NEW T \in SUBSET Pages, T # {},
         \A p, q \in T : p # q => ls[p] # ls[q]
  PROVE  \E m \in T : \A p \in T : p # m => Before(us, ls, m, p)
<1>1. \A p \in T : us[p] \in Nat /\ ls[p] \in Nat
  BY DEF Times
<1> DEFINE A == {us[p] : p \in T}
<1>2. A \in SUBSET Nat /\ A # {}
  BY <1>1
<1>3. PICK a \in A : \A x \in A : a <= x
  <2> HIDE DEF A
  <2> QED  BY <1>2, NatHasMin
<1> DEFINE B == {ls[p] : p \in {q \in T : us[q] = a}}
<1>4. B \in SUBSET Nat /\ B # {}
  BY <1>1, <1>3
<1>5. PICK b \in B : \A x \in B : b <= x
  <2> HIDE DEF B
  <2> QED  BY <1>4, NatHasMin
<1>6. PICK m \in T : us[m] = a /\ ls[m] = b
  BY <1>5
<1>7. ASSUME NEW p \in T, p # m PROVE Before(us, ls, m, p)
  <2>1. a <= us[p] /\ ls[p] # b /\ us[p] \in Nat /\ ls[p] \in Nat /\ a \in Nat /\ b \in Nat
    BY <1>1, <1>3, <1>6, <1>7
  <2>2. us[p] = a => b <= ls[p]
    BY <1>5
  <2> HIDE DEF A, B
  <2> QED  BY <1>6, <2>1, <2>2 DEF Before
<1> QED  BY <1>6, <1>7

\* The pages of T in the order of sort_freq.
Ordered(us, ls, T) ==
  {s \in [1 .. Cardinality(T) -> T] :
     \A i, j \in 1 .. Cardinality(T) : i < j => Before(us, ls, s[i], s[j])}

\* The first page, and then the others in order.
LEMMA OrderedCons ==
  ASSUME NEW us, NEW ls, NEW T \in SUBSET Pages, NEW m \in T,
         \A p \in T : p # m => Before(us, ls, m, p),
         NEW s \in Ordered(us, ls, T \ {m})
  PROVE  Ordered(us, ls, T) # {}
<1> DEFINE n == Cardinality(T)
           k == Cardinality(T \ {m})
           c == [i \in 1 .. n |-> IF i = 1 THEN m ELSE s[i - 1]]
<1>1. IsFiniteSet(T)
  BY PagerAssumption, FS_Subset
<1>2. n \in Nat /\ k \in Nat /\ k = n - 1
  BY <1>1, FS_RemoveElement, FS_CardinalityType
<1>3. /\ \A i \in 1 .. k : s[i] \in T /\ s[i] # m
      /\ \A i, j \in 1 .. k : i < j => Before(us, ls, s[i], s[j])
  BY DEF Ordered
<1> HIDE DEF n, k
<1>4. ASSUME NEW i \in 1 .. n PROVE c[i] \in T /\ (i # 1 => i - 1 \in 1 .. k /\ c[i] = s[i - 1])
  BY <1>2, <1>3
<1>5. ASSUME NEW i \in 1 .. n, NEW j \in 1 .. n, i < j PROVE Before(us, ls, c[i], c[j])
  <2>1. j # 1 /\ j - 1 \in 1 .. k /\ c[j] = s[j - 1]
    BY <1>2, <1>4, <1>5
  <2>2. CASE i = 1
    <3>1. c[i] = m /\ c[j] \in T /\ c[j] # m
      BY <1>3, <2>1, <2>2
    <3> HIDE DEF c
    <3> QED  BY <3>1
  <2>3. CASE i # 1
    <3>1. i - 1 \in 1 .. k /\ c[i] = s[i - 1] /\ i - 1 < j - 1
      BY <1>2, <1>4, <1>5, <2>3
    <3> HIDE DEF c
    <3> QED  BY <1>3, <2>1, <3>1
  <2> QED  BY <2>2, <2>3
<1>6. c \in [1 .. n -> T]
  BY <1>4
<1>7. c \in Ordered(us, ls, T)
  <2> HIDE DEF c
  <2> QED  BY <1>5, <1>6 DEF Ordered, n
<1> QED  BY <1>7

\* Any set of pages has an order: the least set without one would have one.
LEMMA OrderExists ==
  ASSUME NEW us \in Times, NEW ls \in Times, NEW T0 \in SUBSET Pages,
         \A p, q \in T0 : p # q => ls[p] # ls[q]
  PROVE  Ordered(us, ls, T0) # {}
<1> DEFINE Bad == {Cardinality(T) : T \in {U \in SUBSET T0 : Ordered(us, ls, U) = {}}}
<1>1. \A T \in SUBSET T0 : IsFiniteSet(T) /\ Cardinality(T) \in Nat
  BY PagerAssumption, FS_Subset, FS_CardinalityType
<1> SUFFICES ASSUME Ordered(us, ls, T0) = {} PROVE FALSE
  OBVIOUS
<1>2. Bad \in SUBSET Nat /\ Bad # {}
  BY <1>1
<1>3. PICK n \in Bad : \A k \in Bad : n <= k
  <2> HIDE DEF Bad
  <2> QED  BY <1>2, NatHasMin
<1>4. PICK T \in SUBSET T0 : Ordered(us, ls, T) = {} /\ Cardinality(T) = n
  BY <1>3
<1>5. T # {}
  <2> SUFFICES ASSUME T = {} PROVE FALSE
    OBVIOUS
  <2>1. Cardinality(T) = 0
    BY FS_EmptySet
  <2>2. <<>> \in Ordered(us, ls, T)
    BY <2>1 DEF Ordered
  <2> QED  BY <1>4, <2>2
<1>6. PICK m \in T : \A p \in T : p # m => Before(us, ls, m, p)
  <2>1. T \in SUBSET Pages /\ \A p, q \in T : p # q => ls[p] # ls[q]
    OBVIOUS
  <2> QED  BY <1>5, <2>1, FirstOfAll
<1>7. Cardinality(T \ {m}) = n - 1 /\ n \in Nat
  BY <1>1, <1>4, FS_RemoveElement
<1>8. T \ {m} \in SUBSET T0
  OBVIOUS
<1>9. Ordered(us, ls, T \ {m}) # {}
  <2> SUFFICES ASSUME Ordered(us, ls, T \ {m}) = {} PROVE FALSE
    OBVIOUS
  <2>1. n - 1 \in Bad
    BY <1>7, <1>8
  <2> HIDE DEF Bad
  <2> QED  BY <1>3, <1>7, <2>1
<1>10. PICK s \in Ordered(us, ls, T \ {m}) : TRUE
  BY <1>9
<1>11. Ordered(us, ls, T) # {}
  <2>1. T \in SUBSET Pages
    OBVIOUS
  <2> HIDE DEF Bad
  <2> QED  BY <1>6, <1>10, <2>1, OrderedCons
<1> QED  BY <1>4, <1>11

\* queue_sort keeps the pages and puts them in order.
LEMMA SortFacts ==
  ASSUME NEW us \in Times, NEW ls \in Times, NEW q \in Seq(Pages), NoDuplicates(q),
         \A x, y \in ToSet(q) : x # y => ls[x] # ls[y]
  PROVE  /\ sort_freq(q, us, ls) \in Seq(Pages) /\ Len(sort_freq(q, us, ls)) = Len(q)
         /\ NoDuplicates(sort_freq(q, us, ls)) /\ ToSet(sort_freq(q, us, ls)) = ToSet(q)
         /\ \A i, j \in 1 .. Len(q) :
              i < j => Before(us, ls, sort_freq(q, us, ls)[i], sort_freq(q, us, ls)[j])
<1> DEFINE n == Len(q)
           T == ToSet(q)
           p == sort_freq(q, us, ls)
<1>1. n \in Nat /\ Cardinality(T) = n /\ IsFiniteSet(T)
  BY Counted, LenProperties
<1>2. T \in SUBSET Pages
  BY ToSetSubset
<1>3. PICK s \in Ordered(us, ls, T) : TRUE
  <2>1. \A x, y \in T : x # y => ls[x] # ls[y]
    OBVIOUS
  <2> HIDE DEF T
  <2> QED  BY <1>2, <2>1, OrderExists
<1>4. s \in [1 .. n -> T] /\ \A i, j \in 1 .. n : i < j => Before(us, ls, s[i], s[j])
  <2> HIDE DEF n, T
  <2> QED  BY <1>1, <1>3 DEF Ordered
<1>5. ASSUME NEW i \in 1 .. n, NEW j \in 1 .. n, i # j PROVE s[i] # s[j]
  <2>1. Before(us, ls, s[i], s[j]) \/ Before(us, ls, s[j], s[i])
    BY <1>1, <1>4, <1>5
  <2>2. ~ Before(us, ls, s[i], s[i])
    <3>1. s[i] \in Pages
      BY <1>2, <1>4
    <3> QED  BY <3>1 DEF Before, Times
  <2> QED  BY <2>1, <2>2
<1>6. s \in SetToSeqs(T)
  <2> HIDE DEF n, T
  <2> QED  BY <1>1, <1>4, <1>5 DEF SetToSeqs
<1>7. p \in SetToSeqs(T) /\ \A i, j \in 1 .. n : i < j => Before(us, ls, p[i], p[j])
  <2> DEFINE Sorted(r) == \A i, j \in 1 .. n : i < j => Before(us, ls, r[i], r[j])
  <2>1. p = CHOOSE r \in SetToSeqs(T) : Sorted(r)
    BY Zenon DEF sort_freq, Before
  <2>2. Sorted(s)
    BY <1>4
  <2> HIDE DEF Sorted, p, T
  <2>3. p \in SetToSeqs(T) /\ Sorted(p)
    BY <1>6, <2>1, <2>2
  <2> QED  BY <2>3 DEF Sorted
<1> HIDE DEF p
<1>8. p \in [1 .. n -> T] /\ \A i, j \in 1 .. n : i # j => p[i] # p[j]
  BY <1>1, <1>7 DEF SetToSeqs
<1>9. p \in Seq(Pages) /\ Len(p) = n
  BY <1>1, <1>2, <1>8
<1>10. NoDuplicates(p)
  BY <1>8, <1>9 DEF NoDuplicates
<1>11. p \in Injection(1 .. n, T)
  BY <1>8 DEF Injection, IsInjective
<1>12. Cardinality(1 .. n) = n
  <2>1. 1 \in Int /\ n \in Int /\ n \in Nat
    BY <1>1
  <2> HIDE DEF n
  <2>2. Cardinality(1 .. n) = IF 1 > n THEN 0 ELSE n - 1 + 1
    BY <2>1, FS_Interval
  <2> QED  BY <2>1, <2>2
<1>13. p \in Surjection(1 .. n, T)
  BY <1>1, <1>11, <1>12, FS_Injection
<1>14. ToSet(p) = T
  BY <1>8, <1>13, ZenonT(60) DEF Surjection, ToSet
<1> QED  BY <1>7, <1>9, <1>10, <1>14 DEF p

----------------------------------------------------------------------------
(* The order of the queue.                                                 *)

\* A queue in order loses its first page, or any other, and stays in order.
LEMMA OrderTail ==
  ASSUME NEW q \in Seq(Pages), q # <<>>, NEW f \in Times, InOrder(q, f)
  PROVE  InOrder(Tail(q), f) /\ \A p \in ToSet(Tail(q)) : f[Head(q)] < f[p]
<1> DEFINE tl == Tail(q)
           h == Head(q)
<1>1. /\ h = q[1] /\ tl \in Seq(Pages) /\ Len(tl) \in Nat /\ Len(q) \in Nat /\ Len(q) >= 1
      /\ \A i \in 1 .. Len(tl) : i + 1 \in 1 .. Len(q) /\ tl[i] = q[i + 1]
  BY TailFacts, LenProperties
<1> HIDE DEF tl, h
<1>2. ASSUME NEW i \in 1 .. Len(tl), NEW j \in 1 .. Len(tl), i < j PROVE f[tl[i]] < f[tl[j]]
  <2>1. /\ i + 1 \in 1 .. Len(q) /\ j + 1 \in 1 .. Len(q) /\ i + 1 < j + 1
        /\ tl[i] = q[i + 1] /\ tl[j] = q[j + 1]
    BY <1>1, <1>2
  <2> QED  BY <2>1 DEF InOrder
<1>3. ASSUME NEW p \in ToSet(tl) PROVE f[h] < f[p]
  <2>1. PICK i \in 1 .. Len(tl) : tl[i] = p
    BY <1>1, ToSetIndex
  <2>2. 1 \in 1 .. Len(q) /\ i + 1 \in 1 .. Len(q) /\ 1 < i + 1 /\ p = q[i + 1]
    BY <1>1, <2>1
  <2> QED  BY <1>1, <2>2 DEF InOrder
<1>4. InOrder(tl, f)
  BY <1>2 DEF InOrder
<1> QED  BY <1>3, <1>4 DEF tl, h

LEMMA OrderRemove ==
  ASSUME NEW q \in Seq(Pages), NoDuplicates(q), NEW k \in 1 .. Len(q), NEW f, InOrder(q, f)
  PROVE  InOrder(RemoveAt(q, k), f)
<1> DEFINE r == RemoveAt(q, k)
<1>1. /\ Len(q) \in Nat /\ Len(r) = Len(q) - 1
      /\ \A i \in 1 .. Len(q) - 1 : r[i] = q[IF i < k THEN i ELSE i + 1]
  BY RemoveFacts, LenProperties
<1> HIDE DEF r
<1>2. ASSUME NEW i \in 1 .. Len(r), NEW j \in 1 .. Len(r), i < j PROVE f[r[i]] < f[r[j]]
  <2> DEFINE x == IF i < k THEN i ELSE i + 1
             y == IF j < k THEN j ELSE j + 1
  <2>1. x \in 1 .. Len(q) /\ y \in 1 .. Len(q) /\ x < y
    BY <1>1, <1>2
  <2>2. r[i] = q[x] /\ r[j] = q[y]
    BY <1>1
  <2> HIDE DEF x, y
  <2> QED  BY <2>1, <2>2 DEF InOrder
<1> QED  BY <1>2 DEF InOrder, r

\* The page that is put at the end has the latest time.
LEMMA OrderAppend ==
  ASSUME NEW q \in Seq(Pages), NEW page \in Pages, page \notin ToSet(q),
         NEW f \in Times, InOrder(q, f), NEW s \in Nat, \A p \in Pages : f[p] <= s,
         \A p \in ToSet(q), o \in Pages \ ToSet(q) : o # page => f[o] < f[p],
         NEW g, g = [f EXCEPT ![page] = s + 1]
  PROVE  /\ InOrder(Append(q, page), g)
         /\ \A p \in ToSet(Append(q, page)), o \in Pages \ ToSet(Append(q, page)) : g[o] < g[p]
<1> DEFINE a == Append(q, page)
<1>1. /\ Len(q) \in Nat /\ Len(a) = Len(q) + 1 /\ a[Len(q) + 1] = page
      /\ \A i \in 1 .. Len(q) : a[i] = q[i]
      /\ ToSet(a) = ToSet(q) \cup {page}
  BY AppendFacts, LenProperties
<1> HIDE DEF a
<1>2. g[page] = s + 1 /\ \A p \in Pages : f[p] \in Nat /\ (p # page => g[p] = f[p])
  BY DEF Times
<1>3. \A p \in ToSet(q) : p \in Pages /\ p # page
  BY ToSetSubset
<1>4. \A i \in 1 .. Len(q) : q[i] \in ToSet(q)
  BY ToSetIndex
<1>5. ASSUME NEW i \in 1 .. Len(a), NEW j \in 1 .. Len(a), i < j PROVE g[a[i]] < g[a[j]]
  <2>1. i \in 1 .. Len(q) /\ a[i] = q[i] /\ q[i] \in Pages /\ g[q[i]] = f[q[i]]
    BY <1>1, <1>2, <1>3, <1>4, <1>5
  <2>2. CASE j = Len(q) + 1
    <3>1. f[q[i]] <= s /\ f[q[i]] \in Nat
      BY <1>2, <2>1
    <3> QED  BY <1>1, <1>2, <2>1, <2>2, <3>1
  <2>3. CASE j \in 1 .. Len(q)
    <3>1. a[j] = q[j] /\ g[q[j]] = f[q[j]]
      BY <1>1, <1>2, <1>3, <1>4, <2>3
    <3> QED  BY <1>5, <2>1, <2>3, <3>1 DEF InOrder
  <2> QED  BY <1>1, <2>2, <2>3
<1>6. ASSUME NEW p \in ToSet(a), NEW o \in Pages \ ToSet(a) PROVE g[o] < g[p]
  <2>1. o \in Pages \ ToSet(q) /\ o # page /\ g[o] = f[o] /\ f[o] \in Nat /\ f[o] <= s
    BY <1>1, <1>2
  <2>2. CASE p = page
    BY <1>2, <2>1, <2>2
  <2>3. CASE p \in ToSet(q)
    <3>1. g[p] = f[p] /\ f[o] < f[p]
      BY <1>2, <1>3, <2>1, <2>3
    <3> QED  BY <2>1, <3>1
  <2> QED  BY <1>1, <2>2, <2>3
<1>7. InOrder(a, g)
  BY <1>5 DEF InOrder
<1> QED  BY <1>6, <1>7 DEF a

\* The same for the turns of the clocks.
LEMMA TurnTail ==
  ASSUME NEW q \in Seq(Pages), q # <<>>, NEW w, InTurn(q, w)
  PROVE  InTurn(Tail(q), w)
<1> DEFINE tl == Tail(q)
<1>1. \A i \in 1 .. Len(tl) : i + 1 \in 1 .. Len(q) /\ tl[i] = q[i + 1]
  BY TailFacts
<1> HIDE DEF tl
<1>2. ASSUME NEW i \in 1 .. Len(tl), NEW j \in 1 .. Len(tl), i < j PROVE w[tl[i]] <= w[tl[j]]
  <2>1. /\ i + 1 \in 1 .. Len(q) /\ j + 1 \in 1 .. Len(q) /\ i + 1 < j + 1
        /\ tl[i] = q[i + 1] /\ tl[j] = q[j + 1]
    BY <1>1, <1>2
  <2> QED  BY <2>1 DEF InTurn
<1> QED  BY <1>2 DEF InTurn, tl

LEMMA TurnAppend ==
  ASSUME NEW q \in Seq(Pages), NEW page \in Pages, NEW w, InTurn(q, w),
         \A p \in ToSet(q) : w[p] <= w[page]
  PROVE  InTurn(Append(q, page), w)
<1> DEFINE a == Append(q, page)
<1>1. /\ Len(q) \in Nat /\ Len(a) = Len(q) + 1 /\ a[Len(q) + 1] = page
      /\ \A i \in 1 .. Len(q) : a[i] = q[i]
  BY AppendFacts, LenProperties
<1> HIDE DEF a
<1>2. ASSUME NEW i \in 1 .. Len(a), NEW j \in 1 .. Len(a), i < j PROVE w[a[i]] <= w[a[j]]
  <2>1. i \in 1 .. Len(q) /\ a[i] = q[i]
    BY <1>1, <1>2
  <2>2. CASE j = Len(q) + 1
    <3>1. q[i] \in ToSet(q)
      BY <2>1, ToSetIndex
    <3> QED  BY <1>1, <2>1, <2>2, <3>1
  <2>3. CASE j \in 1 .. Len(q)
    BY <1>1, <1>2, <2>1, <2>3 DEF InTurn
  <2> QED  BY <1>1, <2>2, <2>3
<1> QED  BY <1>2 DEF InTurn, a

\* The first k pages get the turn s, which is the latest.
TurnsPassed(q, k, w, v, s) ==
  /\ \A i \in 1 .. k : v[q[i]] = s
  /\ \A i \in k + 1 .. Len(q) : v[q[i]] = w[q[i]] /\ w[q[i]] <= s

LEMMA TurnRotate ==
  ASSUME NEW q \in Seq(Pages), NoDuplicates(q), NEW k \in 0 .. Len(q),
         NEW w, NEW v, InTurn(q, w), NEW s \in Nat, TurnsPassed(q, k, w, v, s)
  PROVE  InTurn(Rotated(q, k), v)
<1> DEFINE n == Len(q)
           r == Rotated(q, k)
<1>1. /\ n \in Nat /\ k \in 0 .. n /\ Len(r) = n
      /\ \A i \in 1 .. n : r[i] = q[IF i <= n - k THEN k + i ELSE i - (n - k)]
  BY RotateFacts, LenProperties
<1>2. /\ \A i \in k + 1 .. n : v[q[i]] = w[q[i]] /\ w[q[i]] <= s
      /\ \A i \in 1 .. k : v[q[i]] = s
      /\ \A i, j \in 1 .. n : i < j => w[q[i]] <= w[q[j]]
  BY DEF InTurn, TurnsPassed
<1> HIDE DEF n, r
<1>3. ASSUME NEW i \in 1 .. n, NEW j \in 1 .. n, i < j PROVE v[r[i]] <= v[r[j]]
  <2>1. CASE j <= n - k
    <3>1. /\ i <= n - k /\ k + i \in k + 1 .. n /\ k + j \in k + 1 .. n /\ k + i < k + j
          /\ k + i \in 1 .. n /\ k + j \in 1 .. n
      BY <1>1, <1>3, <2>1
    <3>2. r[i] = q[k + i] /\ r[j] = q[k + j]
      BY <1>1, <2>1, <3>1
    <3> QED  BY <1>2, <3>1, <3>2
  <2>2. CASE ~ (j <= n - k)
    <3>1. j - (n - k) \in 1 .. k /\ r[j] = q[j - (n - k)]
      BY <1>1, <2>2
    <3>2. v[r[j]] = s
      BY <1>2, <3>1
    <3>3. CASE i <= n - k
      <4>1. k + i \in k + 1 .. n /\ r[i] = q[k + i]
        BY <1>1, <3>3
      <4> QED  BY <1>2, <3>2, <4>1
    <3>4. CASE ~ (i <= n - k)
      <4>1. i - (n - k) \in 1 .. k /\ r[i] = q[i - (n - k)]
        BY <1>1, <3>4
      <4>2. v[r[i]] = s
        BY <1>2, <4>1
      <4> QED  BY <3>2, <4>2
    <3> QED  BY <3>3, <3>4
  <2> QED  BY <2>1, <2>2
<1> QED  BY <1>1, <1>3 DEF InTurn, r

----------------------------------------------------------------------------
(* What every request does.                                                *)

LEMMA Numbers ==
  ASSUME TypeInv
  PROVE  /\ step \in Nat /\ max_size \in Nat /\ max_size >= 1 /\ Len(queue) \in Nat
         /\ \A p \in Pages :
              /\ freq_list[p] \in Nat /\ uses[p] \in Nat /\ last[p] \in Nat /\ loaded_at[p] \in Nat
              /\ requested_at[p] \in Nat /\ passed_at[p] \in Nat /\ requests[p] \in Nat
              /\ since_load[p] \in Nat
              /\ bit_refs[p] \in 0 .. 1
<1>1. max_size \in Nat \ {0} /\ step \in Nat /\ queue \in Seq(Pages)
  BY PagerAssumption DEF TypeInv
<1>2. Len(queue) \in Nat
  BY <1>1, LenProperties
<1>3. max_size >= 1
  BY <1>1
<1> QED  BY <1>1, <1>2, <1>3 DEF TypeInv, Times

\* The part of pager_request that does not depend on the algorithm.
Requested(page) ==
  /\ live /\ step < MaxRequests
  /\ step' = step + 1
  /\ requested_at' = [requested_at EXCEPT ![page] = step + 1]
  /\ requests' = [requests EXCEPT ![page] = @ + 1]
  /\ since_load' = [since_load EXCEPT ![page] = IF page \in Resident THEN @ + 1 ELSE 1]
  /\ UNCHANGED <<alg, max_size, live>>

LEMMA RequestedFacts ==
  ASSUME TypeInv, StepInv, NEW page \in Pages, Requested(page)
  PROVE  /\ live /\ step' = step + 1 /\ step' \in 0 .. MaxRequests
         /\ alg' = alg /\ max_size' = max_size /\ live' = live
         /\ requested_at' \in Times /\ requests' \in Times /\ since_load' \in Times
         /\ requested_at'[page] = step + 1 /\ requests'[page] = requests[page] + 1
         /\ since_load'[page] = IF page \in Resident THEN since_load[page] + 1 ELSE 1
         /\ \A p \in Pages : p # page =>
              /\ requested_at'[p] = requested_at[p] /\ requests'[p] = requests[p]
              /\ since_load'[p] = since_load[p]
         /\ \A p \in Pages :
              /\ requested_at'[p] <= step' /\ requests'[p] <= step' /\ since_load'[p] <= step'
<1>1. /\ live /\ step' = step + 1 /\ alg' = alg /\ max_size' = max_size /\ live' = live
      /\ step < MaxRequests
      /\ requested_at' = [requested_at EXCEPT ![page] = step + 1]
      /\ requests' = [requests EXCEPT ![page] = requests[page] + 1]
      /\ since_load' = [since_load EXCEPT ![page] = IF page \in Resident THEN since_load[page] + 1 ELSE 1]
  BY DEF Requested
<1>2. /\ step \in Nat /\ MaxRequests \in Nat
      /\ requested_at[page] \in Nat /\ requests[page] \in Nat /\ since_load[page] \in Nat
  BY PagerAssumption, Numbers
<1>3. step' \in 0 .. MaxRequests
  BY <1>1, <1>2
<1>4. requested_at \in Times /\ requests \in Times /\ since_load \in Times
  BY DEF TypeInv
<1> DEFINE c == IF page \in Resident THEN since_load[page] + 1 ELSE 1
<1>5. step + 1 \in Nat /\ requests[page] + 1 \in Nat /\ c \in Nat /\ c <= step + 1
  <2>1. since_load[page] <= step
    BY DEF StepInv
  <2> QED  BY <1>2, <2>1
<1> HIDE DEF c
<1>6. since_load' = [since_load EXCEPT ![page] = c]
  BY <1>1 DEF c
<1>7. /\ requested_at' \in Times /\ requested_at'[page] = step + 1
      /\ \A p \in Pages : p # page => requested_at'[p] = requested_at[p]
  BY <1>1, <1>4, <1>5 DEF Times
<1>8. /\ requests' \in Times /\ requests'[page] = requests[page] + 1
      /\ \A p \in Pages : p # page => requests'[p] = requests[p]
  BY <1>1, <1>4, <1>5 DEF Times
<1>9. /\ since_load' \in Times /\ since_load'[page] = c
      /\ \A p \in Pages : p # page => since_load'[p] = since_load[p]
  BY <1>4, <1>5, <1>6 DEF Times
<1>10. ASSUME NEW p \in Pages
       PROVE  requested_at'[p] <= step' /\ requests'[p] <= step' /\ since_load'[p] <= step'
  <2>1. /\ requested_at[p] <= step /\ requests[p] <= step /\ since_load[p] <= step
        /\ requested_at[p] \in Nat /\ requests[p] \in Nat /\ since_load[p] \in Nat
    BY Numbers DEF StepInv
  <2>2. CASE p = page
    BY <1>1, <1>2, <1>5, <1>7, <1>8, <1>9, <2>1, <2>2
  <2>3. CASE p # page
    BY <1>1, <1>2, <1>7, <1>8, <1>9, <2>1, <2>3
  <2> QED  BY <2>2, <2>3
<1> QED  BY <1>1, <1>3, <1>7, <1>8, <1>9, <1>10 DEF c

\* The common parts of the invariant, from what a request does to the queue.
LEMMA CommonStep ==
  ASSUME TypeInv, StepInv, QueueInv, NEW page \in Pages, Requested(page),
         queue' \in Seq(Pages), NoDuplicates(queue'), Len(queue') <= max_size,
         ToSet(queue') \subseteq Resident \cup {page}, page \in ToSet(queue'),
         Len(queue') = max_size \/ (Resident \subseteq ToSet(queue') /\ ~Full),
         bit_refs' \in [Pages -> 0 .. 1], victim' \in Pages \cup {NoPage},
         freq_list' \in Times, uses' \in Times, last' \in Times, loaded_at' \in Times,
         passed_at' \in Times,
         \A p \in Pages : /\ freq_list'[p] <= step + 1 /\ uses'[p] <= step + 1
                          /\ last'[p] <= step + 1 /\ loaded_at'[p] <= step + 1
                          /\ passed_at'[p] <= step + 1
  PROVE  TypeInv' /\ StepInv' /\ QueueInv'
<1>1. /\ live /\ step' = step + 1 /\ step' \in 0 .. MaxRequests
      /\ alg' = alg /\ max_size' = max_size /\ live' = live
      /\ requested_at' \in Times /\ requests' \in Times /\ since_load' \in Times
      /\ requests'[page] = requests[page] + 1
      /\ \A p \in Pages : p # page => requests'[p] = requests[p]
      /\ \A p \in Pages :
           /\ requested_at'[p] <= step' /\ requests'[p] <= step' /\ since_load'[p] <= step'
  BY RequestedFacts
<1>2. TypeInv'
  BY <1>1 DEF TypeInv
<1>3. StepInv'
  BY <1>1 DEF StepInv
<1>4. ASSUME NEW p \in ToSet(queue') PROVE requests'[p] > 0
  <2>1. requests[page] \in Nat
    BY Numbers
  <2>2. CASE p = page
    BY <1>1, <2>1, <2>2
  <2>3. CASE p # page
    <3>1. p \in Resident /\ p \in Pages
      BY <1>4, <2>3, ToSetSubset
    <3> QED  BY <1>1, <2>3, <3>1 DEF QueueInv
  <2> QED  BY <2>2, <2>3
<1>5. ASSUME NEW p \in Pages \ ToSet(queue'), requests'[p] > 0 PROVE Len(queue') = max_size'
  <2>1. p # page /\ requests[p] > 0
    BY <1>1, <1>5
  <2>2. CASE ~Full /\ Resident \subseteq ToSet(queue')
    BY <1>1, <2>1, <2>2 DEF QueueInv
  <2> QED  BY <1>1, <2>2
<1>6. QueueInv'
  BY <1>4, <1>5 DEF QueueInv, Resident, Full
<1> QED  BY <1>2, <1>3, <1>6

LEMMA InitIInv == Init => IInv
<1> SUFFICES ASSUME Init PROVE IInv
  OBVIOUS
<1>1. /\ queue = <<>> /\ step = 0 /\ live = TRUE /\ victim = NoPage
      /\ alg \in Algorithms /\ max_size \in Frames
  BY DEF Init
<1>2. /\ Zero \in Times /\ Zero \in [Pages -> 0 .. 1] /\ \A p \in Pages : Zero[p] = 0
  BY DEF Zero, Times
<1>3. /\ freq_list = Zero /\ uses = Zero /\ last = Zero /\ bit_refs = Zero
      /\ loaded_at = Zero /\ requested_at = Zero /\ passed_at = Zero
      /\ requests = Zero /\ since_load = Zero
  BY DEF Init
<1>4. Resident = {} /\ Len(queue) = 0 /\ queue \in Seq(Pages) /\ NoDuplicates(queue)
  BY <1>1, EmptyFacts DEF Resident
<1>5. max_size \in Nat /\ MaxRequests \in Nat
  BY <1>1, PagerAssumption
<1> HIDE DEF Zero
<1>6. TypeInv
  <2>1. Len(queue) <= max_size /\ step \in 0 .. MaxRequests
    BY <1>1, <1>4, <1>5
  <2> QED  BY <1>1, <1>2, <1>3, <1>4, <2>1 DEF TypeInv
<1>7. StepInv
  BY <1>1, <1>2, <1>3 DEF StepInv
<1>8. QueueInv
  BY <1>2, <1>3, <1>4 DEF QueueInv
<1>9. \A i \in 1 .. Len(queue) : FALSE
  BY <1>4
<1>10. OrderInv(loaded_at) /\ OrderInv(requested_at)
  BY <1>4, <1>9 DEF OrderInv, InOrder
<1>11. LfuInv
  BY <1>2, <1>3, <1>4, <1>9 DEF LfuInv
<1>12. ClockInv
  BY <1>2, <1>3, <1>4, <1>9 DEF ClockInv, InTurn
<1> QED  BY <1>6, <1>7, <1>8, <1>10, <1>11, <1>12 DEF IInv

LEMMA DestroyStep == ASSUME IInv, pager_destroy PROVE IInv'
<1>1. /\ TypeInv /\ StepInv
  BY DEF IInv
<1>2. /\ live' = FALSE /\ queue' = <<>> /\ victim' = NoPage
      /\ UNCHANGED <<alg, max_size, freq_list, uses, last, bit_refs, step,
                     loaded_at, requested_at, passed_at, requests, since_load>>
  BY DEF pager_destroy
<1>3. Resident' = {} /\ Len(queue') = 0 /\ queue' \in Seq(Pages) /\ NoDuplicates(queue')
  BY <1>2, EmptyFacts DEF Resident
<1>4. TypeInv'
  <2>1. Len(queue') <= max_size' 
    BY <1>1, <1>2, <1>3, Numbers
  <2> QED  BY <1>1, <1>2, <1>3, <2>1 DEF TypeInv
<1>5. StepInv'
  BY <1>1, <1>2 DEF StepInv
<1>6. QueueInv'
  BY <1>2, <1>3 DEF QueueInv
<1>7. \A i \in 1 .. Len(queue') : FALSE
  BY <1>3
<1>8. OrderInv(loaded_at)' /\ OrderInv(requested_at)'
  BY <1>3, <1>7 DEF OrderInv, InOrder
<1>9. LfuInv'
  BY <1>2, <1>3, <1>7 DEF LfuInv
<1>10. ClockInv'
  BY <1>2, <1>3, <1>7 DEF ClockInv, InTurn
<1> QED  BY <1>4, <1>5, <1>6, <1>8, <1>9, <1>10 DEF IInv

----------------------------------------------------------------------------
(* A request for a resident page.                                          *)

\* LRU: the page moves to the end of the queue.
LEMMA HitLru ==
  ASSUME IInv, NEW page \in Pages, Requested(page), hit(page), alg = LEAST_RECENTLY_USED
  PROVE  /\ queue' \in Seq(Pages) /\ NoDuplicates(queue') /\ Len(queue') = Len(queue)
         /\ ToSet(queue') = Resident
         /\ OrderInv(requested_at)'
<1>1. /\ TypeInv /\ StepInv /\ NoDuplicates(queue) /\ queue \in Seq(Pages)
      /\ OrderInv(requested_at)
  BY DEF IInv, QueueInv, TypeInv
<1> DEFINE k == CHOOSE i \in 1 .. Len(queue) : queue[i] = page
           r == RemoveAt(queue, k)
<1>2. k \in 1 .. Len(queue) /\ queue[k] = page
  <2>1. \E i \in 1 .. Len(queue) : queue[i] = page
    BY <1>1, ToSetIndex DEF hit, Resident
  <2> QED  BY <2>1
<1>3. queue' = Append(r, page)
  BY DEF hit, hit_queue
<1> HIDE DEF k
<1>4. /\ r \in Seq(Pages) /\ Len(r) = Len(queue) - 1 /\ NoDuplicates(r)
      /\ ToSet(r) = Resident \ {page}
  BY <1>1, <1>2, RemoveFacts DEF Resident
<1>5. InOrder(r, requested_at)
  BY <1>1, <1>2, OrderRemove DEF OrderInv
<1> HIDE DEF r
<1>6. page \in Resident /\ Len(queue) \in Nat
  BY <1>1, Numbers DEF hit
<1>7. /\ queue' \in Seq(Pages) /\ NoDuplicates(queue') /\ Len(queue') = Len(queue)
      /\ ToSet(queue') = Resident
  <2>1. page \notin ToSet(r)
    BY <1>4
  <2>2. /\ Append(r, page) \in Seq(Pages) /\ Len(Append(r, page)) = Len(r) + 1
        /\ ToSet(Append(r, page)) = ToSet(r) \cup {page} /\ NoDuplicates(Append(r, page))
    BY <1>4, <2>1, AppendFacts
  <2>3. ToSet(r) \cup {page} = Resident /\ Len(r) + 1 = Len(queue)
    BY <1>4, <1>6
  <2> QED  BY <1>3, <2>2, <2>3
<1>8. \A p \in ToSet(r), o \in Pages \ ToSet(r) : o # page => requested_at[o] < requested_at[p]
  BY <1>1, <1>4 DEF OrderInv
<1>9. /\ requested_at \in Times /\ step \in Nat /\ \A p \in Pages : requested_at[p] <= step
      /\ requested_at' = [requested_at EXCEPT ![page] = step + 1] /\ page \notin ToSet(r)
  BY <1>1, <1>4, Numbers DEF TypeInv, StepInv, Requested
<1>10. /\ InOrder(Append(r, page), requested_at')
       /\ \A p \in ToSet(Append(r, page)), o \in Pages \ ToSet(Append(r, page)) :
            requested_at'[o] < requested_at'[p]
  BY <1>4, <1>5, <1>8, <1>9, OrderAppend
<1>11. OrderInv(requested_at)'
  BY <1>3, <1>10 DEF OrderInv, Resident
<1> QED  BY <1>7, <1>11

\* The clocks: the bit is set, and the page stays where it is.
LEMMA HitClock ==
  ASSUME IInv, NEW page \in Pages, Requested(page), hit(page),
         alg \in {SECOND_CHANCE, CIRCULAR_QUEUE}
  PROVE  /\ queue' = queue /\ bit_refs' \in [Pages -> 0 .. 1]
         /\ ClockInv'
<1>1. TypeInv /\ StepInv /\ ClockInv
  BY DEF IInv
<1>2. /\ queue' = queue /\ page \in Resident
      /\ bit_refs' = [bit_refs EXCEPT ![page] = chance_bit]
      /\ loaded_at' = loaded_at /\ passed_at' = passed_at
  BY DEF hit, hit_queue, hit_bit, chance_bit, LEAST_RECENTLY_USED, SECOND_CHANCE, CIRCULAR_QUEUE
<1>3. /\ bit_refs' \in [Pages -> 0 .. 1] /\ bit_refs'[page] = chance_bit
      /\ \A p \in Pages : p # page => bit_refs'[p] = bit_refs[p]
  <2>1. chance_bit \in 0 .. 1 /\ bit_refs \in [Pages -> 0 .. 1]
    BY <1>1 DEF chance_bit, TypeInv
  <2> QED  BY <1>2, <2>1
<1>4. /\ alg' = alg /\ live' = live /\ live /\ requested_at'[page] = step + 1
      /\ \A p \in Pages : p # page => requested_at'[p] = requested_at[p]
  BY <1>1, RequestedFacts
<1>5. Turns' = Turns /\ Resident' = Resident /\ chance_bit' = chance_bit
  BY <1>2, <1>4 DEF Turns, Turn, Resident, chance_bit
<1>6. Resident \subseteq Pages
  BY <1>1, ToSetSubset DEF Resident, TypeInv
<1>7. ASSUME NEW p \in Resident PROVE bit_refs'[p] = chance_bit <=> Referenced(p)'
  <2>1. CASE p = page
    <3>1. /\ passed_at[p] <= step /\ loaded_at[p] <= step /\ passed_at[p] \in Nat
          /\ loaded_at[p] \in Nat /\ step \in Nat
      BY <1>1, <1>6, Numbers DEF StepInv
    <3>2. requested_at'[p] > passed_at'[p] /\ requested_at'[p] > loaded_at'[p]
      BY <1>2, <1>4, <2>1, <3>1
    <3> QED  BY <1>3, <2>1, <3>2 DEF Referenced
  <2>2. CASE p # page
    <3>1. Referenced(p)' <=> Referenced(p)
      BY <1>2, <1>4, <1>6, <2>2 DEF Referenced
    <3>2. bit_refs'[p] = bit_refs[p]
      BY <1>3, <1>6, <2>2
    <3> QED  BY <1>1, <3>1, <3>2 DEF ClockInv
  <2> QED  BY <2>1, <2>2
<1>8. live' /\ alg' = SECOND_CHANCE => \A p \in Pages \ Resident' : bit_refs'[p] = 0
  BY <1>1, <1>2, <1>3, <1>4, <1>5 DEF ClockInv
<1>9. InTurn(queue', Turns')
  BY <1>1, <1>2, <1>5 DEF ClockInv
<1>10. ClockInv'
  BY <1>5, <1>7, <1>8, <1>9 DEF ClockInv
<1> QED  BY <1>2, <1>3, <1>10

LEMMA HitStep ==
  ASSUME IInv, NEW page \in Pages, Requested(page), hit(page), alg # LEAST_FREQUENTLY_USED,
         UNCHANGED <<freq_list, uses, last>>
  PROVE  IInv'
<1>1. TypeInv /\ StepInv /\ QueueInv
  BY DEF IInv
<1>2. alg' = alg
  BY <1>1, RequestedFacts
<1>3. /\ page \in Resident /\ victim' = NoPage /\ loaded_at' = loaded_at /\ passed_at' = passed_at
  BY DEF hit
<1>4. /\ queue' \in Seq(Pages) /\ NoDuplicates(queue') /\ Len(queue') = Len(queue)
      /\ ToSet(queue') = Resident
  <2>1. CASE alg = LEAST_RECENTLY_USED
    BY <2>1, HitLru
  <2>2. CASE alg # LEAST_RECENTLY_USED
    <3>1. queue' = queue
      BY <2>2 DEF hit, hit_queue
    <3> QED  BY <1>1, <3>1 DEF TypeInv, QueueInv, Resident
  <2> QED  BY <2>1, <2>2
<1>5. bit_refs' \in [Pages -> 0 .. 1]
  <2>1. CASE alg \in {SECOND_CHANCE, CIRCULAR_QUEUE}
    BY <2>1, HitClock
  <2>2. CASE alg \notin {SECOND_CHANCE, CIRCULAR_QUEUE}
    BY <1>1, <2>2 DEF hit, TypeInv
  <2> QED  BY <2>1, <2>2
<1>6. TypeInv' /\ StepInv' /\ QueueInv'
  <2>1. /\ freq_list' \in Times /\ uses' \in Times /\ last' \in Times /\ loaded_at' \in Times
        /\ passed_at' \in Times
    BY <1>1, <1>3 DEF TypeInv
  <2>2. \A p \in Pages : /\ freq_list'[p] <= step + 1 /\ uses'[p] <= step + 1
                         /\ last'[p] <= step + 1 /\ loaded_at'[p] <= step + 1
                         /\ passed_at'[p] <= step + 1
    <3> SUFFICES ASSUME NEW p \in Pages
                 PROVE  /\ freq_list'[p] <= step + 1 /\ uses'[p] <= step + 1
                        /\ last'[p] <= step + 1 /\ loaded_at'[p] <= step + 1
                        /\ passed_at'[p] <= step + 1
      OBVIOUS
    <3>1. /\ freq_list[p] \in Nat /\ uses[p] \in Nat /\ last[p] \in Nat /\ loaded_at[p] \in Nat
          /\ passed_at[p] \in Nat /\ step \in Nat
      BY <1>1, Numbers
    <3>2. /\ freq_list[p] <= step /\ uses[p] <= step /\ last[p] <= step /\ loaded_at[p] <= step
          /\ passed_at[p] <= step
      BY <1>1 DEF StepInv
    <3> QED  BY <1>3, <3>1, <3>2
  <2>3. Len(queue) <= max_size /\ victim' \in Pages \cup {NoPage}
    BY <1>1, <1>3 DEF TypeInv
  <2>4. Len(queue') = max_size \/ (Resident \subseteq ToSet(queue') /\ ~Full)
    BY <1>4 DEF Full
  <2> QED  BY <1>1, <1>3, <1>4, <1>5, <2>1, <2>2, <2>3, <2>4, CommonStep
<1>7. CASE alg = FIRST_IN_FIRST_OUT
  <2>1. queue' = queue
    BY <1>7 DEF hit, hit_queue, FIRST_IN_FIRST_OUT, LEAST_RECENTLY_USED
  <2>2. OrderInv(loaded_at)
    BY <1>7 DEF IInv
  <2>3. OrderInv(loaded_at)'
    BY <1>3, <2>1, <2>2 DEF OrderInv, Resident
  <2> QED  BY <1>2, <1>6, <1>7, <2>3 DEF IInv, FIRST_IN_FIRST_OUT, LEAST_RECENTLY_USED,
             LEAST_FREQUENTLY_USED, SECOND_CHANCE, CIRCULAR_QUEUE
<1>8. CASE alg = LEAST_RECENTLY_USED
  <2>1. OrderInv(requested_at)'
    BY <1>8, HitLru
  <2> QED  BY <1>2, <1>6, <1>8, <2>1 DEF IInv, FIRST_IN_FIRST_OUT, LEAST_RECENTLY_USED,
             LEAST_FREQUENTLY_USED, SECOND_CHANCE, CIRCULAR_QUEUE
<1>9. CASE alg \in {SECOND_CHANCE, CIRCULAR_QUEUE}
  <2>1. ClockInv'
    BY <1>9, HitClock
  <2> QED  BY <1>2, <1>6, <1>9, <2>1 DEF IInv, FIRST_IN_FIRST_OUT, LEAST_RECENTLY_USED,
             LEAST_FREQUENTLY_USED, SECOND_CHANCE, CIRCULAR_QUEUE
<1>10. CASE alg \notin {FIRST_IN_FIRST_OUT, LEAST_RECENTLY_USED, SECOND_CHANCE, CIRCULAR_QUEUE}
  BY <1>2, <1>6, <1>10 DEF IInv
<1> QED  BY <1>7, <1>8, <1>9, <1>10

----------------------------------------------------------------------------
(* A request for a page that is not resident.                              *)

Clocks == {SECOND_CHANCE, CIRCULAR_QUEUE}

\* The pages in front that have the bit, up to the first that has not.
LEMMA PassedFacts ==
  ASSUME TypeInv
  PROVE  /\ passed \in 0 .. Len(queue) /\ passed \in Nat
         /\ alg \notin Clocks => passed = 0
         /\ alg \in Clocks =>
              /\ \A i \in 1 .. passed : bit_refs[queue[i]] = chance_bit
              /\ passed < Len(queue) => bit_refs[queue[passed + 1]] # chance_bit
<1>1. Len(queue) \in Nat
  BY Numbers
<1>2. CASE alg \notin Clocks
  BY <1>1, <1>2 DEF passed, Clocks
<1>3. CASE alg \in Clocks
  <2> DEFINE stops == {i \in 1 .. Len(queue) : bit_refs[queue[i]] # chance_bit} \cup {Len(queue) + 1}
             m == Min(stops)
  <2>1. passed = m - 1
    BY <1>3 DEF passed, Clocks, chance_bit
  <2>2. stops \in SUBSET Nat /\ stops # {} /\ Len(queue) + 1 \in stops
        /\ \A i \in stops : i \in 1 .. Len(queue) + 1
    BY <1>1
  <2>3. m \in stops /\ \A i \in stops : m <= i
    <3> HIDE DEF stops
    <3>1. \E x \in stops : \A y \in stops : x <= y
      BY <2>2, NatHasMin
    <3> QED  BY <3>1 DEF Min
  <2> HIDE DEF m
  <2>4. m \in 1 .. Len(queue) + 1
    BY <2>2, <2>3
  <2>5. \A i \in 1 .. m - 1 : bit_refs[queue[i]] = chance_bit
    <3> SUFFICES ASSUME NEW i \in 1 .. m - 1, bit_refs[queue[i]] # chance_bit PROVE FALSE
      OBVIOUS
    <3>1. i \in 1 .. Len(queue) /\ ~ (m <= i)
      BY <1>1, <2>4
    <3> QED  BY <2>3, <3>1
  <2>6. m - 1 < Len(queue) => bit_refs[queue[(m - 1) + 1]] # chance_bit
    <3> SUFFICES ASSUME m - 1 < Len(queue) PROVE bit_refs[queue[(m - 1) + 1]] # chance_bit
      OBVIOUS
    <3>1. m # Len(queue) + 1 /\ (m - 1) + 1 = m
      BY <1>1, <2>4
    <3> QED  BY <2>3, <3>1
  <2>7. m - 1 \in 0 .. Len(queue) /\ m - 1 \in Nat
    BY <1>1, <2>4
  <2> HIDE DEF stops
  <2> QED  BY <1>3, <2>1, <2>5, <2>6, <2>7
<1> QED  BY <1>2, <1>3

\* No frame has to be freed.
LEMMA MissRoom ==
  ASSUME IInv, NEW page \in Pages, miss(page), ~Full
  PROVE  /\ queue' = Append(queue, page) /\ queue' \in Seq(Pages) /\ NoDuplicates(queue')
         /\ Len(queue') <= max_size /\ ToSet(queue') = Resident \cup {page}
         /\ page \notin Resident /\ victim' = NoPage /\ passed_at' = passed_at
<1>1. TypeInv /\ NoDuplicates(queue) /\ queue \in Seq(Pages) /\ Len(queue) <= max_size
  BY DEF IInv, QueueInv, TypeInv
<1>2. /\ queue' = Append(queue, page) /\ page \notin Resident /\ victim' = NoPage
      /\ passed_at' = passed_at
  BY DEF miss, evicts
<1>3. /\ queue' \in Seq(Pages) /\ NoDuplicates(queue') /\ Len(queue') = Len(queue) + 1
      /\ ToSet(queue') = Resident \cup {page}
  BY <1>1, <1>2, AppendFacts DEF Resident
<1>4. Len(queue') <= max_size
  <2>1. Len(queue) \in Nat /\ max_size \in Nat /\ Len(queue) # max_size
    BY <1>1, Numbers DEF Full
  <2> QED  BY <1>1, <1>3, <2>1
<1> QED  BY <1>2, <1>3, <1>4

\* A page is evicted: the first one after those that are passed.
LEMMA MissEvicts ==
  ASSUME IInv, NEW page \in Pages, miss(page), Full
  PROVE  /\ Rotated(queue, passed) \in Seq(Pages) /\ Rotated(queue, passed) # <<>>
         /\ NoDuplicates(Rotated(queue, passed)) /\ ToSet(Rotated(queue, passed)) = Resident
         /\ victim' = Head(Rotated(queue, passed))
         /\ victim' = queue[IF passed < Len(queue) THEN passed + 1 ELSE 1] /\ victim' \in Resident
         /\ queue' = Append(Tail(Rotated(queue, passed)), page)
         /\ queue' \in Seq(Pages) /\ NoDuplicates(queue') /\ Len(queue') = max_size
         /\ ToSet(queue') = (Resident \ {victim'}) \cup {page} /\ page \notin Resident
<1>1. TypeInv /\ NoDuplicates(queue) /\ queue \in Seq(Pages)
  BY DEF IInv, QueueInv, TypeInv
<1> DEFINE n == Len(queue)
           r == Rotated(queue, passed)
<1>2. n \in Nat /\ n >= 1 /\ n = max_size
  BY <1>1, Numbers DEF Full
<1>3. passed \in 0 .. n /\ passed \in Nat
  BY <1>1, PassedFacts
<1>4. /\ r \in Seq(Pages) /\ Len(r) = n /\ NoDuplicates(r) /\ ToSet(r) = Resident
      /\ \A i \in 1 .. n : r[i] = queue[IF i <= n - passed THEN passed + i ELSE i - (n - passed)]
  BY <1>1, <1>3, RotateFacts DEF Resident
<1>5. victim' = Head(r) /\ queue' = Append(Tail(r), page) /\ page \notin Resident
  BY DEF miss, evicts, Rotated
<1> HIDE DEF n, r
<1>6. r # <<>>
  BY <1>2, <1>4, EmptyFacts
<1>7. /\ Head(r) = r[1] /\ Tail(r) \in Seq(Pages) /\ Len(Tail(r)) = n - 1 /\ NoDuplicates(Tail(r))
      /\ ToSet(r) = ToSet(Tail(r)) \cup {Head(r)} /\ Head(r) \notin ToSet(Tail(r))
  BY <1>4, <1>6, TailFacts
<1>8. ToSet(Tail(r)) = Resident \ {victim'} /\ victim' \in Resident
  BY <1>4, <1>5, <1>7
<1>9. page \notin ToSet(Tail(r))
  BY <1>5, <1>8
<1>10. /\ queue' \in Seq(Pages) /\ NoDuplicates(queue') /\ Len(queue') = Len(Tail(r)) + 1
       /\ ToSet(queue') = ToSet(Tail(r)) \cup {page}
  <2> DEFINE tl == Tail(r)
  <2>1. tl \in Seq(Pages) /\ NoDuplicates(tl) /\ page \notin ToSet(tl)
    BY <1>7, <1>9
  <2>2. queue' = Append(tl, page)
    BY <1>5
  <2> HIDE DEF tl
  <2>3. /\ Append(tl, page) \in Seq(Pages) /\ Len(Append(tl, page)) = Len(tl) + 1
        /\ ToSet(Append(tl, page)) = ToSet(tl) \cup {page} /\ NoDuplicates(Append(tl, page))
    BY <2>1, AppendFacts
  <2>4. /\ queue' \in Seq(Pages) /\ NoDuplicates(queue') /\ Len(queue') = Len(tl) + 1
        /\ ToSet(queue') = ToSet(tl) \cup {page}
    BY <2>2, <2>3
  <2> QED  BY <2>4 DEF tl
<1>11. Len(queue') = max_size
  BY <1>2, <1>7, <1>10
<1>12. victim' = queue[IF passed < n THEN passed + 1 ELSE 1]
  <2> DEFINE x == IF 1 <= n - passed THEN passed + 1 ELSE 1 - (n - passed)
  <2>1. r[1] = queue[x]
    <3>1. 1 \in 1 .. n
      BY <1>2
    <3> QED  BY <1>4, <3>1
  <2>2. x = IF passed < n THEN passed + 1 ELSE 1
    BY <1>2, <1>3
  <2> HIDE DEF x
  <2> QED  BY <1>5, <1>7, <2>1, <2>2
<1> QED  BY <1>4, <1>5, <1>6, <1>8, <1>10, <1>11, <1>12 DEF r, n

\* FIFO and LRU: f is the time that the new page is stamped with.
LEMMA MissOrder ==
  ASSUME IInv, NEW page \in Pages, miss(page), alg \notin Clocks,
         NEW f \in Times, OrderInv(f), \A p \in Pages : f[p] <= step,
         NEW g, g = [f EXCEPT ![page] = step + 1]
  PROVE  /\ InOrder(queue', g)
         /\ \A p \in ToSet(queue'), o \in Pages \ ToSet(queue') : g[o] < g[p]
<1>1. /\ TypeInv /\ NoDuplicates(queue) /\ queue \in Seq(Pages) /\ step \in Nat
      /\ InOrder(queue, f) /\ \A p \in Resident, o \in Pages \ Resident : f[o] < f[p]
  BY Numbers DEF IInv, QueueInv, TypeInv, OrderInv
<1>2. CASE ~Full
  <2>1. queue' = Append(queue, page) /\ page \notin ToSet(queue)
    BY <1>2, MissRoom DEF Resident
  <2>2. \A p \in ToSet(queue), o \in Pages \ ToSet(queue) : o # page => f[o] < f[p]
    BY <1>1 DEF Resident
  <2>3. /\ InOrder(Append(queue, page), g)
        /\ \A p \in ToSet(Append(queue, page)), o \in Pages \ ToSet(Append(queue, page)) : g[o] < g[p]
    BY <1>1, <2>1, <2>2, OrderAppend
  <2> QED  BY <2>1, <2>3
<1>3. CASE Full
  <2> DEFINE tl == Tail(queue)
  <2>1. passed = 0 /\ passed \in 0 .. Len(queue)
    BY <1>1, PassedFacts
  <2>2. Rotated(queue, passed) = queue
    <3>1. /\ Rotated(queue, passed) \in Seq(Pages) /\ Len(Rotated(queue, passed)) = Len(queue)
          /\ \A i \in 1 .. Len(queue) : Rotated(queue, passed)[i]
               = queue[IF i <= Len(queue) - passed THEN passed + i ELSE i - (Len(queue) - passed)]
      BY <1>1, <2>1, RotateFacts
    <3>2. Len(queue) \in Nat
      BY <1>1, Numbers
    <3>3. ASSUME NEW i \in 1 .. Len(queue) PROVE Rotated(queue, passed)[i] = queue[i]
      <4>1. (IF i <= Len(queue) - passed THEN passed + i ELSE i - (Len(queue) - passed)) = i
        BY <2>1, <3>2
      <4> QED  BY <3>1, <4>1
    <3> QED  BY <1>1, <3>1, <3>3, SeqEqual
  <2>3. queue # <<>> /\ queue' = Append(tl, page) /\ page \notin ToSet(queue)
    BY <1>3, <2>2, MissEvicts DEF Resident
  <2>4. tl \in Seq(Pages) /\ ToSet(queue) = ToSet(tl) \cup {Head(queue)}
    BY <1>1, <2>3, TailFacts
  <2>5. InOrder(tl, f) /\ \A p \in ToSet(tl) : f[Head(queue)] < f[p]
    BY <1>1, <2>3, OrderTail
  <2> HIDE DEF tl
  <2>6. \A p \in ToSet(tl), o \in Pages \ ToSet(tl) : o # page => f[o] < f[p]
    BY <1>1, <2>4, <2>5 DEF Resident
  <2>7. page \notin ToSet(tl)
    BY <2>3, <2>4
  <2>8. /\ InOrder(Append(tl, page), g)
        /\ \A p \in ToSet(Append(tl, page)), o \in Pages \ ToSet(Append(tl, page)) : g[o] < g[p]
    BY <1>1, <2>4, <2>5, <2>6, <2>7, OrderAppend
  <2> QED  BY <2>3, <2>8
<1> QED  BY <1>2, <1>3

\* The pages that have their second chance.
InFront == {queue[i] : i \in 1 .. passed}

\* What the clocks do to each page: the bit of a page in front is flipped, a
\* new page has the bit 0, and the others are left alone.
LEMMA ClockMoves ==
  ASSUME IInv, NEW page \in Pages, Requested(page), miss(page), alg \in Clocks, NEW p \in Pages
  PROVE  /\ Full /\ p \in InFront =>
              /\ p \in Resident /\ p # page /\ bit_refs[p] = chance_bit
              /\ bit_refs'[p] = 1 - chance_bit /\ passed_at'[p] = step + 1
              /\ loaded_at'[p] = loaded_at[p]
         /\ ~ (Full /\ p \in InFront) /\ p # page =>
              /\ bit_refs'[p] = bit_refs[p] /\ passed_at'[p] = passed_at[p]
              /\ loaded_at'[p] = loaded_at[p]
         /\ p = page =>
              /\ bit_refs'[p] = 0 /\ passed_at'[p] = passed_at[p] /\ loaded_at'[p] = step + 1
              /\ p \notin InFront
<1>1. TypeInv /\ ClockInv /\ live /\ page \notin Resident /\ queue \in Seq(Pages)
  BY DEF IInv, Requested, miss, Clocks, TypeInv
<1>2. passed \in 0 .. Len(queue) /\ Len(queue) \in Nat /\ \A i \in 1 .. passed : bit_refs[queue[i]] = chance_bit
  BY <1>1, PassedFacts, Numbers
<1>3. p \in InFront <=> p \in ToSet(SubSeq(queue, 1, passed))
  BY <1>1, <1>2, FrontFacts DEF InFront
<1>4. p \in InFront => p \in Resident /\ p # page /\ bit_refs[p] = chance_bit
  <2> SUFFICES ASSUME p \in InFront PROVE p \in Resident /\ p # page /\ bit_refs[p] = chance_bit
    OBVIOUS
  <2>1. PICK i \in 1 .. passed : p = queue[i]
    BY DEF InFront
  <2>2. i \in 1 .. Len(queue)
    BY <1>2, <2>1
  <2>3. p \in Resident
    BY <1>1, <2>1, <2>2, ToSetIndex DEF Resident
  <2> QED  BY <1>1, <1>2, <2>1, <2>3
<1> DEFINE asked == IF alg = CIRCULAR_QUEUE THEN [bit_refs EXCEPT ![page] = 0] ELSE bit_refs
<1>5. asked[p] = IF p = page THEN 0 ELSE bit_refs[p]
  <2>1. CASE alg = CIRCULAR_QUEUE
    <3>1. bit_refs \in [Pages -> 0 .. 1]
      BY <1>1 DEF TypeInv
    <3> QED  BY <2>1, <3>1
  <2>2. CASE alg = SECOND_CHANCE
    <3>1. asked = bit_refs /\ bit_refs[page] = 0
      BY <1>1, <2>2 DEF ClockInv, SECOND_CHANCE, CIRCULAR_QUEUE
    <3> QED  BY <3>1
  <2> QED  BY <2>1, <2>2 DEF Clocks
<1>6. loaded_at'[p] = IF p = page THEN step + 1 ELSE loaded_at[p]
  <2>1. loaded_at \in [Pages -> Nat] /\ loaded_at' = [loaded_at EXCEPT ![page] = step + 1]
    BY <1>1 DEF TypeInv, Times, miss
  <2> QED  BY <2>1
<1>7. CASE Full
  <2>1. /\ bit_refs'[p] = IF p \in InFront THEN 1 - bit_refs[p] ELSE asked[p]
        /\ passed_at'[p] = IF p \in InFront THEN step + 1 ELSE passed_at[p]
    <3> HIDE DEF asked
    <3>1. /\ bit_refs' = [x \in Pages |-> IF x \in ToSet(SubSeq(queue, 1, passed))
                                         THEN 1 - bit_refs[x] ELSE asked[x]]
          /\ passed_at' = [x \in Pages |-> IF x \in ToSet(SubSeq(queue, 1, passed))
                                          THEN step + 1 ELSE passed_at[x]]
      BY <1>7 DEF miss, evicts, asked
    <3> QED  BY <1>3, <3>1
  <2> HIDE DEF asked
  <2> QED  BY <1>4, <1>5, <1>6, <1>7, <2>1
<1>8. CASE ~Full
  <2>1. bit_refs' = asked /\ passed_at' = passed_at
    BY <1>8 DEF miss, evicts
  <2> HIDE DEF asked
  <2> QED  BY <1>4, <1>5, <1>6, <1>8, <2>1
<1> QED  BY <1>7, <1>8

LEMMA MissTurns ==
  ASSUME IInv, NEW page \in Pages, Requested(page), miss(page), alg \in Clocks
  PROVE  InTurn(queue', Turns')
<1>1. /\ TypeInv /\ StepInv /\ InTurn(queue, Turns) /\ NoDuplicates(queue) /\ queue \in Seq(Pages)
      /\ step \in Nat
  BY Numbers DEF IInv, QueueInv, ClockInv, Clocks, TypeInv
<1>2. \A p \in Pages : Turns'[p] = Turn(p)' /\ Turns[p] = Turn(p)
  BY DEF Turns
<1>3. ASSUME NEW p \in Pages
      PROVE  /\ Turns[p] <= step /\ Turns[p] \in Nat
             /\ Full /\ p \in InFront => Turns'[p] = step + 1
             /\ ~ (Full /\ p \in InFront) /\ p # page => Turns'[p] = Turns[p]
             /\ p = page => Turns'[p] = step + 1
  <2>1. /\ loaded_at[p] \in Nat /\ passed_at[p] \in Nat /\ loaded_at[p] <= step /\ passed_at[p] <= step
    BY <1>1, Numbers DEF StepInv
  <2>2. Turns[p] <= step /\ Turns[p] \in Nat
    BY <1>2, <2>1 DEF Turn
  <2>3. ASSUME Full, p \in InFront PROVE Turns'[p] = step + 1
    <3>1. passed_at'[p] = step + 1 /\ loaded_at'[p] = loaded_at[p]
      BY <2>3, ClockMoves
    <3>2. passed_at'[p] > loaded_at'[p]
      BY <1>1, <2>1, <3>1
    <3> QED  BY <1>2, <3>1, <3>2 DEF Turn
  <2>4. ASSUME ~ (Full /\ p \in InFront), p # page PROVE Turns'[p] = Turns[p]
    <3>1. passed_at'[p] = passed_at[p] /\ loaded_at'[p] = loaded_at[p]
      BY <2>4, ClockMoves
    <3> QED  BY <1>2, <3>1 DEF Turn
  <2>5. ASSUME p = page PROVE Turns'[p] = step + 1
    <3>1. passed_at'[p] = passed_at[p] /\ loaded_at'[p] = step + 1
      BY <2>5, ClockMoves
    <3>2. ~ (passed_at'[p] > loaded_at'[p])
      BY <1>1, <2>1, <3>1
    <3> QED  BY <1>2, <3>1, <3>2 DEF Turn
  <2> QED  BY <2>2, <2>3, <2>4, <2>5
<1>4. page \notin Resident /\ Resident \subseteq Pages /\ \A i \in 1 .. Len(queue) : queue[i] \in Resident
  BY <1>1, ToSetSubset, ToSetIndex DEF miss, Resident
<1>5. \A p \in Pages : Turns'[p] <= Turns'[page]
  <2> SUFFICES ASSUME NEW p \in Pages PROVE Turns'[p] <= Turns'[page]
    OBVIOUS
  <2>1. Turns'[page] = step + 1 /\ Turns[p] <= step /\ Turns[p] \in Nat
    BY <1>3
  <2>2. Turns'[p] = step + 1 \/ Turns'[p] = Turns[p]
    BY <1>3
  <2> QED  BY <1>1, <2>1, <2>2
<1>6. CASE ~Full
  <2>1. queue' = Append(queue, page)
    BY <1>6, MissRoom
  <2>2. \A i \in 1 .. Len(queue) : Turns'[queue[i]] = Turns[queue[i]]
    BY <1>3, <1>4, <1>6
  <2>3. InTurn(queue, Turns')
    BY <1>1, <2>2 DEF InTurn
  <2>4. \A p \in ToSet(queue) : Turns'[p] <= Turns'[page]
    BY <1>4, <1>5 DEF Resident
  <2> QED  BY <1>1, <2>1, <2>3, <2>4, TurnAppend
<1>7. CASE Full
  <2> DEFINE r == Rotated(queue, passed)
  <2>1. /\ r \in Seq(Pages) /\ r # <<>> /\ ToSet(r) = Resident /\ queue' = Append(Tail(r), page)
    BY <1>7, MissEvicts
  <2>2. passed \in 0 .. Len(queue) /\ Len(queue) \in Nat
    BY <1>1, PassedFacts, Numbers
  <2>3. \A i \in 1 .. passed : Turns'[queue[i]] = step + 1
    <3> SUFFICES ASSUME NEW i \in 1 .. passed PROVE Turns'[queue[i]] = step + 1
      OBVIOUS
    <3>1. queue[i] \in InFront /\ i \in 1 .. Len(queue)
      BY <2>2 DEF InFront
    <3>2. queue[i] \in Pages
      BY <1>4, <3>1
    <3> QED  BY <1>3, <1>7, <3>1, <3>2
  <2>4. ASSUME NEW i \in passed + 1 .. Len(queue)
        PROVE  Turns'[queue[i]] = Turns[queue[i]] /\ Turns[queue[i]] <= step + 1
    <3>1. i \in 1 .. Len(queue) /\ \A j \in 1 .. passed : j \in 1 .. Len(queue) /\ j # i
      BY <2>2
    <3>2. queue[i] \notin InFront
      BY <1>1, <3>1 DEF InFront, NoDuplicates
    <3>3. queue[i] \in Pages /\ queue[i] # page
      BY <1>4, <3>1
    <3>4. Turns'[queue[i]] = Turns[queue[i]] /\ Turns[queue[i]] <= step /\ Turns[queue[i]] \in Nat
      BY <1>3, <3>2, <3>3
    <3> QED  BY <1>1, <3>4
  <2>5. InTurn(r, Turns')
    <3> DEFINE v == Turns'
               w == Turns
               s == step + 1
               k == passed
    <3>1. /\ s \in Nat /\ k \in 0 .. Len(queue) /\ TurnsPassed(queue, k, w, v, s)
      BY <1>1, <2>2, <2>3, <2>4 DEF TurnsPassed
    <3>2. InTurn(queue, w)
      BY <1>1
    <3> HIDE DEF v, w, s, k
    <3>3. InTurn(Rotated(queue, k), v)
      BY <1>1, <3>1, <3>2, TurnRotate
    <3> QED  BY <3>3 DEF v, k
  <2> HIDE DEF r
  <2>6. InTurn(Tail(r), Turns') /\ Tail(r) \in Seq(Pages) /\ ToSet(Tail(r)) \subseteq Pages
    BY <2>1, <2>5, TurnTail, TailFacts, ToSetSubset
  <2> DEFINE tl == Tail(r)
  <2> HIDE DEF tl
  <2>7. InTurn(Append(tl, page), Turns')
    <3>1. tl \in Seq(Pages) /\ InTurn(tl, Turns') /\ \A p \in ToSet(tl) : Turns'[p] <= Turns'[page]
      BY <1>5, <2>6 DEF tl
    <3> QED  BY <3>1, TurnAppend
  <2> QED  BY <2>1, <2>7 DEF tl
<1> QED  BY <1>6, <1>7

LEMMA MissClock ==
  ASSUME IInv, NEW page \in Pages, Requested(page), miss(page), alg \in Clocks
  PROVE  ClockInv'
<1>1. TypeInv /\ StepInv /\ ClockInv /\ queue \in Seq(Pages) /\ NoDuplicates(queue) /\ step \in Nat
  BY Numbers DEF IInv, Clocks, TypeInv, QueueInv
<1>2. /\ alg' = alg /\ live' = live /\ live /\ requested_at'[page] = step + 1
      /\ \A p \in Pages : p # page => requested_at'[p] = requested_at[p]
  BY <1>1, RequestedFacts
<1>3. chance_bit' = chance_bit /\ chance_bit \in 0 .. 1
  BY <1>2 DEF chance_bit
<1>4. /\ page \notin Resident /\ Resident \subseteq Pages
      /\ Resident' \subseteq Resident \cup {page}
      /\ Pages \ Resident' \subseteq (Pages \ Resident) \cup {victim'} /\ page \in Resident'
  <2>1. page \notin Resident /\ Resident \subseteq Pages
    BY <1>1, ToSetSubset DEF miss, Resident
  <2>2. CASE Full
    BY <2>1, <2>2, MissEvicts DEF Resident
  <2>3. CASE ~Full
    BY <2>1, <2>3, MissRoom DEF Resident
  <2> QED  BY <2>1, <2>2, <2>3
<1>5. ASSUME NEW p \in Resident' PROVE bit_refs'[p] = chance_bit <=> Referenced(p)'
  <2>1. p \in Pages
    BY <1>4
  <2>2. /\ requested_at[p] \in Nat /\ requested_at[p] <= step /\ loaded_at[p] \in Nat /\ passed_at[p] \in Nat
        /\ loaded_at[p] <= step /\ passed_at[p] <= step
    BY <1>1, <2>1, Numbers DEF StepInv
  <2>3. CASE p = page
    <3>1. bit_refs'[p] = 0 /\ passed_at'[p] = passed_at[p] /\ loaded_at'[p] = step + 1
      BY <2>3, ClockMoves
    <3>2. requested_at'[p] > passed_at'[p] /\ ~ (requested_at'[p] > loaded_at'[p])
      BY <1>1, <1>2, <2>2, <2>3, <3>1
    <3>3. Referenced(p)' <=> alg # SECOND_CHANCE
      BY <1>2, <3>2 DEF Referenced
    <3>4. bit_refs'[p] = chance_bit <=> alg # SECOND_CHANCE
      BY <3>1 DEF chance_bit
    <3> QED  BY <3>3, <3>4
  <2>4. CASE p # page /\ Full /\ p \in InFront
    <3>1. bit_refs'[p] = 1 - chance_bit /\ passed_at'[p] = step + 1
      BY <2>1, <2>4, ClockMoves
    <3>2. bit_refs'[p] # chance_bit
      BY <1>3, <3>1
    <3>3. ~ (requested_at'[p] > passed_at'[p])
      BY <1>1, <1>2, <2>1, <2>2, <2>4, <3>1
    <3> QED  BY <3>2, <3>3 DEF Referenced
  <2>5. CASE p # page /\ ~ (Full /\ p \in InFront)
    <3>1. bit_refs'[p] = bit_refs[p] /\ passed_at'[p] = passed_at[p] /\ loaded_at'[p] = loaded_at[p]
      BY <2>1, <2>5, ClockMoves
    <3>2. Referenced(p)' <=> Referenced(p)
      BY <1>2, <2>1, <2>5, <3>1 DEF Referenced
    <3>3. p \in Resident
      BY <1>4, <2>5
    <3> QED  BY <1>1, <3>1, <3>2, <3>3 DEF ClockInv
  <2> QED  BY <2>3, <2>4, <2>5
<1>6. ASSUME alg = SECOND_CHANCE, NEW p \in Pages \ Resident' PROVE bit_refs'[p] = 0
  <2>1. p # page /\ chance_bit = 1
    BY <1>4, <1>6 DEF chance_bit
  <2>2. CASE Full /\ p \in InFront
    <3>1. bit_refs'[p] = 1 - chance_bit
      BY <2>2, ClockMoves
    <3> QED  BY <2>1, <3>1
  <2>3. CASE ~ (Full /\ p \in InFront)
    <3>1. bit_refs'[p] = bit_refs[p]
      BY <2>1, <2>3, ClockMoves
    <3>2. CASE p \in Resident
      <4>1. p = victim' /\ Full
        <5>1. Full
          BY <1>6, <3>2, MissRoom DEF Resident
        <5> QED  BY <1>4, <1>6, <3>2, <5>1
      <4>2. p = queue[IF passed < Len(queue) THEN passed + 1 ELSE 1]
        BY <4>1, MissEvicts
      <4>3. passed \in 0 .. Len(queue) /\ Len(queue) \in Nat /\ Len(queue) >= 1
            /\ (passed < Len(queue) => bit_refs[queue[passed + 1]] # chance_bit)
        BY <1>1, <4>1, PassedFacts, Numbers DEF Full
      <4>4. passed < Len(queue)
        <5> SUFFICES ASSUME ~ (passed < Len(queue)) PROVE FALSE
          OBVIOUS
        <5>1. p = queue[1] /\ 1 \in 1 .. passed
          BY <4>2, <4>3
        <5> QED  BY <2>3, <4>1, <5>1 DEF InFront
      <4>5. bit_refs[p] # 1 /\ bit_refs[p] \in 0 .. 1
        BY <1>1, <2>1, <4>2, <4>3, <4>4, Numbers
      <4> QED  BY <3>1, <4>5
    <3>3. CASE p \notin Resident
      BY <1>1, <1>2, <1>6, <3>1, <3>3 DEF ClockInv
    <3> QED  BY <3>2, <3>3
  <2> QED  BY <2>2, <2>3
<1>7. InTurn(queue', Turns')
  BY MissTurns
<1> QED  BY <1>2, <1>3, <1>5, <1>6, <1>7 DEF ClockInv

LEMMA MissStep ==
  ASSUME IInv, NEW page \in Pages, Requested(page), miss(page), alg # LEAST_FREQUENTLY_USED,
         UNCHANGED <<freq_list, uses, last>>
  PROVE  IInv'
<1>1. TypeInv /\ StepInv /\ QueueInv /\ step \in Nat
  BY Numbers DEF IInv
<1>2. alg' = alg /\ requested_at' = [requested_at EXCEPT ![page] = step + 1]
  BY <1>1, RequestedFacts DEF Requested
<1>3. /\ queue' \in Seq(Pages) /\ NoDuplicates(queue') /\ Len(queue') <= max_size
      /\ ToSet(queue') \subseteq Resident \cup {page} /\ page \in ToSet(queue')
      /\ Len(queue') = max_size \/ (Resident \subseteq ToSet(queue') /\ ~Full)
      /\ victim' \in Pages \cup {NoPage}
  <2>1. CASE Full
    <3>1. /\ queue' \in Seq(Pages) /\ NoDuplicates(queue') /\ Len(queue') = max_size
          /\ ToSet(queue') = (Resident \ {victim'}) \cup {page} /\ victim' \in Resident
      BY <2>1, MissEvicts
    <3>2. Resident \subseteq Pages /\ max_size \in Nat
      BY <1>1, ToSetSubset, Numbers DEF Resident, TypeInv
    <3>3. Len(queue') <= max_size
      BY <3>1, <3>2
    <3> QED  BY <3>1, <3>2, <3>3
  <2>2. CASE ~Full
    <3>1. /\ queue' \in Seq(Pages) /\ NoDuplicates(queue') /\ Len(queue') <= max_size
          /\ ToSet(queue') = Resident \cup {page} /\ victim' = NoPage
      BY <2>2, MissRoom
    <3> QED  BY <2>2, <3>1
  <2> QED  BY <2>1, <2>2
<1>4. loaded_at' = [loaded_at EXCEPT ![page] = step + 1] /\ loaded_at \in Times
  BY <1>1 DEF miss, TypeInv
<1>5. bit_refs' \in [Pages -> 0 .. 1] /\ passed_at' \in Times
      /\ \A p \in Pages : passed_at'[p] <= step + 1
  <2>1. /\ bit_refs \in [Pages -> 0 .. 1] /\ passed_at \in [Pages -> Nat]
        /\ \A p \in Pages : passed_at[p] <= step
    BY <1>1 DEF TypeInv, Times, StepInv
  <2> DEFINE asked == IF alg = CIRCULAR_QUEUE THEN [bit_refs EXCEPT ![page] = 0] ELSE bit_refs
             F == ToSet(SubSeq(queue, 1, passed))
  <2>2. asked \in [Pages -> 0 .. 1]
    BY <2>1
  <2>3. CASE Full
    <3>1. /\ bit_refs' = [p \in Pages |-> IF p \in F THEN 1 - bit_refs[p] ELSE asked[p]]
          /\ passed_at' = [p \in Pages |-> IF p \in F THEN step + 1 ELSE passed_at[p]]
      BY <2>3 DEF miss, evicts
    <3> HIDE DEF asked, F
    <3>2. bit_refs' \in [Pages -> 0 .. 1]
      <4>1. \A p \in Pages : 1 - bit_refs[p] \in 0 .. 1 /\ asked[p] \in 0 .. 1
        BY <2>1, <2>2
      <4> QED  BY <3>1, <4>1
    <3>3. passed_at' \in Times /\ \A p \in Pages : passed_at'[p] <= step + 1
      <4>1. \A p \in Pages : passed_at[p] \in Nat /\ passed_at[p] <= step + 1 /\ step + 1 \in Nat
        BY <1>1, <2>1
      <4>2. step + 1 <= step + 1
        BY <1>1
      <4> QED  BY <3>1, <4>1, <4>2 DEF Times
    <3> QED  BY <3>2, <3>3
  <2>4. CASE ~Full
    <3>1. bit_refs' = asked /\ passed_at' = passed_at
      BY <2>4 DEF miss, evicts
    <3> HIDE DEF asked
    <3>2. \A p \in Pages : passed_at[p] <= step + 1
      BY <1>1, <2>1
    <3> QED  BY <2>1, <2>2, <3>1, <3>2 DEF Times
  <2> QED  BY <2>3, <2>4
<1>6. loaded_at' \in Times /\ \A p \in Pages : loaded_at'[p] <= step + 1
  <2>1. \A p \in Pages : loaded_at[p] \in Nat /\ loaded_at[p] <= step
    BY <1>1, Numbers DEF StepInv
  <2>2. /\ loaded_at' \in Times
        /\ \A p \in Pages : loaded_at'[p] = IF p = page THEN step + 1 ELSE loaded_at[p]
    BY <1>1, <1>4 DEF Times
  <2>3. \A p \in Pages : loaded_at'[p] <= step + 1
    BY <1>1, <2>1, <2>2
  <2> QED  BY <2>2, <2>3
<1>7. /\ freq_list' \in Times /\ uses' \in Times /\ last' \in Times
      /\ \A p \in Pages : freq_list'[p] <= step + 1 /\ uses'[p] <= step + 1 /\ last'[p] <= step + 1
  <2>1. \A p \in Pages : /\ freq_list[p] \in Nat /\ uses[p] \in Nat /\ last[p] \in Nat
                         /\ freq_list[p] <= step /\ uses[p] <= step /\ last[p] <= step
    BY <1>1, Numbers DEF StepInv
  <2>2. \A p \in Pages : freq_list[p] <= step + 1 /\ uses[p] <= step + 1 /\ last[p] <= step + 1
    BY <1>1, <2>1
  <2> QED  BY <1>1, <2>2 DEF TypeInv
<1>8. TypeInv' /\ StepInv' /\ QueueInv'
  BY <1>1, <1>3, <1>5, <1>6, <1>7, CommonStep
<1>9. CASE alg = FIRST_IN_FIRST_OUT
  <2>1. /\ alg \notin Clocks /\ OrderInv(loaded_at) /\ \A p \in Pages : loaded_at[p] <= step
    BY <1>1, <1>9 DEF IInv, StepInv, Clocks, FIRST_IN_FIRST_OUT, SECOND_CHANCE, CIRCULAR_QUEUE
  <2>2. /\ InOrder(queue', loaded_at')
        /\ \A p \in ToSet(queue'), o \in Pages \ ToSet(queue') : loaded_at'[o] < loaded_at'[p]
    BY <1>4, <2>1, MissOrder
  <2>3. OrderInv(loaded_at)'
    BY <2>2 DEF OrderInv, Resident
  <2> QED  BY <1>2, <1>8, <1>9, <2>3 DEF IInv, FIRST_IN_FIRST_OUT, LEAST_RECENTLY_USED,
             LEAST_FREQUENTLY_USED, SECOND_CHANCE, CIRCULAR_QUEUE
<1>10. CASE alg = LEAST_RECENTLY_USED
  <2>1. /\ alg \notin Clocks /\ OrderInv(requested_at) /\ \A p \in Pages : requested_at[p] <= step
        /\ requested_at \in Times
    BY <1>1, <1>10 DEF IInv, StepInv, Clocks, LEAST_RECENTLY_USED, SECOND_CHANCE, CIRCULAR_QUEUE, TypeInv
  <2>2. /\ InOrder(queue', requested_at')
        /\ \A p \in ToSet(queue'), o \in Pages \ ToSet(queue') : requested_at'[o] < requested_at'[p]
    BY <1>2, <2>1, MissOrder
  <2>3. OrderInv(requested_at)'
    BY <2>2 DEF OrderInv, Resident
  <2> QED  BY <1>2, <1>8, <1>10, <2>3 DEF IInv, FIRST_IN_FIRST_OUT, LEAST_RECENTLY_USED,
             LEAST_FREQUENTLY_USED, SECOND_CHANCE, CIRCULAR_QUEUE
<1>11. CASE alg \in Clocks
  <2>1. ClockInv'
    BY <1>11, MissClock
  <2> QED  BY <1>2, <1>8, <1>11, <2>1 DEF IInv, FIRST_IN_FIRST_OUT, LEAST_RECENTLY_USED,
             LEAST_FREQUENTLY_USED, SECOND_CHANCE, CIRCULAR_QUEUE, Clocks
<1>12. CASE alg \notin Clocks \cup {FIRST_IN_FIRST_OUT, LEAST_RECENTLY_USED}
  BY <1>2, <1>8, <1>12 DEF IInv, Clocks
<1> QED  BY <1>9, <1>10, <1>11, <1>12

----------------------------------------------------------------------------
(* A request under LFU.                                                    *)

\* The queue before it is sorted: the head made room for a new page.
LfuQueue(page) ==
  IF page \in Resident THEN queue ELSE Append(IF Full THEN Tail(queue) ELSE queue, page)

LfuUses(page) ==
  [uses EXCEPT ![page] = IF page \in Resident THEN uses[page] + 1 ELSE freq_list[page] + 1]

LfuLast(page) == [last EXCEPT ![page] = step]

\* The page that leaves, if one does.
Leaving(page) == IF page \notin Resident /\ Full THEN {Head(queue)} ELSE {}

LEMMA LfuQueueFacts ==
  ASSUME IInv, NEW page \in Pages
  PROVE  /\ LfuQueue(page) \in Seq(Pages) /\ NoDuplicates(LfuQueue(page))
         /\ Len(LfuQueue(page)) <= max_size
         /\ ToSet(LfuQueue(page)) = (Resident \ Leaving(page)) \cup {page}
         /\ Leaving(page) \subseteq Resident /\ page \notin Leaving(page)
         /\ Len(LfuQueue(page)) = max_size \/ (Leaving(page) = {} /\ ~Full)
         /\ Full => queue # <<>> /\ Head(queue) \in Resident /\ Head(queue) = queue[1]
<1>1. TypeInv /\ queue \in Seq(Pages) /\ NoDuplicates(queue) /\ Len(queue) <= max_size
  BY DEF IInv, TypeInv, QueueInv
<1>2. Len(queue) \in Nat /\ max_size \in Nat /\ max_size >= 1
  BY <1>1, Numbers
<1>3. Full => queue # <<>> /\ Head(queue) \in Resident /\ Head(queue) = queue[1]
  <2> SUFFICES ASSUME Full PROVE queue # <<>> /\ Head(queue) \in Resident /\ Head(queue) = queue[1]
    OBVIOUS
  <2>1. queue # <<>>
    BY <1>2, EmptyFacts DEF Full
  <2> QED  BY <1>1, <2>1, TailFacts DEF Resident
<1>4. CASE page \in Resident
  <2>1. LfuQueue(page) = queue /\ Leaving(page) = {}
    BY <1>4 DEF LfuQueue, Leaving
  <2> QED  BY <1>1, <1>3, <1>4, <2>1 DEF Resident, Full
<1>5. CASE page \notin Resident /\ ~Full
  <2>1. LfuQueue(page) = Append(queue, page) /\ Leaving(page) = {} /\ page \notin ToSet(queue)
    BY <1>5 DEF LfuQueue, Leaving, Resident
  <2>2. /\ Append(queue, page) \in Seq(Pages) /\ NoDuplicates(Append(queue, page))
        /\ Len(Append(queue, page)) = Len(queue) + 1
        /\ ToSet(Append(queue, page)) = Resident \cup {page}
    BY <1>1, <2>1, AppendFacts DEF Resident
  <2>3. Len(Append(queue, page)) <= max_size
    BY <1>1, <1>2, <1>5, <2>2 DEF Full
  <2> QED  BY <1>5, <2>1, <2>2, <2>3
<1>6. CASE page \notin Resident /\ Full
  <2> DEFINE tl == Tail(queue)
  <2>1. LfuQueue(page) = Append(tl, page) /\ Leaving(page) = {Head(queue)}
    BY <1>6 DEF LfuQueue, Leaving
  <2>2. /\ tl \in Seq(Pages) /\ NoDuplicates(tl) /\ Len(tl) = Len(queue) - 1
        /\ ToSet(tl) = Resident \ {Head(queue)} /\ page \notin ToSet(tl)
    BY <1>1, <1>3, <1>6, TailFacts DEF Resident
  <2> HIDE DEF tl
  <2>3. /\ Append(tl, page) \in Seq(Pages) /\ NoDuplicates(Append(tl, page))
        /\ Len(Append(tl, page)) = Len(tl) + 1
        /\ ToSet(Append(tl, page)) = ToSet(tl) \cup {page}
    BY <2>2, AppendFacts
  <2>4. Len(Append(tl, page)) = max_size /\ Len(Append(tl, page)) <= max_size
    BY <1>2, <1>6, <2>2, <2>3 DEF Full
  <2> QED  BY <1>3, <1>6, <2>1, <2>2, <2>3, <2>4
<1> QED  BY <1>4, <1>5, <1>6

\* struct freq_page and freq_list after the request.
LEMMA LfuMoves ==
  ASSUME IInv, alg = LEAST_FREQUENTLY_USED, NEW page \in Pages, Requested(page), request_lfu(page)
  PROVE  /\ uses' = LfuUses(page) /\ last' = LfuLast(page)
         /\ uses' \in Times /\ last' \in Times /\ freq_list' \in Times
         /\ uses'[page] = since_load'[page] /\ last'[page] = step
         /\ \A p \in Pages : p # page => uses'[p] = uses[p] /\ last'[p] = last[p]
         /\ \A p \in Pages : /\ uses'[p] <= step + 1 /\ last'[p] <= step + 1
                             /\ freq_list'[p] <= step + 1
         /\ \A p \in Leaving(page) : freq_list'[p] = 0
         /\ \A p \in Pages \ Leaving(page) : p # page => freq_list'[p] = freq_list[p]
<1>1. TypeInv /\ StepInv /\ LfuInv /\ step \in Nat /\ live
  BY Numbers DEF IInv, Requested
<1>2. \A p \in Pages : /\ freq_list[p] \in Nat /\ uses[p] \in Nat /\ last[p] \in Nat
                       /\ freq_list[p] <= step /\ uses[p] <= step /\ last[p] <= step
  BY <1>1, Numbers DEF StepInv
<1> DEFINE u == IF page \in Resident THEN uses[page] + 1 ELSE freq_list[page] + 1
           freq == [freq_list EXCEPT ![page] = freq_list[page] + 1]
<1>3. freq_list \in Times /\ uses \in Times /\ last \in Times
  BY <1>1 DEF TypeInv
<1>4. u \in Nat /\ u <= step + 1 /\ freq_list[page] + 1 \in Nat /\ freq_list[page] + 1 <= step + 1
  BY <1>1, <1>2
<1>5. u = since_load'[page]
  <2>1. since_load'[page] = IF page \in Resident THEN since_load[page] + 1 ELSE 1
    BY <1>1, RequestedFacts
  <2>2. CASE page \in Resident
    BY <1>1, <2>1, <2>2 DEF LfuInv
  <2>3. CASE page \notin Resident
    <3>1. freq_list[page] = 0
      BY <1>1, <2>3 DEF LfuInv
    <3> QED  BY <2>1, <2>3, <3>1
  <2> QED  BY <2>2, <2>3
<1>6. freq_list' = IF page \notin Resident /\ Full THEN [freq EXCEPT ![Head(queue)] = 0] ELSE freq
  BY DEF request_lfu, forget
<1>7. uses' = LfuUses(page) /\ last' = LfuLast(page)
  <2>1. freq[page] = freq_list[page] + 1
    BY <1>3 DEF Times
  <2>2. /\ uses' = [uses EXCEPT ![page] = IF page \in Resident THEN uses[page] + 1 ELSE freq[page]]
        /\ last' = [last EXCEPT ![page] = step]
    BY DEF request_lfu
  <2> HIDE DEF freq
  <2> QED  BY <2>1, <2>2 DEF LfuUses, LfuLast
<1>8. uses' = [uses EXCEPT ![page] = u] /\ last' = [last EXCEPT ![page] = step]
  BY <1>7 DEF LfuUses, LfuLast
<1>9. freq \in Times /\ \A p \in Pages : freq[p] = IF p = page THEN freq_list[page] + 1 ELSE freq_list[p]
  BY <1>3, <1>4 DEF Times
<1> HIDE DEF u, freq
<1>10. /\ uses' \in Times /\ uses'[page] = u /\ \A p \in Pages : p # page => uses'[p] = uses[p]
  BY <1>3, <1>4, <1>8 DEF Times
<1>11. /\ last' \in Times /\ last'[page] = step /\ \A p \in Pages : p # page => last'[p] = last[p]
  BY <1>1, <1>3, <1>8 DEF Times
<1>12. /\ freq_list' \in Times
       /\ \A p \in Pages : freq_list'[p] = IF p \in Leaving(page) THEN 0 ELSE freq[p]
  <2>1. CASE page \notin Resident /\ Full
    <3>1. Leaving(page) = {Head(queue)} /\ Head(queue) \in Pages
      <4>1. Leaving(page) = {Head(queue)} /\ Head(queue) \in Resident
        BY <2>1, LfuQueueFacts DEF Leaving
      <4> QED  BY <1>1, <4>1, ToSetSubset DEF Resident, TypeInv
    <3>2. freq_list' = [freq EXCEPT ![Head(queue)] = 0]
      BY <1>6, <2>1
    <3> QED  BY <1>9, <3>1, <3>2 DEF Times
  <2>2. CASE ~ (page \notin Resident /\ Full)
    BY <1>6, <1>9, <2>2 DEF Leaving
  <2> QED  BY <2>1, <2>2
<1>13. ASSUME NEW p \in Pages
       PROVE  uses'[p] <= step + 1 /\ last'[p] <= step + 1 /\ freq_list'[p] <= step + 1
  <2>1. uses'[p] <= step + 1
    BY <1>1, <1>2, <1>4, <1>10
  <2>2. last'[p] <= step + 1
    BY <1>1, <1>2, <1>11
  <2>3. freq_list'[p] <= step + 1
    <3>1. freq[p] <= step + 1
      BY <1>1, <1>2, <1>4, <1>9
    <3> QED  BY <1>1, <1>12, <3>1
  <2> QED  BY <2>1, <2>2, <2>3
<1>14. /\ \A p \in Leaving(page) : freq_list'[p] = 0
       /\ \A p \in Pages \ Leaving(page) : p # page => freq_list'[p] = freq_list[p]
  <2>1. Leaving(page) \subseteq Pages
    BY <1>1, LfuQueueFacts, ToSetSubset DEF Resident, TypeInv
  <2> QED  BY <1>9, <1>12, <2>1
<1> QED  BY <1>5, <1>7, <1>10, <1>11, <1>12, <1>13, <1>14

LEMMA LfuStep ==
  ASSUME IInv, alg = LEAST_FREQUENTLY_USED, NEW page \in Pages, Requested(page), request_lfu(page)
  PROVE  IInv'
<1>1. TypeInv /\ StepInv /\ QueueInv /\ LfuInv /\ step \in Nat /\ Resident \subseteq Pages
  BY Numbers, ToSetSubset DEF IInv, TypeInv, Resident
<1>2. /\ alg' = alg /\ live' = live /\ live /\ requested_at'[page] = step + 1
      /\ \A p \in Pages : p # page =>
           requested_at'[p] = requested_at[p] /\ since_load'[p] = since_load[p]
  BY <1>1, RequestedFacts
<1> DEFINE q == LfuQueue(page)
           out == Leaving(page)
<1>3. /\ q \in Seq(Pages) /\ NoDuplicates(q) /\ Len(q) <= max_size
      /\ ToSet(q) = (Resident \ out) \cup {page}
      /\ out \subseteq Resident /\ page \notin out
      /\ Len(q) = max_size \/ (out = {} /\ ~Full)
      /\ Full => Head(queue) \in Resident
  BY LfuQueueFacts
<1>4. /\ uses' \in Times /\ last' \in Times /\ freq_list' \in Times
      /\ uses'[page] = since_load'[page] /\ last'[page] = step
      /\ \A p \in Pages : p # page => uses'[p] = uses[p] /\ last'[p] = last[p]
      /\ \A p \in Pages : uses'[p] <= step + 1 /\ last'[p] <= step + 1 /\ freq_list'[p] <= step + 1
      /\ \A p \in out : freq_list'[p] = 0
      /\ \A p \in Pages \ out : p # page => freq_list'[p] = freq_list[p]
  BY LfuMoves
<1>5. queue' = sort_freq(q, uses', last')
  <2>1. uses' = LfuUses(page) /\ last' = LfuLast(page)
    BY LfuMoves
  <2>2. queue' = sort_freq(q, uses', last')
    BY DEF request_lfu, LfuQueue
  <2> QED  BY <2>2
<1>6. /\ victim' = IF page \notin Resident /\ Full THEN Head(queue) ELSE NoPage
      /\ loaded_at' = IF page \in Resident THEN loaded_at ELSE [loaded_at EXCEPT ![page] = step + 1]
      /\ bit_refs' = bit_refs /\ passed_at' = passed_at
  BY DEF request_lfu
<1> HIDE DEF q, out
<1>7. ASSUME NEW p \in ToSet(q)
      PROVE  /\ p \in Pages /\ uses'[p] = since_load'[p] /\ last'[p] + 1 = requested_at'[p]
             /\ last'[p] \in Nat /\ (p # page => last'[p] < step)
  <2>1. p \in Pages /\ last'[p] \in Nat
    BY <1>3, <1>4, ToSetSubset DEF Times
  <2>2. CASE p = page
    BY <1>2, <1>4, <2>1, <2>2
  <2>3. CASE p # page
    <3>1. p \in Resident
      BY <1>3, <2>3
    <3>2. /\ uses[p] = since_load[p] /\ last[p] + 1 = requested_at[p]
          /\ requested_at[p] <= step /\ last[p] \in Nat
      BY <1>1, <3>1, Numbers DEF LfuInv, StepInv
    <3> QED  BY <1>1, <1>2, <1>4, <2>1, <2>3, <3>2
  <2> QED  BY <2>2, <2>3
<1>8. ASSUME NEW x \in ToSet(q), NEW y \in ToSet(q), x # y PROVE last'[x] # last'[y]
  <2>1. CASE x = page \/ y = page
    BY <1>1, <1>4, <1>7, <1>8, <2>1
  <2>2. CASE x # page /\ y # page
    <3>1. x \in Resident /\ y \in Resident /\ x \in Pages /\ y \in Pages
      BY <1>1, <1>3, <2>2
    <3>2. requested_at[x] # requested_at[y] /\ requested_at'[x] = requested_at[x]
          /\ requested_at'[y] = requested_at[y]
      BY <1>1, <1>2, <1>8, <2>2, <3>1 DEF LfuInv
    <3> QED  BY <1>7, <3>2
  <2> QED  BY <2>1, <2>2
<1> DEFINE us == uses'
           ls == last'
<1>9. /\ queue' \in Seq(Pages) /\ Len(queue') = Len(q) /\ NoDuplicates(queue')
      /\ ToSet(queue') = ToSet(q)
      /\ \A i, j \in 1 .. Len(q) : i < j => Before(uses', last', queue'[i], queue'[j])
  <2>1. us \in Times /\ ls \in Times /\ (\A x, y \in ToSet(q) : x # y => ls[x] # ls[y])
        /\ queue' = sort_freq(q, us, ls)
    BY <1>4, <1>5, <1>8
  <2> HIDE DEF us, ls
  <2>2. /\ queue' \in Seq(Pages) /\ Len(queue') = Len(q) /\ NoDuplicates(queue')
        /\ ToSet(queue') = ToSet(q)
        /\ \A i, j \in 1 .. Len(q) : i < j => Before(us, ls, queue'[i], queue'[j])
    BY <1>3, <2>1, SortFacts
  <2> QED  BY <2>2 DEF us, ls
<1>10. TypeInv' /\ StepInv' /\ QueueInv'
  <2>1. /\ bit_refs' \in [Pages -> 0 .. 1] /\ passed_at' \in Times
        /\ victim' \in Pages \cup {NoPage}
    BY <1>1, <1>3, <1>6 DEF TypeInv
  <2>2. /\ loaded_at' \in Times
        /\ \A p \in Pages : loaded_at'[p] = loaded_at[p] \/ loaded_at'[p] = step + 1
    BY <1>1, <1>6 DEF TypeInv, Times
  <2>3. \A p \in Pages : loaded_at'[p] <= step + 1 /\ passed_at'[p] <= step + 1
    <3> SUFFICES ASSUME NEW p \in Pages PROVE loaded_at'[p] <= step + 1 /\ passed_at'[p] <= step + 1
      OBVIOUS
    <3>1. loaded_at[p] \in Nat /\ passed_at[p] \in Nat /\ loaded_at[p] <= step /\ passed_at[p] <= step
      BY <1>1, Numbers DEF StepInv
    <3> QED  BY <1>1, <1>6, <2>2, <3>1
  <2>4. /\ Len(queue') <= max_size /\ ToSet(queue') \subseteq Resident \cup {page}
        /\ page \in ToSet(queue')
        /\ Len(queue') = max_size \/ (Resident \subseteq ToSet(queue') /\ ~Full)
    BY <1>3, <1>9
  <2> QED  BY <1>1, <1>4, <1>9, <2>1, <2>2, <2>3, <2>4, CommonStep
<1>11. LfuInv'
  <2>1. \A p \in Resident' : uses'[p] = since_load'[p] /\ last'[p] + 1 = requested_at'[p]
    BY <1>7, <1>9 DEF Resident
  <2>2. ASSUME NEW x \in Resident', NEW y \in Resident', x # y PROVE requested_at'[x] # requested_at'[y]
    <3>1. x \in ToSet(q) /\ y \in ToSet(q)
      BY <1>9 DEF Resident
    <3>2. last'[x] # last'[y]
      BY <1>8, <2>2, <3>1
    <3> QED  BY <1>7, <3>1, <3>2
  <2>3. ASSUME NEW p \in Pages \ Resident' PROVE freq_list'[p] = 0
    <3>1. p # page /\ (p \in out \/ p \notin Resident)
      BY <1>3, <1>9 DEF Resident
    <3>2. CASE p \in out
      BY <1>4, <3>2
    <3>3. CASE p \notin out
      <4>1. freq_list[p] = 0
        BY <1>1, <1>2, <3>1, <3>3 DEF LfuInv
      <4> QED  BY <1>4, <3>1, <3>3, <4>1
    <3> QED  BY <3>2, <3>3
  <2> QED  BY <1>9, <2>1, <2>2, <2>3 DEF LfuInv
<1> QED  BY <1>2, <1>10, <1>11 DEF IInv, FIRST_IN_FIRST_OUT, LEAST_RECENTLY_USED,
           LEAST_FREQUENTLY_USED, SECOND_CHANCE, CIRCULAR_QUEUE

----------------------------------------------------------------------------
(* The invariant and what follows from it.                                 *)

LEMMA RequestStep == ASSUME IInv, NEW page \in Pages, pager_request(page) PROVE IInv'
<1>1. Requested(page)
  BY DEF pager_request, Requested
<1>2. CASE alg = LEAST_FREQUENTLY_USED
  BY <1>1, <1>2, LfuStep DEF pager_request
<1>3. CASE alg # LEAST_FREQUENTLY_USED
  <2>1. (hit(page) \/ miss(page)) /\ UNCHANGED <<freq_list, uses, last>>
    BY <1>3 DEF pager_request
  <2> QED  BY <1>1, <1>3, <2>1, HitStep, MissStep
<1> QED  BY <1>2, <1>3

LEMMA NextIInv == IInv /\ [Next]_vars => IInv'
<1> SUFFICES ASSUME IInv, [Next]_vars PROVE IInv'
  OBVIOUS
<1>1. CASE Next
  BY <1>1, RequestStep, DestroyStep DEF Next
<1>2. CASE UNCHANGED vars
  <2>1. UNCHANGED <<alg, max_size, queue, freq_list, uses, last, bit_refs, step, live, victim,
                    loaded_at, requested_at, passed_at, requests, since_load>>
    BY <1>2 DEF vars, codeVars, historyVars
  <2>2. Turns' = Turns /\ Resident' = Resident /\ Full' = Full /\ chance_bit' = chance_bit
    BY <2>1 DEF Turns, Turn, Resident, Full, chance_bit
  <2>3. TypeInv' /\ StepInv' /\ QueueInv'
    BY <2>1, <2>2 DEF IInv, TypeInv, StepInv, QueueInv
  <2>4. /\ OrderInv(loaded_at) => OrderInv(loaded_at)'
        /\ OrderInv(requested_at) => OrderInv(requested_at)'
    BY <2>1, <2>2 DEF OrderInv
  <2>5. LfuInv => LfuInv'
    BY <2>1, <2>2 DEF LfuInv
  <2>6. ClockInv => ClockInv'
    BY <2>1, <2>2 DEF ClockInv, Referenced
  <2> QED  BY <2>1, <2>3, <2>4, <2>5, <2>6 DEF IInv
<1> QED  BY <1>1, <1>2

\* The inductive invariant: the order in which each of the five algorithms
\* keeps its queue, and what its counters and bits mean.
THEOREM Invariance == Spec => []IInv
BY InitIInv, NextIInv, PTL DEF Spec

\* A queue in the order of f that is later than everything else holds the
\* latest pages.
LEMMA LatestHeld ==
  ASSUME IInv, live, NEW f \in Times, OrderInv(f)
  PROVE  Resident = Latest(f, max_size)
<1>1. /\ TypeInv /\ QueueInv /\ queue \in Seq(Pages) /\ Len(queue) <= max_size
      /\ NoDuplicates(queue) /\ Resident \subseteq Pages
  BY ToSetSubset DEF IInv, TypeInv, QueueInv, Resident
<1>2. Len(queue) \in Nat /\ max_size \in Nat /\ IsFiniteSet(Pages)
      /\ \A p \in Pages : f[p] \in Nat /\ requests[p] \in Nat
  BY <1>1, Numbers, PagerAssumption DEF Times
<1>3. IsFiniteSet(Resident) /\ Cardinality(Resident) = Len(queue)
  BY <1>1, Counted DEF Resident
<1>4. ASSUME NEW p \in Pages PROVE p \in Resident <=> p \in Latest(f, max_size)
  <2> DEFINE L == {q \in Pages : f[q] > f[p]}
  <2>1. IsFiniteSet(L) /\ Cardinality(L) \in Nat
    BY <1>2, FS_Subset, FS_CardinalityType
  <2>2. p \in Latest(f, max_size) <=> requests[p] > 0 /\ Cardinality(L) < max_size
    BY <1>4 DEF Latest
  <2>3. CASE p \in Resident
    <3>1. L \subseteq Resident \ {p}
      BY <1>2, <2>3 DEF OrderInv
    <3>2. IsFiniteSet(Resident \ {p}) /\ Cardinality(Resident \ {p}) = Len(queue) - 1
      BY <1>3, <2>3, FS_RemoveElement
    <3> HIDE DEF L
    <3>3. Cardinality(L) <= Len(queue) - 1
      BY <3>1, <3>2, FS_Subset
    <3>4. requests[p] > 0
      BY <1>1, <2>3 DEF QueueInv
    <3> QED  BY <1>1, <1>2, <2>1, <2>2, <2>3, <3>3, <3>4
  <2>4. CASE p \notin Resident /\ requests[p] > 0
    <3>1. Len(queue) = max_size
      BY <1>1, <2>4 DEF QueueInv, Full
    <3>2. Resident \subseteq L
      BY <1>1, <1>2, <2>4 DEF OrderInv
    <3> HIDE DEF L
    <3>3. Cardinality(Resident) <= Cardinality(L)
      BY <2>1, <3>2, FS_Subset
    <3> QED  BY <1>2, <1>3, <2>1, <2>2, <2>4, <3>1, <3>3
  <2>5. CASE p \notin Resident /\ ~ (requests[p] > 0)
    BY <2>2, <2>5
  <2> QED  BY <2>3, <2>4, <2>5
<1>5. Latest(f, max_size) \subseteq Pages
  BY DEF Latest
<1> QED  BY <1>1, <1>4, <1>5

\* ContentsAsDefined: under FIFO the pages loaded last are resident, under LRU
\* the pages requested last, no page twice, and never more than fit.
THEOREM ContentsHeld == Spec => []ContentsAsDefined
<1>1. IInv => ContentsAsDefined
  <2> SUFFICES ASSUME IInv PROVE ContentsAsDefined
    OBVIOUS
  <2>1. TypeInv /\ StepInv /\ QueueInv
    BY DEF IInv
  <2>2. TypeOK
    <3>1. ASSUME NEW f \in Times, \A p \in Pages : f[p] <= step PROVE f \in [Pages -> 0 .. MaxRequests]
      <4>1. step \in Nat /\ MaxRequests \in Nat /\ step <= MaxRequests
        BY <2>1, Numbers, PagerAssumption DEF TypeInv
      <4>2. \A p \in Pages : f[p] \in 0 .. MaxRequests
        BY <3>1, <4>1 DEF Times
      <4> QED  BY <4>2 DEF Times
    <3>2. /\ freq_list \in Times /\ uses \in Times /\ last \in Times /\ loaded_at \in Times
          /\ requested_at \in Times /\ passed_at \in Times /\ requests \in Times /\ since_load \in Times
      BY <2>1 DEF TypeInv
    <3>3. /\ freq_list \in [Pages -> 0 .. MaxRequests] /\ uses \in [Pages -> 0 .. MaxRequests]
          /\ last \in [Pages -> 0 .. MaxRequests] /\ loaded_at \in [Pages -> 0 .. MaxRequests]
      BY <2>1, <3>1, <3>2 DEF StepInv
    <3>4. /\ requested_at \in [Pages -> 0 .. MaxRequests] /\ passed_at \in [Pages -> 0 .. MaxRequests]
          /\ requests \in [Pages -> 0 .. MaxRequests] /\ since_load \in [Pages -> 0 .. MaxRequests]
      BY <2>1, <3>1, <3>2 DEF StepInv
    <3> QED  BY <2>1, <3>3, <3>4 DEF TypeInv, TypeOK
  <2>3. Len(queue) = Cardinality(Resident)
    BY <2>1, Counted DEF TypeInv, QueueInv, Resident
  <2>4. ASSUME live, alg = FIRST_IN_FIRST_OUT PROVE Resident = Latest(loaded_at, max_size)
    <3>1. OrderInv(loaded_at) /\ loaded_at \in Times
      BY <2>1, <2>4 DEF IInv, TypeInv
    <3> QED  BY <2>4, <3>1, LatestHeld
  <2>5. ASSUME live, alg = LEAST_RECENTLY_USED PROVE Resident = Latest(requested_at, max_size)
    <3>1. OrderInv(requested_at) /\ requested_at \in Times
      BY <2>1, <2>5 DEF IInv, TypeInv
    <3> QED  BY <2>5, <3>1, LatestHeld
  <2> QED  BY <2>2, <2>3, <2>4, <2>5 DEF ContentsAsDefined
<1> QED  BY <1>1, Invariance, PTL

\* Which step evicts a page.
LEMMA Evicting ==
  ASSUME Next, victim' # NoPage
  PROVE  \E page \in Pages : /\ Requested(page)
                             /\ alg = LEAST_FREQUENTLY_USED =>
                                  /\ request_lfu(page) /\ page \notin Resident /\ Full
                                  /\ victim' = Head(queue)
                             /\ alg # LEAST_FREQUENTLY_USED => miss(page) /\ Full
<1>1. PICK page \in Pages : pager_request(page)
  BY DEF Next, pager_destroy
<1>2. Requested(page)
  BY <1>1 DEF pager_request, Requested
<1>3. ASSUME alg = LEAST_FREQUENTLY_USED
      PROVE  request_lfu(page) /\ page \notin Resident /\ Full /\ victim' = Head(queue)
  <2>1. request_lfu(page)
    BY <1>1, <1>3 DEF pager_request
  <2>2. victim' = IF page \notin Resident /\ Full THEN Head(queue) ELSE NoPage
    BY <2>1 DEF request_lfu
  <2> QED  BY <2>1, <2>2
<1>4. ASSUME alg # LEAST_FREQUENTLY_USED PROVE miss(page) /\ Full
  <2>1. hit(page) \/ miss(page)
    BY <1>1, <1>4 DEF pager_request
  <2>2. miss(page)
    BY <2>1 DEF hit
  <2> QED  BY <2>2 DEF miss, evicts
<1> QED  BY <1>2, <1>3, <1>4

\* The requests since a load are some of all requests.
HistoryInv == \A p \in Pages : since_load[p] <= requests[p]

LEMMA HistoryKept == Spec => []HistoryInv
<1>1. Init => HistoryInv
  BY DEF Init, HistoryInv, Zero
<1>2. IInv /\ HistoryInv /\ [Next]_vars => HistoryInv'
  <2> SUFFICES ASSUME IInv, HistoryInv, [Next]_vars PROVE HistoryInv'
    OBVIOUS
  <2>1. /\ requests \in Times /\ since_load \in Times
        /\ \A q \in Pages : requests[q] \in Nat /\ since_load[q] \in Nat
    BY Numbers DEF IInv, TypeInv
  <2>2. ASSUME NEW page \in Pages, pager_request(page) PROVE HistoryInv'
    <3>1. /\ requests' = [requests EXCEPT ![page] = @ + 1]
          /\ since_load' = [since_load EXCEPT ![page] = IF page \in Resident THEN @ + 1 ELSE 1]
      BY <2>2 DEF pager_request
    <3> SUFFICES ASSUME NEW q \in Pages PROVE since_load'[q] <= requests'[q]
      BY DEF HistoryInv
    <3>2. since_load[q] <= requests[q] /\ requests[q] \in Nat /\ since_load[q] \in Nat
      BY <2>1 DEF HistoryInv
    <3>3. CASE q = page
      <4>1. requests'[q] = requests[q] + 1
        BY <2>1, <3>1, <3>3 DEF Times
      <4>2. since_load'[q] = since_load[q] + 1 \/ since_load'[q] = 1
        BY <2>1, <3>1, <3>3 DEF Times
      <4> QED  BY <3>2, <4>1, <4>2
    <3>4. CASE q # page
      <4>1. requests'[q] = requests[q] /\ since_load'[q] = since_load[q]
        BY <2>1, <3>1, <3>4 DEF Times
      <4> QED  BY <3>2, <4>1
    <3> QED  BY <3>3, <3>4
  <2>3. CASE pager_destroy \/ UNCHANGED vars
    BY <2>3 DEF pager_destroy, vars, historyVars, HistoryInv
  <2> QED  BY <2>2, <2>3 DEF Next
<1> QED  BY <1>1, <1>2, Invariance, PTL DEF Spec

\* LfuVictim: the page that LFU evicts has the fewest requests since it was
\* loaded, and of those it was requested first; if it had more requests in all
\* than a page that stays, it had been evicted before.
THEOREM LfuEvicts == Spec => LfuVictim
<1> DEFINE A == alg = LEAST_FREQUENTLY_USED /\ victim' # NoPage =>
                  \A p \in Resident :
                    /\ \/ since_load[victim'] < since_load[p]
                       \/ since_load[victim'] = since_load[p] /\ requested_at[victim'] <= requested_at[p]
                    /\ requests[victim'] > requests[p] => Reloaded(victim')
<1>1. IInv /\ HistoryInv /\ [Next]_vars => [A]_vars
  <2> SUFFICES ASSUME IInv, HistoryInv, Next, alg = LEAST_FREQUENTLY_USED, victim' # NoPage,
                      NEW p \in Resident
               PROVE  /\ \/ since_load[victim'] < since_load[p]
                         \/ since_load[victim'] = since_load[p] /\ requested_at[victim'] <= requested_at[p]
                      /\ requests[victim'] > requests[p] => Reloaded(victim')
    OBVIOUS
  <2>1. TypeInv /\ LfuInv /\ queue \in Seq(Pages) /\ Resident \subseteq Pages
    BY ToSetSubset DEF IInv, TypeInv, Resident
  <2>2. Full /\ victim' = Head(queue) /\ \E page \in Pages : TRUE
    BY Evicting
  <2>3. victim' = queue[1] /\ victim' \in Resident
    BY <2>2, LfuQueueFacts
  <2>4. PICK i \in 1 .. Len(queue) : queue[i] = p
    BY <2>1, ToSetIndex DEF Resident
  <2>5. Len(queue) \in Nat /\ i >= 1 /\ 1 \in 1 .. Len(queue)
    BY <2>1, <2>4, Numbers
  <2> DEFINE v == victim'
  <2>6. /\ uses[v] = since_load[v] /\ last[v] + 1 = requested_at[v]
        /\ uses[p] = since_load[p] /\ last[p] + 1 = requested_at[p]
    BY <2>1, <2>3 DEF LfuInv
  <2>7. /\ last[v] \in Nat /\ last[p] \in Nat /\ uses[v] \in Nat /\ uses[p] \in Nat
    BY <2>1, <2>3, Numbers
  <2>10. SUFFICES \/ since_load[v] < since_load[p]
                  \/ since_load[v] = since_load[p] /\ requested_at[v] <= requested_at[p]
    <3> HIDE DEF v
    <3>1. v \in Pages /\ p \in Pages
      BY <2>1, <2>3 DEF v
    <3>2. /\ requests[v] \in Nat /\ requests[p] \in Nat
          /\ since_load[v] \in Nat /\ since_load[p] \in Nat
      BY <3>1, Numbers DEF IInv, TypeInv
    <3>3. ASSUME since_load[v] <= since_load[p], requests[v] > requests[p] PROVE Reloaded(v)
      BY <3>1, <3>2, <3>3 DEF HistoryInv, Reloaded
    <3> QED  BY <3>2, <3>3 DEF v
  <2>8. CASE i = 1
    <3>1. p = v
      BY <2>3, <2>4, <2>8
    <3> HIDE DEF v
    <3>2. since_load[v] = since_load[p] /\ requested_at[v] <= requested_at[p]
      BY <2>6, <2>7, <3>1
    <3> QED  BY <3>2 DEF v
  <2>9. CASE i > 1
    <3>1. Before(uses, last, v, p)
      BY <2>1, <2>3, <2>4, <2>5, <2>9 DEF LfuInv
    <3> HIDE DEF v
    <3>2. \/ since_load[v] < since_load[p]
          \/ since_load[v] = since_load[p] /\ requested_at[v] <= requested_at[p]
      BY <2>6, <2>7, <3>1 DEF Before
    <3> QED  BY <3>2 DEF v
  <2> QED  BY <2>5, <2>8, <2>9
<1> QED  BY <1>1, Invariance, HistoryKept, PTL DEF Spec, LfuVictim

\* ClockVictim: a page that was requested since its second chance is evicted
\* only if all were, and the page evicted is the one whose turn is first.
THEOREM ClockEvicts == Spec => ClockVictim
<1> DEFINE A == victim' # NoPage /\ alg \in {SECOND_CHANCE, CIRCULAR_QUEUE} =>
                  /\ Referenced(victim') => \A p \in Resident : Referenced(p)
                  /\ \A p \in Resident :
                       (Referenced(p) <=> Referenced(victim')) => Turn(victim') <= Turn(p)
<1>1. IInv /\ [Next]_vars => [A]_vars
  <2> DEFINE v == victim'
  <2> SUFFICES ASSUME IInv, Next, victim' # NoPage, alg \in Clocks
               PROVE  /\ Referenced(v) => \A p \in Resident : Referenced(p)
                      /\ \A p \in Resident : (Referenced(p) <=> Referenced(v)) => Turn(v) <= Turn(p)
    BY DEF Clocks
  <2>1. TypeInv /\ StepInv /\ ClockInv /\ queue \in Seq(Pages) /\ Resident \subseteq Pages
    BY ToSetSubset DEF IInv, Clocks, TypeInv, Resident
  <2>2. PICK page \in Pages : miss(page) /\ Full
    BY Evicting DEF Clocks, SECOND_CHANCE, CIRCULAR_QUEUE, LEAST_FREQUENTLY_USED
  <2> DEFINE k == passed
             at == IF k < Len(queue) THEN k + 1 ELSE 1
  <2>3. v = queue[at] /\ v \in Resident
    BY <2>2, MissEvicts
  <2>4. /\ Len(queue) \in Nat /\ Len(queue) >= 1 /\ k \in 0 .. Len(queue)
        /\ \A i \in 1 .. k : bit_refs[queue[i]] = chance_bit
        /\ k < Len(queue) => bit_refs[queue[k + 1]] # chance_bit
    BY <2>1, <2>2, PassedFacts, Numbers DEF Full
  <2> HIDE DEF v, k
  <2>5. at \in 1 .. Len(queue)
    BY <2>4
  <2>6. ASSUME NEW i \in 1 .. Len(queue)
        PROVE  /\ queue[i] \in Resident
               /\ bit_refs[queue[i]] = chance_bit <=> Referenced(queue[i])
               /\ at <= i => Turn(v) <= Turn(queue[i])
    <3>1. queue[i] \in Resident
      BY <2>1, ToSetIndex DEF Resident
    <3>2. \A p \in Resident : Turns[p] = Turn(p) /\ Turn(p) \in Nat
      <4>1. \A p \in Resident : loaded_at[p] \in Nat /\ passed_at[p] \in Nat
        BY <2>1, Numbers
      <4> QED  BY <2>1, <4>1 DEF Turns, Turn
    <3>3. ASSUME at <= i PROVE Turn(v) <= Turn(queue[i])
      <4>1. at = i \/ at < i
        BY <2>5, <3>3
      <4> HIDE DEF at
      <4>2. CASE at = i
        <5>1. Turn(v) = Turn(queue[i]) /\ Turn(v) \in Nat
          BY <2>3, <3>2, <4>2
        <5> QED  BY <5>1
      <4>3. CASE at < i
        <5>1. Turns[queue[at]] <= Turns[queue[i]]
          BY <2>1, <2>5, <4>3 DEF ClockInv, InTurn
        <5> QED  BY <2>3, <3>1, <3>2, <5>1
      <4> QED  BY <4>1, <4>2, <4>3
    <3> HIDE DEF at
    <3> QED  BY <2>1, <3>1, <3>3 DEF ClockInv
  <2>7. ASSUME NEW p \in Resident PROVE \E i \in 1 .. Len(queue) : queue[i] = p
    BY <2>1, <2>7, ToSetIndex DEF Resident
  <2>8. CASE k < Len(queue)
    <3>1. at = k + 1 /\ ~Referenced(v)
      <4>1. at = k + 1
        BY <2>8
      <4>2. bit_refs[v] # chance_bit
        BY <2>3, <2>4, <2>8, <4>1
      <4> QED  BY <2>1, <2>3, <4>1, <4>2 DEF ClockInv
    <3>2. ASSUME NEW p \in Resident, ~Referenced(p) PROVE Turn(v) <= Turn(p)
      <4>1. PICK i \in 1 .. Len(queue) : queue[i] = p
        BY <2>7
      <4>2. bit_refs[queue[i]] # chance_bit
        BY <2>6, <3>2, <4>1
      <4>3. ~ (i \in 1 .. k)
        BY <2>4, <4>2
      <4>4. at <= i
        BY <2>4, <3>1, <4>3
      <4> HIDE DEF at
      <4> QED  BY <2>6, <4>1, <4>4
    <3> QED  BY <3>1, <3>2
  <2>9. CASE ~ (k < Len(queue))
    <3>1. at = 1 /\ k = Len(queue)
      BY <2>4, <2>9
    <3>2. ASSUME NEW p \in Resident PROVE Referenced(p) /\ Turn(v) <= Turn(p)
      <4>1. PICK i \in 1 .. Len(queue) : queue[i] = p
        BY <2>7
      <4>2. i \in 1 .. k /\ at <= i
        BY <2>4, <3>1, <4>1
      <4>3. bit_refs[queue[i]] = chance_bit
        BY <2>4, <4>2
      <4> HIDE DEF at
      <4> QED  BY <2>6, <4>1, <4>2, <4>3
    <3> QED  BY <3>2
  <2> QED  BY <2>8, <2>9
<1> QED  BY <1>1, Invariance, PTL DEF Spec, ClockVictim

=============================================================================
