--------------------------- MODULE CartmanProofs ---------------------------
(***************************************************************************)
(* Proofs about Cartman, for every set of carts and every ring size.       *)
(***************************************************************************)
EXTENDS Cartman, TLAPS

\* The program counters at which a cart's thread holds its junctions.
HoldingPC == {"cross", "crossing", "relock", "clear"}

\* The mutex is owned exactly by the thread between its lock and its unlock.
MutexInv == \A c \in Carts : owner = c <=> pc[c] \in {"test", "clear"}

\* The three books agree: locks of the program, reserved of the simulator,
\* and the position of the threads.
BooksAgree ==
  /\ \A j \in Junctions : locks[j] = 0 <=> reserved[j] = NoCart
  /\ \A j \in Junctions, c \in Carts :
       reserved[j] = c <=> pc[c] \in HoldingPC /\ j \in Section(c)

\* The inductive invariant behind the safety properties.
IInv == TypeOK /\ MutexInv /\ BooksAgree /\ SystemNeverExits /\ NoStrandedCart

----------------------------------------------------------------------------
\* The junction cart_start computes is another junction of the ring.
LEMMA OppositeIsJunction ==
  \A m \in Moves : Opposite(m) \in Junctions /\ Opposite(m) # m.junc_num
BY CartmanAssumption DEF Moves, Tracks, Junctions, Opposite

\* Both ends of a cart's section are junctions, and they differ.
LEMMA SectionInRing ==
  ASSUME TypeOK, NEW c \in Carts
  PROVE  /\ Section(c) \subseteq Junctions
         /\ Section(c) # {}
         /\ junc1(c) # junc2(c)
<1>1. c_moves[c] \in Moves
  BY DEF TypeOK
<1>2. junc1(c) \in Junctions /\ junc2(c) \in Junctions /\ junc1(c) # junc2(c)
  BY <1>1, OppositeIsJunction DEF junc1, junc2, Moves
<1> QED
  BY <1>2 DEF Section

\* The initial state satisfies the invariant.
LEMMA InitIInv == Init => IInv
<1> SUFFICES ASSUME Init PROVE IInv
  OBVIOUS
<1>1. TypeOK
  <2>1. 0 \in Tracks /\ 0 \in Junctions
    BY CartmanAssumption DEF Tracks, Junctions
  <2>2. [track_num |-> 0, junc_num |-> 0] \in Moves
    BY <2>1 DEF Moves
  <2>3. spurious \in 0 .. MaxSpurious
    BY CartmanAssumption DEF Init
  <2> QED
    BY <2>2, <2>3 DEF Init, TypeOK, PC
<1>2. MutexInv
  BY CartmanAssumption DEF Init, MutexInv
<1>3. BooksAgree
  BY CartmanAssumption DEF Init, BooksAgree, HoldingPC
<1>4. SystemNeverExits /\ NoStrandedCart
  BY DEF Init, SystemNeverExits, NoStrandedCart
<1> QED
  BY <1>1, <1>2, <1>3, <1>4 DEF IInv

\* Every step preserves the types.
LEMMA TypeStep == TypeOK /\ [Next]_vars => TypeOK'
<1> SUFFICES ASSUME TypeOK, [Next]_vars PROVE TypeOK'
  OBVIOUS
<1> USE DEF TypeOK, PC
<1>1. ASSUME NEW c \in Carts, arrive(c) PROVE TypeOK'
  <2>1. \A a \in Arrivals : [track_num |-> a[1], junc_num |-> a[2]] \in Moves
    BY CartmanAssumption DEF Moves, Tracks, Junctions
  <2> QED
    BY <1>1, <2>1 DEF arrive, Goto
<1>2. ASSUME NEW c \in Carts, cart_start(c) PROVE TypeOK'
  BY <1>2 DEF cart_start, Goto
<1>3. ASSUME NEW c \in Carts, MutexLock(c) PROVE TypeOK'
  BY <1>3 DEF MutexLock, Goto
<1>4. ASSUME NEW c \in Carts, reserve2_wait(c) PROVE TypeOK'
  BY <1>4 DEF reserve2_wait, Goto
<1>5. ASSUME NEW c \in Carts, CondWaitReturn(c) PROVE TypeOK'
  BY <1>5 DEF CondWaitReturn, Goto
<1>6. ASSUME NEW c \in Carts, reserve2(c) PROVE TypeOK'
  BY <1>6 DEF reserve2, Goto
<1>7. ASSUME NEW c \in Carts, cross(c) PROVE TypeOK'
  BY <1>7 DEF cross, Goto
<1>8. ASSUME NEW c \in Carts, crossed(c) PROVE TypeOK'
  BY <1>8 DEF crossed, Goto
<1>9. ASSUME NEW c \in Carts, release2(c) PROVE TypeOK'
  BY <1>9 DEF release2, Goto
<1>10. ASSUME NEW c \in Carts, release2_broadcast(c) PROVE TypeOK'
  BY <1>10 DEF release2_broadcast
<1>11. ASSUME NEW c \in Carts, SpuriousWakeup(c) PROVE TypeOK'
  BY <1>11, CartmanAssumption DEF SpuriousWakeup, Goto
<1>12. CASE UNCHANGED vars
  BY <1>12 DEF vars
<1> QED
  BY <1>1, <1>2, <1>3, <1>4, <1>5, <1>6, <1>7, <1>8, <1>9, <1>10, <1>11, <1>12
  DEF Next, CartThread, Terminated

\* Every step keeps the mutex with the thread inside the critical section.
LEMMA MutexStep == TypeOK /\ MutexInv /\ [Next]_vars => MutexInv'
<1> SUFFICES ASSUME TypeOK, MutexInv, [Next]_vars PROVE MutexInv'
  OBVIOUS
<1> USE CartmanAssumption DEF TypeOK, MutexInv
<1>1. ASSUME NEW c \in Carts, arrive(c) PROVE MutexInv'
  BY <1>1 DEF arrive, Goto
<1>2. ASSUME NEW c \in Carts, cart_start(c) PROVE MutexInv'
  BY <1>2 DEF cart_start, Goto
<1>3. ASSUME NEW c \in Carts, MutexLock(c) PROVE MutexInv'
  BY <1>3 DEF MutexLock, Goto
<1>4. ASSUME NEW c \in Carts, reserve2_wait(c) PROVE MutexInv'
  BY <1>4 DEF reserve2_wait, Goto
<1>5. ASSUME NEW c \in Carts, CondWaitReturn(c) PROVE MutexInv'
  BY <1>5 DEF CondWaitReturn, Goto
<1>6. ASSUME NEW c \in Carts, reserve2(c) PROVE MutexInv'
  BY <1>6 DEF reserve2, Goto
<1>7. ASSUME NEW c \in Carts, cross(c) PROVE MutexInv'
  BY <1>7 DEF cross, Goto
<1>8. ASSUME NEW c \in Carts, crossed(c) PROVE MutexInv'
  BY <1>8 DEF crossed, Goto
<1>9. ASSUME NEW c \in Carts, release2(c) PROVE MutexInv'
  BY <1>9 DEF release2, Goto
<1>10. ASSUME NEW c \in Carts, release2_broadcast(c) PROVE MutexInv'
  BY <1>10 DEF release2_broadcast
<1>11. ASSUME NEW c \in Carts, SpuriousWakeup(c) PROVE MutexInv'
  BY <1>11 DEF SpuriousWakeup, Goto
<1>12. CASE UNCHANGED vars
  BY <1>12 DEF vars
<1> QED
  BY <1>1, <1>2, <1>3, <1>4, <1>5, <1>6, <1>7, <1>8, <1>9, <1>10, <1>11, <1>12
  DEF Next, CartThread, Terminated

\* A step that leaves the moves alone leaves the sections alone.
LEMMA SectionStable ==
  ASSUME UNCHANGED c_moves
  PROVE  \A c \in Carts : Section(c)' = Section(c)
BY DEF Section, junc1, junc2

\* Every step keeps the three books in agreement.
LEMMA BooksStep == TypeOK /\ MutexInv /\ BooksAgree /\ [Next]_vars => BooksAgree'
<1> SUFFICES ASSUME TypeOK, MutexInv, BooksAgree, [Next]_vars PROVE BooksAgree'
  OBVIOUS
<1> USE CartmanAssumption DEF TypeOK, BooksAgree, HoldingPC
<1>1. ASSUME NEW c \in Carts, arrive(c) PROVE BooksAgree'
  <2>1. \A d \in Carts : d # c => Section(d)' = Section(d)
    BY <1>1 DEF arrive, Section, junc1, junc2
  <2> QED
    BY <1>1, <2>1 DEF arrive, Goto
<1>2. ASSUME NEW c \in Carts, cart_start(c) PROVE BooksAgree'
  BY <1>2, SectionStable DEF cart_start, Goto
<1>3. ASSUME NEW c \in Carts, MutexLock(c) PROVE BooksAgree'
  BY <1>3, SectionStable DEF MutexLock, Goto
<1>4. ASSUME NEW c \in Carts, reserve2_wait(c) PROVE BooksAgree'
  BY <1>4, SectionStable DEF reserve2_wait, Goto
<1>5. ASSUME NEW c \in Carts, CondWaitReturn(c) PROVE BooksAgree'
  BY <1>5, SectionStable DEF CondWaitReturn, Goto
<1>6. ASSUME NEW c \in Carts, reserve2(c) PROVE BooksAgree'
  BY <1>6, SectionStable, SectionInRing DEF reserve2, Goto
<1>7. ASSUME NEW c \in Carts, cross(c) PROVE BooksAgree'
  BY <1>7, SectionStable DEF cross, Goto
<1>8. ASSUME NEW c \in Carts, crossed(c) PROVE BooksAgree'
  BY <1>8, SectionStable DEF crossed, Goto
<1>9. ASSUME NEW c \in Carts, release2(c) PROVE BooksAgree'
  BY <1>9, SectionStable, SectionInRing DEF release2, Goto
<1>10. ASSUME NEW c \in Carts, release2_broadcast(c) PROVE BooksAgree'
  BY <1>10, SectionStable DEF release2_broadcast
<1>11. ASSUME NEW c \in Carts, SpuriousWakeup(c) PROVE BooksAgree'
  BY <1>11, SectionStable DEF SpuriousWakeup, Goto
<1>12. CASE UNCHANGED vars
  BY <1>12, SectionStable DEF vars
<1> QED
  BY <1>1, <1>2, <1>3, <1>4, <1>5, <1>6, <1>7, <1>8, <1>9, <1>10, <1>11, <1>12
  DEF Next, CartThread, Terminated

\* With the books in agreement no call of the simulator's functions fails.
LEMMA ExitStep ==
  TypeOK /\ BooksAgree /\ SystemNeverExits /\ [Next]_vars => SystemNeverExits'
<1> SUFFICES ASSUME TypeOK, BooksAgree, ~exited, [Next]_vars PROVE ~exited'
  BY DEF SystemNeverExits
<1>1. ASSUME NEW c \in Carts, reserve2(c) PROVE ~exited'
  <2>1. \A j \in Section(c) : reserved[j] = NoCart
    BY <1>1, SectionInRing DEF reserve2, BooksAgree
  <2> QED
    BY <1>1, <2>1, SectionInRing DEF reserve2
<1>2. ASSUME NEW c \in Carts, cross(c) PROVE ~exited'
  BY <1>2, SectionInRing DEF cross, Goto, BooksAgree, HoldingPC
<1>3. ASSUME NEW c \in Carts, release2(c) PROVE ~exited'
  BY <1>3, SectionInRing DEF release2, Goto, BooksAgree, HoldingPC
<1>4. ASSUME NEW c \in Carts,
             \/ arrive(c) \/ cart_start(c) \/ MutexLock(c) \/ reserve2_wait(c)
             \/ CondWaitReturn(c) \/ crossed(c) \/ release2_broadcast(c)
             \/ SpuriousWakeup(c)
      PROVE  ~exited'
  BY <1>4 DEF arrive, cart_start, MutexLock, reserve2_wait, CondWaitReturn, crossed,
              release2_broadcast, SpuriousWakeup
<1>5. CASE UNCHANGED vars
  BY <1>5 DEF vars
<1> QED
  BY <1>1, <1>2, <1>3, <1>4, <1>5 DEF Next, CartThread, Terminated

\* Every step that frees a junction owes a broadcast, and a broadcast empties
\* the wait set.
LEMMA StrandedStep ==
  TypeOK /\ NoStrandedCart /\ [Next]_vars => NoStrandedCart'
<1> SUFFICES ASSUME TypeOK, NoStrandedCart, [Next]_vars PROVE NoStrandedCart'
  OBVIOUS
<1> USE DEF TypeOK, NoStrandedCart
<1>1. ASSUME NEW c \in Carts, arrive(c) PROVE NoStrandedCart'
  <2>1. \A d \in Carts : d # c => Section(d)' = Section(d)
    BY <1>1 DEF arrive, Section, junc1, junc2
  <2> QED
    BY <1>1, <2>1 DEF arrive, Goto
<1>2. ASSUME NEW c \in Carts, cart_start(c) PROVE NoStrandedCart'
  BY <1>2, SectionStable DEF cart_start, Goto
<1>3. ASSUME NEW c \in Carts, MutexLock(c) PROVE NoStrandedCart'
  BY <1>3, SectionStable DEF MutexLock, Goto
<1>4. ASSUME NEW c \in Carts, reserve2_wait(c) PROVE NoStrandedCart'
  BY <1>4, SectionStable DEF reserve2_wait, Goto
<1>5. ASSUME NEW c \in Carts, CondWaitReturn(c) PROVE NoStrandedCart'
  BY <1>5, SectionStable DEF CondWaitReturn, Goto
<1>6. ASSUME NEW c \in Carts, reserve2(c) PROVE NoStrandedCart'
  <2>1. \A d \in Carts : Section(d)' = Section(d) /\ (d # c => pc'[d] = pc[d])
    BY <1>6, SectionStable DEF reserve2, Goto
  <2>2. pc[c] = "test" /\ pc'[c] = "cross"
    BY <1>6 DEF reserve2, Goto
  <2>3. \A j \in Junctions : locks'[j] = 0 => locks[j] = 0
    BY <1>6 DEF reserve2
  <2>4. \A d \in Carts : \A j \in Section(d) : j \in Junctions
    BY SectionInRing
  <2> QED
    BY <2>1, <2>2, <2>3, <2>4
<1>7. ASSUME NEW c \in Carts, cross(c) PROVE NoStrandedCart'
  BY <1>7, SectionStable DEF cross, Goto
<1>8. ASSUME NEW c \in Carts, crossed(c) PROVE NoStrandedCart'
  BY <1>8, SectionStable DEF crossed, Goto
<1>9. ASSUME NEW c \in Carts, release2(c) PROVE NoStrandedCart'
  BY <1>9 DEF release2, Goto
<1>10. ASSUME NEW c \in Carts, release2_broadcast(c) PROVE NoStrandedCart'
  BY <1>10 DEF release2_broadcast
<1>11. ASSUME NEW c \in Carts, SpuriousWakeup(c) PROVE NoStrandedCart'
  BY <1>11, SectionStable DEF SpuriousWakeup, Goto
<1>12. CASE UNCHANGED vars
  BY <1>12, SectionStable DEF vars
<1> QED
  BY <1>1, <1>2, <1>3, <1>4, <1>5, <1>6, <1>7, <1>8, <1>9, <1>10, <1>11, <1>12
  DEF Next, CartThread, Terminated

\* The inductive invariant holds in every reachable state.
THEOREM Invariance == Spec => []IInv
<1>1. IInv /\ [Next]_vars => IInv'
  BY TypeStep, MutexStep, BooksStep, ExitStep, StrandedStep DEF IInv
<1> QED
  BY InitIInv, <1>1, PTL DEF Spec

\* Type correctness of cartman.c's state.
THEOREM TypeCorrect == Spec => []TypeOK
<1>1. IInv => TypeOK
  BY DEF IInv
<1> QED
  BY Invariance, <1>1, PTL

\* The conditions cartman.h exits on never arise.
THEOREM NeverExits == Spec => []SystemNeverExits
<1>1. IInv => SystemNeverExits
  BY DEF IInv
<1> QED
  BY Invariance, <1>1, PTL

\* Carts under way never share a junction.
THEOREM Exclusion == Spec => []CrossingExclusive
<1>1. IInv => CrossingExclusive
  <2> SUFFICES ASSUME IInv, NEW c \in Carts, NEW d \in Carts, c # d,
                      pc[c] = "crossing", pc[d] = "crossing",
                      NEW j \in Section(c) \cap Section(d)
               PROVE  FALSE
    BY DEF CrossingExclusive
  <2>1. j \in Junctions
    BY SectionInRing DEF IInv
  <2>2. reserved[j] = c /\ reserved[j] = d
    BY <2>1 DEF IInv, BooksAgree, HoldingPC
  <2> QED
    BY <2>2
<1> QED
  BY Invariance, <1>1, PTL

\* The unlock-then-broadcast order of release2 strands no waiting cart.
THEOREM NoneStranded == Spec => []NoStrandedCart
<1>1. IInv => NoStrandedCart
  BY DEF IInv
<1> QED
  BY Invariance, <1>1, PTL

----------------------------------------------------------------------------
\* Refinement: a step of a thread takes a section, leaves it, or changes
\* nothing the railway sees.
heldBar == [c \in Carts |-> Holding(c)]

\* The initial state holds no junction.
LEMMA InitRefines == Init => AbstractRailway!Init
BY DEF Init, AbstractRailway!Init, Holding

\* A step that changes no program counter across the holding boundary and
\* leaves the moves of the holders alone is a stutter of the railway.
LEMMA StutterRefines ==
  ASSUME \A d \in Carts : Holding(d)' = Holding(d)
  PROVE  UNCHANGED heldBar
BY DEF heldBar

\* Every step of the threads is a step of the railway, or a stutter.
LEMMA StepRefines == IInv /\ [Next]_vars => [AbstractRailway!Next]_heldBar
<1> SUFFICES ASSUME IInv, [Next]_vars PROVE [AbstractRailway!Next]_heldBar
  OBVIOUS
<1>0. TypeOK /\ BooksAgree
  BY DEF IInv
<1> USE DEF TypeOK
<1>1. ASSUME NEW c \in Carts, arrive(c) PROVE UNCHANGED heldBar
  <2>1. \A d \in Carts : d # c => Section(d)' = Section(d)
    BY <1>1 DEF arrive, Section, junc1, junc2
  <2> QED
    BY <1>0, <1>1, <2>1, StutterRefines DEF arrive, Goto, Holding
<1>2. ASSUME NEW c \in Carts, cart_start(c) PROVE UNCHANGED heldBar
  BY <1>0, <1>2, SectionStable, StutterRefines DEF cart_start, Goto, Holding
<1>3. ASSUME NEW c \in Carts, MutexLock(c) PROVE UNCHANGED heldBar
  BY <1>0, <1>3, SectionStable, StutterRefines DEF MutexLock, Goto, Holding
<1>4. ASSUME NEW c \in Carts, reserve2_wait(c) PROVE UNCHANGED heldBar
  BY <1>0, <1>4, SectionStable, StutterRefines DEF reserve2_wait, Goto, Holding
<1>5. ASSUME NEW c \in Carts, CondWaitReturn(c) PROVE UNCHANGED heldBar
  BY <1>0, <1>5, SectionStable, StutterRefines DEF CondWaitReturn, Goto, Holding
<1>6. ASSUME NEW c \in Carts, reserve2(c) PROVE AbstractRailway!Enter(c)
  <2>1. heldBar[c] = {} /\ heldBar' = [heldBar EXCEPT ![c] = Section(c)]
    BY <1>0, <1>6, SectionStable DEF reserve2, Goto, Holding, heldBar
  <2>2. \A j \in Section(c) : reserved[j] = NoCart
    BY <1>0, <1>6, SectionInRing DEF reserve2, BooksAgree
  <2>3. \A d \in Carts, j \in Section(c) : j \notin heldBar[d]
    BY <1>0, <2>2, SectionInRing, CartmanAssumption
    DEF BooksAgree, HoldingPC, heldBar, Holding
  <2>4. Section(c) \in SUBSET AbstractRailway!Free
    BY <1>0, <2>3, SectionInRing DEF AbstractRailway!Free, heldBar
  <2> QED
    BY <1>0, <2>1, <2>4, SectionInRing DEF AbstractRailway!Enter, heldBar
<1>7. ASSUME NEW c \in Carts, cross(c) PROVE UNCHANGED heldBar
  BY <1>0, <1>7, SectionStable, StutterRefines DEF cross, Goto, Holding
<1>8. ASSUME NEW c \in Carts, crossed(c) PROVE UNCHANGED heldBar
  BY <1>0, <1>8, SectionStable, StutterRefines DEF crossed, Goto, Holding
<1>9. ASSUME NEW c \in Carts, release2(c) PROVE AbstractRailway!Leave(c)
  <2>1. heldBar[c] = Section(c) /\ heldBar' = [heldBar EXCEPT ![c] = {}]
    BY <1>0, <1>9, SectionStable DEF release2, Goto, Holding, heldBar
  <2> QED
    BY <1>0, <2>1, SectionInRing DEF AbstractRailway!Leave, heldBar
<1>10. ASSUME NEW c \in Carts, release2_broadcast(c) PROVE UNCHANGED heldBar
  BY <1>0, <1>10, SectionStable, StutterRefines DEF release2_broadcast, Holding
<1>11. ASSUME NEW c \in Carts, SpuriousWakeup(c) PROVE UNCHANGED heldBar
  BY <1>0, <1>11, SectionStable, StutterRefines DEF SpuriousWakeup, Goto, Holding
<1>12. CASE UNCHANGED vars
  BY <1>12, SectionStable, StutterRefines DEF vars, Holding
<1> QED
  BY <1>1, <1>2, <1>3, <1>4, <1>5, <1>6, <1>7, <1>8, <1>9, <1>10, <1>11, <1>12
  DEF Next, CartThread, Terminated, AbstractRailway!Next

\* The thread-level controller implements the railway that takes and leaves
\* sections atomically.
THEOREM Refinement == Spec => ImplementsRailway
<1>1. Spec => [][AbstractRailway!Next]_heldBar
  BY Invariance, StepRefines, PTL DEF Spec
<1> QED
  BY InitRefines, <1>1, PTL DEF Spec, ImplementsRailway, AbstractRailway!Spec, heldBar
=============================================================================
