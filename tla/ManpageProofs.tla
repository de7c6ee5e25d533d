--------------------------- MODULE ManpageProofs ---------------------------
(***************************************************************************)
(* Safety of the paragraph printer, for any number of paragraphs and of    *)
(* spurious wake-ups.                                                      *)
(***************************************************************************)
EXTENDS Manpage, TLAPS

\* The places between a lock and the next wait or unlock.
Inside == {"test", "show", "advance"}

\* The mutex belongs to the one thread inside.
MutexInv == \A t \in Threads : owner = t <=> pc[t] \in Inside

\* A thread that has got past its test has the turn.
TurnInv == \A t \in Threads : pc[t] \in {"show", "advance"} => pid[t] = cur_page

\* cur_page counts what has been shown, except between showParagraph and the
\* increment, when it is one behind.
CountInv ==
  /\ (\A t \in Threads : pc[t] # "advance") => Len(shown) = cur_page
  /\ \A t \in Threads : pc[t] = "advance" => Len(shown) = cur_page + 1

IInv ==
  /\ TypeOK
  /\ MutexInv
  /\ TurnInv
  /\ CountInv
  /\ ShownInOrder
  /\ NoStrandedReader

----------------------------------------------------------------------------
\* manpage() starts with nothing shown and nobody in print_page.
LEMMA InitInv == Init => IInv
<1> SUFFICES ASSUME Init PROVE IInv
    OBVIOUS
<1>1. TypeOK
  BY ManpageAssumption DEF Init, TypeOK, Threads, PC
<1>2. MutexInv /\ TurnInv
  BY ManpageAssumption DEF Init, MutexInv, TurnInv, Inside, Threads
<1>3. CountInv /\ ShownInOrder /\ NoStrandedReader
  BY DEF Init, CountInv, ShownInOrder, NoStrandedReader
<1> QED  BY <1>1, <1>2, <1>3 DEF IInv

\* The steps of manpage() start threads and wait for them; none of them
\* touches the mutex, the turn or the page.
LEMMA MainStep == ASSUME IInv, Main PROVE IInv'
<1> USE ManpageAssumption DEF IInv
<1>1. ASSUME create PROVE IInv'
  <2>0. main.i \in 0 .. Paragraphs /\ main.i < Paragraphs /\ main.i \in Threads
    <3>1. main \in [at : {"create", "join", "returned"}, i : 0 .. Paragraphs]
      BY DEF TypeOK
    <3>2. main.i < Paragraphs
      BY <1>1 DEF create
    <3> HIDE DEF IInv
    <3> QED  BY <3>1, <3>2 DEF Threads
  <2> USE <1>1 DEF create, Goto
  <2>1. TypeOK'
    <3>1. main' \in [at : {"create", "join", "returned"}, i : 0 .. Paragraphs]
      <4>1. main \in [at : {"create", "join", "returned"}, i : 0 .. Paragraphs]
        BY DEF TypeOK
      <4>2. main' = [main EXCEPT !.i = @ + 1]
        BY DEF create
      <4>3. main.i + 1 \in 0 .. Paragraphs
        BY <2>0
      <4> HIDE <1>1 DEF IInv, create, Goto
      <4> QED  BY <4>1, <4>2, <4>3
    <3>2. pc' \in [Threads -> PC]
      BY DEF TypeOK, PC
    <3> QED  BY <3>1, <3>2 DEF TypeOK
  <2>2. MutexInv' /\ TurnInv'
    BY <2>0 DEF MutexInv, TurnInv, Inside, TypeOK
  <2>3. CountInv' /\ ShownInOrder' /\ NoStrandedReader'
    BY <2>0 DEF CountInv, ShownInOrder, NoStrandedReader, TypeOK
  <2> QED  BY <2>1, <2>2, <2>3
<1>2. ASSUME created \/ join \/ return PROVE IInv'
  <2>1. UNCHANGED <<pc, pid, cur_page, owner, shown, spurious>>
    BY <1>2 DEF created, join, return
  <2>2. main' \in [at : {"create", "join", "returned"}, i : 0 .. Paragraphs]
    BY <1>2 DEF created, join, return, TypeOK
  <2>3. TypeOK'
    BY <2>1, <2>2 DEF TypeOK
  <2>4. MutexInv' /\ TurnInv' /\ CountInv' /\ ShownInOrder' /\ NoStrandedReader'
    BY <2>1 DEF MutexInv, TurnInv, CountInv, ShownInOrder, NoStrandedReader
  <2> QED  BY <2>3, <2>4
<1> QED  BY <1>1, <1>2 DEF Main

\* A thread's steps in print_page, and its spurious wake-ups.
LEMMA ThreadStep ==
  ASSUME IInv, NEW t \in Threads, print_page(t) \/ SpuriousWakeup(t)
  PROVE  IInv'
<1> USE ManpageAssumption DEF IInv, Goto
<1>0. t \in Int /\ NoThread # t
  BY DEF Threads
<1>1. ASSUME getParagraphId(t) PROVE IInv'
  <2> USE <1>1 DEF getParagraphId
  <2>1. TypeOK'
    BY DEF TypeOK, PC
  <2>2. MutexInv' /\ TurnInv'
    BY DEF MutexInv, TurnInv, Inside, TypeOK
  <2>3. CountInv' /\ ShownInOrder' /\ NoStrandedReader'
    BY DEF CountInv, ShownInOrder, NoStrandedReader, TypeOK
  <2> QED  BY <2>1, <2>2, <2>3
<1>2. ASSUME MutexLock(t) PROVE IInv'
  <2> USE <1>2 DEF MutexLock
  <2>1. TypeOK'
    BY DEF TypeOK, PC
  <2>2. MutexInv' /\ TurnInv'
    BY <1>0 DEF MutexInv, TurnInv, Inside, TypeOK, Threads
  <2>3. CountInv' /\ ShownInOrder' /\ NoStrandedReader'
    BY DEF CountInv, ShownInOrder, NoStrandedReader, TypeOK
  <2> QED  BY <2>1, <2>2, <2>3
<1>3. ASSUME print_page_wait(t) PROVE IInv'
  <2> USE <1>3 DEF print_page_wait
  <2>1. TypeOK'
    BY DEF TypeOK, PC
  <2>2. MutexInv' /\ TurnInv'
    BY <1>0 DEF MutexInv, TurnInv, Inside, TypeOK, Threads
  <2>3. CountInv' /\ ShownInOrder' /\ NoStrandedReader'
    BY DEF CountInv, ShownInOrder, NoStrandedReader, TypeOK
  <2> QED  BY <2>1, <2>2, <2>3
<1>4. ASSUME print_page_turn(t) PROVE IInv'
  <2> USE <1>4 DEF print_page_turn
  <2>1. TypeOK'
    BY DEF TypeOK, PC
  <2>2. MutexInv' /\ TurnInv'
    BY DEF MutexInv, TurnInv, Inside, TypeOK
  <2>3. CountInv' /\ ShownInOrder' /\ NoStrandedReader'
    BY DEF CountInv, ShownInOrder, NoStrandedReader, TypeOK
  <2> QED  BY <2>1, <2>2, <2>3
\* Only the thread inside can be between showParagraph and the increment, so
\* the paragraph goes where cur_page points.
<1>5. ASSUME showParagraph(t) PROVE IInv'
  <2> USE <1>5 DEF showParagraph
  <2>1. /\ pid[t] = cur_page /\ cur_page \in Threads
        /\ \A u \in Threads \ {t} : pc[u] \notin Inside
    BY <1>0 DEF TurnInv, MutexInv, Inside, TypeOK, Threads
  <2>2. Len(shown) = cur_page
    BY <2>1 DEF CountInv, Inside
  <2>3. TypeOK'
    BY <2>1 DEF TypeOK, PC
  <2>4. MutexInv' /\ TurnInv'
    BY <2>1 DEF MutexInv, TurnInv, Inside, TypeOK
  <2>5. ShownInOrder'
    <3>1. shown \in Seq(Threads) /\ shown' = Append(shown, cur_page)
      BY <2>1 DEF TypeOK
    <3> QED  BY <3>1, <2>1, <2>2 DEF ShownInOrder, Threads
  <2>6. CountInv'
    <3>1. Len(shown') = cur_page + 1
      BY <2>1, <2>2 DEF TypeOK
    <3> QED  BY <3>1 DEF CountInv, TypeOK
  <2>7. NoStrandedReader'
    BY DEF NoStrandedReader, TypeOK
  <2> QED  BY <2>3, <2>4, <2>5, <2>6, <2>7
<1>6. ASSUME print_page_advance(t) PROVE IInv'
  <2> USE <1>6 DEF print_page_advance
  <2>1. /\ pid[t] = cur_page /\ cur_page \in Threads
        /\ \A u \in Threads \ {t} : pc[u] \notin Inside
    BY <1>0 DEF TurnInv, MutexInv, Inside, TypeOK, Threads
  <2>2. TypeOK'
    BY <2>1 DEF TypeOK, PC, Threads
  <2>3. MutexInv' /\ TurnInv'
    BY <1>0, <2>1 DEF MutexInv, TurnInv, Inside, TypeOK, Threads
  <2>4. CountInv' /\ ShownInOrder'
    BY <2>1 DEF CountInv, ShownInOrder, Inside, TypeOK
  <2>5. NoStrandedReader'
    BY DEF NoStrandedReader, TypeOK
  <2> QED  BY <2>2, <2>3, <2>4, <2>5
<1>7. ASSUME print_page_broadcast(t) PROVE IInv'
  <2> USE <1>7 DEF print_page_broadcast
  <2>1. TypeOK'
    BY DEF TypeOK, PC
  <2>2. MutexInv' /\ TurnInv'
    BY DEF MutexInv, TurnInv, Inside, TypeOK
  <2>3. CountInv' /\ ShownInOrder' /\ NoStrandedReader'
    BY DEF CountInv, ShownInOrder, NoStrandedReader, TypeOK
  <2> QED  BY <2>1, <2>2, <2>3
<1>8. ASSUME SpuriousWakeup(t) PROVE IInv'
  <2> USE <1>8 DEF SpuriousWakeup
  <2>1. TypeOK'
    BY DEF TypeOK, PC
  <2>2. MutexInv' /\ TurnInv'
    BY DEF MutexInv, TurnInv, Inside, TypeOK
  <2>3. CountInv' /\ ShownInOrder' /\ NoStrandedReader'
    BY DEF CountInv, ShownInOrder, NoStrandedReader, TypeOK
  <2> QED  BY <2>1, <2>2, <2>3
<1> QED  BY <1>1, <1>2, <1>3, <1>4, <1>5, <1>6, <1>7, <1>8 DEF print_page

\* IInv is inductive.
THEOREM Invariance == Spec => []IInv
<1>1. IInv /\ [Next]_vars => IInv'
  <2> SUFFICES ASSUME IInv, [Next]_vars PROVE IInv'
      OBVIOUS
  <2>1. CASE Main  BY <2>1, MainStep
  <2>2. CASE \E t \in Threads : print_page(t) \/ SpuriousWakeup(t)
    BY <2>2, ThreadStep
  <2>3. CASE UNCHANGED vars
    BY <2>3 DEF vars, IInv, TypeOK, MutexInv, TurnInv, CountInv, ShownInOrder,
                NoStrandedReader
  <2> QED  BY <2>1, <2>2, <2>3 DEF Next, Terminated
<1> QED  BY <1>1, InitInv, PTL DEF Spec

\* Type correctness, the bound on cur_page included.
THEOREM TypeCorrect == Spec => []TypeOK
BY Invariance, PTL DEF IInv

\* The paragraphs appear in their order whatever order the threads get the
\* mutex and the broadcasts in.
THEOREM InOrder == Spec => []ShownInOrder
BY Invariance, PTL DEF IInv

\* A thread whose turn it is does not wait unless a broadcast is due.
THEOREM NoneStranded == Spec => []NoStrandedReader
BY Invariance, PTL DEF IInv
=============================================================================
