------------------------------ MODULE Cartman ------------------------------
(***************************************************************************)
(* Assignment3_1/cartman.c: one detached thread per cart.  arrive() is     *)
(* called back by the (binary) simulator; cart_start works out the         *)
(* junction at the other end of the track, reserve2 takes both junctions   *)
(* under one mutex and one condition variable, cross() lets the cart run,  *)
(* release2 gives the junctions back and broadcasts after the unlock.      *)
(*                                                                         *)
(* The simulator's own book-keeping (who holds which junction, and the     *)
(* conditions under which cartman.h says "System will exit") is modelled   *)
(* from that header as the variables reserved and exited.                  *)
(***************************************************************************)
EXTENDS Integers, FiniteSets

CONSTANTS Carts,        \* cart numbers, each arriving once
          num_tracks,   \* tracks of the ring, and so junctions
          Arrivals,     \* the <<track, junction>> pairs the simulator reports
          NoCart,       \* "no thread owns it", "nobody reserved it"
          MaxSpurious   \* bound: spurious returns of pthread_cond_wait

ASSUME CartmanAssumption ==
  /\ num_tracks \in Nat /\ num_tracks > 1
  /\ Arrivals \subseteq (0 .. num_tracks - 1) \X (0 .. num_tracks - 1)
  /\ NoCart \notin Carts
  /\ MaxSpurious \in Nat

VARIABLES pc,        \* where the thread of each cart is
          c_moves,   \* the record arrive() leaves for the thread
          owner,     \* owner of reserve_mut
          locks,     \* locks[j] of the program, 0 or 1
          reserved,  \* external: the simulator's holder of each junction
          exited,    \* external: the simulator has stopped the system
          spurious   \* spurious wake-ups so far

vars == <<pc, c_moves, owner, locks, reserved, exited, spurious>>

Junctions == 0 .. num_tracks - 1
Tracks == 0 .. num_tracks - 1
Moves == [track_num : Tracks, junc_num : Junctions]

PC == {"away", "start", "lock", "test", "wait", "woken", "cross", "crossing",
       "relock", "clear", "broadcast", "done"}

Init ==
  /\ pc = [c \in Carts |-> "away"]
  /\ c_moves = [c \in Carts |-> [track_num |-> 0, junc_num |-> 0]]
  /\ owner = NoCart
  /\ locks = [j \in Junctions |-> 0]
  /\ reserved = [j \in Junctions |-> NoCart]
  /\ exited = FALSE
  /\ spurious = 0

----------------------------------------------------------------------------
\* The other end of the track, as the four calls of reserve2 compute it.
Opposite(m) ==
  IF m.track_num = m.junc_num
  THEN IF m.junc_num + 1 = num_tracks THEN 0 ELSE m.junc_num + 1
  ELSE IF m.junc_num - 1 = -1 THEN num_tracks - 1 ELSE m.junc_num - 1

\* The junction is an end of the track; for any other, cart_start returns.
AtTrackEnd(m) ==
  \/ m.track_num = m.junc_num
  \/ m.junc_num - 1 = m.track_num
  \/ m.junc_num = 0 /\ m.track_num = num_tracks - 1

junc1(c) == c_moves[c].junc_num
junc2(c) == Opposite(c_moves[c])
Section(c) == {junc1(c), junc2(c)}

Goto(c, from, to) == pc[c] = from /\ pc' = [pc EXCEPT ![c] = to]

\* Callback of the simulator: record the move, start the thread.
arrive(c) ==
  /\ \E a \in Arrivals :
       c_moves' = [c_moves EXCEPT ![c] = [track_num |-> a[1], junc_num |-> a[2]]]
  /\ Goto(c, "away", "start")
  /\ UNCHANGED <<owner, locks, reserved, exited, spurious>>

\* cart_start copies its argument and calls reserve2, or returns at once.
cart_start(c) ==
  /\ Goto(c, "start", IF AtTrackEnd(c_moves[c]) THEN "lock" ELSE "done")
  /\ UNCHANGED <<c_moves, owner, locks, reserved, exited, spurious>>

\* pthread_mutex_lock at the head of reserve2 and of release2.
MutexLock(c) ==
  /\ owner = NoCart
  /\ owner' = c
  /\ Goto(c, "lock", "test") \/ Goto(c, "relock", "clear")
  /\ UNCHANGED <<c_moves, locks, reserved, exited, spurious>>

\* while (locks[junc1] != 0 || locks[junc2] != 0) pthread_cond_wait(...)
reserve2_wait(c) ==
  /\ \E j \in Section(c) : locks[j] # 0
  /\ Goto(c, "test", "wait")
  /\ owner' = NoCart
  /\ UNCHANGED <<c_moves, locks, reserved, exited, spurious>>

\* pthread_cond_wait returns: it has the mutex again and the test is redone.
CondWaitReturn(c) ==
  /\ owner = NoCart
  /\ owner' = c
  /\ Goto(c, "woken", "test")
  /\ UNCHANGED <<c_moves, locks, reserved, exited, spurious>>

\* Mutation: only the junction the cart stands at is tested.
reserve2_tests_one(c) ==
  /\ locks[junc1(c)] = 0
  /\ Goto(c, "test", "cross")
  /\ locks' = [j \in Junctions |-> IF j \in Section(c) THEN 1 ELSE locks[j]]
  /\ reserved' = [j \in Junctions |-> IF j \in Section(c) THEN c ELSE reserved[j]]
  /\ owner' = NoCart
  /\ UNCHANGED <<c_moves, exited, spurious>>

\* Mutation: the opposite junction is reserved but never marked.
reserve2_marks_one(c) ==
  /\ \A j \in Section(c) : locks[j] = 0
  /\ Goto(c, "test", "cross")
  /\ locks' = [locks EXCEPT ![junc1(c)] = 1]
  /\ reserved' = [j \in Junctions |-> IF j \in Section(c) THEN c ELSE reserved[j]]
  /\ exited' = (exited \/ \E j \in Section(c) : reserved[j] # NoCart)
  /\ owner' = NoCart
  /\ UNCHANGED <<c_moves, spurious>>

\* The rest of reserve2: mark both junctions, tell the simulator, unlock.
reserve2(c) ==
  /\ \A j \in Section(c) : locks[j] = 0
  /\ Goto(c, "test", "cross")
  /\ locks' = [j \in Junctions |-> IF j \in Section(c) THEN 1 ELSE locks[j]]
  /\ reserved' = [j \in Junctions |-> IF j \in Section(c) THEN c ELSE reserved[j]]
  /\ exited' = (exited \/ \E j \in Section(c) : reserved[j] # NoCart
                       \/ junc1(c) = junc2(c))
  /\ owner' = NoCart
  /\ UNCHANGED <<c_moves, spurious>>

\* cross(): external; the cart is under way until the call returns.
cross(c) ==
  /\ Goto(c, "cross", "crossing")
  /\ exited' = (exited \/ \E j \in Section(c) : reserved[j] # c)
  /\ UNCHANGED <<c_moves, owner, locks, reserved, spurious>>

crossed(c) ==
  /\ Goto(c, "crossing", "relock")
  /\ UNCHANGED <<c_moves, owner, locks, reserved, exited, spurious>>

\* Mutation: the thread ends without a broadcast.
release2_silent(c) ==
  /\ Goto(c, "clear", "done")
  /\ locks' = [j \in Junctions |-> IF j \in Section(c) THEN 0 ELSE locks[j]]
  /\ reserved' = [j \in Junctions |-> IF j \in Section(c) THEN NoCart ELSE reserved[j]]
  /\ owner' = NoCart
  /\ UNCHANGED <<c_moves, exited, spurious>>

\* release2 up to and including the unlock.
release2(c) ==
  /\ Goto(c, "clear", "broadcast")
  /\ locks' = [j \in Junctions |-> IF j \in Section(c) THEN 0 ELSE locks[j]]
  /\ reserved' = [j \in Junctions |-> IF j \in Section(c) THEN NoCart ELSE reserved[j]]
  /\ exited' = (exited \/ \E j \in Section(c) : reserved[j] # c)
  /\ owner' = NoCart
  /\ UNCHANGED <<c_moves, spurious>>

\* Mutation: pthread_cond_signal, which wakes one waiting thread.
release2_signal(c) ==
  /\ pc[c] = "broadcast"
  /\ LET waiting == {d \in Carts : pc[d] = "wait"}
     IN  \/ /\ waiting = {}
           /\ pc' = [pc EXCEPT ![c] = "done"]
         \/ \E d \in waiting : pc' = [pc EXCEPT ![c] = "done", ![d] = "woken"]
  /\ UNCHANGED <<c_moves, owner, locks, reserved, exited, spurious>>

\* pthread_cond_broadcast, then pthread_exit.
release2_broadcast(c) ==
  /\ pc[c] = "broadcast"
  /\ pc' = [d \in Carts |-> IF d = c THEN "done"
                            ELSE IF pc[d] = "wait" THEN "woken" ELSE pc[d]]
  /\ UNCHANGED <<c_moves, owner, locks, reserved, exited, spurious>>

\* POSIX lets pthread_cond_wait return without a wake-up.
SpuriousWakeup(c) ==
  /\ spurious < MaxSpurious
  /\ spurious' = spurious + 1
  /\ Goto(c, "wait", "woken")
  /\ UNCHANGED <<c_moves, owner, locks, reserved, exited>>

CartThread(c) ==
  \/ cart_start(c) \/ MutexLock(c) \/ reserve2_wait(c) \/ CondWaitReturn(c)
  \/ reserve2(c) \/ cross(c) \/ crossed(c) \/ release2(c) \/ release2_broadcast(c)

\* The system may stop once every thread has run to its end.
Terminated == (\A c \in Carts : pc[c] = "done") /\ UNCHANGED vars

Next ==
  \/ \E c \in Carts : arrive(c) \/ CartThread(c) \/ SpuriousWakeup(c)
  \/ Terminated

\* Every runnable thread runs; nothing is assumed of the simulator's
\* arrivals or of spurious wake-ups.
Fairness == \A c \in Carts : WF_vars(CartThread(c))

Spec == Init /\ [][Next]_vars /\ Fairness

----------------------------------------------------------------------------
\* Types of the variables.
TypeOK ==
  /\ pc \in [Carts -> PC]
  /\ c_moves \in [Carts -> Moves]
  /\ owner \in Carts \cup {NoCart}
  /\ locks \in [Junctions -> {0, 1}]
  /\ reserved \in [Junctions -> Carts \cup {NoCart}]
  /\ exited \in BOOLEAN
  /\ spurious \in 0 .. MaxSpurious

\* No call of reserve(), cross() or release() meets a condition under which
\* cartman.h says the system will exit: double reservation, or a junction
\* at either end that the cart does not hold.
SystemNeverExits == ~exited

\* Two carts that are under way at the same time share no junction.
CrossingExclusive ==
  \A c, d \in Carts :
    c # d /\ pc[c] = "crossing" /\ pc[d] = "crossing" => Section(c) \cap Section(d) = {}

\* The broadcast comes after the unlock, so a waiting cart may find both its
\* junctions free with nobody holding the mutex; then a broadcast is due.
NoStrandedCart ==
  \A c \in Carts :
    pc[c] = "wait" /\ (\A j \in Section(c) : locks[j] = 0)
      => \E d \in Carts : pc[d] = "broadcast"

\* A cart that has come to an end of its track gets across, and then its
\* thread ends with nobody left waiting for a wake-up that never comes.
EveryCartCrosses ==
  \A c \in Carts :
    /\ pc[c] = "start" /\ AtTrackEnd(c_moves[c]) ~> pc[c] = "crossing"
    /\ pc[c] = "crossing" ~> pc[c] = "done"

\* The junctions a cart holds, from the clearing of the while test to the
\* unlock of release2.
Holding(c) ==
  IF pc[c] \in {"cross", "crossing", "relock", "clear"} THEN Section(c) ELSE {}

AbstractRailway == INSTANCE Railway WITH held <- [c \in Carts |-> Holding(c)]

\* The threads implement the railway in which sections are taken and left in
\* one step.
ImplementsRailway == AbstractRailway!Spec

=============================================================================
