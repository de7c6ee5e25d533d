------------------------------ MODULE Railway ------------------------------
(***************************************************************************)
(* What the cart controller of Assignment 3 promises, without threads:    *)
(* carts come to critical sections of a ring of tracks, a section is      *)
(* entered only when both junctions at its ends are free, and both are    *)
(* given back when the cart is across.                                     *)
(***************************************************************************)
CONSTANTS Carts,       \* the carts
          Junctions    \* the junctions of the ring

VARIABLES held         \* held[c]: the junctions cart c holds

Init == held = [c \in Carts |-> {}]

\* Junctions no cart holds.
Free == Junctions \ UNION {held[c] : c \in Carts}

\* A cart takes every junction of its section in one step.
Enter(c) ==
  /\ held[c] = {}
  /\ \E js \in SUBSET Free :
       /\ js # {}
       /\ held' = [held EXCEPT ![c] = js]

\* A cart that is across gives all of them back in one step.
Leave(c) ==
  /\ held[c] # {}
  /\ held' = [held EXCEPT ![c] = {}]

Next == \E c \in Carts : Enter(c) \/ Leave(c)

Spec == Init /\ [][Next]_held
=============================================================================
