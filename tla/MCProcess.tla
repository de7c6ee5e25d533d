----------------------------- MODULE MCProcess -----------------------------
(* Two programs on machines with too few and with enough pages, and every *)
(* shape of a command line on a machine that can load only the first.     *)
EXTENDS Process

CONSTANTS MaxPages,   \* bound: free kernel pages at first
          MaxLine     \* bound: length of a command line

\* Lines of length n: spaces and, elsewhere, characters all distinct.
Lines(n) == {[i \in 1 .. n |-> IF i \in sp THEN SPACE ELSE i] : sp \in SUBSET (1 .. n)}

some_Boots ==
  [kpages : 0 .. MaxPages, cmdline : {<<1, SPACE, 2>>}]
    \cup [kpages : {8}, cmdline : UNION {Lines(n) : n \in 1 .. MaxLine}]
=============================================================================
