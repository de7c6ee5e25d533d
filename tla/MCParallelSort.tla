--------------------------- MODULE MCParallelSort ---------------------------
(* Arrays of ones and zeros, with an element on either side of the range. *)
EXTENDS ParallelSort

all_Programs == {"sort", "psort", "usort"}
=============================================================================
