----------------------------- MODULE MCCartman -----------------------------
(* Three carts on a small ring.                                           *)
EXTENDS Cartman

CONSTANTS c1, c2, c3

const_Carts == {c1, c2, c3}

\* Sections that overlap pairwise, sections that do not, and a stray pair.
some_Arrivals == {<<0, 0>>, <<1, 2>>, <<2, 2>>, <<0, 2>>}
=============================================================================
