------------------------------ MODULE MCPager ------------------------------
(* Four interchangeable pages.                                            *)
EXTENDS Pager

CONSTANTS p1, p2, p3, p4

const_Pages == {p1, p2, p3, p4}
PageSymmetry == Permutations(const_Pages)
=============================================================================
