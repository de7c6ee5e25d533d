----------------------------- MODULE MCManpage -----------------------------
(* Four paragraphs in place of seven.                                     *)
EXTENDS Manpage
=============================================================================
