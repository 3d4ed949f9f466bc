----------------------------- MODULE MCFrame -----------------------------
(***************************************************************************)
(* Frame on a small cell, for TLC.                                         *)
(***************************************************************************)
EXTENDS Frame

\* Subscribers behave alike.
Symmetric == Permutations(SS)
==========================================================================
