-------------------------- MODULE MCAssociation --------------------------
(***************************************************************************)
(* Association, and what the registries say of its connection tables, on a *)
(* small deployment, for TLC.                                              *)
(***************************************************************************)
EXTENDS Registry, TLC

\* Stations of the same type behave alike.
Symmetric == Permutations(AP) \cup Permutations(FRS) \cup Permutations(UT)
==========================================================================
