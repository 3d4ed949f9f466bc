-------------------------- MODULE MCBypassQueue --------------------------
(***************************************************************************)
(* BypassQueue with three connections of two users in two units, for TLC.  *)
(* Two connections share a unit, two a user, and two another priority.     *)
(***************************************************************************)
EXTENDS BypassQueue, TLC

CONSTANTS c1, c2, c3, u1, u2, unit1, unit2

TheCIDs     == {c1, c2, c3}
TheUsers    == c1 :> u1 @@ c2 :> u2 @@ c3 :> u1
ThePriority == c1 :> 1 @@ c2 :> 2 @@ c3 :> 2
TheUnits    == c1 :> unit1 @@ c2 :> unit1 @@ c3 :> unit2
==========================================================================
