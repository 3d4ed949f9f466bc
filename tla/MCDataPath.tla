--------------------------- MODULE MCDataPath ---------------------------
(***************************************************************************)
(* DataPath on small deployments, for TLC.                                 *)
(***************************************************************************)
EXTENDS DataPath, TLC

\* Terminals behave alike.
Symmetric == Permutations(UT)

\* Relays join access points that do not acknowledge.
RelaysApart == \A r \in FRS : cell[r] \notin Acking
==========================================================================
