----------------------- MODULE MCBandwidthRequest -----------------------
(***************************************************************************)
(* BandwidthRequest on a small deployment, for TLC.                        *)
(***************************************************************************)
EXTENDS BandwidthRequest, TLC

\* Stations of the same type behave alike.
Symmetric == Permutations(FRS) \cup Permutations(UT)
==========================================================================
