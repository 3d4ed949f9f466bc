---------------------------- MODULE MCStation ----------------------------
(***************************************************************************)
(* Physical access, the measurement of base stations and the queue of a    *)
(* relay's uplink, for TLC.  They share no variable, so their steps        *)
(* commute and nothing is learnt from interleaving them: in a behaviour    *)
(* one part moves and the others stay where they start.                    *)
(***************************************************************************)
EXTENDS PhyAccess, Measurement, MCBypassQueue

CONSTANTS ss1, ss2, a1, r

\* Bursts that fill half of a slot, or a slot but for its last tick.
TwoSubscribers == {ss1, ss2}
HalfOrWhole    == {<<0, 2, 2>>, <<2, 4, 2>>, <<0, 4, 3>>}
Symmetry       == Permutations(TwoSubscribers)

\* A relay fixed to the access point; the terminal has the choice.
RelayIsFixed == r :> a1

VARIABLE part \* the part that moves

stationVars == <<accessVars, measureVars, bypassVars, part>>

StationInit ==
  /\ AccessInit /\ MeasureInit /\ BypassInit
  /\ part \in {"access", "measure", "bypass"}

StationNext ==
  \/ part = "access" /\ AccessNext /\ UNCHANGED <<measureVars, bypassVars, part>>
  \/ part = "measure" /\ MeasureNext /\ UNCHANGED <<accessVars, bypassVars, part>>
  \/ part = "bypass" /\ BypassNext /\ UNCHANGED <<accessVars, measureVars, part>>

StationSpec == StationInit /\ [][StationNext]_stationVars
==========================================================================
