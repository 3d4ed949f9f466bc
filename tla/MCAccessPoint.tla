-------------------------- MODULE MCAccessPoint --------------------------
(***************************************************************************)
(* The parts of an access point that keep something between frames, for    *)
(* TLC: the connection manager with its queue access, HARQ reception, the  *)
(* interference cache, the interference of a slot, and the sectors of the  *)
(* scheduler.  They share no variable, so their steps commute and nothing  *)
(* is learnt from interleaving them: in a behaviour one part moves and the *)
(* others stay where they start.                                           *)
(***************************************************************************)
EXTENDS ConnectionManager, HarqReception, InterferenceCache, SlotInterference,
        Sectorization, TLC

CONSTANTS c1, c2

\* A ranging, a basic and one data connection of each direction.
FourKinds == {Ranging, Basic, KindOf("Data", "Uplink", "BE"),
              KindOf("Data", "Downlink", "BE")}

\* Two other cells that are received with different power.
UnequalPower == c1 :> 1 @@ c2 :> 2

VARIABLE part \* the part that moves

accessPointVars == <<managerVars, harqVars, cacheVars, slotVars, sectorVars, part>>

AccessPointInit ==
  /\ ManagerInit /\ HarqInit /\ CacheInit /\ SlotInit /\ SectorInit
  /\ part \in {"manager", "harq", "cache", "slot", "sector"}
  /\ part # "sector" => configVars = <<1, 1, TRUE, TRUE>>

AccessPointNext ==
  \/ /\ part = "manager" /\ ManagerNext
     /\ UNCHANGED <<harqVars, cacheVars, slotVars, sectorVars, part>>
  \/ /\ part = "harq" /\ HarqNext
     /\ UNCHANGED <<managerVars, cacheVars, slotVars, sectorVars, part>>
  \/ /\ part = "cache" /\ CacheNext
     /\ UNCHANGED <<managerVars, harqVars, slotVars, sectorVars, part>>
  \/ /\ part = "slot" /\ SlotNext
     /\ UNCHANGED <<managerVars, harqVars, cacheVars, sectorVars, part>>
  \/ /\ part = "sector" /\ SectorNext
     /\ UNCHANGED <<managerVars, harqVars, cacheVars, slotVars, part>>

\* The event scheduler gets to the events of HARQ reception.
AccessPointSpec ==
  AccessPointInit /\ [][AccessPointNext]_accessPointVars /\ (part = "harq" => HarqFairness)
==========================================================================
