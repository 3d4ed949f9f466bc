------------------------- MODULE ConnectionTable -------------------------
(***************************************************************************)
(* The records a ConnectionManager keeps (wimac::ConnectionIdentifier) and *)
(* the lookups other parts of the MAC ask of its list.  A table is the     *)
(* list connectionIdentifiers_, a sequence in insertion order; find_if and *)
(* the "first one found" loops are the first matching position.            *)
(*                                                                         *)
(* A ConnectionIdentifier's connectionType_, direction_ and qos_ always    *)
(* travel together and are one field here, its kind.                       *)
(***************************************************************************)
EXTENDS Naturals, Sequences

CONSTANT Station      \* the stations, named by their station ID

ConnectionType == {"InitialRanging", "Basic", "PrimaryManagement",
                   "SecondaryManagement", "Data"}
Direction      == {"Downlink", "Uplink", "Bidirectional"}
DataQoS        == {"UGS", "rtPS", "nrtPS", "BE"}
QoSCategory    == DataQoS \cup {"Signaling"}

Kind == [type : ConnectionType, direction : Direction, qos : QoSCategory]

KindOf(t, d, q) == [type |-> t, direction |-> d, qos |-> q]

Ranging == KindOf("InitialRanging", "Bidirectional", "Signaling")
Basic   == KindOf("Basic", "Bidirectional", "Signaling")
Primary == KindOf("PrimaryManagement", "Bidirectional", "Signaling")

Connection == [baseStation : Station, cid : Nat, subscriberStation : Station,
               remoteStation : Station, kind : Kind]

---------------------------------------------------------------------------
(* Lookups.  Those that return one connection are the set of positions of  *)
(* that connection: empty when there is none, a singleton otherwise.       *)

\* The first position of table t that is in the set S of positions.
FirstOf(t, S) == {i \in S : \A j \in S : i <= j}

\* getConnectionWithID
WithID(t, cid) == FirstOf(t, {i \in DOMAIN t : t[i].cid = cid})

\* Mutation of BasicForStation: the station is looked for as the base.
BasicOfBase(t, s) ==
  FirstOf(t, {i \in DOMAIN t : /\ t[i].baseStation = s
                               /\ t[i].kind.type = "Basic"})

\* getBasicConnectionFor(StationID): the basic connection of a subscriber.
BasicForStation(t, s) ==
  FirstOf(t, {i \in DOMAIN t : /\ t[i].subscriberStation = s
                               /\ t[i].kind.type = "Basic"})

\* Mutation of BasicForCID: the subscriber is not compared.
BasicOfSameBase(t, cid) ==
  UNION { FirstOf(t, {j \in DOMAIN t : /\ t[j].baseStation = t[i].baseStation
                                       /\ t[j].kind.type = "Basic"})
          : i \in WithID(t, cid) }

\* getBasicConnectionFor(CID): the connection itself when it is basic, else
\* the first basic connection with the same base and subscriber station.
BasicForCID(t, cid) ==
  UNION { IF t[i].kind.type = "Basic"
            THEN {i}
            ELSE FirstOf(t, {j \in DOMAIN t :
                   /\ t[j].baseStation = t[i].baseStation
                   /\ t[j].subscriberStation = t[i].subscriberStation
                   /\ t[j].kind.type = "Basic"})
          : i \in WithID(t, cid) }

\* getOutgoingDataConnections: downlink connections that serve station "to"
\* in an access point, uplink connections to that base in a user terminal,
\* either, by the station at the other end, in a remote one (RUT); an
\* assertion fails in a relay.
OutgoingData(t, stationType, to, qos) ==
  {i \in DOMAIN t :
     /\ t[i].kind.type = "Data"
     /\ t[i].kind.qos = qos
     /\ \/ /\ stationType = "AP"
           /\ t[i].remoteStation = to
           /\ t[i].kind.direction = "Downlink"
        \/ /\ stationType \in {"UT", "RUT"}
           /\ t[i].baseStation = to
           /\ t[i].kind.direction = "Uplink"
        \/ /\ stationType = "RUT"
           /\ t[i].subscriberStation = to
           /\ t[i].kind.direction = "Downlink"}

\* getIncomingDataConnections
IncomingData(t, stationType, from, qos) ==
  {i \in DOMAIN t :
     /\ t[i].kind.type = "Data"
     /\ t[i].kind.qos = qos
     /\ \/ /\ stationType = "AP"
           /\ t[i].remoteStation = from
           /\ t[i].kind.direction = "Uplink"
        \/ /\ stationType \in {"UT", "FRS"}
           /\ t[i].baseStation = from
           /\ t[i].kind.direction = "Downlink"
        \/ /\ stationType = "FRS"
           /\ t[i].subscriberStation = from
           /\ t[i].kind.direction = "Uplink"}

\* The connections of table t to (or from) another station, of which those
\* whose direction is "down" lead down from the base station of the
\* connection and those whose direction is "up" lead up to it.
LeadingTo(t, stationType, other, down, up) ==
  {i \in DOMAIN t :
     \/ /\ stationType = "AP"
        /\ other \in {t[i].remoteStation, t[i].subscriberStation}
        /\ t[i].kind.direction \in {down, "Bidirectional"}
     \/ /\ stationType \in {"UT", "FRS"}
        /\ t[i].baseStation = other
        /\ t[i].kind.direction \in {up, "Bidirectional"}
     \/ /\ stationType = "FRS"
        /\ t[i].subscriberStation = other
        /\ t[i].kind.direction \in {down, "Bidirectional"}}

\* getOutgoingConnections
Outgoing(t, stationType, to) == LeadingTo(t, stationType, to, "Downlink", "Uplink")

\* Mutation of Incoming: a copy of Outgoing.
IncomingCopied(t, stationType, from) == Outgoing(t, stationType, from)

\* getIncomingConnections
Incoming(t, stationType, from) == LeadingTo(t, stationType, from, "Uplink", "Downlink")

\* getAllDataConnections(direction), and with a QoS class
DataOf(t, direction) ==
  {i \in DOMAIN t : /\ t[i].kind.type = "Data"
                    /\ t[i].kind.direction = direction}

AllData(t, direction, qos) == {i \in DataOf(t, direction) : t[i].kind.qos = qos}

\* getAllCIForSS and getAllCIForBS
OfSubscriber(t, s) == {i \in DOMAIN t : t[i].subscriberStation = s}
OfBase(t, b) == {i \in DOMAIN t : t[i].baseStation = b}

\* getAllBasicConnections
AllBasic(t) == {i \in DOMAIN t : t[i].kind.type = "Basic"}
==========================================================================
