---------------------------- MODULE DataPath ----------------------------
(***************************************************************************)
(* How a packet finds its way over the connections that Association set    *)
(* up: UpperConvergence (flows and their QoS classes), ConnectionClassifier*)
(* (the connection of an outgoing packet), RegistryProxyWiMAC (who a       *)
(* connection is transmitted to), PhyUser::filter (what a station          *)
(* accepts), RSRelayMapper (forwarding), ACKSwitch (which connection an    *)
(* acknowledgement takes) and the RANG behind the access points.           *)
(*                                                                         *)
(* A packet in "air" waits in the transmit queue of station "at"; Transmit *)
(* is one transmission of it and all that the receiver does with it in the *)
(* same event.  Which queue is served next is the scheduler's choice.      *)
(***************************************************************************)
EXTENDS Association

CONSTANTS
  Classes,    \* the QoS classes the flows of a scenario ask for
  Acking,     \* the stations whose stack acknowledges what it receives
  MaxFlows,   \* bound: how many flows are established
  MaxAir      \* bound: how many packets are in transmit queues at once

ASSUME DataPathAssumption ==
  /\ Classes \subseteq DataQoS
  /\ Acking \subseteq AP \cup UT
  /\ MaxFlows \in Nat /\ MaxAir \in Nat

NoFlow == 0         \* UpperCommand's dllFlowID when there is no flow
Flow   == 0..MaxFlows

VARIABLES
  dllFlowID,   \* UpperConvergence::dllFlowID, one counter for all stations
  flowClass,   \* per station: flowID2QosClass, "none" where undefined
  lookup,      \* RANG's accessPointLookup, for the terminals
  heard,       \* the flows the network behind the RANG has had packets of
  air,         \* the packets in the stations' transmit queues
  fault        \* the assertion that ended the simulation, or "none"

dataVars == <<dllFlowID, flowClass, lookup, heard, air, fault>>
allVars  == <<vars, dataVars>>

PDU == [ack : BOOLEAN,            \* an acknowledgement: AckSwitchCommand is set
        at : Station,
        cid : Nat,                \* ClassifierCommand: peer.id
        originalCID : Nat,        \* AckSwitchCommand: peer.originalCID
        ut : UT,                  \* the terminal's address in UpperCommand
        up : BOOLEAN,             \* the terminal is the source, else the target
        flow : Flow,              \* UpperCommand: local.dllFlowID
        class : DataQoS,          \* UpperCommand: local.qosClass
        of : Nat]                 \* history: the CID the data was first sent on

DataInit ==
  /\ Init
  /\ dllFlowID = 0
  /\ flowClass = [s \in Station |-> [f \in Flow |-> "none"]]
  /\ lookup    = [u \in UT |-> NoStation]
  /\ heard     = {}
  /\ air       = {}
  /\ fault     = "none"

---------------------------------------------------------------------------
\* UpperConvergence::establishFlow, called by a terminal's transport layer.
EstablishFlow(u, q) ==
  /\ dllFlowID < MaxFlows
  /\ dllFlowID' = dllFlowID + 1
  /\ flowClass' = [flowClass EXCEPT ![u][dllFlowID + 1] = q]
  /\ UNCHANGED <<lookup, heard, air, fault>>

\* The class UpperConvergence::sendData puts into the packet.
ClassOf(s, f) == IF flowClass[s][f] = "none" THEN "BE" ELSE flowClass[s][f]

\* ConnectionClassifier::classifyOutgoing: in an access point the downlink
\* connections of the target, in a terminal (whose peers are behind the RANG,
\* so that no connection leads to them) all uplink connections of the class.
Classified(s, u, q) ==
  IF s \in AP THEN OutgoingData(table[s], "AP", u, q)
              ELSE AllData(table[s], "Uplink", q)

\* UpperConvergence::sendData at station s, for or from terminal u on flow f.
\* Without an acceptor the packet is dropped, which changes nothing; the
\* classifier asserts that there is only one connection to choose from.
SendData(s, u, f) ==
  LET q   == ClassOf(s, f)
      cis == Classified(s, u, q)
  IN  /\ Cardinality(air) < MaxAir
      /\ cis # {}
      /\ \/ /\ Cardinality(cis) = 1
            /\ \E i \in cis :
                 LET c == table[s][i].cid
                 IN  air' = air \cup {[ack |-> FALSE, at |-> s, cid |-> c,
                              originalCID |-> 0, ut |-> u, up |-> s = u,
                              flow |-> f, class |-> q, of |-> c]}
            /\ UNCHANGED fault
         \/ /\ Cardinality(cis) > 1
            /\ fault' = "classifier"
            /\ UNCHANGED air
      /\ UNCHANGED <<dllFlowID, flowClass, lookup, heard>>

\* A terminal sends on a flow of its own or on none.
SendUp(u, f) ==
  /\ f = NoFlow \/ flowClass[u][f] # "none"
  /\ SendData(u, u, f)

\* RANG::sendData: to the access point the terminal was last heard from, on a
\* flow the network has learned of, or on none.
SendDown(u, f) ==
  /\ lookup[u] # NoStation
  /\ f = NoFlow \/ <<u, f>> \in heard
  /\ SendData(lookup[u], u, f)

---------------------------------------------------------------------------
(* One transmission.                                                       *)

\* Mutation of Peer: a relay always transmits to its own base station.
PeerUp(s, c) == IF s \in AP THEN c.subscriberStation ELSE c.baseStation

\* RegistryProxyWiMAC::getUserForCID: whom station s sends connection c to.
Peer(s, c) ==
  IF s \in AP \/ (s \in FRS /\ c.baseStation = s) THEN c.subscriberStation
                                                  ELSE c.baseStation

\* PhyUser::filter for a packet addressed to station n: a station without a
\* base station takes frame heads only, and the CID has to be registered.
Accepts(n, cid) ==
  /\ n \notin AP => WithID(table[n], 0) # {}
  /\ WithID(table[n], cid) # {} \/ cid = 0

\* Mutation of Mapped: whatever side a CID is on, the lower one results.
MappedDown(r, cid) == {mappings[r][n].lower : n \in MappingsOf(r, cid)}

\* RSRelayMapper: the other side of the first mapping a CID appears in.
Mapped(r, cid) ==
  LET ms == {n \in MappingsOf(r, cid) : \A m \in MappingsOf(r, cid) : n <= m}
  IN  {IF cid = mappings[r][n].upper THEN mappings[r][n].lower
                                     ELSE mappings[r][n].upper : n \in ms}

\* The packet at relay r on connection c, naming connection o.
Remapped(r, p, c, o) == [p EXCEPT !.at = r, !.cid = c, !.originalCID = o]

\* Mutation of Relayed: the CID inside an acknowledgement is not mapped.
RelayedOuter(r, p) ==
  {Remapped(r, p, c, p.originalCID) : c \in Mapped(r, p.cid)}

\* RSRelayMapper::processIncoming at relay r.
Relayed(r, p) ==
  {Remapped(r, p, c, o) :
     c \in Mapped(r, p.cid),
     o \in IF p.ack /\ MappingsOf(r, p.originalCID) # {}
             THEN Mapped(r, p.originalCID) ELSE {0}}

\* Mutation of Acknowledgement: the CID of the data is not saved.
AcknowledgementBare(n, p) ==
  {[ack |-> TRUE, at |-> n, cid |-> table[n][b].cid, originalCID |-> table[n][b].cid,
    ut |-> p.ut, up |-> ~p.up, flow |-> NoFlow, class |-> "BE", of |-> p.of] :
     b \in BasicForCID(table[n], p.cid)}

\* The reply of station n to data packet p after ACKSwitch::processOutgoing:
\* on the basic connection, with the data's CID saved in the command.
Acknowledgement(n, p) ==
  {[ack |-> TRUE, at |-> n, cid |-> table[n][b].cid, originalCID |-> p.cid,
    ut |-> p.ut, up |-> ~p.up, flow |-> NoFlow, class |-> "BE", of |-> p.of] :
     b \in BasicForCID(table[n], p.cid)}

\* Mutations of Learn: the station heard directly is taken for the access
\* point; the class of a new flow is not remembered.
LearnSender(a, p) ==
  /\ flowClass' = [flowClass EXCEPT ![a][p.flow] = IF @ = "none" THEN p.class ELSE @]
  /\ lookup'    = [lookup EXCEPT ![p.ut] = p.at]
  /\ heard'     = IF p.flow = NoFlow THEN heard ELSE heard \cup {<<p.ut, p.flow>>}
LearnPlaceOnly(a, p) ==
  /\ UNCHANGED flowClass
  /\ lookup'    = [lookup EXCEPT ![p.ut] = a]
  /\ heard'     = IF p.flow = NoFlow THEN heard ELSE heard \cup {<<p.ut, p.flow>>}

\* UpperConvergence::doOnData in an access point and RANG::onData: the class
\* of a new flow and the access point of the terminal are remembered.
Learn(a, p) ==
  /\ flowClass' = [flowClass EXCEPT ![a][p.flow] = IF @ = "none" THEN p.class ELSE @]
  /\ lookup'    = [lookup EXCEPT ![p.ut] = a]
  /\ heard'     = IF p.flow = NoFlow THEN heard ELSE heard \cup {<<p.ut, p.flow>>}

\* The packet ends its way at access point or terminal n: an acknowledgement
\* goes to the ARQ, data to the upper layers, and it may be acknowledged.
Deliver(n, p) ==
  /\ air' = (air \ {p}) \cup IF ~p.ack /\ n \in Acking THEN Acknowledgement(n, p) ELSE {}
  /\ IF ~p.ack /\ n \in AP THEN Learn(n, p)
                           ELSE UNCHANGED <<flowClass, lookup, heard>>
  /\ UNCHANGED <<dllFlowID, fault>>

\* The packet reaches relay r: it is queued for the next hop, or the relay
\* asserts that a mapping is registered.
Forward(r, p) ==
  /\ \/ /\ Relayed(r, p) # {}
        /\ air' = (air \ {p}) \cup Relayed(r, p)
        /\ UNCHANGED fault
     \/ /\ Relayed(r, p) = {}
        /\ fault' = "no mapping"
        /\ UNCHANGED air
  /\ UNCHANGED <<dllFlowID, flowClass, lookup, heard>>

Transmit(p) ==
  \E i \in WithID(table[p.at], p.cid) :
    LET n == Peer(p.at, table[p.at][i])
    IN  \/ Accepts(n, p.cid) /\ n \in FRS /\ Forward(n, p)
        \/ Accepts(n, p.cid) /\ n \notin FRS /\ Deliver(n, p)
        \/ /\ ~Accepts(n, p.cid)
           /\ air' = air \ {p}
           /\ UNCHANGED <<dllFlowID, flowClass, lookup, heard, fault>>

---------------------------------------------------------------------------
\* Association runs inside one event: no packet moves while a call runs.
Quiet == call.pc = "idle" /\ fault = "none" /\ UNCHANGED vars

Assoc         == fault = "none" /\ Next /\ UNCHANGED dataVars
Establish     == Quiet /\ \E u \in UT, q \in Classes : EstablishFlow(u, q)
Uplink        == Quiet /\ \E u \in UT, f \in Flow : SendUp(u, f)
Downlink      == Quiet /\ \E u \in UT, f \in Flow : SendDown(u, f)
Served(s, u, up) ==
  Quiet /\ \E p \in air : p.at = s /\ p.ut = u /\ p.up = up /\ Transmit(p)

DataNext ==
  \/ Assoc \/ Establish \/ Uplink \/ Downlink
  \/ \E s \in Station, u \in UT, up \in BOOLEAN : Served(s, u, up)

DataSpec == DataInit /\ [][DataNext]_allVars

\* A scheduler strategy leaves no connection unserved for ever, and a call
\* that has begun is executed to its end.
FairDataSpec ==
  /\ DataSpec
  /\ WF_allVars(fault = "none" /\ (Climb \/ Hop) /\ UNCHANGED dataVars)
  /\ \A s \in Station, u \in UT, up \in BOOLEAN : WF_allVars(Served(s, u, up))

---------------------------------------------------------------------------
\* Every variable has its type.
DataTypeOK ==
  /\ dllFlowID \in Flow
  /\ flowClass \in [Station -> [Flow -> DataQoS \cup {"none"}]]
  /\ lookup \in [UT -> AP \cup {NoStation}]
  /\ heard \subseteq UT \X Flow
  /\ air \subseteq PDU
  /\ fault \in {"none", "classifier", "no mapping"}

\* A queued packet is on a connection of its own terminal: data on the data
\* connection of its class and direction, an acknowledgement on the basic
\* connection.  It is sent one hop further, up or down, never back, and the
\* station it is sent to accepts it: no filter on the way drops it and no
\* relay sends it astray, whatever joined before.
OnCourse ==
  \A p \in air : \E i \in WithID(table[p.at], p.cid) :
    LET c == table[p.at][i]
        n == IF p.up THEN c.baseStation ELSE c.subscriberStation
    IN  /\ c.remoteStation = p.ut
        /\ c.kind = IF p.ack THEN Basic
                    ELSE KindOf("Data", IF p.up THEN "Uplink" ELSE "Downlink", p.class)
        /\ Peer(p.at, c) = n /\ n # p.at
        /\ Accepts(n, p.cid)

\* An acknowledgement that reaches its last hop names the CID that the data
\* was sent on by the station it goes to, across all the relays between.
AckNamesItsData ==
  \A p \in air : p.ack =>
    \A i \in WithID(table[p.at], p.cid) :
      LET n == Peer(p.at, table[p.at][i])
      IN  n \notin FRS => /\ p.originalCID = p.of
                          /\ n = IF p.up THEN cell[p.ut] ELSE p.ut

\* The RANG sends to the access point in whose cell the terminal is.
LocationRight ==
  \A u \in UT : lookup[u] # NoStation => lookup[u] = cell[u]

\* A packet on an established flow, in either direction, has the class the
\* flow was established with, although the access point is never told.
FlowKeepsClass ==
  \A p \in air : ~p.ack /\ p.flow # NoFlow => p.class = flowClass[p.ut][p.flow]

\* What an access point learns from uplink packets is right: where their
\* terminal is, and the class of their flow.
LearnedRight == LocationRight /\ FlowKeepsClass

\* Neither assertion fails: a relay holds a mapping for every packet it is
\* sent, and the classifier finds one connection at a time to a target.
NoAssertionFails == DataTypeOK /\ fault = "none"

\* A terminal that has sent is found by the RANG.
TerminalIsFound ==
  \A u \in UT : (\E p \in air : p.ut = u /\ p.up /\ ~p.ack) ~> lookup[u] # NoStation
==========================================================================
