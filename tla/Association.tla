--------------------------- MODULE Association ---------------------------
(***************************************************************************)
(* How stations join a cell: wimac::service::AssociationControl together   *)
(* with the ConnectionManager of every station, the cell-wide CID counter  *)
(* kept by the access point's ConnectionManager, the global StationManager *)
(* and the CID map of each relay's RSRelayMapper.                          *)
(*                                                                         *)
(* associateTo(d) runs to completion inside one simulator event, but it is *)
(* a chain of calls through several stations: it registers the connections *)
(* of the hop (station, d), and when d is a relay it calls d's             *)
(* createRecursiveConnection, which registers the next hop and recurses    *)
(* until an access point is reached.  Every appendConnection asks          *)
(* getAndIncreaseHighestCellCID, which climbs base station by base station *)
(* to the access point.  The variable "call" is the call in progress;      *)
(* while it runs nothing else does.                                        *)
(***************************************************************************)
EXTENDS ConnectionTable, FiniteSets, Functions

CONSTANTS
  AP, FRS, UT,    \* access points, fixed relay stations, user terminals
  NoStation,      \* stands for "no station"
  OrderedStart    \* TRUE: a station joins only once its target is in a cell

ASSUME StationAssumption ==
  /\ Station = AP \cup FRS \cup UT
  /\ AP \cap FRS = {} /\ AP \cap UT = {} /\ FRS \cap UT = {}
  /\ NoStation \notin Station
  /\ IsFiniteSet(Station)
  /\ OrderedStart \in BOOLEAN

VARIABLES
  life,        \* per station: has its Component been constructed, has it joined
  table,       \* per station: the ConnectionManager's connectionIdentifiers_
  highestCID,  \* per access point: highestCID_, the next CID of the cell
  mappings,    \* per relay: the RSRelayMapper's mappings_
  call,        \* the association in progress
  cell         \* history: the access point whose CIDs a station was given

vars == <<life, table, highestCID, mappings, call, cell>>

\* Mutation of HopKinds: the downlink nrtPS block is a copy of the rtPS one.
HopKindsCopied ==
  << Basic, Primary,
     KindOf("Data", "Downlink", "BE"),   KindOf("Data", "Downlink", "rtPS"),
     KindOf("Data", "Downlink", "rtPS"), KindOf("Data", "Downlink", "UGS"),
     KindOf("Data", "Uplink", "BE"),     KindOf("Data", "Uplink", "rtPS"),
     KindOf("Data", "Uplink", "nrtPS"),  KindOf("Data", "Uplink", "UGS") >>

\* The connections of one hop in the order associateTo appends them.
HopKinds ==
  << Basic, Primary,
     KindOf("Data", "Downlink", "BE"),    KindOf("Data", "Downlink", "rtPS"),
     KindOf("Data", "Downlink", "nrtPS"), KindOf("Data", "Downlink", "UGS"),
     KindOf("Data", "Uplink", "BE"),      KindOf("Data", "Uplink", "rtPS"),
     KindOf("Data", "Uplink", "nrtPS"),   KindOf("Data", "Uplink", "UGS") >>

HopSize == 10

RelayMapping == [upper : Nat, lower : Nat]

Idle == [pc |-> "idle", child |-> NoStation, parent |-> NoStation,
         ask |-> NoStation, remote |-> NoStation, lower |-> <<>>]

Call == [pc     : {"idle", "climb", "failed"},
         child  : Station \cup {NoStation},  \* lower end of the current hop
         parent : Station \cup {NoStation},  \* its upper end
         ask    : Station \cup {NoStation},  \* whose manager is asked for CIDs
         remote : Station \cup {NoStation},  \* the station that associates
         lower  : Seq(Nat)]                  \* CIDs of the hop below, if any

Failed(c) == [c EXCEPT !.pc = "failed"]

Init ==
  /\ life       = [s \in Station |-> "absent"]
  /\ table      = [s \in Station |-> <<>>]
  /\ highestCID = [a \in AP |-> 1]
  /\ mappings   = [r \in FRS |-> <<>>]
  /\ call       = Idle
  /\ cell       = [s \in Station |-> IF s \in AP THEN s ELSE NoStation]

---------------------------------------------------------------------------
\* Component's constructor registers the station at the StationManager.
Construct(s) ==
  /\ call.pc = "idle"
  /\ life[s] = "absent"
  /\ life' = [life EXCEPT ![s] = "constructed"]
  /\ UNCHANGED <<table, highestCID, mappings, call, cell>>

\* Mutations of RangingTo: no remote station; the two stations swapped.
RangingUnowned(s, d) ==
  [baseStation |-> d, cid |-> 0, subscriberStation |-> s,
   remoteStation |-> NoStation, kind |-> Ranging]
RangingSwapped(s, d) ==
  [baseStation |-> s, cid |-> 0, subscriberStation |-> d,
   remoteStation |-> s, kind |-> Ranging]

\* The connection a station keeps to say which base station it belongs to.
RangingTo(s, d) ==
  [baseStation |-> d, cid |-> 0, subscriberStation |-> s,
   remoteStation |-> s, kind |-> Ranging]

\* associateTo: an unknown destination ends the simulation; otherwise the
\* ranging connection (CID 0) is stored and the first hop is begun.
AssociateTo(s, d) ==
  /\ call.pc = "idle"
  /\ life[s] = "constructed"
  /\ OrderedStart => life[d] # "absent" /\ cell[d] # NoStation
  /\ LET c == [pc |-> "climb", child |-> s, parent |-> d, ask |-> d,
               remote |-> s, lower |-> <<>>]
     IN  \/ /\ life[d] = "absent"
            /\ call' = Failed(c)
            /\ UNCHANGED table
         \/ /\ life[d] # "absent"
            /\ call' = c
            /\ table' = [table EXCEPT ![s] = Append(@, RangingTo(s, d))]
  /\ UNCHANGED <<life, highestCID, mappings, cell>>

\* Mutation of Climb: the base station of the hop is asked again and again.
ClimbAgain ==
  /\ call.pc = "climb"
  /\ call.ask \notin AP
  /\ call' = [call EXCEPT !.ask = call.parent]
  /\ UNCHANGED <<life, table, highestCID, mappings, cell>>

\* getAndIncreaseHighestCellCID away from the access point: the question is
\* passed on to the base station of the asked station's basic connection.
Climb ==
  /\ call.pc = "climb"
  /\ call.ask \notin AP
  /\ \/ \E i \in BasicForStation(table[call.ask], call.ask) :
          call' = [call EXCEPT !.ask = table[call.ask][i].baseStation]
     \/ /\ BasicForStation(table[call.ask], call.ask) = {}
        /\ call' = Failed(call)                       \* throws CIDNotFound
  /\ UNCHANGED <<life, table, highestCID, mappings, cell>>

\* The CID of the k-th of the connections numbered from "first" on, and the
\* counter after all of them.
NthCID(first, k) == first + k - 1

\* Mutation of CounterAfter: the counter is raised once too few.
CounterShort(first) == first + HopSize - 1

CounterAfter(first) == first + HopSize

\* The connections of the hop (call.child, call.parent).
HopRows(c, first) ==
  [k \in 1..HopSize |->
     [baseStation |-> c.parent, cid |-> NthCID(first, k),
      subscriberStation |-> c.child, remoteStation |-> c.remote,
      kind |-> HopKinds[k]]]

\* Mutation of Registered: the lower end is always the associating station.
RegisteredAtRemote(c, rows) ==
  [table EXCEPT ![c.parent] = @ \o rows, ![c.remote] = @ \o rows]

\* Both ends of the hop append the same connections.
Registered(c, rows) ==
  [table EXCEPT ![c.parent] = @ \o rows, ![c.child] = @ \o rows]

\* Mutations of HopMappings: upper and lower swapped; the last one left out.
MappingsSwapped(c, first) ==
  [k \in 1..Len(c.lower) |-> [upper |-> c.lower[k], lower |-> NthCID(first, k)]]
MappingsShort(c, first) ==
  [k \in 1..Len(c.lower) - 1 |-> [upper |-> NthCID(first, k), lower |-> c.lower[k]]]

\* RSRelayMapper::addMapping for each connection of a recursive hop.
HopMappings(c, first) ==
  [k \in 1..Len(c.lower) |-> [upper |-> NthCID(first, k), lower |-> c.lower[k]]]

\* createRecursiveConnection of relay r: the next hop, up to the base station
\* of r's own basic connection, for the station that associates.
NextHop(c, r, first) ==
  \E i \in BasicForStation(table[r], r) :
    LET b == table[r][i].baseStation
    IN  call' = [c EXCEPT !.child = r, !.parent = b, !.ask = b,
                          !.lower = [k \in 1..HopSize |-> NthCID(first, k)]]

\* At the access point: the CIDs are drawn, both ends of the hop append the
\* connections, a relay at the lower end maps them to the hop below, and a
\* relay at the upper end goes on with the next hop.
Hop ==
  /\ call.pc = "climb"
  /\ call.ask \in AP
  /\ LET first == highestCID[call.ask]
     IN  /\ highestCID' = [highestCID EXCEPT ![call.ask] = CounterAfter(first)]
         /\ table' = Registered(call, HopRows(call, first))
         /\ mappings' = [r \in FRS |->
                           IF r = call.child
                             THEN mappings[r] \o HopMappings(call, first)
                             ELSE mappings[r]]
         /\ \/ /\ call.parent \in FRS
               /\ NextHop(call, call.parent, first)
               /\ UNCHANGED life
            \/ /\ call.parent \notin FRS
               /\ call' = Idle
               /\ life' = [life EXCEPT ![call.remote] = "joined"]
  /\ cell' = [cell EXCEPT ![call.child] = call.ask]

Next ==
  \/ \E s \in Station : Construct(s)
  \/ \E s \in FRS \cup UT, d \in AP \cup FRS : s # d /\ AssociateTo(s, d)
  \/ Climb
  \/ Hop

Spec == Init /\ [][Next]_vars

\* A call, once begun, is executed to its end: it is plain sequential code.
FairSpec == Spec /\ WF_vars(Climb \/ Hop)

---------------------------------------------------------------------------
(* What the other parts of the MAC rely on.                                *)

\* Every variable has its type.
TypeOK ==
  /\ life \in [Station -> {"absent", "constructed", "joined"}]
  /\ table \in [Station -> Seq(Connection)]
  /\ highestCID \in [AP -> Nat]
  /\ mappings \in [FRS -> Seq(RelayMapping)]
  /\ call \in Call
  /\ cell \in [Station -> AP \cup {NoStation}]

\* A CID names one connection of a station: getConnectionWithID, deleteCI and
\* the QueueManager's per-CID caches assume it, although the connections of a
\* table were numbered by another station and through any number of relays.
CIDsUnique ==
  \A s \in Station : \A i, j \in DOMAIN table[s] :
    table[s][i].cid = table[s][j].cid => i = j

\* Two stations of one cell never use one CID for different connections,
\* which is what lets a map message name a connection by its CID alone.
CIDsUniqueInCell ==
  \A s, t \in Station : \A i \in DOMAIN table[s], j \in DOMAIN table[t] :
    /\ cell[s] = cell[t] /\ cell[s] # NoStation
    /\ table[s][i].cid = table[t][j].cid
    /\ table[s][i].cid # 0
    => table[s][i] = table[t][j]

\* Both ends of a hop hold the same connections: what a subscriber keeps of
\* its base station (getAllCIForBS) is what the base station keeps of it
\* (getAllCIForSS), but for the subscriber's own ranging connection.
EndpointsAgree ==
  \A s, d \in Station :
    s # d =>
      {table[s][i] : i \in OfBase(table[s], d) \ WithID(table[s], 0)}
      = {table[d][i] : i \in OfSubscriber(table[d], s)}

TypeOf(s) == IF s \in AP THEN "AP" ELSE IF s \in FRS THEN "FRS" ELSE "UT"

\* What one end of a hop counts as outgoing to the other, the other counts as
\* incoming from it, relayed connections included, although each station
\* type looks at other fields: a scheduler, its registry and the bandwidth
\* requests of the two ends are about the same connections.
OutgoingIsIncoming ==
  \A s, d \in Station :
    s # d /\ OfBase(table[s], d) \ WithID(table[s], 0) # {} =>
      LET cids(x, S) == {table[x][i].cid : i \in S} \ {0}
      IN  /\ cids(s, Outgoing(table[s], TypeOf(s), d))
             = cids(d, Incoming(table[d], TypeOf(d), s))
          /\ cids(d, Outgoing(table[d], TypeOf(d), s))
             = cids(s, Incoming(table[s], TypeOf(s), d))

\* A relay's map joins connections of the same station and the same kind, one
\* where the relay is the subscriber and one where it is the base station, so
\* what RSRelayMapper forwards keeps its owner, direction and QoS.
MappingsFaithful ==
  \A r \in FRS : \A m \in Range(mappings[r]) :
    \E up, low \in Range(table[r]) :
      /\ up.cid = m.upper /\ up.subscriberStation = r
      /\ low.cid = m.lower /\ low.baseStation = r
      /\ up.kind = low.kind /\ up.remoteStation = low.remoteStation

\* RSRelayMapper::findMapping: the positions of the mappings a CID appears in
\* (the code takes the first one).
MappingsOf(r, cid) ==
  {n \in DOMAIN mappings[r] : cid \in {mappings[r][n].upper, mappings[r][n].lower}}

\* Between calls a relay can forward everything it is given: each connection
\* to a station below it, and each connection of its own base station that
\* serves another station, is in exactly one mapping, so that findMapping
\* neither fails nor depends on the order of mappings_.
RelayedPathComplete ==
  call.pc = "idle" =>
    \A r \in FRS : \A c \in Range(table[r]) :
      (c.baseStation = r \/ (c.subscriberStation = r /\ c.remoteStation # r))
        => Cardinality(MappingsOf(r, c.cid)) = 1

\* Component::getCellID: climb the ranging connections to an access point.
CellID ==
  LET up(s) == {table[s][i].baseStation : i \in WithID(table[s], 0)}
      climb[n \in 0..Cardinality(Station)] ==
        [s \in Station |-> IF s \in AP THEN {s}
                          ELSE IF n = 0 THEN {}
                          ELSE UNION {climb[n - 1][d] : d \in up(s)}]
  IN  climb[Cardinality(Station)]

\* The cell a joined station reports (found over the ranging connections) is
\* the one whose CIDs it uses (found over the basic connections).
CellIDAgrees ==
  \A s \in Station : life[s] = "joined" => CellID[s] = {cell[s]}

\* ConnectionClassifier::classifyOutgoing asserts exactly one connection: an
\* access point has one per QoS class to and from every station that joined
\* its cell, however many relays lie between, and the station has one up to
\* its base station and one down from it.
OneConnectionPerQoS ==
  \A u \in UT, q \in DataQoS : life[u] = "joined" =>
    /\ Cardinality(OutgoingData(table[cell[u]], "AP", u, q)) = 1
    /\ Cardinality(IncomingData(table[cell[u]], "AP", u, q)) = 1
    /\ Cardinality(AllData(table[u], "Uplink", q)) = 1
    /\ \E i \in WithID(table[u], 0) :
         LET b == table[u][i].baseStation
         IN  /\ Cardinality(IncomingData(table[u], "UT", b, q)) = 1
             /\ OutgoingData(table[u], "UT", b, q) = AllData(table[u], "Uplink", q)

\* The recursion through relays comes to an end: no cycle of base stations.
CallTerminates == call.pc = "climb" ~> call.pc # "climb"

\* If every station waits until its target has joined, which is what the start
\* delays of a scenario are for, no association ends the simulation.
NeverFails == OrderedStart => call.pc # "failed"

\* "the basic connection that belongs to the given connection", as the
\* declaration of getBasicConnectionFor(CID) promises: it exists and serves
\* the same station.
BasicBelongs ==
  call.pc = "idle" =>
    \A s \in Station : \A c \in Range(table[s]) : c.cid # 0 =>
      \E b \in BasicForCID(table[s], c.cid) :
        table[s][b].remoteStation = c.remoteStation
==========================================================================
