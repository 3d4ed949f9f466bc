------------------------ MODULE BandwidthRequest ------------------------
(***************************************************************************)
(* PseudoBWRequestGenerator: in place of bandwidth requests on the air,    *)
(* the uplink scheduler of a base station looks into the buffers of the    *)
(* stations below it, once per frame, and queues a fake PDU for each PDU   *)
(* that waits there.  What a station calls its buffers and what the base   *)
(* station asks for are CIDs of two tables, filled by associations.        *)
(*                                                                         *)
(* Modelled for the stations and connections of Registry, with the PDUs    *)
(* that wait in the stations for a base station in any distribution.       *)
(* Nothing here depends on the users a registry knows: they stay as they   *)
(* are.                                                                    *)
(***************************************************************************)
EXTENDS Registry

CONSTANTS
  Classes,     \* QoS classes that carry traffic
  MaxQueued,   \* bound: PDUs that wait anywhere
  QueueLimit   \* fake PDUs the scheduler's queue accepts of one connection

ASSUME BandwidthAssumption ==
  MaxQueued \in Nat /\ QueueLimit \in Nat \ {0} /\ Classes \subseteq QoSCategory

VARIABLES
  buffer,  \* per station: the PDUs in bufferSep
  inject,  \* per relay: PDUs in upRelayInject
  fake,    \* per base station: the fake PDUs in its uplink scheduler, by CID
  asked    \* what waited below it when they were made, by station (history)

requestVars == <<vars, buffer, inject, fake, asked>>

\* A PDU is told apart by its CID and by its place among those of this CID.
PDU == Nat \X (Nat \ {0})

\* The PDUs of connections cids in the buffers of station s
Waiting(s, cids) == {pdu \in buffer[s] : pdu[1] \in cids}

Queued == Cardinality(UNION {{s} \X buffer[s] : s \in Station})
          + Cardinality(UNION {{r} \X (1..inject[r]) : r \in FRS})

\* Connections by which station s sends up.
Upward(s) == {c \in Range(table[s]) : /\ c.subscriberStation = s /\ c.cid # 0
                                      /\ c.kind.direction # "Downlink"}

\* A PDU of a connection of its own enters a station's buffer.
Enqueue(s, c) ==
  /\ call.pc = "idle" /\ Queued < MaxQueued
  /\ c \in Upward(s) /\ c.remoteStation = s /\ c.kind.qos \in Classes
  /\ buffer' = [buffer EXCEPT ![s] = @ \cup {<<c.cid, Cardinality(Waiting(s, {c.cid})) + 1>>}]
  /\ UNCHANGED <<vars, inject, fake, asked>>

\* A relay forwards: what came from below waits in front of the scheduler.
Forward(r) ==
  /\ call.pc = "idle" /\ Queued < MaxQueued
  /\ \E c \in Upward(r) : c.remoteStation # r
  /\ inject' = [inject EXCEPT ![r] = @ + 1]
  /\ UNCHANGED <<vars, buffer, fake, asked>>

\* The scheduler of station s sends one of its PDUs.  Those of a connection
\* are alike: the last place is given up.
Send(s) ==
  /\ call.pc = "idle"
  /\ \/ /\ \E pdu \in buffer[s] :
             /\ <<pdu[1], pdu[2] + 1>> \notin buffer[s]
             /\ buffer' = [buffer EXCEPT ![s] = @ \ {pdu}]
        /\ UNCHANGED inject
     \/ /\ s \in FRS /\ inject[s] > 0
        /\ inject' = [inject EXCEPT ![s] = @ - 1]
        /\ UNCHANGED buffer
  /\ UNCHANGED <<vars, fake, asked>>

\* Component::getNumberOfQueuedPDUs of station p for the CIDs asked for
NumberOfQueuedPDUs(p, cids) ==
  Cardinality(Waiting(p, cids)) + (IF p \in FRS THEN inject[p] ELSE 0)

\* Mutation of Basics: a relay's connections to its base station remain.
BasicsAll(b) == AllBasic(table[b])

\* The basic connections of b but those where it is the subscriber
Basics(b) == {i \in AllBasic(table[b]) : table[b][i].subscriberStation # b}

\* The connections b asks a station p about
AskedFor(b, p) == Incoming(table[b], TypeOf(b), p)

\* Per station p below b: how many of its PDUs wait.
QueueSize(b, p) == NumberOfQueuedPDUs(p, CIDsOf(b, AskedFor(b, p)))

\* Mutation of UserIDs: every basic connection of a station requests.
UserIDsAll(b) == {i \in Basics(b) : QueueSize(b, table[b][i].subscriberStation) > 0}

\* userIDs: for each station with PDUs the last of its basic connections;
\* a relay has one per station behind it.
UserIDs(b) ==
  {i \in Basics(b) :
     /\ QueueSize(b, table[b][i].subscriberStation) > 0
     /\ \A j \in Basics(b) :
          table[b][j].subscriberStation = table[b][i].subscriberStation => j <= i}

\* Mutation of Reset: the fake PDUs of the last frame are kept.
ResetNot(b, cid) == IF cid \in DOMAIN fake[b] THEN fake[b][cid] ELSE 0

\* resetAllQueues: nothing of connection cid is left in b's scheduler.
Reset(b, cid) == 0

Least(m, n) == IF m <= n THEN m ELSE n

\* Mutation of Accepted: the scheduler is not asked.
AcceptedAll(n) == n

\* Of n fake PDUs, those queued before the scheduler does not accept the next
Accepted(n) == Least(QueueLimit, n)

\* wakeup
Wakeup(b) ==
  /\ call.pc = "idle"
  /\ fake' = [fake EXCEPT ![b] =
       [cid \in CIDsOf(b, UserIDs(b)) |->
          LET p == CHOOSE p \in Station : \E i \in WithID(table[b], cid) :
                     table[b][i].subscriberStation = p
          IN  Reset(b, cid) + Accepted(QueueSize(b, p))]]
  /\ asked' = [asked EXCEPT ![b] =
       [p \in Station |->
          LET up == {c.cid : c \in {d \in Upward(p) : d.baseStation = b}}
          IN  IF up = {} THEN 0
              ELSE Cardinality(Waiting(p, up)) + (IF p \in FRS THEN inject[p] ELSE 0)]]
  /\ UNCHANGED <<vars, buffer, inject>>

RequestInit ==
  /\ Init
  /\ buffer = [s \in Station |-> {}]
  /\ inject = [r \in FRS |-> 0]
  /\ fake = [b \in AP \cup FRS |-> <<>>]
  /\ asked = [b \in AP \cup FRS |-> [p \in Station |-> 0]]

RequestNext ==
  \/ Next /\ UNCHANGED <<buffer, inject, fake, asked>>
  \/ \E s \in Station : \E c \in Upward(s) : Enqueue(s, c)
  \/ \E r \in FRS : Forward(r)
  \/ \E s \in Station : Send(s)
  \/ \E b \in AP \cup FRS : Wakeup(b)

RequestSpec == RequestInit /\ [][RequestNext]_requestVars

---------------------------------------------------------------------------
\* Every variable has its type.
RequestTypeOK ==
  /\ buffer \in [Station -> SUBSET PDU]
  /\ inject \in [FRS -> 0..MaxQueued]
  /\ \A b \in AP \cup FRS : /\ DOMAIN fake[b] \subseteq Nat
                            /\ Range(fake[b]) \subseteq 1..QueueLimit
  /\ asked \in [AP \cup FRS -> [Station -> 0..MaxQueued]]

\* The fake PDUs of a connection are for the station at its other end, and a
\* station has them on one connection only: none is scheduled twice.
RequestsAreForUsers ==
  \A b \in AP \cup FRS : \A cid \in DOMAIN fake[b] :
    \E i \in WithID(table[b], cid) :
      /\ User(b, i) # b /\ asked[b][User(b, i)] > 0
      /\ \A c \in DOMAIN fake[b] \ {cid} : \A j \in WithID(table[b], c) :
           User(b, j) # User(b, i)

\* A base station asks for as much as waited for it below when it looked, up
\* to its queue's limit: no station is left out, whatever it forwards for,
\* and nothing is requested twice.
AsksForAllThatWaits ==
  \A b \in AP \cup FRS : \A p \in Station :
    LET cids == {cid \in DOMAIN fake[b] : \E i \in WithID(table[b], cid) :
                   table[b][i].subscriberStation = p}
    IN  SumFunctionOnSet(fake[b], cids) = Least(QueueLimit, asked[b][p])

\* "works for uplink PDUs only", the assertion of getNumberOfQueuedPDUs: a
\* base station never asks a station below about a downlink connection.
UplinkPDUsOnly ==
  \A b \in AP \cup FRS : \A i \in Basics(b) :
    \A j \in AskedFor(b, table[b][i].subscriberStation) :
      table[b][j].kind.direction # "Downlink"

\* What is requested can be granted: to users, once, of uplink connections.
RequestsSound == RequestTypeOK /\ RequestsAreForUsers /\ UplinkPDUsOnly
==========================================================================
