------------------------ MODULE ConnectionManager ------------------------
(***************************************************************************)
(* The ConnectionManager of an access point as a service: every operation  *)
(* that changes its list; the packets that are classified by it, wait in   *)
(* the units above the Scheduler and then in its queues; the Scheduler     *)
(* itself, which observes deletions and drops the queue of a deleted       *)
(* connection; and the QueueManager through which the master of the uplink *)
(* finds the queue of a connection's subscriber.                           *)
(*                                                                         *)
(* Association models how stations join over several managers; here is one *)
(* manager under any order of its operations, deletions included.          *)
(*                                                                         *)
(* The list connectionIdentifiers_ is a function from the ordinal of the   *)
(* append call to the entry: erase() leaves the other entries where they   *)
(* are, a change replaces an entry in its place, and the first match is    *)
(* the one of least ordinal.                                               *)
(***************************************************************************)
EXTENDS ConnectionTable

CONSTANTS
  Own,        \* the access point
  Subscriber, \* stations one hop below it
  Terminal,   \* stations a connection can serve (its remoteStation_)
  Kinds,      \* the kinds of connection that are appended
  MaxCID,     \* bound: CIDs drawn
  MaxPDU,     \* bound: packets for one connection in a queue, and above it
  MaxAway     \* bound: frames a connection is set not to listen for

ASSUME ManagerAssumption ==
  /\ Own \in Station
  /\ Subscriber \subseteq Station
  /\ Terminal \subseteq Station
  /\ Kinds \subseteq Kind
  /\ MaxCID \in Nat \ {0} /\ MaxPDU \in Nat /\ MaxAway \in Nat

VARIABLES
  table,      \* connectionIdentifiers_
  highestCID, \* highestCID_, the CID that is drawn next
  above,      \* packets that are classified but not yet accepted below
  queued,     \* packets in the queues of the downlink scheduler
  cache,      \* QueueManager: cache_, whose uplink queue a CID stands for
  dcCache,    \* QueueManager: dcCache_, whose DataCollector
  ended       \* an assertion has failed or an exception was thrown

managerVars == <<table, highestCID, above, queued, cache, dcCache, ended>>

CID == 0..MaxCID

\* A packet carries the CID it was classified to and the terminal it is for.
\* above and queued count the packets that are alike.
Packet == CID \X Terminal

Entry == [baseStation : Station, cid : CID, subscriberStation : Station,
          remoteStation : Station, kind : Kind, notListening : 0..MaxAway]

ManagerInit ==
  /\ table = << >>
  /\ highestCID = 1
  /\ above = [p \in Packet |-> 0]
  /\ queued = [p \in Packet |-> 0]
  /\ cache = << >>
  /\ dcCache = << >>
  /\ ended = FALSE

EntryFor(cid, s, r, k) ==
  [baseStation |-> Own, cid |-> cid, subscriberStation |-> s,
   remoteStation |-> r, kind |-> k, notListening |-> 0]

---------------------------------------------------------------------------
(* Changes of the list.                                                    *)

\* Mutations of CIDFor: a second ranging connection is let in; CIDs of
\* deleted connections are given again.
CIDForTwice(k) == {IF k = Ranging THEN 0 ELSE highestCID}
CIDForReused(k) ==
  IF k = Ranging THEN {0}
  ELSE LET free == {c \in 1..highestCID : WithID(table, c) = {}}
       IN  {c \in free : \A d \in free : c <= d}

\* appendConnection in an access point: the CID for a new connection of kind
\* k.  There is one ranging connection at most, with CID 0; a second one is
\* not appended, the caller is given the first.
CIDFor(k) ==
  IF k # Ranging THEN {highestCID}
  ELSE IF WithID(table, 0) = {} THEN {0}
  ELSE {}

\* The CID is drawn before it is known whether it is used.
AppendConnection(s, r, k) ==
  /\ highestCID < MaxCID
  /\ highestCID' = highestCID + 1
  /\ table' = [i \in DOMAIN table \cup {highestCID : c \in CIDFor(k)} |->
                 IF i = highestCID
                   THEN EntryFor(CHOOSE c \in CIDFor(k) : TRUE, s, r, k)
                   ELSE table[i]]
  /\ UNCHANGED <<above, queued, cache, dcCache, ended>>

\* Mutation of Notified: the observers are not told.
NotifiedNobody(gone) == queued

\* notifyAboutConnectionDeleted: the scheduler drops the queues of the CIDs.
Notified(gone) ==
  [p \in Packet |-> IF p[1] \in {table[i].cid : i \in gone} THEN 0 ELSE queued[p]]

\* Mutation of Erase: only the first match is erased.
EraseFirst(gone) ==
  /\ table' = [i \in DOMAIN table \ FirstOf(table, gone) |-> table[i]]
  /\ queued' = Notified(gone)

\* The observers are notified of each entry, then it is erased.
Erase(gone) ==
  /\ table' = [i \in DOMAIN table \ gone |-> table[i]]
  /\ queued' = Notified(gone)

DeleteAllConnections ==
  /\ Erase(DOMAIN table)
  /\ UNCHANGED <<highestCID, above, cache, dcCache, ended>>

DeleteConnectionsForBS(b) ==
  /\ Erase({i \in DOMAIN table : table[i].baseStation = b})
  /\ UNCHANGED <<highestCID, above, cache, dcCache, ended>>

DeleteConnectionsForSS(s) ==
  /\ Erase({i \in DOMAIN table : table[i].subscriberStation = s})
  /\ UNCHANGED <<highestCID, above, cache, dcCache, ended>>

\* deleteCI asserts, after the fact, that there was exactly one.
DeleteCI(cid) ==
  LET gone == {i \in DOMAIN table : table[i].cid = cid}
  IN  /\ Erase(gone)
      /\ ended' = \A i \in gone : \E j \in gone : i # j
      /\ UNCHANGED <<highestCID, above, cache, dcCache>>

\* operator==: the primary key of a connection, base station and CID.
Same(c, d) == c.baseStation = d.baseStation /\ c.cid = d.cid

\* The position a change of c applies to: the first entry of the same key.
PlaceOf(t, c) == FirstOf(t, {i \in DOMAIN t : Same(t[i], c)})

\* Mutation of Changed: the new entry goes to the end of the list.
ChangedAtEnd(t, c) ==
  [i \in (DOMAIN t \ PlaceOf(t, c)) \cup {highestCID : p \in PlaceOf(t, c)} |->
     IF i = highestCID THEN c ELSE t[i]]

\* The table with c in the place of the entry of its key.
Changed(t, c) == [i \in DOMAIN t |-> IF i \in PlaceOf(t, c) THEN c ELSE t[i]]

\* changeConnection throws when there is no such connection.
ChangeConnection(c) ==
  /\ table' = Changed(table, c)
  /\ ended' = (PlaceOf(table, c) = {})
  /\ UNCHANGED <<highestCID, above, queued, cache, dcCache>>

\* changeConnections, for two: when the first one is not found it throws at
\* once, when the second one is not it has changed the first.
ChangeConnections(c, d) ==
  /\ table' = IF PlaceOf(table, c) = {} THEN table
              ELSE Changed(Changed(table, c), d)
  /\ ended' = (PlaceOf(table, c) = {} \/ PlaceOf(table, d) = {})
  /\ UNCHANGED <<highestCID, above, queued, cache, dcCache>>

\* Mutation of Decreased: the countdown is not stopped.
DecreasedUnguarded(c) == [c EXCEPT !.notListening = @ - 1]

Decreased(c) ==
  [c EXCEPT !.notListening = IF @ > 0 THEN @ - 1 ELSE @]

\* decreaseCINotListening: the countdown of every connection, down to zero.
DecreaseCINotListening ==
  /\ table' = [i \in DOMAIN table |-> Decreased(table[i])]
  /\ UNCHANGED <<highestCID, above, queued, cache, dcCache, ended>>

---------------------------------------------------------------------------
(* The way of a packet down to the air.                                    *)

\* classifyOutgoing: a packet for a terminal is accepted when there is a
\* downlink data connection of its class to it, and asserts that there is
\* only one.  It then waits in the units above the scheduler.
Classify(to, qos) ==
  LET found == OutgoingData(table, "AP", to, qos)
  IN  \/ /\ \E i, j \in found : i # j
         /\ ended' = TRUE
         /\ UNCHANGED <<table, highestCID, above, queued, cache, dcCache>>
      \/ \E i \in found :
           /\ found = {i}
           /\ above[<<table[i].cid, to>>] < MaxPDU
           /\ above' = [above EXCEPT ![<<table[i].cid, to>>] = @ + 1]
           /\ UNCHANGED <<table, highestCID, queued, cache, dcCache, ended>>

\* When the scheduler accepts packets it puts what waits above into the queue
\* of the CID the packet has, without asking whether the connection is still
\* there.
Schedule(p) ==
  /\ above[p] > 0
  /\ queued[p] < MaxPDU
  /\ above' = [above EXCEPT ![p] = @ - 1]
  /\ queued' = [queued EXCEPT ![p] = @ + 1]
  /\ UNCHANGED <<table, highestCID, cache, dcCache, ended>>

\* The strategy takes a packet out of a queue.
Transmit(p) ==
  /\ queued[p] > 0
  /\ queued' = [queued EXCEPT ![p] = @ - 1]
  /\ UNCHANGED <<table, highestCID, above, cache, dcCache, ended>>

---------------------------------------------------------------------------
(* The QueueManager.  A queue and a DataCollector are named by the station *)
(* they belong to.                                                         *)

UplinkData(t) == DataOf(t, "Uplink")

\* getStationID(cid): the subscriber of the first uplink data connection
\* with this CID, if there is one.
SubscriberOf(cid) ==
  {table[i].subscriberStation :
     i \in FirstOf(table, {j \in UplinkData(table) : table[j].cid = cid})}

\* What a lookup of the CIDs in the set cids leaves in a cache: an entry that
\* is there stays, a missing one is made when the subscriber is known.
Cached(store, cids) ==
  [c \in DOMAIN store \cup {d \in cids : SubscriberOf(d) # {}} |->
     IF c \in DOMAIN store THEN store[c] ELSE CHOOSE s \in SubscriberOf(c) : TRUE]

\* Mutation of Looked: the DataCollector found first is cached for all CIDs.
LookedOnce(cids) ==
  /\ dcCache' = Cached(dcCache, cids)
  /\ cache' = [c \in DOMAIN Cached(cache, cids) |->
                 IF c \in DOMAIN cache THEN cache[c]
                 ELSE dcCache'[CHOOSE d \in DOMAIN dcCache' : TRUE]]

\* getQueue(station, cid): the DataCollector comes from dcCache_ if it is
\* there, and the queue is its queue.
Looked(cids) ==
  /\ dcCache' = Cached(dcCache, cids \ DOMAIN cache)
  /\ cache' = [c \in DOMAIN Cached(cache, cids) |->
                 IF c \in DOMAIN cache THEN cache[c] ELSE dcCache'[c]]

\* getAllQueues: the queues of all uplink data connections.
GetAllQueues ==
  /\ Looked({table[i].cid : i \in UplinkData(table)})
  /\ UNCHANGED <<table, highestCID, above, queued, ended>>

\* getQueue(cid): getStationID asserts that there are uplink connections; an
\* unknown CID gives no queue.
GetQueue(cid) ==
  /\ ended' = (cid \notin DOMAIN cache /\ UplinkData(table) = {})
  /\ Looked({cid})
  /\ UNCHANGED <<table, highestCID, above, queued>>

\* startCollection(cid): a CID without a subscriber ends the simulation.
StartCollection(cid) ==
  /\ ended' = (cid \notin DOMAIN dcCache /\ SubscriberOf(cid) = {})
  /\ dcCache' = Cached(dcCache, {cid})
  /\ UNCHANGED <<table, highestCID, above, queued, cache>>

---------------------------------------------------------------------------
\* A changed connection differs in its countdown only: no other value of a
\* registered connection is changed anywhere.
Revised(i) == {[table[i] EXCEPT !.notListening = n] : n \in 0..MaxAway}

\* A change of an entry that is there, or of one that was deleted since.
Request == (UNION {Revised(i) : i \in DOMAIN table})
           \cup {EntryFor(c, s, s, Basic) :
                   c \in {d \in 1..highestCID - 1 : WithID(table, d) = {}},
                   s \in Subscriber}

ManagerNext ==
  /\ ~ended
  /\ \/ \E s \in Subscriber, r \in Terminal, k \in Kinds : AppendConnection(s, r, k)
     \/ DeleteAllConnections
     \/ \E b \in Station : DeleteConnectionsForBS(b)
     \/ \E s \in Subscriber : DeleteConnectionsForSS(s)
     \/ \E c \in CID : DeleteCI(c)
     \/ \E c \in Request : ChangeConnection(c)
     \/ \E c, d \in Request : ChangeConnections(c, d)
     \/ DecreaseCINotListening
     \/ \E to \in Terminal, k \in Kinds : Classify(to, k.qos)
     \/ \E p \in Packet : Schedule(p)
     \/ \E p \in Packet : Transmit(p)
     \/ GetAllQueues
     \/ \E c \in CID : GetQueue(c)
     \/ \E c \in CID : StartCollection(c)

ManagerSpec == ManagerInit /\ [][ManagerNext]_managerVars

---------------------------------------------------------------------------
\* Every variable has its type.
ManagerTypeOK ==
  /\ DOMAIN table \subseteq 1..MaxCID
  /\ \A i \in DOMAIN table : table[i] \in Entry
  /\ highestCID \in 1..MaxCID
  /\ above \in [Packet -> 0..MaxPDU]
  /\ queued \in [Packet -> 0..MaxPDU]
  /\ DOMAIN cache \subseteq CID /\ \A c \in DOMAIN cache : cache[c] \in Subscriber
  /\ DOMAIN dcCache \subseteq CID /\ \A c \in DOMAIN dcCache : dcCache[c] \in Subscriber
  /\ ended \in BOOLEAN

\* A CID names one entry of the list after any sequence of operations, a
\* second ranging connection included: deleteCI asserts it, the caches, the
\* queues and getConnectionWithID rely on it.
OneEntryPerCID ==
  \A i, j \in DOMAIN table : table[i].cid = table[j].cid => i = j

\* A packet may outlive its connection: one that waited above when the
\* connection was deleted is put into a queue nobody drops any more.  But it
\* never meets the connection of another terminal: whatever is registered
\* under the CID of a packet, above or in a queue, serves the terminal the
\* packet is for.
PacketsMeetTheirOwn ==
  \A p \in Packet : above[p] > 0 \/ queued[p] > 0 =>
    \A i \in DOMAIN table : table[i].cid = p[1] => table[i].remoteStation = p[2]

\* The caches of the QueueManager are never invalidated, yet as long as a
\* connection is registered they name its subscriber, deletions and later
\* associations notwithstanding: the master polls the right station.
CachesFaithful ==
  \A i \in UplinkData(table) :
    LET c == table[i].cid
    IN  /\ c \in DOMAIN cache => cache[c] = table[i].subscriberStation
        /\ c \in DOMAIN dcCache => dcCache[c] = table[i].subscriberStation

\* The list stays sound under every sequence of operations, and the queues
\* and caches that refer to it by CID do.
ManagerSafe == ManagerTypeOK /\ OneEntryPerCID /\ PacketsMeetTheirOwn /\ CachesFaithful

\* Lookups take the first match, so what they return for a station must not
\* be disturbed by other operations: the basic connection found for a
\* subscriber changes only when there was none or that one was deleted.
FirstMatchStable ==
  [][\A s \in Subscriber : \A i \in BasicForStation(table, s) :
       \/ i \in BasicForStation(table', s)
       \/ WithID(table', table[i].cid) = {}]_managerVars

---------------------------------------------------------------------------
(* The register this manager implements.                                   *)

Place(c) == CHOOSE i \in DOMAIN table : table[i].cid = c

Owners ==
  [c \in {table[i].cid : i \in DOMAIN table} |->
     [owner |-> table[Place(c)].subscriberStation,
      target |-> table[Place(c)].remoteStation]]

Spent == 1..(highestCID - 1)

Coming == {p \in Packet : above[p] > 0}
Waiting == {p \in Packet : queued[p] > 0}

Register ==
  INSTANCE ConnectionRegister WITH
    Name <- CID, Owner <- Subscriber, Target <- Terminal, Shared <- {0},
    register <- Owners, given <- Spent, coming <- Coming, waiting <- Waiting,
    known <- cache

\* The manager implements it: CIDs are not given twice, so that what is known
\* of one stays true, which is what makes caches without invalidation sound,
\* and packets only ever wait for the connection they were classified to,
\* whose deletion takes those that wait in a queue with it.
ImplementsRegister == Register!RSpec
==========================================================================
