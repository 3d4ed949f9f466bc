-------------------------- MODULE AccessPointProofs --------------------------
(***************************************************************************)
(* Four parts of the access point, each for any values of its constants:   *)
(* its list of connections with all that looks up in it                    *)
(* (ConnectionManager), the deferred decoding of HARQ slots                *)
(* (HarqReception), the interference that is overheard and summed up slot  *)
(* by slot (SlotInterference), and the division of the cell into sectors   *)
(* that take turns (Sectorization).  They share no state; the last two     *)
(* need facts on finite sums and on division that are proved before them.  *)
(***************************************************************************)
EXTENDS ConnectionManager, HarqReception, SlotInterference, Sectorization,
        FiniteSetTheorems, FunctionTheorems, WellFoundedInduction, TLAPS

---------------------------------------------------------------------------
(***************************************************************************)
(* ConnectionManager.  The proof needs to know beside its safety           *)
(* invariants that the counter is ahead of every CID in the list, in the   *)
(* caches of the QueueManager and on a packet, so that a new connection    *)
(* meets neither an entry nor a cache nor a packet of an old one; and that *)
(* CID 0, which can come again, is never that of data and therefore never  *)
(* cached and on no packet.                                                *)
(***************************************************************************)

\* The counter is ahead of the list: of the ordinals and of the CIDs.
RowsBehind ==
  \A i \in DOMAIN table :
    /\ i < highestCID /\ table[i].cid < highestCID
    /\ table[i].cid = 0 => table[i].kind = Ranging
    /\ table[i].subscriberStation \in Subscriber
    /\ table[i].remoteStation \in Terminal

\* The counter is ahead of the caches.
CachesBehind ==
  /\ \A c \in DOMAIN cache : c < highestCID
  /\ \A c \in DOMAIN dcCache : c < highestCID

UnderWay(p) == above[p] > 0 \/ queued[p] > 0

\* The counter is ahead of the packets, and none of them has CID 0.
PacketsBehind ==
  \A p \in Packet : UnderWay(p) => p[1] < highestCID /\ p[1] # 0

IInv == ManagerSafe /\ RowsBehind /\ CachesBehind /\ PacketsBehind

---------------------------------------------------------------------------
(* Lookups in a list with one entry per CID.                               *)

\* There the first match exists as soon as a match does.
LEMMA WithIDFinds ==
  ASSUME NEW t, DOMAIN t \subseteq Nat,
         \A i, j \in DOMAIN t : t[i].cid = t[j].cid => i = j,
         NEW c
  PROVE  WithID(t, c) # {} <=> \E i \in DOMAIN t : t[i].cid = c
<1>1. ASSUME NEW i \in DOMAIN t, t[i].cid = c PROVE i \in WithID(t, c)
  <2>1. \A j \in DOMAIN t : t[j].cid = c => j = i
    BY <1>1
  <2>2. i <= i
    OBVIOUS
  <2> QED BY <1>1, <2>1, <2>2 DEF WithID, FirstOf
<1>2. ASSUME NEW i \in WithID(t, c) PROVE i \in DOMAIN t /\ t[i].cid = c
  BY DEF WithID, FirstOf
<1> QED BY <1>1, <1>2

\* The subscriber of a CID is that of the one entry with this CID.
LEMMA SubscriberFound ==
  ASSUME IInv, NEW c, NEW s \in SubscriberOf(c)
  PROVE  \E i \in UplinkData(table) :
           /\ table[i].cid = c
           /\ s = table[i].subscriberStation
           /\ s \in Subscriber
           /\ \A j \in UplinkData(table) : table[j].cid = c => table[j].subscriberStation = s
<1>1. PICK i \in UplinkData(table) : table[i].cid = c /\ s = table[i].subscriberStation
  BY DEF SubscriberOf, FirstOf
<1>2. i \in DOMAIN table /\ UplinkData(table) \subseteq DOMAIN table
  BY DEF UplinkData, DataOf
<1>3. s \in Subscriber
  BY <1>1, <1>2 DEF IInv, RowsBehind
<1>4. \A j \in UplinkData(table) : table[j].cid = c => j = i
  BY <1>1, <1>2 DEF IInv, ManagerSafe, OneEntryPerCID
<1> QED BY <1>1, <1>3, <1>4

---------------------------------------------------------------------------
(* Deletions.                                                              *)

\* Erasing entries together with their queues preserves the invariant.
LEMMA EraseStep ==
  ASSUME IInv, NEW gone \in SUBSET DOMAIN table, Erase(gone),
         UNCHANGED <<highestCID, above, cache, dcCache>>, ended' \in BOOLEAN
  PROVE  IInv'
<1> USE DEF IInv, ManagerSafe
<1>1. DOMAIN table' = DOMAIN table \ gone /\ \A i \in DOMAIN table' : table'[i] = table[i]
  BY DEF Erase
<1>2. queued' \in [Packet -> 0..MaxPDU] /\ \A p \in Packet : UnderWay(p)' => UnderWay(p)
  BY ManagerAssumption DEF Erase, Notified, ManagerTypeOK, UnderWay
<1>3. ManagerTypeOK'
  BY <1>1, <1>2 DEF ManagerTypeOK, Entry, CID, Packet
<1>4. OneEntryPerCID'
  BY <1>1 DEF OneEntryPerCID
<1>5. PacketsMeetTheirOwn'
  BY <1>1, <1>2 DEF PacketsMeetTheirOwn, UnderWay
<1>6. CachesFaithful'
  BY <1>1 DEF CachesFaithful, UplinkData, DataOf
<1>7. RowsBehind' /\ CachesBehind' /\ PacketsBehind'
  BY <1>1, <1>2 DEF RowsBehind, CachesBehind, PacketsBehind
<1> QED BY <1>3, <1>4, <1>5, <1>6, <1>7

---------------------------------------------------------------------------
(* New connections.                                                        *)

\* A new connection gets a CID that no entry and, if it is uplink data, no
\* cache has; or it is not appended at all.
LEMMA AppendStep ==
  ASSUME IInv, NEW s \in Subscriber, NEW r \in Terminal, NEW k \in Kinds,
         AppendConnection(s, r, k)
  PROVE  IInv'
<1> USE DEF IInv, ManagerSafe
<1>1. highestCID \in 1..MaxCID /\ highestCID < MaxCID /\ highestCID' = highestCID + 1
  BY DEF AppendConnection, ManagerTypeOK
<1>2. \A i \in DOMAIN table : i \in 1..MaxCID /\ i # highestCID
  BY <1>1 DEF RowsBehind, ManagerTypeOK
<1>3. CASE CIDFor(k) = {}
  <2>1. DOMAIN table' = DOMAIN table /\ \A i \in DOMAIN table : table'[i] = table[i]
    BY <1>2, <1>3 DEF AppendConnection
  <2>2. ManagerTypeOK' /\ OneEntryPerCID' /\ CachesFaithful'
    BY <2>1, <1>1, ManagerAssumption
       DEF AppendConnection, ManagerTypeOK, OneEntryPerCID, CachesFaithful, UplinkData, DataOf
  <2>3. PacketsMeetTheirOwn' /\ PacketsBehind'
    BY <2>1, <1>1, ManagerAssumption
       DEF AppendConnection, PacketsMeetTheirOwn, PacketsBehind, UnderWay, Packet, CID
  <2>4. RowsBehind' /\ CachesBehind'
    BY <2>1, <1>1, ManagerAssumption
       DEF AppendConnection, RowsBehind, CachesBehind, ManagerTypeOK, Entry, CID
  <2> QED BY <2>2, <2>3, <2>4
<1>4. CASE CIDFor(k) # {}
  <2>1. PICK cid : CIDFor(k) = {cid}
    BY <1>4 DEF CIDFor
  <2> DEFINE new == EntryFor(cid, s, r, k)
  <2>2. cid \in 0..highestCID /\ (cid < highestCID => cid = 0) /\ (cid = 0 => k = Ranging)
        /\ \A i \in DOMAIN table : table[i].cid # cid
    <3>1. CASE k # Ranging
      BY <3>1, <2>1, <1>1 DEF CIDFor, RowsBehind
    <3>2. CASE k = Ranging
      <4>1. cid = 0 /\ WithID(table, 0) = {}
        BY <3>2, <2>1, <1>4 DEF CIDFor
      <4> QED BY <4>1, <3>2, <1>1, WithIDFinds, ManagerAssumption
              DEF OneEntryPerCID, ManagerTypeOK
    <3> QED BY <3>1, <3>2
  <2>3. (CHOOSE c \in CIDFor(k) : TRUE) = cid
    BY <2>1
  <2>4. /\ DOMAIN table' = DOMAIN table \cup {highestCID}
        /\ table'[highestCID] = new
        /\ \A i \in DOMAIN table : table'[i] = table[i]
    <3>1. {highestCID : c \in CIDFor(k)} = {highestCID}
      BY <2>1
    <3> QED BY <3>1, <2>3, <1>2 DEF AppendConnection
  <2>5. /\ new \in Entry /\ new.cid = cid /\ new.kind = k /\ new.subscriberStation = s
        /\ new.remoteStation = r
    BY <2>2, <1>1, ManagerAssumption DEF EntryFor, Entry, CID
  <2>6. ManagerTypeOK'
    BY <2>4, <2>5, <1>1, ManagerAssumption DEF AppendConnection, ManagerTypeOK
  <2>7. OneEntryPerCID'
    BY <2>2, <2>4, <2>5 DEF OneEntryPerCID
  <2>8. PacketsMeetTheirOwn'
    <3> SUFFICES ASSUME NEW p \in Packet, UnderWay(p), NEW i \in DOMAIN table',
                        table'[i].cid = p[1]
                 PROVE  table'[i].remoteStation = p[2]
      BY DEF PacketsMeetTheirOwn, AppendConnection, UnderWay
    <3>1. p[1] < highestCID /\ p[1] # 0 /\ p[1] \in Nat
      BY ManagerAssumption DEF PacketsBehind, Packet, CID
    <3>2. i # highestCID
      BY <3>1, <2>2, <2>4, <2>5, <1>1
    <3>3. i \in DOMAIN table /\ table'[i] = table[i]
      BY <3>2, <2>4
    <3> QED BY <3>3 DEF PacketsMeetTheirOwn, UnderWay
  <2>9. CachesFaithful'
    <3> SUFFICES ASSUME NEW i \in UplinkData(table')
                 PROVE  /\ table'[i].cid \in DOMAIN cache =>
                             cache[table'[i].cid] = table'[i].subscriberStation
                        /\ table'[i].cid \in DOMAIN dcCache =>
                             dcCache[table'[i].cid] = table'[i].subscriberStation
      BY DEF CachesFaithful, AppendConnection
    <3>1. CASE i = highestCID
      <4>1. k.type = "Data" /\ k # Ranging
        BY <3>1, <2>4, <2>5 DEF UplinkData, DataOf, Ranging, KindOf
      <4>2. cid = highestCID
        BY <4>1, <2>2, <1>1
      <4> QED BY <3>1, <4>2, <2>4, <2>5, <1>1 DEF CachesBehind
    <3>2. CASE i # highestCID
      <4>1. i \in UplinkData(table) /\ table'[i] = table[i]
        BY <3>2, <2>4 DEF UplinkData, DataOf
      <4> QED BY <4>1 DEF CachesFaithful
    <3> QED BY <3>1, <3>2
  <2>10. RowsBehind' /\ CachesBehind' /\ PacketsBehind'
    <3>1. RowsBehind'
      <4> SUFFICES ASSUME NEW i \in DOMAIN table'
                   PROVE  /\ i < highestCID + 1 /\ table'[i].cid < highestCID + 1
                          /\ table'[i].cid = 0 => table'[i].kind = Ranging
                          /\ table'[i].subscriberStation \in Subscriber
                          /\ table'[i].remoteStation \in Terminal
        BY <1>1 DEF RowsBehind
      <4>1. CASE i = highestCID
        BY <4>1, <2>2, <2>4, <2>5, <1>1
      <4>2. CASE i \in DOMAIN table
        BY <4>2, <2>4, <1>1, <1>2 DEF RowsBehind, ManagerTypeOK, Entry, CID
      <4> QED BY <4>1, <4>2, <2>4
    <3>2. CachesBehind'
      BY <1>1 DEF AppendConnection, CachesBehind, ManagerTypeOK, CID
    <3>3. PacketsBehind'
      BY <1>1, ManagerAssumption DEF AppendConnection, PacketsBehind, UnderWay, Packet, CID
    <3> QED BY <3>1, <3>2, <3>3
  <2> QED BY <2>6, <2>7, <2>8, <2>9, <2>10
<1> QED BY <1>3, <1>4

---------------------------------------------------------------------------
(* Changes.                                                                *)

\* List t is the manager's, up to the countdowns.
Alike(t) ==
  /\ DOMAIN t = DOMAIN table
  /\ \A i \in DOMAIN table :
       /\ t[i] \in Entry
       /\ t[i].baseStation = table[i].baseStation
       /\ t[i].cid = table[i].cid
       /\ t[i].subscriberStation = table[i].subscriberStation
       /\ t[i].remoteStation = table[i].remoteStation
       /\ t[i].kind = table[i].kind

\* A change that is asked for makes no other difference.
LEMMA ChangedAlike ==
  ASSUME IInv, NEW t, Alike(t), NEW c \in Request
  PROVE  Alike(Changed(t, c))
<1> USE DEF IInv, ManagerSafe
<1>1. ASSUME NEW i \in PlaceOf(t, c)
      PROVE  /\ i \in DOMAIN table
             /\ c \in Entry
             /\ c.baseStation = table[i].baseStation
             /\ c.cid = table[i].cid
             /\ c.subscriberStation = table[i].subscriberStation
             /\ c.remoteStation = table[i].remoteStation
             /\ c.kind = table[i].kind
  <2>1. i \in DOMAIN table /\ c.cid = table[i].cid
    BY DEF PlaceOf, FirstOf, Same, Alike
  <2>2. CASE \E j \in DOMAIN table : c \in Revised(j)
    <3>1. PICK j \in DOMAIN table, n \in 0..MaxAway : c = [table[j] EXCEPT !.notListening = n]
      BY <2>2 DEF Revised
    <3>2. table[j] \in Entry
      BY DEF ManagerTypeOK
    <3>3. /\ c \in Entry /\ c.baseStation = table[j].baseStation /\ c.cid = table[j].cid
          /\ c.subscriberStation = table[j].subscriberStation /\ c.kind = table[j].kind
          /\ c.remoteStation = table[j].remoteStation
      BY <3>1, <3>2 DEF Entry
    <3>4. i = j
      BY <2>1, <3>3 DEF OneEntryPerCID
    <3> QED BY <2>1, <3>3, <3>4
  <2>3. CASE \E d \in 1..highestCID - 1, s \in Subscriber :
               WithID(table, d) = {} /\ c = EntryFor(d, s, s, Basic)
    <3>1. WithID(table, c.cid) = {}
      BY <2>3 DEF EntryFor
    <3>2. DOMAIN table \subseteq Nat
      BY ManagerAssumption DEF ManagerTypeOK
    <3> QED BY <2>1, <3>1, <3>2, WithIDFinds DEF OneEntryPerCID
  <2> QED BY <2>2, <2>3 DEF Request
<1>2. ASSUME NEW i \in DOMAIN table
      PROVE  Changed(t, c)[i] = IF i \in PlaceOf(t, c) THEN c ELSE t[i]
  BY DEF Changed, Alike
<1>3. DOMAIN Changed(t, c) = DOMAIN table
  BY DEF Changed, Alike
<1> QED BY <1>1, <1>2, <1>3 DEF Alike

\* Nothing in the invariant depends on the countdowns.
LEMMA AlikeStep ==
  ASSUME IInv, Alike(table'), UNCHANGED <<highestCID, above, queued, cache, dcCache>>,
         ended' \in BOOLEAN
  PROVE  IInv'
<1> USE DEF IInv, ManagerSafe, Alike
<1>1. ManagerTypeOK'
  BY DEF ManagerTypeOK
<1>2. OneEntryPerCID'
  BY DEF OneEntryPerCID
<1>3. PacketsMeetTheirOwn'
  BY DEF PacketsMeetTheirOwn
<1>4. UplinkData(table') = UplinkData(table)
  BY DEF UplinkData, DataOf
<1>5. CachesFaithful'
  BY <1>4 DEF CachesFaithful, UplinkData, DataOf
<1>6. RowsBehind' /\ CachesBehind' /\ PacketsBehind'
  BY DEF RowsBehind, CachesBehind, PacketsBehind, UnderWay
<1> QED BY <1>1, <1>2, <1>3, <1>5, <1>6

\* The list is like itself, and like itself with the countdowns decreased.
LEMMA DecreasedAlike ==
  ASSUME IInv
  PROVE  Alike(table) /\ Alike([i \in DOMAIN table |-> Decreased(table[i])])
<1>1. \A i \in DOMAIN table : table[i] \in Entry
  BY DEF IInv, ManagerSafe, ManagerTypeOK
<1>2. ASSUME NEW c \in Entry
      PROVE  /\ Decreased(c) \in Entry
             /\ Decreased(c).baseStation = c.baseStation
             /\ Decreased(c).cid = c.cid
             /\ Decreased(c).subscriberStation = c.subscriberStation
             /\ Decreased(c).remoteStation = c.remoteStation
             /\ Decreased(c).kind = c.kind
  <2> DEFINE n == IF c.notListening > 0 THEN c.notListening - 1 ELSE c.notListening
  <2>1. c.notListening \in 0..MaxAway
    BY DEF Entry
  <2>2. n \in 0..MaxAway
    BY <2>1, ManagerAssumption
  <2>3. Decreased(c) = [c EXCEPT !.notListening = n]
    BY DEF Decreased, Entry
  <2> HIDE DEF n
  <2> QED BY <2>2, <2>3 DEF Entry
<1> QED BY <1>1, <1>2 DEF Alike

---------------------------------------------------------------------------
(* The QueueManager.                                                       *)

\* A store whose values are those of the entries registered.
Faithful(store) ==
  /\ DOMAIN store \subseteq CID
  /\ \A c \in DOMAIN store : store[c] \in Subscriber /\ c < highestCID
  /\ \A i \in UplinkData(table) :
       table[i].cid \in DOMAIN store => store[table[i].cid] = table[i].subscriberStation

\* A lookup adds to a store what is true.
LEMMA CachedFaithful ==
  ASSUME IInv, NEW store, Faithful(store), NEW cids
  PROVE  Faithful(Cached(store, cids))
<1> DEFINE new == Cached(store, cids)
<1>1. DOMAIN new = DOMAIN store \cup {d \in cids : SubscriberOf(d) # {}}
  BY DEF Cached
<1>2. ASSUME NEW c \in DOMAIN new, c \notin DOMAIN store
      PROVE  /\ c \in CID /\ c < highestCID /\ new[c] \in Subscriber
             /\ \A j \in UplinkData(table) :
                  table[j].cid = c => table[j].subscriberStation = new[c]
  <2>1. new[c] \in SubscriberOf(c)
    BY <1>1, <1>2 DEF Cached
  <2>2. PICK i \in UplinkData(table) : table[i].cid = c
    BY <2>1, SubscriberFound
  <2>3. i \in DOMAIN table
    BY <2>2 DEF UplinkData, DataOf
  <2>4. c \in CID /\ c < highestCID
    BY <2>2, <2>3 DEF IInv, ManagerSafe, ManagerTypeOK, RowsBehind, Entry
  <2> QED BY <2>1, <2>4, SubscriberFound
<1>3. \A c \in DOMAIN store : new[c] = store[c]
  BY DEF Cached
<1> HIDE DEF new
<1> QED BY <1>1, <1>2, <1>3 DEF Faithful, new

\* Any lookup that leaves both stores faithful preserves the invariant.
LEMMA LookupStep ==
  ASSUME IInv, UNCHANGED <<table, highestCID, above, queued>>, ended' \in BOOLEAN,
         Faithful(cache'), Faithful(dcCache')
  PROVE  IInv'
<1> USE DEF IInv, ManagerSafe, Faithful
<1>1. ManagerTypeOK' /\ OneEntryPerCID' /\ RowsBehind'
  BY DEF ManagerTypeOK, OneEntryPerCID, RowsBehind
<1>2. PacketsMeetTheirOwn' /\ PacketsBehind'
  BY DEF PacketsMeetTheirOwn, PacketsBehind, UnderWay
<1>3. CachesFaithful' /\ CachesBehind'
  BY DEF CachesFaithful, CachesBehind, UplinkData, DataOf
<1> QED BY <1>1, <1>2, <1>3

\* getQueue: the queue of a CID is found through the store of collectors.
LEMMA LookedFaithful ==
  ASSUME IInv, NEW cids, Looked(cids)
  PROVE  Faithful(cache') /\ Faithful(dcCache')
<1>1. Faithful(cache) /\ Faithful(dcCache)
  BY DEF IInv, ManagerSafe, ManagerTypeOK, CachesFaithful, CachesBehind, Faithful
<1>2. Faithful(dcCache')
  BY <1>1, CachedFaithful DEF Looked
<1>3. /\ DOMAIN cache' = DOMAIN cache \cup {d \in cids : SubscriberOf(d) # {}}
      /\ \A c \in DOMAIN cache' : cache'[c] = IF c \in DOMAIN cache THEN cache[c] ELSE dcCache'[c]
      /\ {d \in cids \ DOMAIN cache : SubscriberOf(d) # {}} \subseteq DOMAIN dcCache'
  BY DEF Looked, Cached
<1> QED BY <1>1, <1>2, <1>3 DEF Faithful

---------------------------------------------------------------------------
(* Packets.                                                                *)

\* A step that moves packets, and adds one at most that is for the terminal
\* of a data connection in the list.
LEMMA PacketStep ==
  ASSUME IInv, UNCHANGED <<table, highestCID, cache, dcCache>>, ended' \in BOOLEAN,
         above' \in [Packet -> 0..MaxPDU], queued' \in [Packet -> 0..MaxPDU],
         \A p \in Packet : UnderWay(p)' =>
           \/ UnderWay(p)
           \/ \E i \in DOMAIN table : /\ table[i].kind.type = "Data"
                                       /\ p[1] = table[i].cid
                                       /\ p[2] = table[i].remoteStation
  PROVE  IInv'
<1> USE DEF IInv, ManagerSafe
<1>1. ASSUME NEW p \in Packet, UnderWay(p)'
      PROVE  /\ p[1] < highestCID /\ p[1] # 0
             /\ \A i \in DOMAIN table : table[i].cid = p[1] => table[i].remoteStation = p[2]
  <2>1. CASE UnderWay(p)
    BY <2>1 DEF PacketsBehind, PacketsMeetTheirOwn, UnderWay
  <2>2. ASSUME NEW i \in DOMAIN table, table[i].kind.type = "Data",
               p[1] = table[i].cid, p[2] = table[i].remoteStation
        PROVE  /\ p[1] < highestCID /\ p[1] # 0
               /\ \A j \in DOMAIN table : table[j].cid = p[1] => table[j].remoteStation = p[2]
    BY <2>2 DEF RowsBehind, OneEntryPerCID, Ranging, KindOf
  <2> QED BY <1>1, <2>1, <2>2
<1>2. PacketsMeetTheirOwn' /\ PacketsBehind'
  BY <1>1 DEF PacketsMeetTheirOwn, PacketsBehind, UnderWay
<1>3. ManagerTypeOK'
  BY DEF ManagerTypeOK
<1> QED BY <1>2, <1>3 DEF OneEntryPerCID, CachesFaithful, RowsBehind, CachesBehind,
                          UplinkData, DataOf

\* What classifyOutgoing finds.
LEMMA ClassifyStep ==
  ASSUME IInv, NEW to \in Terminal, NEW qos, Classify(to, qos)
  PROVE  IInv'
<1> USE DEF IInv, ManagerSafe
<1>1. CASE UNCHANGED <<table, highestCID, above, queued, cache, dcCache>> /\ ended' = TRUE
  BY <1>1, PacketStep DEF ManagerTypeOK, UnderWay
<1>2. ASSUME NEW i \in OutgoingData(table, "AP", to, qos),
             above[<<table[i].cid, to>>] < MaxPDU,
             above' = [above EXCEPT ![<<table[i].cid, to>>] = @ + 1],
             UNCHANGED <<table, highestCID, queued, cache, dcCache, ended>>
      PROVE  IInv'
  <2> DEFINE q == <<table[i].cid, to>>
  <2>1. i \in DOMAIN table /\ table[i].kind.type = "Data" /\ table[i].remoteStation = to
    BY DEF OutgoingData
  <2>2. q \in Packet
    BY <2>1 DEF ManagerTypeOK, Entry, Packet
  <2>3. /\ above' \in [Packet -> 0..MaxPDU]
        /\ \A p \in Packet : p # q => above'[p] = above[p]
    BY <1>2, <2>2, ManagerAssumption DEF ManagerTypeOK
  <2>4. q[1] = table[i].cid /\ q[2] = table[i].remoteStation
    BY <2>1
  <2>5. \A p \in Packet : UnderWay(p)' => UnderWay(p) \/ p = q
    BY <1>2, <2>3 DEF UnderWay
  <2> HIDE DEF q
  <2> QED BY <1>2, <2>1, <2>3, <2>4, <2>5, PacketStep DEF ManagerTypeOK
<1> QED BY <1>1, <1>2 DEF Classify

\* The scheduler and the strategy only move packets on.
LEMMA MovedStep ==
  ASSUME IInv, NEW p \in Packet, Schedule(p) \/ Transmit(p)
  PROVE  IInv'
<1>1. /\ above \in [Packet -> 0..MaxPDU] /\ queued \in [Packet -> 0..MaxPDU] /\ ended \in BOOLEAN
      /\ MaxPDU \in Nat
  BY ManagerAssumption DEF IInv, ManagerSafe, ManagerTypeOK
<1>2. CASE Schedule(p)
  <2>1. /\ above' = [above EXCEPT ![p] = @ - 1] /\ above[p] > 0
        /\ queued' = [queued EXCEPT ![p] = @ + 1] /\ queued[p] < MaxPDU
        /\ UNCHANGED <<table, highestCID, cache, dcCache, ended>>
    BY <1>2 DEF Schedule
  <2>2. above' \in [Packet -> 0..MaxPDU] /\ queued' \in [Packet -> 0..MaxPDU]
    BY <1>1, <2>1
  <2>3. \A q \in Packet : UnderWay(q)' => UnderWay(q)
    <3> SUFFICES ASSUME NEW q \in Packet, UnderWay(q)' PROVE UnderWay(q)
      OBVIOUS
    <3>1. CASE q = p
      BY <2>1, <3>1 DEF UnderWay
    <3>2. CASE q # p
      BY <1>1, <2>1, <3>2 DEF UnderWay
    <3> QED BY <3>1, <3>2
  <2> QED BY <1>1, <2>1, <2>2, <2>3, PacketStep
<1>3. CASE Transmit(p)
  <2>1. /\ queued' = [queued EXCEPT ![p] = @ - 1] /\ queued[p] > 0 /\ above' = above
        /\ UNCHANGED <<table, highestCID, cache, dcCache, ended>>
    BY <1>3 DEF Transmit
  <2>2. above' \in [Packet -> 0..MaxPDU] /\ queued' \in [Packet -> 0..MaxPDU]
    BY <1>1, <2>1
  <2>3. \A q \in Packet : UnderWay(q)' => UnderWay(q)
    <3> SUFFICES ASSUME NEW q \in Packet, UnderWay(q)' PROVE UnderWay(q)
      OBVIOUS
    <3>1. CASE q = p
      BY <2>1, <3>1 DEF UnderWay
    <3>2. CASE q # p
      BY <1>1, <2>1, <3>2 DEF UnderWay
    <3> QED BY <3>1, <3>2
  <2> QED BY <1>1, <2>1, <2>2, <2>3, PacketStep
<1> QED BY <1>2, <1>3

---------------------------------------------------------------------------
\* The list and the caches are empty.
LEMMA ManagerStart == ManagerInit => IInv
<1> SUFFICES ASSUME ManagerInit PROVE IInv
  OBVIOUS
<1>1. /\ DOMAIN table = {} /\ DOMAIN cache = {} /\ DOMAIN dcCache = {}
      /\ highestCID = 1 /\ ended = FALSE
      /\ above = [p \in Packet |-> 0] /\ queued = [p \in Packet |-> 0]
  BY DEF ManagerInit
<1>2. MaxCID \in Nat \ {0} /\ MaxPDU \in Nat
  BY ManagerAssumption
<1>3. \A p \in Packet : ~UnderWay(p)
  BY <1>1 DEF UnderWay
<1>4. ManagerTypeOK
  <2>1. 1 \in 1..MaxCID /\ 0 \in 0..MaxPDU
    BY <1>2
  <2>2. above \in [Packet -> 0..MaxPDU] /\ queued \in [Packet -> 0..MaxPDU]
    BY <1>1, <2>1
  <2> QED BY <1>1, <2>1, <2>2 DEF ManagerTypeOK
<1>5. OneEntryPerCID /\ RowsBehind /\ CachesBehind
  BY <1>1 DEF OneEntryPerCID, RowsBehind, CachesBehind
<1>6. PacketsMeetTheirOwn /\ PacketsBehind
  BY <1>1, <1>3 DEF PacketsMeetTheirOwn, PacketsBehind, UnderWay
<1>7. CachesFaithful
  BY <1>1 DEF CachesFaithful, UplinkData, DataOf
<1> QED BY <1>4, <1>5, <1>6, <1>7 DEF IInv, ManagerSafe

\* Every operation of the manager, of the scheduler and of the QueueManager
\* preserves the invariant.
LEMMA ManagerStep == IInv /\ [ManagerNext]_managerVars => IInv'
<1> SUFFICES ASSUME IInv, [ManagerNext]_managerVars PROVE IInv'
  OBVIOUS
<1>1. CASE UNCHANGED managerVars
  BY <1>1 DEF managerVars, IInv, ManagerSafe, ManagerTypeOK, OneEntryPerCID,
     PacketsMeetTheirOwn, CachesFaithful, RowsBehind, CachesBehind, PacketsBehind,
     UnderWay, UplinkData, DataOf
<1>2. ASSUME NEW s \in Subscriber, NEW r \in Terminal, NEW k \in Kinds, AppendConnection(s, r, k)
      PROVE  IInv'
  BY <1>2, AppendStep
<1>3. CASE DeleteAllConnections
  BY <1>3, EraseStep DEF DeleteAllConnections, IInv, ManagerSafe, ManagerTypeOK
<1>4. ASSUME NEW b \in Station, DeleteConnectionsForBS(b) PROVE IInv'
  BY <1>4, EraseStep DEF DeleteConnectionsForBS, IInv, ManagerSafe, ManagerTypeOK
<1>5. ASSUME NEW s \in Subscriber, DeleteConnectionsForSS(s) PROVE IInv'
  BY <1>5, EraseStep DEF DeleteConnectionsForSS, IInv, ManagerSafe, ManagerTypeOK
<1>6. ASSUME NEW c \in CID, DeleteCI(c) PROVE IInv'
  BY <1>6, EraseStep DEF DeleteCI
<1>7. ASSUME NEW c \in Request, ChangeConnection(c) PROVE IInv'
  BY <1>7, DecreasedAlike, ChangedAlike, AlikeStep DEF ChangeConnection
<1>8. ASSUME NEW c \in Request, NEW d \in Request, ChangeConnections(c, d) PROVE IInv'
  <2>1. Alike(table) /\ Alike(Changed(table, c)) /\ Alike(Changed(Changed(table, c), d))
    BY DecreasedAlike, ChangedAlike
  <2> QED BY <1>8, <2>1, AlikeStep DEF ChangeConnections
<1>9. CASE DecreaseCINotListening
  BY <1>9, DecreasedAlike, AlikeStep
     DEF DecreaseCINotListening, IInv, ManagerSafe, ManagerTypeOK
<1>10. ASSUME NEW to \in Terminal, NEW k \in Kinds, Classify(to, k.qos) PROVE IInv'
  BY <1>10, ClassifyStep
<1>11. ASSUME NEW p \in Packet, Schedule(p) \/ Transmit(p) PROVE IInv'
  BY <1>11, MovedStep
<1>12. CASE GetAllQueues
  BY <1>12, LookedFaithful, LookupStep DEF GetAllQueues, IInv, ManagerSafe, ManagerTypeOK
<1>13. ASSUME NEW c \in CID, GetQueue(c) PROVE IInv'
  BY <1>13, LookedFaithful, LookupStep DEF GetQueue
<1>14. ASSUME NEW c \in CID, StartCollection(c) PROVE IInv'
  <2>1. Faithful(cache) /\ Faithful(dcCache)
    BY DEF IInv, ManagerSafe, ManagerTypeOK, CachesFaithful, CachesBehind, Faithful
  <2>2. Faithful(cache') /\ Faithful(dcCache')
    BY <1>14, <2>1, CachedFaithful DEF StartCollection
  <2> QED BY <1>14, <2>2, LookupStep DEF StartCollection
<1> QED BY <1>1, <1>2, <1>3, <1>4, <1>5, <1>6, <1>7, <1>8, <1>9, <1>10, <1>11, <1>12, <1>13,
           <1>14 DEF ManagerNext

\* After any sequence of appends, deletions, changes, transmissions and
\* lookups: a CID names one entry of the list, no packet meets the connection
\* of another terminal under its CID, late as it may come, and the caches that
\* are never invalidated name the subscriber of every registered connection
\* they have an entry for.
THEOREM ManagerIsSafe == ManagerSpec => []ManagerSafe
<1>1. IInv => ManagerSafe
  BY DEF IInv
<1> QED BY <1>1, ManagerStart, ManagerStep, PTL DEF ManagerSpec

---------------------------------------------------------------------------
(* What a step does to the order of the list.                              *)

\* Entries keep what they are looked up by, some of them are gone or one was
\* added at the end.
ListKeepsOrder ==
  /\ \A i \in DOMAIN table \cap DOMAIN table' :
       /\ table'[i].cid = table[i].cid
       /\ table'[i].subscriberStation = table[i].subscriberStation
       /\ table'[i].kind = table[i].kind
  /\ \/ DOMAIN table' \subseteq DOMAIN table
     \/ DOMAIN table' = DOMAIN table \cup {highestCID}

\* Every step keeps the order of the list.
LEMMA OrderKept ==
  ASSUME IInv, [ManagerNext]_managerVars
  PROVE  ListKeepsOrder
<1>1. ASSUME table' = table PROVE ListKeepsOrder
  BY <1>1 DEF ListKeepsOrder
<1>2. ASSUME NEW gone \in SUBSET DOMAIN table, Erase(gone) PROVE ListKeepsOrder
  BY <1>2 DEF Erase, ListKeepsOrder
<1>3. ASSUME Alike(table') PROVE ListKeepsOrder
  BY <1>3 DEF Alike, ListKeepsOrder
<1>4. CASE UNCHANGED managerVars
  BY <1>1, <1>4 DEF managerVars
<1>5. ASSUME NEW s \in Subscriber, NEW r \in Terminal, NEW k \in Kinds, AppendConnection(s, r, k)
      PROVE  ListKeepsOrder
  <2>1. \A i \in DOMAIN table : i # highestCID
    BY DEF IInv, RowsBehind, ManagerSafe, ManagerTypeOK
  <2>2. {highestCID : c \in CIDFor(k)} \in {{}, {highestCID}}
    OBVIOUS
  <2> QED BY <1>5, <2>1, <2>2 DEF AppendConnection, ListKeepsOrder
<1>6. CASE DeleteAllConnections
  BY <1>2, <1>6 DEF DeleteAllConnections
<1>7. ASSUME NEW b \in Station, DeleteConnectionsForBS(b) PROVE ListKeepsOrder
  BY <1>2, <1>7 DEF DeleteConnectionsForBS
<1>8. ASSUME NEW s \in Subscriber, DeleteConnectionsForSS(s) PROVE ListKeepsOrder
  BY <1>2, <1>8 DEF DeleteConnectionsForSS
<1>9. ASSUME NEW c \in CID, DeleteCI(c) PROVE ListKeepsOrder
  BY <1>2, <1>9 DEF DeleteCI
<1>10. ASSUME NEW c \in Request, ChangeConnection(c) PROVE ListKeepsOrder
  BY <1>3, <1>10, DecreasedAlike, ChangedAlike DEF ChangeConnection
<1>11. ASSUME NEW c \in Request, NEW d \in Request, ChangeConnections(c, d) PROVE ListKeepsOrder
  <2>1. Alike(table) /\ Alike(Changed(table, c)) /\ Alike(Changed(Changed(table, c), d))
    BY DecreasedAlike, ChangedAlike
  <2> QED BY <1>3, <1>11, <2>1 DEF ChangeConnections
<1>12. CASE DecreaseCINotListening
  BY <1>3, <1>12, DecreasedAlike DEF DecreaseCINotListening
<1>13. ASSUME NEW to \in Terminal, NEW k \in Kinds, Classify(to, k.qos) PROVE ListKeepsOrder
  BY <1>1, <1>13 DEF Classify
<1>14. ASSUME NEW c \in CID, GetQueue(c) \/ StartCollection(c) PROVE ListKeepsOrder
  BY <1>1, <1>14 DEF GetQueue, StartCollection
<1>16. ASSUME NEW p \in Packet, Schedule(p) \/ Transmit(p) PROVE ListKeepsOrder
  BY <1>1, <1>16 DEF Schedule, Transmit
<1>15. CASE GetAllQueues
  BY <1>1, <1>15 DEF GetAllQueues
<1> QED BY <1>4, <1>5, <1>6, <1>7, <1>8, <1>9, <1>10, <1>11, <1>12, <1>13, <1>14, <1>15,
           <1>16 DEF ManagerNext

\* The basic connection that is found for a subscriber is found until it is
\* deleted itself: neither other entries' changes and deletions nor new
\* connections, basic ones of the same subscriber included, get in between.
THEOREM LookupsAreStable == ManagerSpec => FirstMatchStable
<1>1. ASSUME IInv, IInv', ListKeepsOrder,
             NEW s \in Subscriber, NEW i \in BasicForStation(table, s)
      PROVE  i \in BasicForStation(table', s) \/ WithID(table', table[i].cid) = {}
  <2>1. /\ i \in DOMAIN table /\ table[i].subscriberStation = s /\ table[i].kind.type = "Basic"
        /\ \A j \in DOMAIN table :
             table[j].subscriberStation = s /\ table[j].kind.type = "Basic" => i <= j
    BY DEF BasicForStation, FirstOf
  <2>2. i \in Nat /\ i < highestCID /\ highestCID \in Nat
    BY <2>1, <1>1, ManagerAssumption DEF IInv, RowsBehind, ManagerSafe, ManagerTypeOK
  <2>3. CASE i \in DOMAIN table'
    BY <2>1, <2>2, <2>3, <1>1 DEF ListKeepsOrder, BasicForStation, FirstOf
  <2>4. CASE i \notin DOMAIN table'
    <3>1. \A j \in DOMAIN table' : j \in DOMAIN table /\ table'[j].cid = table[j].cid /\ j # i
      BY <2>1, <2>4, <1>1 DEF ListKeepsOrder
    <3>2. \A j \in DOMAIN table' : table'[j].cid # table[i].cid
      BY <3>1, <2>1, <1>1 DEF IInv, ManagerSafe, OneEntryPerCID
    <3> QED BY <3>2 DEF WithID, FirstOf
  <2> QED BY <2>3, <2>4
<1>2. IInv /\ IInv' /\ [ManagerNext]_managerVars =>
        [\A s \in Subscriber : \A i \in BasicForStation(table, s) :
           \/ i \in BasicForStation(table', s)
           \/ WithID(table', table[i].cid) = {}]_managerVars
  BY <1>1, OrderKept
<1> QED BY <1>2, ManagerStart, ManagerStep, PTL DEF ManagerSpec, FirstMatchStable

---------------------------------------------------------------------------
(* ConnectionManager implements ConnectionRegister: under the invariant    *)
(* every operation of the manager, the scheduler and the QueueManager is a *)
(* step of the register or none.                                           *)

\* What the register holds of an entry.
PartiesOf(c) == [owner |-> c.subscriberStation, target |-> c.remoteStation]

\* The parties of an entry's CID are those of the entry.
LEMMA OwnersAre ==
  ASSUME IInv
  PROVE  /\ DOMAIN Owners = {table[i].cid : i \in DOMAIN table}
         /\ \A i \in DOMAIN table : Owners[table[i].cid] = PartiesOf(table[i])
         /\ DOMAIN Owners \subseteq CID
<1>1. \A i \in DOMAIN table : Place(table[i].cid) = i
  BY DEF Place, IInv, ManagerSafe, OneEntryPerCID
<1>2. \A i \in DOMAIN table : table[i].cid \in CID
  BY DEF IInv, ManagerSafe, ManagerTypeOK, Entry
<1> QED BY <1>1, <1>2 DEF Owners, PartiesOf

\* The same of the next state.
LEMMA OwnersWillBe ==
  ASSUME IInv'
  PROVE  /\ DOMAIN Owners' = {table'[i].cid : i \in DOMAIN table'}
         /\ \A i \in DOMAIN table' : Owners'[table'[i].cid] = PartiesOf(table'[i])
<1>1. \A i \in DOMAIN table' : Place(table[i].cid)' = i
  BY DEF Place, IInv, ManagerSafe, OneEntryPerCID
<1> QED BY <1>1 DEF Owners, PartiesOf

\* No connection yet.
LEMMA RegisterStart == ManagerInit => Register!RInit
<1> SUFFICES ASSUME ManagerInit PROVE Register!RInit
  OBVIOUS
<1>1. Owners = << >> /\ cache = << >>
  BY DEF ManagerInit, Owners
<1>2. Spent = {} /\ Waiting = {} /\ Coming = {}
  BY DEF ManagerInit, Spent, Waiting, Coming
<1> QED BY <1>1, <1>2 DEF Register!RInit

\* An append enrols the connection, or only spends a CID.
LEMMA AppendEnrols ==
  ASSUME IInv, IInv', NEW s \in Subscriber, NEW r \in Terminal, NEW k \in Kinds,
         AppendConnection(s, r, k)
  PROVE  Register!RNext
<1>1. highestCID \in 1..MaxCID /\ highestCID < MaxCID /\ highestCID' = highestCID + 1
  BY DEF AppendConnection, IInv, ManagerSafe, ManagerTypeOK
<1>2. \A i \in DOMAIN table : i # highestCID
  BY <1>1 DEF IInv, RowsBehind
<1>3. Waiting' = Waiting /\ Coming' = Coming /\ cache' = cache
  BY DEF AppendConnection, Waiting, Coming
<1>4. Spent' = Spent \cup {highestCID} /\ highestCID \notin Spent
  BY <1>1, ManagerAssumption DEF Spent
<1>5. CASE CIDFor(k) = {}
  <2>1. DOMAIN table' = DOMAIN table /\ \A i \in DOMAIN table : table'[i] = table[i]
    BY <1>2, <1>5 DEF AppendConnection
  <2>2. Owners' = Owners
    <3>1. DOMAIN Owners' = DOMAIN Owners
      BY <2>1, OwnersAre, OwnersWillBe
    <3>2. \A c \in DOMAIN Owners : Owners'[c] = Owners[c]
      BY <2>1, OwnersAre, OwnersWillBe
    <3> QED BY <3>1, <3>2 DEF Owners
  <2> QED BY <2>2, <1>3, <1>4 DEF Register!RNext, Register!Spend
<1>6. CASE CIDFor(k) # {}
  <2>1. PICK cid : CIDFor(k) = {cid}
    BY <1>6 DEF CIDFor
  <2>2. (CHOOSE c \in CIDFor(k) : TRUE) = cid
    BY <2>1
  <2>3. /\ DOMAIN table' = DOMAIN table \cup {highestCID}
        /\ table'[highestCID] = EntryFor(cid, s, r, k)
        /\ \A i \in DOMAIN table : table'[i] = table[i]
    <3>1. {highestCID : c \in CIDFor(k)} = {highestCID}
      BY <2>1
    <3> QED BY <3>1, <2>2, <1>2 DEF AppendConnection
  <2>4. /\ EntryFor(cid, s, r, k).cid = cid
        /\ PartiesOf(EntryFor(cid, s, r, k)) = [owner |-> s, target |-> r]
    BY DEF EntryFor, PartiesOf
  <2>5. cid = 0 \/ cid = highestCID
    BY <2>1 DEF CIDFor
  <2>6. cid \in CID /\ cid \notin DOMAIN Owners
    <3>1. cid \in CID
      BY <2>5, <1>1, ManagerAssumption DEF CID
    <3>2. \A i \in DOMAIN table : table'[i].cid # table'[highestCID].cid
      BY <2>3, <1>2 DEF IInv, ManagerSafe, OneEntryPerCID
    <3> QED BY <3>1, <3>2, <2>3, <2>4, OwnersAre
  <2>7. Owners' = [c \in DOMAIN Owners \cup {cid} |->
                     IF c = cid THEN [owner |-> s, target |-> r] ELSE Owners[c]]
    <3>1. DOMAIN Owners' = DOMAIN Owners \cup {cid}
      BY <2>3, <2>4, OwnersAre, OwnersWillBe
    <3>2. Owners'[cid] = [owner |-> s, target |-> r]
      BY <2>3, <2>4, OwnersWillBe
    <3>3. \A c \in DOMAIN Owners : Owners'[c] = Owners[c]
      BY <2>3, OwnersAre, OwnersWillBe
    <3> QED BY <3>1, <3>2, <3>3, <2>6 DEF Owners
  <2>8. Register!Enrol(cid, s, r)
    BY <2>5, <2>6, <2>7, <1>3, <1>4 DEF Register!Enrol
  <2> QED BY <2>6, <2>8 DEF Register!RNext
<1> QED BY <1>5, <1>6

\* Erasing entries and dropping their queues strikes their CIDs.
LEMMA EraseStrikes ==
  ASSUME IInv, IInv', NEW gone \in SUBSET DOMAIN table, Erase(gone),
         UNCHANGED <<highestCID, above, cache>>
  PROVE  Register!RNext
<1> DEFINE cids == {table[i].cid : i \in gone}
<1>1. DOMAIN table' = DOMAIN table \ gone /\ \A i \in DOMAIN table' : table'[i] = table[i]
  BY DEF Erase
<1>2. \A i \in DOMAIN table : table[i].cid \in cids <=> i \in gone
  BY DEF IInv, ManagerSafe, OneEntryPerCID
<1>3. cids \in SUBSET DOMAIN Owners
  BY OwnersAre
<1>4. Owners' = [c \in DOMAIN Owners \ cids |-> Owners[c]]
  <2>1. DOMAIN Owners' = DOMAIN Owners \ cids
    BY <1>1, <1>2, OwnersAre, OwnersWillBe
  <2>2. \A c \in DOMAIN Owners \ cids : Owners'[c] = Owners[c]
    BY <1>1, <1>2, OwnersAre, OwnersWillBe
  <2> QED BY <2>1, <2>2 DEF Owners
<1>5. Waiting' = {p \in Waiting : p[1] \notin cids}
  <2>1. queued' = [p \in Packet |-> IF p[1] \in cids THEN 0 ELSE queued[p]]
    BY DEF Erase, Notified
  <2> HIDE DEF cids
  <2>2. \A p \in Packet : queued'[p] > 0 <=> queued[p] > 0 /\ p[1] \notin cids
    BY <2>1
  <2> QED BY <2>2 DEF Waiting
<1>6. Spent' = Spent /\ Coming' = Coming /\ cache' = cache
  BY DEF Spent, Coming
<1>7. Register!Strike(cids)
  BY <1>4, <1>5, <1>6 DEF Register!Strike
<1> QED BY <1>3, <1>7 DEF Register!RNext

\* Changes of countdowns do not show in the register.
LEMMA AlikeStutters ==
  ASSUME IInv, IInv', Alike(table'), UNCHANGED <<highestCID, above, queued, cache>>
  PROVE  UNCHANGED Register!regVars
<1>1. Owners' = Owners
  <2>1. DOMAIN Owners' = DOMAIN Owners
    BY OwnersAre, OwnersWillBe DEF Alike
  <2>2. ASSUME NEW c \in DOMAIN Owners PROVE Owners'[c] = Owners[c]
    <3>1. PICK i \in DOMAIN table : table[i].cid = c
      BY OwnersAre
    <3>2. /\ i \in DOMAIN table' /\ table'[i].cid = c
          /\ PartiesOf(table'[i]) = PartiesOf(table[i])
      BY <3>1 DEF Alike, PartiesOf
    <3>3. Owners[c] = PartiesOf(table[i])
      BY <3>1, OwnersAre
    <3>4. Owners'[c] = PartiesOf(table'[i])
      BY <3>2, OwnersWillBe
    <3> QED BY <3>2, <3>3, <3>4
  <2> QED BY <2>1, <2>2 DEF Owners
<1> QED BY <1>1 DEF Register!regVars, Spent, Waiting, Coming

\* What does not touch the list and the counter leaves owners and CIDs alone.
LEMMA ListKept ==
  ASSUME UNCHANGED <<table, highestCID>>
  PROVE  UNCHANGED <<Owners, Spent>>
BY DEF Owners, Spent, Place

\* A classified packet sets out for the terminal of its connection, which is
\* never the ranging connection.
LEMMA ClassifySetsOut ==
  ASSUME IInv, NEW to \in Terminal, NEW qos, Classify(to, qos)
  PROVE  [Register!RNext]_(Register!regVars)
<1>1. UNCHANGED <<Owners, Spent, Waiting, cache>>
  BY ListKept DEF Classify, Waiting
<1>2. CASE UNCHANGED above
  BY <1>1, <1>2 DEF Register!regVars, Coming
<1>3. ASSUME NEW i \in OutgoingData(table, "AP", to, qos),
             above' = [above EXCEPT ![<<table[i].cid, to>>] = @ + 1]
      PROVE  Register!RNext
  <2> DEFINE q == <<table[i].cid, to>>
  <2>1. i \in DOMAIN table /\ table[i].kind.type = "Data" /\ table[i].remoteStation = to
    BY DEF OutgoingData
  <2>2. table[i].cid \in DOMAIN Owners \ {0} /\ Owners[table[i].cid].target = to
    <3>1. table[i].cid # 0
      BY <2>1 DEF IInv, RowsBehind, Ranging, KindOf
    <3>2. table[i].cid \in DOMAIN Owners /\ Owners[table[i].cid] = PartiesOf(table[i])
      BY <2>1, OwnersAre
    <3> QED BY <2>1, <3>1, <3>2 DEF PartiesOf
  <2>3. q \in Packet
    BY <2>1 DEF IInv, ManagerSafe, ManagerTypeOK, Entry, Packet
  <2>4. above'[q] > 0 /\ \A p \in Packet : p # q => above'[p] = above[p]
    BY <1>3, <2>3 DEF IInv, ManagerSafe, ManagerTypeOK
  <2>5. Coming' = Coming \cup {q}
    BY <2>3, <2>4 DEF Coming
  <2>6. Register!SetOut(table[i].cid)
    BY <1>1, <2>2, <2>5 DEF Register!SetOut
  <2> QED BY <2>2, <2>6 DEF Register!RNext
<1> QED BY <1>2, <1>3 DEF Classify

\* A packet is put into its queue, whether or not another one like it waits
\* there or follows.
LEMMA ScheduleArrives ==
  ASSUME IInv, NEW p \in Packet, Schedule(p)
  PROVE  Register!RNext
<1>1. UNCHANGED <<Owners, Spent, cache>>
  BY ListKept DEF Schedule
<1>2. /\ above[p] \in Nat /\ above[p] > 0 /\ queued'[p] > 0
      /\ above'[p] = above[p] - 1
      /\ \A q \in Packet : q # p => queued'[q] = queued[q] /\ above'[q] = above[q]
  BY DEF Schedule, IInv, ManagerSafe, ManagerTypeOK
<1>3. p \in Coming /\ Waiting' = Waiting \cup {p} /\ Coming' \in {Coming, Coming \ {p}}
  BY <1>2 DEF Waiting, Coming
<1> QED BY <1>1, <1>3 DEF Register!RNext, Register!Arrive

\* The last packet of its kind in a queue ends the waiting, another one does
\* not.
LEMMA TransmitServes ==
  ASSUME IInv, NEW p \in Packet, Transmit(p)
  PROVE  [Register!RNext]_(Register!regVars)
<1>1. UNCHANGED <<Owners, Spent, Coming, cache>>
  BY ListKept DEF Transmit, Coming
<1>2. p \in Waiting
  BY DEF Transmit, Waiting
<1>3. queued'[p] = queued[p] - 1 /\ queued[p] \in 0..MaxPDU
      /\ \A q \in Packet : q # p => queued'[q] = queued[q]
  BY DEF Transmit, IInv, ManagerSafe, ManagerTypeOK
<1>4. CASE queued'[p] > 0
  <2>1. Waiting' = Waiting
    BY <1>2, <1>3, <1>4 DEF Waiting
  <2> QED BY <1>1, <2>1 DEF Register!regVars
<1>5. CASE ~(queued'[p] > 0)
  <2>1. Waiting' = Waiting \ {p}
    BY <1>3, <1>5 DEF Waiting
  <2> QED BY <1>1, <1>2, <2>1 DEF Register!RNext, Register!Serve
<1> QED BY <1>4, <1>5

\* A lookup learns the owners of registered CIDs, never that of CID 0.
LEMMA LookupLearns ==
  ASSUME IInv, NEW cids, Looked(cids), UNCHANGED <<table, highestCID, above, queued>>
  PROVE  Register!RNext
<1> DEFINE found == {d \in cids : SubscriberOf(d) # {}} \ DOMAIN cache
<1>1. ASSUME NEW c \in found
      PROVE  c \in DOMAIN Owners \ {0} /\ c \in DOMAIN dcCache' /\ dcCache'[c] = Owners[c].owner
  <2>1. PICK i \in UplinkData(table) : table[i].cid = c
    BY <1>1, SubscriberFound
  <2>2. i \in DOMAIN table /\ table[i].kind.type = "Data"
    BY <2>1 DEF UplinkData, DataOf
  <2>3. c # 0
    BY <2>1, <2>2 DEF IInv, RowsBehind, Ranging, KindOf
  <2>4. c \in DOMAIN dcCache'
    BY <1>1 DEF Looked, Cached
  <2>5. dcCache'[c] = table[i].subscriberStation
    BY <2>1, <2>4, LookedFaithful DEF Faithful, UplinkData, DataOf
  <2>6. table[i].cid \in DOMAIN Owners /\ Owners[table[i].cid] = PartiesOf(table[i])
    BY <2>2, OwnersAre
  <2>7. Owners[c].owner = table[i].subscriberStation
    BY <2>1, <2>6 DEF PartiesOf
  <2> QED BY <2>1, <2>3, <2>4, <2>5, <2>6, <2>7
<1>2. cache' = [c \in DOMAIN cache \cup found |-> IF c \in DOMAIN cache THEN cache[c] ELSE Owners[c].owner]
  <2>1. cache' = [c \in DOMAIN cache \cup found |->
                    IF c \in DOMAIN cache THEN cache[c] ELSE dcCache'[c]]
    <3>1. DOMAIN Cached(cache, cids) = DOMAIN cache \cup found
      BY DEF Cached
    <3> QED BY <3>1 DEF Looked
  <2> HIDE DEF found
  <2> QED BY <1>1, <2>1
<1>3. found \in SUBSET (DOMAIN Owners \ {0})
  BY <1>1
<1>4. UNCHANGED <<Owners, Spent, Waiting, Coming>>
  BY ListKept DEF Waiting, Coming
<1> HIDE DEF found
<1>5. Register!Learn(found)
  BY <1>2, <1>4 DEF Register!Learn
<1> QED BY <1>3, <1>5 DEF Register!RNext

---------------------------------------------------------------------------
\* Every step of the manager is a step of the register, or none.
LEMMA RegisterStep ==
  IInv /\ IInv' /\ [ManagerNext]_managerVars => [Register!RNext]_(Register!regVars)
<1> SUFFICES ASSUME IInv, IInv', [ManagerNext]_managerVars
             PROVE  [Register!RNext]_(Register!regVars)
  OBVIOUS
<1>1. CASE UNCHANGED managerVars
  BY <1>1, ListKept DEF managerVars, Register!regVars, Waiting, Coming
<1>2. ASSUME NEW s \in Subscriber, NEW r \in Terminal, NEW k \in Kinds, AppendConnection(s, r, k)
      PROVE  Register!RNext
  BY <1>2, AppendEnrols
<1>3. CASE DeleteAllConnections
  BY <1>3, EraseStrikes DEF DeleteAllConnections
<1>4. ASSUME NEW b \in Station, DeleteConnectionsForBS(b) PROVE Register!RNext
  BY <1>4, EraseStrikes DEF DeleteConnectionsForBS
<1>5. ASSUME NEW s \in Subscriber, DeleteConnectionsForSS(s) PROVE Register!RNext
  BY <1>5, EraseStrikes DEF DeleteConnectionsForSS
<1>6. ASSUME NEW c \in CID, DeleteCI(c) PROVE Register!RNext
  BY <1>6, EraseStrikes DEF DeleteCI
<1>7. ASSUME NEW c \in Request, ChangeConnection(c) PROVE UNCHANGED Register!regVars
  BY <1>7, DecreasedAlike, ChangedAlike, AlikeStutters DEF ChangeConnection
<1>8. ASSUME NEW c \in Request, NEW d \in Request, ChangeConnections(c, d)
      PROVE  UNCHANGED Register!regVars
  <2>1. Alike(table) /\ Alike(Changed(table, c)) /\ Alike(Changed(Changed(table, c), d))
    BY DecreasedAlike, ChangedAlike
  <2> QED BY <1>8, <2>1, AlikeStutters DEF ChangeConnections
<1>9. CASE DecreaseCINotListening
  BY <1>9, DecreasedAlike, AlikeStutters DEF DecreaseCINotListening
<1>10. ASSUME NEW to \in Terminal, NEW k \in Kinds, Classify(to, k.qos)
       PROVE  [Register!RNext]_(Register!regVars)
  BY <1>10, ClassifySetsOut
<1>11. ASSUME NEW p \in Packet, Schedule(p) \/ Transmit(p)
       PROVE  [Register!RNext]_(Register!regVars)
  BY <1>11, ScheduleArrives, TransmitServes
<1>12. CASE GetAllQueues
  BY <1>12, LookupLearns DEF GetAllQueues
<1>13. ASSUME NEW c \in CID, GetQueue(c) PROVE Register!RNext
  BY <1>13, LookupLearns DEF GetQueue
<1>14. ASSUME NEW c \in CID, StartCollection(c) PROVE UNCHANGED Register!regVars
  BY <1>14, ListKept DEF StartCollection, Register!regVars, Waiting, Coming
<1> QED BY <1>1, <1>2, <1>3, <1>4, <1>5, <1>6, <1>7, <1>8, <1>9, <1>10, <1>11, <1>12, <1>13,
           <1>14 DEF ManagerNext

\* The connection manager with its observers implements the register: a CID
\* that was given up is never given to another connection, packets wait only
\* for the connection they set out for, which may be gone, and what the master
\* of the uplink remembers of a CID was true when it was learnt and is never
\* replaced.
THEOREM ManagerIsRegister == ManagerSpec => ImplementsRegister
<1>1. ManagerInit => IInv
  BY ManagerStart
<1> QED BY <1>1, RegisterStart, ManagerStep, RegisterStep, PTL
        DEF ManagerSpec, ImplementsRegister, Register!RSpec

---------------------------------------------------------------------------
(*************************************************************************)
(* HarqReception.  The safety invariants its run checks are together     *)
(* inductive; DecodedInTime bounds the age of what waits, which HarqTypeOK *)
(* needs, and PendingIffBuffered says when there is an event to bound it by. *)
(*************************************************************************)

\* Initially nothing is buffered and no event is scheduled.
LEMMA HarqStart == HarqInit => HarqSafe
<1> SUFFICES ASSUME HarqInit PROVE HarqSafe
  OBVIOUS
<1> USE HarqAssumption DEF HarqInit
<1>1. Buffer = {}
  BY DEF Buffer
<1>2. HarqTypeOK
  BY DEF HarqTypeOK, Delay
<1>3. PendingIffBuffered /\ DecodedInTime
  BY <1>1 DEF PendingIffBuffered, DecodedInTime
<1>4. DeliveredOnce
  BY DEF DeliveredOnce
<1> QED BY <1>2, <1>3, <1>4 DEF HarqSafe

\* What is not subject to HARQ goes straight up, and the buffer is untouched.
LEMMA OnDataStep ==
  ASSUME HarqSafe, NEW p \in PDU, OnData(p)
  PROVE  HarqSafe'
<1> USE HarqAssumption DEF HarqSafe, OnData
<1>1. Buffer' = Buffer
  BY DEF Buffer, HarqTypeOK
<1>2. HarqTypeOK' /\ DeliveredOnce'
  BY DEF HarqTypeOK, DeliveredOnce
<1>3. PendingIffBuffered' /\ DecodedInTime'
  BY <1>1 DEF PendingIffBuffered, DecodedInTime
<1> QED BY <1>2, <1>3

\* A slot that arrives is new in the buffer; the event is kept or scheduled.
LEMMA OnTimeSlotStep ==
  ASSUME HarqSafe, NEW p \in PDU, OnTimeSlot(p)
  PROVE  HarqSafe'
<1> USE HarqAssumption DEF HarqSafe, OnTimeSlot
<1>1. Buffer' = Buffer \cup {p}
  BY DEF Buffer, HarqTypeOK
<1>2. event' \in 0..Delay /\ (event # None => event' = event)
      /\ (event = None => event' = Delay)
  BY DEF Armed, Delay, HarqTypeOK
<1>3. HarqTypeOK'
  BY <1>2 DEF HarqTypeOK, Delay
<1>4. PendingIffBuffered'
  BY <1>1, <1>2 DEF PendingIffBuffered, Delay
<1>5. DecodedInTime'
  <2> SUFFICES ASSUME NEW q \in Buffer'
               PROVE  event' \in 0..(Delay - age'[q])
    BY DEF DecodedInTime
  <2>1. CASE q = p
    BY <2>1, <1>2 DEF HarqTypeOK, Delay
  <2>2. CASE q # p
    <3>1. q \in Buffer /\ event # None /\ age'[q] = age[q]
      BY <2>2, <1>1 DEF PendingIffBuffered, HarqTypeOK, Buffer
    <3> QED BY <3>1, <1>2 DEF DecodedInTime
  <2> QED BY <2>1, <2>2
<1>6. DeliveredOnce'
  BY DEF DeliveredOnce, HarqTypeOK
<1> QED BY <1>3, <1>4, <1>5, <1>6

\* The event empties the buffer and is forgotten.
LEMMA DeliverReceivedStep ==
  ASSUME HarqSafe, DeliverReceived
  PROVE  HarqSafe'
<1> USE HarqAssumption DEF HarqSafe
<1> PICK ok \in SUBSET Buffer :
      /\ event' = None
      /\ status' = Taken(ok)
      /\ tries' = Retried(ok)
      /\ delivered' = [p \in PDU |-> IF p \in ok THEN delivered[p] + 1 ELSE delivered[p]]
      /\ age' = age
  BY DEF DeliverReceived, Reset
<1>1. \A p \in PDU : status'[p] = IF p \in Buffer THEN Decoded(p, ok) ELSE status[p]
  BY DEF Taken
<1>2. \A p \in PDU : Decoded(p, ok) \in {"delivered", "sent", "lost"}
  BY DEF Decoded
<1>3. Buffer' = {}
  BY <1>1, <1>2 DEF Buffer
<1>4. HarqTypeOK'
  <2>1. status' \in [PDU -> {"sent", "received", "delivered", "lost"}]
    BY <1>2 DEF Taken, HarqTypeOK
  <2>2. tries' \in [PDU -> 1..MaxTries]
    BY DEF Retried, HarqTypeOK
  <2> QED BY <2>1, <2>2 DEF HarqTypeOK
<1>5. PendingIffBuffered' /\ DecodedInTime'
  BY <1>3 DEF PendingIffBuffered, DecodedInTime
<1>6. DeliveredOnce'
  <2> SUFFICES ASSUME NEW p \in PDU
               PROVE  delivered'[p] = IF status'[p] = "delivered" THEN 1 ELSE 0
    BY DEF DeliveredOnce
  <2>1. CASE p \in ok
    BY <2>1, <1>1 DEF DeliveredOnce, Decoded, Buffer
  <2>2. CASE p \in Buffer \ ok
    BY <2>2, <1>1 DEF DeliveredOnce, Decoded, Buffer
  <2>3. CASE p \notin Buffer
    BY <2>3, <1>1 DEF DeliveredOnce
  <2> QED BY <2>1, <2>2, <2>3
<1> QED BY <1>4, <1>5, <1>6

\* Time passes for the event and for what waits alike.
LEMMA TickStep ==
  ASSUME HarqSafe, HarqTick
  PROVE  HarqSafe'
<1> USE HarqAssumption DEF HarqSafe, HarqTick, Delay
<1>1. Buffer' = Buffer
  BY DEF Buffer
<1>2. \A p \in PDU : age'[p] = IF p \in Buffer THEN age[p] + 1 ELSE age[p]
  OBVIOUS
<1>3. event = 1 /\ event' = 0 /\ \A p \in Buffer : p \in PDU /\ age[p] = 0
  BY DEF HarqTypeOK, DecodedInTime, Buffer
<1>4. HarqTypeOK'
  BY <1>2, <1>3 DEF HarqTypeOK
<1>5. DecodedInTime' /\ PendingIffBuffered'
  BY <1>1, <1>2, <1>3 DEF DecodedInTime, PendingIffBuffered
<1>6. DeliveredOnce'
  BY DEF DeliveredOnce
<1> QED BY <1>4, <1>5, <1>6

\* In every reachable state of doOnData and deliverReceived the variables have
\* their types, an event is pending exactly while something is buffered, fires
\* in time for it, and no PDU goes up twice or after it was given up.
THEOREM HarqIsSafe == HarqSpec => []HarqSafe
<1>1. HarqSafe /\ [HarqNext]_harqVars => HarqSafe'
  <2> SUFFICES ASSUME HarqSafe, [HarqNext]_harqVars PROVE HarqSafe'
    OBVIOUS
  <2>1. ASSUME NEW p \in PDU, OnData(p) PROVE HarqSafe'
    BY <2>1, OnDataStep
  <2>2. ASSUME NEW p \in PDU, OnTimeSlot(p) PROVE HarqSafe'
    BY <2>2, OnTimeSlotStep
  <2>3. CASE DeliverReceived
    BY <2>3, DeliverReceivedStep
  <2>4. CASE HarqTick
    BY <2>4, TickStep
  <2>5. CASE UNCHANGED harqVars
    BY <2>5 DEF harqVars, HarqSafe, HarqTypeOK, PendingIffBuffered, DecodedInTime, DeliveredOnce,
       Buffer
  <2> QED BY <2>1, <2>2, <2>3, <2>4, <2>5 DEF HarqNext
<1> QED BY <1>1, HarqStart, PTL DEF HarqSpec, HarqSafe

---------------------------------------------------------------------------
(*************************************************************************)
(* Sums over finite sets, as MapThenSumSet takes them: it is defined by a *)
(* recursion that takes away an element the definition chooses, and they go *)
(* by any element.                                                       *)
(*************************************************************************)

\* f gives the sum of the weights w of every subset of B, by that recursion.
Adds(w, B, f) ==
  f = [s \in SUBSET B |->
        IF s = {} THEN 0
        ELSE w[CHOOSE x \in s : TRUE] + f[s \ {CHOOSE x \in s : TRUE}]]

\* A nonempty set of subsets of a finite set has a member none of which is
\* properly contained in it: induction over finite sets, as a fact on sets.
LEMMA SmallestSubset ==
  ASSUME NEW B, IsFiniteSet(B), NEW U \in SUBSET (SUBSET B), U # {}
  PROVE  \E T \in U : \A S \in U : S \subseteq T => S = T
<1> DEFINE R == StrictSubsetOrdering(B)
<1>1. U \subseteq FiniteSubsetsOf(B)
  BY FS_Subset DEF FiniteSubsetsOf
<1>2. PICK T \in U : \A S \in U : ~ (<<S, T>> \in R)
  <2> HIDE DEF R
  <2>1. IsWellFoundedOn(R, FiniteSubsetsOf(B))
    BY FS_StrictSubsetOrderingWellFounded DEF R
  <2> QED BY <1>1, <2>1, WFMin
<1> QED BY <1>2 DEF StrictSubsetOrdering

\* The recursion has one solution, whatever set it is started from.
LEMMA AddsOnce ==
  ASSUME NEW B, IsFiniteSet(B), NEW C \in SUBSET B, NEW w, NEW f, NEW g,
         Adds(w, B, f), Adds(w, C, g), NEW D \in SUBSET C
  PROVE  f[D] = g[D]
<1> DEFINE U == {s \in SUBSET C : f[s] # g[s]}
<1> SUFFICES ASSUME U # {} PROVE FALSE
  OBVIOUS
<1>1. PICK T \in U : \A S \in U : S \subseteq T => S = T
  <2>1. U \in SUBSET (SUBSET C) /\ IsFiniteSet(C)
    BY FS_Subset
  <2> HIDE DEF U
  <2> QED BY <2>1, SmallestSubset
<1>2. T \in SUBSET C /\ T \in SUBSET B /\ f[T] # g[T]
  OBVIOUS
<1>3. T # {}
  BY <1>2 DEF Adds
<1> DEFINE x == CHOOSE x \in T : TRUE
<1>4. f[T] = w[x] + f[T \ {x}] /\ g[T] = w[x] + g[T \ {x}]
  BY <1>2, <1>3 DEF Adds
<1>5. x \in T
  BY <1>3
<1> HIDE DEF x
<1>6. f[T \ {x}] = g[T \ {x}]
  BY <1>1, <1>2, <1>5
<1> QED BY <1>2, <1>4, <1>6

\* And there is one: each proper subset has its own, and they agree.
LEMMA AddsExists ==
  ASSUME NEW B, IsFiniteSet(B), NEW w
  PROVE  \E f : Adds(w, B, f)
<1> DEFINE U == {D \in SUBSET B : ~ \E f : Adds(w, D, f)}
<1> SUFFICES ASSUME U # {} PROVE FALSE
  OBVIOUS
<1>1. PICK T \in U : \A S \in U : S \subseteq T => S = T
  <2>1. U \in SUBSET (SUBSET B)
    OBVIOUS
  <2> HIDE DEF U
  <2> QED BY <2>1, SmallestSubset
<1>2. T \in SUBSET B /\ IsFiniteSet(T) /\ ~ \E f : Adds(w, T, f)
  BY FS_Subset
<1> DEFINE at(s) == (CHOOSE f : Adds(w, s, f))[s]
           g == [s \in SUBSET T |->
                  IF s = {} THEN 0
                  ELSE w[CHOOSE x \in s : TRUE] + at(s \ {CHOOSE x \in s : TRUE})]
<1>3. ASSUME NEW s \in SUBSET T, s # T PROVE Adds(w, s, CHOOSE f : Adds(w, s, f))
  <2>1. \E f : Adds(w, s, f)
    BY <1>1, <1>2, <1>3
  <2> QED BY <2>1
<1>4. ASSUME NEW s \in SUBSET T, s # T PROVE at(s) = g[s]
  <2> DEFINE f == CHOOSE f : Adds(w, s, f)
             x == CHOOSE x \in s : TRUE
             h == CHOOSE h : Adds(w, s \ {x}, h)
  <2>1. Adds(w, s, f)
    BY <1>3, <1>4
  <2>2. CASE s = {}
    BY <2>1, <2>2 DEF Adds
  <2>3. CASE s # {}
    <3>1. x \in s
      BY <2>3
    <3>2. Adds(w, s \ {x}, h)
      <4>1. s \ {x} \in SUBSET T /\ s \ {x} # T
        BY <1>4, <3>1
      <4> HIDE DEF x
      <4> QED BY <1>3, <4>1
    <3>3. at(s) = w[x] + f[s \ {x}]
      BY <2>1, <2>3 DEF Adds
    <3>4. f[s \ {x}] = h[s \ {x}]
      <4>1. IsFiniteSet(s) /\ s \ {x} \in SUBSET s /\ s \ {x} \in SUBSET (s \ {x})
        BY <1>2, FS_Subset
      <4> HIDE DEF f, x, h
      <4> QED BY <2>1, <3>2, <4>1, AddsOnce
    <3>5. g[s] = w[x] + at(s \ {x})
      BY <2>3
    <3>6. at(s \ {x}) = h[s \ {x}]
      OBVIOUS
    <3> QED BY <3>3, <3>4, <3>5, <3>6
  <2> QED BY <2>2, <2>3
<1>5. ASSUME NEW s \in SUBSET T, s # {}
      PROVE  g[s] = w[CHOOSE x \in s : TRUE] + g[s \ {CHOOSE x \in s : TRUE}]
  <2> DEFINE x == CHOOSE x \in s : TRUE
  <2>1. g[s] = w[x] + at(s \ {x})
    BY <1>5
  <2>2. x \in s
    BY <1>5
  <2> HIDE DEF g, at, x
  <2>3. at(s \ {x}) = g[s \ {x}]
    BY <1>4, <2>2
  <2> QED BY <2>1, <2>3 DEF x
<1>6. g[{}] = 0
  OBVIOUS
<1>7. g = [s \in SUBSET T |-> g[s]]
  OBVIOUS
<1> HIDE DEF g
<1>8. g = [s \in SUBSET T |->
            IF s = {} THEN 0
            ELSE w[CHOOSE x \in s : TRUE] + g[s \ {CHOOSE x \in s : TRUE}]]
  BY <1>5, <1>6, <1>7
<1>9. Adds(w, T, g)
  BY <1>8 DEF Adds
<1> QED BY <1>2, <1>9

\* The sum goes by any element, and is a natural number.
LEMMA AddsAnyOrder ==
  ASSUME NEW B, IsFiniteSet(B), NEW w, \A x \in B : w[x] \in Nat, NEW f, Adds(w, B, f),
         NEW D \in SUBSET B
  PROVE  f[D] \in Nat /\ \A y \in D : f[D] = w[y] + f[D \ {y}]
<1> DEFINE Good(s) == f[s] \in Nat /\ \A y \in s : f[s] = w[y] + f[s \ {y}]
           U == {s \in SUBSET B : ~ Good(s)}
<1> SUFFICES ASSUME U # {} PROVE FALSE
  OBVIOUS
<1>1. PICK T \in U : \A S \in U : S \subseteq T => S = T
  <2>1. U \in SUBSET (SUBSET B)
    OBVIOUS
  <2> HIDE DEF U
  <2> QED BY <2>1, SmallestSubset
<1>2. T \in SUBSET B /\ ~ Good(T)
  OBVIOUS
<1>3. ASSUME NEW s \in SUBSET T, s # T PROVE Good(s)
  <2> HIDE DEF Good
  <2> QED BY <1>1, <1>2, <1>3
<1>4. CASE T = {}
  <2>1. f[T] = 0
    BY <1>2, <1>4 DEF Adds
  <2> QED BY <1>2, <1>4, <2>1
<1>5. CASE T # {}
  <2> DEFINE x == CHOOSE x \in T : TRUE
  <2>1. f[T] = w[x] + f[T \ {x}]
    BY <1>2, <1>5 DEF Adds
  <2>2. x \in T
    BY <1>5
  <2> HIDE DEF x
  <2>3. w[x] \in Nat /\ T \ {x} \in SUBSET T /\ T \ {x} # T
    BY <1>2, <2>2
  <2>4. Good(T \ {x})
    BY <1>3, <2>3
  <2>5. ASSUME NEW y \in T PROVE f[T] = w[y] + f[T \ {y}]
    <3>1. CASE y = x
      BY <2>1, <3>1
    <3>2. CASE y # x
      <4>1. T \ {y} \in SUBSET T /\ T \ {y} # T /\ x \in T \ {y} /\ y \in T \ {x}
        BY <2>2, <3>2
      <4>2. Good(T \ {y})
        BY <1>3, <4>1
      <4>3. (T \ {x}) \ {y} = (T \ {y}) \ {x}
        OBVIOUS
      <4> DEFINE R == (T \ {y}) \ {x}
      <4>4. f[T \ {x}] = w[y] + f[R]
        BY <2>4, <4>1, <4>3
      <4>5. f[T \ {y}] = w[x] + f[R]
        BY <4>1, <4>2
      <4>6. R \in SUBSET T /\ R # T
        BY <2>2
      <4>7. f[R] \in Nat
        BY <1>3, <4>6
      <4>8. w[y] \in Nat
        BY <1>2
      <4> HIDE DEF R
      <4> QED BY <2>1, <2>3, <4>4, <4>5, <4>7, <4>8
    <3> QED BY <3>1, <3>2
  <2>6. f[T] \in Nat
    BY <2>1, <2>3, <2>4
  <2> QED BY <1>2, <2>5, <2>6
<1> QED BY <1>4, <1>5

---------------------------------------------------------------------------
(*************************************************************************)
(* SlotInterference.  The invariant remembers of every burst when it was *)
(* overheard, so that the sums are known to be of one slot each.         *)
(*************************************************************************)

PowerOf(B) == [b \in B |-> Power[b.cell]]

\* Total is a sum of these weights.
LEMMA TotalIs ==
  ASSUME NEW C, IsFiniteSet(C), NEW B \in SUBSET C
  PROVE  \E f : Adds(PowerOf(C), B, f) /\ Total(B) = f[B]
<1> DEFINE Step(s, h) == IF s = {} THEN 0
                         ELSE Power[(CHOOSE x \in s : TRUE).cell] + h[s \ {CHOOSE x \in s : TRUE}]
           iter == CHOOSE h : h = [s \in SUBSET B |-> Step(s, h)]
<1>1. Total(B) = iter[B]
  BY DEF Total, MapThenSumSet, MapThenFoldSet
<1>2. ASSUME NEW h, NEW s \in SUBSET B
      PROVE  (IF s = {} THEN 0
              ELSE PowerOf(C)[CHOOSE x \in s : TRUE] + h[s \ {CHOOSE x \in s : TRUE}]) = Step(s, h)
  <2>1. s # {} => (CHOOSE x \in s : TRUE) \in C
    OBVIOUS
  <2> QED BY <2>1 DEF PowerOf
<1>3. ASSUME NEW h PROVE Adds(PowerOf(C), B, h) <=> h = [s \in SUBSET B |-> Step(s, h)]
  <2> HIDE DEF Step
  <2> QED BY <1>2 DEF Adds
<1>4. \E h : Adds(PowerOf(C), B, h)
  <2>1. IsFiniteSet(B)
    BY FS_Subset
  <2> QED BY <2>1, AddsExists
<1>5. iter = [s \in SUBSET B |-> Step(s, iter)]
  <2> HIDE DEF Step
  <2> QED BY <1>3, <1>4
<1> HIDE DEF iter, Step
<1> QED BY <1>1, <1>3, <1>5

\* One more burst adds its power.
LEMMA TotalAdds ==
  ASSUME NEW B, IsFiniteSet(B), NEW x, x \notin B, \A b \in B \cup {x} : b.cell \in Cell
  PROVE  Total(B) \in Nat /\ Total(B \cup {x}) = Total(B) + Power[x.cell]
<1> DEFINE C == B \cup {x}
<1>1. IsFiniteSet(C) /\ B \in SUBSET C /\ C \in SUBSET C /\ x \in C /\ C \ {x} = B /\ B \in SUBSET B
  BY FS_AddElement
<1>2. PICK f : Adds(PowerOf(C), C, f) /\ Total(C) = f[C]
  BY <1>1, TotalIs
<1>3. PICK g : Adds(PowerOf(C), B, g) /\ Total(B) = g[B]
  BY <1>1, TotalIs
<1>4. f[B] = g[B]
  <2> HIDE DEF C
  <2> QED BY <1>1, <1>2, <1>3, AddsOnce
<1>5. \A b \in C : PowerOf(C)[b] \in Nat
  BY SlotAssumption DEF PowerOf
<1>6. f[C] \in Nat /\ f[B] \in Nat /\ f[C] = PowerOf(C)[x] + f[B]
  <2> DEFINE w == PowerOf(C)
  <2> HIDE DEF C, w
  <2>1. \A b \in C : w[b] \in Nat
    BY <1>5 DEF w
  <2>2. Adds(w, C, f)
    BY <1>2 DEF w
  <2>3. f[B] \in Nat
    BY <1>1, <2>1, <2>2, AddsAnyOrder
  <2>4. IsFiniteSet(C) /\ C \in SUBSET C
    BY <1>1
  <2>5. f[C] \in Nat
    BY <2>1, <2>2, <2>4, AddsAnyOrder
  <2>6. \A y \in C : f[C] = w[y] + f[C \ {y}]
    BY <2>1, <2>2, <2>4, AddsAnyOrder
  <2> QED BY <1>1, <2>3, <2>5, <2>6 DEF w
<1>7. PowerOf(C)[x] = Power[x.cell] /\ Power[x.cell] \in Nat
  BY <1>1, SlotAssumption DEF PowerOf
<1> QED BY <1>2, <1>3, <1>4, <1>6, <1>7

LEMMA TotalOfNone == Total({}) = 0
<1>1. PICK f : Adds(PowerOf({}), {}, f) /\ Total({}) = f[{}]
  BY TotalIs, FS_EmptySet
<1> QED BY <1>1 DEF Adds

---------------------------------------------------------------------------
Burst == [frameNumber : Nat, slot : 0..(UplinkSlots - 1), cell : Cell]

\* When slot s of frame f is, in slots.
At(f, s) == f * UplinkSlots + s
When(b) == At(b.frameNumber, b.slot)

\* Nothing overheard is later than now, and a cell's burst is overheard once.
HeardByNow ==
  \A o \in overheard :
    /\ When(o) <= At(frameNumber, slot)
    /\ o.frameNumber = frameNumber /\ o.slot = slot => o.cell \in sent

\* The sum is of the current slot, and nothing of another slot was overheard
\* since it was begun.
CountedIsOneSlot ==
  /\ counted \subseteq overheard
  /\ lastInterferenceSlot = NoSlot => counted = {}
  /\ \A b \in counted : b.slot = lastInterferenceSlot
  /\ \A b \in counted : \A o \in overheard :
       o.slot # lastInterferenceSlot => When(o) < When(b)

\* What is stored is over.
StoredIsOver == \A n \in DOMAIN storedFrom : storedFrom[n] \cap counted = {}

SlotInv ==
  /\ SlotSafe
  /\ overheard \subseteq Burst /\ IsFiniteSet(overheard)
  /\ storedFrom \in Seq(SUBSET overheard)
  /\ HeardByNow
  /\ CountedIsOneSlot
  /\ StoredIsOver

\* Slots come one after the other, those of a frame before those of the next.
LEMMA AtOrders ==
  ASSUME NEW f \in Nat, NEW g \in Nat, NEW s \in 0..(UplinkSlots - 1), NEW t \in 0..(UplinkSlots - 1)
  PROVE  /\ At(f, s) \in Nat
         /\ f < g => At(f, s) < At(g, t)
         /\ At(f, s) = At(g, t) => f = g /\ s = t
         /\ At(f, s) < At(f, t) <=> s < t
<1>1. UplinkSlots \in Nat \ {0} /\ f * UplinkSlots \in Nat /\ g * UplinkSlots \in Nat
  BY SlotAssumption
<1>2. ASSUME NEW m \in Nat, NEW n \in Nat, m < n
      PROVE  m * UplinkSlots + UplinkSlots <= n * UplinkSlots
  <2>1. n = m + 1 + (n - (m + 1)) /\ n - (m + 1) \in Nat
    BY <1>2
  <2>2. n * UplinkSlots = m * UplinkSlots + UplinkSlots + (n - (m + 1)) * UplinkSlots
    BY <1>1, <2>1
  <2>3. (n - (m + 1)) * UplinkSlots \in Nat /\ m * UplinkSlots \in Nat
    BY <1>1, <2>1
  <2> QED BY <1>1, <2>2, <2>3
<1>3. \A m, n \in Nat : \A i, j \in 0..(UplinkSlots - 1) : m < n => At(m, i) < At(n, j)
  <2> SUFFICES ASSUME NEW m \in Nat, NEW n \in Nat, NEW i \in 0..(UplinkSlots - 1),
                      NEW j \in 0..(UplinkSlots - 1), m < n
               PROVE  At(m, i) < At(n, j)
    OBVIOUS
  <2>1. m * UplinkSlots + UplinkSlots <= n * UplinkSlots
    BY <1>2
  <2>2. m * UplinkSlots \in Nat /\ n * UplinkSlots \in Nat
    BY <1>1
  <2> QED BY <1>1, <2>1, <2>2 DEF At
<1>4. At(f, s) \in Nat /\ At(g, t) \in Nat /\ At(f, t) \in Nat
  BY <1>1 DEF At
<1>5. At(f, s) < At(f, t) <=> s < t
  BY <1>1 DEF At
<1>6. At(f, s) = At(g, t) => f = g
  BY <1>3, <1>4
<1>7. f = g /\ At(f, s) = At(g, t) => s = t
  BY <1>1 DEF At
<1> QED BY <1>3, <1>4, <1>5, <1>6, <1>7

LEMMA AtNat == ASSUME NEW f \in Nat, NEW s \in 0..(UplinkSlots - 1) PROVE At(f, s) \in Nat
BY AtOrders

LEMMA SlotStart == SlotInit => SlotInv
<1> SUFFICES ASSUME SlotInit PROVE SlotInv
  OBVIOUS
<1> USE SlotAssumption DEF SlotInit
<1>1. SlotTypeOK
  BY DEF SlotTypeOK, NoSlot, Silence
<1>2. StoredIsOneSlot
  BY DEF StoredIsOneSlot
<1>3. NothingIsMissed
  <2>1. interferenceForSlot = Total(counted)
    BY TotalOfNone DEF Silence
  <2>2. UNION {storedFrom[n] : n \in DOMAIN stored} = {} /\ DOMAIN stored = {}
    OBVIOUS
  <2> QED BY <2>1, <2>2 DEF NothingIsMissed
<1>4. HeardByNow /\ CountedIsOneSlot /\ StoredIsOver
  BY DEF HeardByNow, CountedIsOneSlot, StoredIsOver
<1>5. IsFiniteSet(overheard) /\ storedFrom \in Seq(SUBSET overheard)
  BY FS_EmptySet
<1> QED BY <1>1, <1>2, <1>3, <1>4, <1>5 DEF SlotInv, SlotSafe, Burst

\* The sums stay what they were when nothing is measured.
LEMMA SumsStay ==
  ASSUME SlotInv,
         UNCHANGED <<lastInterferenceSlot, interferenceForSlot, stored, counted, storedFrom, overheard>>
  PROVE  StoredIsOneSlot' /\ NothingIsMissed' /\ CountedIsOneSlot' /\ StoredIsOver'
<1>1. StoredIsOneSlot'
  BY DEF SlotInv, SlotSafe, StoredIsOneSlot
<1>2. NothingIsMissed'
  BY DEF SlotInv, SlotSafe, NothingIsMissed
<1>3. CountedIsOneSlot' /\ StoredIsOver'
  BY DEF SlotInv, CountedIsOneSlot, StoredIsOver
<1> QED BY <1>1, <1>2, <1>3

\* The clock moves on past everything that was overheard.
LEMMA NextSlotStep == SlotInv /\ NextSlot => SlotInv'
<1> SUFFICES ASSUME SlotInv, NextSlot PROVE SlotInv'
  OBVIOUS
<1>1. UNCHANGED <<lastInterferenceSlot, interferenceForSlot, stored, counted, storedFrom, overheard>>
  BY DEF NextSlot
<1>2. /\ frameNumber \in Nat /\ slot \in 0..(UplinkSlots - 1) /\ UplinkSlots \in Nat \ {0}
      /\ frameNumber' \in 1..MaxFramesHeard /\ slot' \in 0..(UplinkSlots - 1) /\ sent' = {}
      /\ \/ slot' = slot + 1 /\ frameNumber' = frameNumber
         \/ slot' = 0 /\ frameNumber' = frameNumber + 1
  <2>1. frameNumber \in 1..MaxFramesHeard /\ slot \in 0..(UplinkSlots - 1) /\ UplinkSlots \in Nat \ {0}
        /\ MaxFramesHeard \in Nat
    BY SlotAssumption DEF SlotInv, SlotSafe, SlotTypeOK
  <2>2. CASE slot + 1 < UplinkSlots
    <3>1. (slot + 1) % UplinkSlots = slot + 1
      BY <2>1, <2>2
    <3> QED BY <2>1, <2>2, <3>1, SlotAssumption DEF SlotInv, SlotSafe, SlotTypeOK, NextSlot
  <2>3. CASE slot + 1 = UplinkSlots
    <3>1. (slot + 1) % UplinkSlots = 0
      BY <2>1, <2>3
    <3> QED BY <2>1, <2>3, <3>1, SlotAssumption DEF SlotInv, SlotSafe, SlotTypeOK, NextSlot
  <2> QED BY <2>1, <2>2, <2>3
<1>3. At(frameNumber, slot) < At(frameNumber', slot')
  <2>1. CASE slot' = slot + 1 /\ frameNumber' = frameNumber
    <3>1. slot < slot'
      BY <1>2, <2>1
    <3> QED BY <1>2, <2>1, <3>1, AtOrders
  <2>2. CASE slot' = 0 /\ frameNumber' = frameNumber + 1
    <3>1. frameNumber < frameNumber' /\ frameNumber' \in Nat
      BY <1>2, <2>2
    <3> QED BY <1>2, <3>1, AtOrders
  <2> QED BY <1>2, <2>1, <2>2
<1>4. SlotTypeOK'
  BY <1>1, <1>2 DEF SlotInv, SlotSafe, SlotTypeOK
<1>5. StoredIsOneSlot' /\ NothingIsMissed' /\ CountedIsOneSlot' /\ StoredIsOver'
  BY <1>1, SumsStay
<1>6. HeardByNow'
  <2> SUFFICES ASSUME NEW o \in overheard
               PROVE  /\ When(o) <= At(frameNumber', slot')
                      /\ ~ (o.frameNumber = frameNumber' /\ o.slot = slot')
    BY <1>1 DEF HeardByNow, When
  <2>1. When(o) <= At(frameNumber, slot) /\ o.frameNumber \in Nat /\ o.slot \in 0..(UplinkSlots - 1)
    BY DEF SlotInv, HeardByNow, Burst
  <2>2. When(o) \in Nat /\ At(frameNumber, slot) \in Nat /\ At(frameNumber', slot') \in Nat
    <3>1. When(o) \in Nat
      BY <2>1, AtNat DEF When
    <3>2. At(frameNumber, slot) \in Nat
      BY <1>2, AtNat
    <3>3. frameNumber' \in Nat /\ slot' \in 0..(UplinkSlots - 1)
      BY <1>2
    <3>4. At(frameNumber', slot') \in Nat
      BY <3>3, AtNat
    <3> QED BY <3>1, <3>2, <3>4
  <2> QED BY <1>3, <2>1, <2>2 DEF When
<1>7. overheard' \subseteq Burst /\ IsFiniteSet(overheard') /\ storedFrom' \in Seq(SUBSET overheard')
  BY <1>1 DEF SlotInv
<1> QED BY <1>4, <1>5, <1>6, <1>7 DEF SlotInv, SlotSafe

\* What is overheard in a slot that no sum belongs to.
LEMMA NotMeasuredStep ==
  ASSUME SlotInv, NEW c \in Cell, NEW b \in {0, 1}, NEW k \in {slot, NoSlot},
         Overhear(c, k, b), ~ Measured(k, b)
  PROVE  SlotInv'
<1>1. /\ UNCHANGED <<frameNumber, slot, lastInterferenceSlot, interferenceForSlot, stored, counted,
                     storedFrom, overheard>>
      /\ sent' = sent \cup {c}
  BY DEF Overhear, Measured
<1>2. SlotTypeOK'
  BY <1>1 DEF SlotInv, SlotSafe, SlotTypeOK
<1>3. StoredIsOneSlot' /\ NothingIsMissed' /\ CountedIsOneSlot' /\ StoredIsOver'
  BY <1>1, SumsStay
<1>4. HeardByNow'
  BY <1>1 DEF SlotInv, HeardByNow, When, At
<1> QED BY <1>1, <1>2, <1>3, <1>4 DEF SlotInv, SlotSafe

\* A measured burst is new, and now.
LEMMA NewBurst ==
  ASSUME SlotInv, NEW c \in Cell \ sent
  PROVE  LET b == [frameNumber |-> frameNumber, slot |-> slot, cell |-> c]
         IN  /\ b \in Burst /\ b \notin overheard
             /\ When(b) = At(frameNumber, slot)
             /\ \A o \in overheard : /\ When(o) \in Nat /\ When(b) \in Nat /\ When(o) <= When(b)
                                     /\ o.slot # slot => When(o) < When(b)
<1> DEFINE b == [frameNumber |-> frameNumber, slot |-> slot, cell |-> c]
<1>1. b.frameNumber = frameNumber /\ b.slot = slot /\ b.cell = c
  OBVIOUS
<1>2. frameNumber \in Nat /\ slot \in 0..(UplinkSlots - 1)
  BY SlotAssumption DEF SlotInv, SlotSafe, SlotTypeOK
<1>3. b \in Burst
  BY <1>2 DEF Burst
<1> HIDE DEF b
<1>4. b \notin overheard
  BY <1>1 DEF SlotInv, HeardByNow
<1>5. When(b) = At(frameNumber, slot) /\ When(b) \in Nat
  BY <1>1, <1>2, AtNat DEF When
<1>6. ASSUME NEW o \in overheard
      PROVE  /\ When(o) \in Nat /\ When(o) <= When(b)
             /\ o.slot # slot => When(o) < When(b)
  <2>1. o.frameNumber \in Nat /\ o.slot \in 0..(UplinkSlots - 1)
    BY DEF SlotInv, Burst
  <2>2. When(o) \in Nat
    BY <2>1, AtNat DEF When
  <2>3. When(o) <= When(b)
    BY <1>5 DEF SlotInv, HeardByNow
  <2>4. When(o) = When(b) => o.slot = slot
    <3> SUFFICES ASSUME At(o.frameNumber, o.slot) = At(frameNumber, slot) PROVE o.slot = slot
      BY <1>5 DEF When
    <3> QED BY <1>2, <2>1, AtOrders
  <2> QED BY <1>5, <2>2, <2>3, <2>4
<1> QED BY <1>3, <1>4, <1>5, <1>6 DEF b

\* What a measured burst b leaves of the rest: the clock, and what was heard.
LEMMA MeasuredRest ==
  ASSUME SlotInv, NEW c \in Cell, Overhear(c, slot, 0), NEW b,
         b = [frameNumber |-> frameNumber, slot |-> slot, cell |-> c]
  PROVE  /\ UNCHANGED <<frameNumber, slot>>
         /\ sent' = sent \cup {c} /\ sent' \subseteq Cell
         /\ slot \in 0..(UplinkSlots - 1)
         /\ lastInterferenceSlot' = slot
         /\ overheard' = overheard \cup {b}
         /\ counted' = (IF slot # lastInterferenceSlot THEN {} ELSE counted) \cup {b}
         /\ interferenceForSlot' = Sum(slot, Power[c])
         /\ Store(slot)
         /\ overheard' \subseteq Burst /\ IsFiniteSet(overheard')
         /\ HeardByNow'
<1>1. slot \in 0..(UplinkSlots - 1) /\ sent \subseteq Cell /\ frameNumber \in Nat
  BY SlotAssumption DEF SlotInv, SlotSafe, SlotTypeOK
<1>2. Measured(slot, 0)
  BY <1>1, SlotAssumption DEF Measured
<1>3. /\ UNCHANGED <<frameNumber, slot>>
      /\ sent' = sent \cup {c} /\ c \notin sent
      /\ lastInterferenceSlot' = slot
      /\ counted' = (IF slot # lastInterferenceSlot THEN {} ELSE counted) \cup {b}
      /\ interferenceForSlot' = Sum(slot, Power[c])
      /\ Store(slot)
      /\ overheard' = overheard \cup {b}
  BY <1>1, <1>2, SlotAssumption DEF Overhear
<1>4. /\ b \in Burst /\ When(b) = At(frameNumber, slot) /\ When(b) \in Nat
      /\ b.frameNumber = frameNumber /\ b.slot = slot /\ b.cell = c
  <2>1. b \in Burst /\ When(b) = At(frameNumber, slot)
    BY <1>3, NewBurst
  <2> QED BY <1>1, <2>1, AtNat
<1>5. overheard' \subseteq Burst /\ IsFiniteSet(overheard')
  BY <1>3, <1>4, FS_AddElement DEF SlotInv
<1>6. HeardByNow'
  <2> SUFFICES ASSUME NEW o \in overheard'
               PROVE  /\ When(o) <= At(frameNumber, slot)
                      /\ o.frameNumber = frameNumber /\ o.slot = slot => o.cell \in sent'
    BY <1>3 DEF HeardByNow, When, At
  <2>1. CASE o = b
    BY <1>3, <1>4, <2>1
  <2>2. CASE o \in overheard
    BY <1>3, <2>2 DEF SlotInv, HeardByNow
  <2> QED BY <1>3, <2>1, <2>2
<1> QED BY <1>1, <1>3, <1>5, <1>6

\* Nothing of H in another slot than s lies between two bursts of B.
NotInterrupted(B, s, H) ==
  \A x, d \in B : x.frameNumber < d.frameNumber =>
    ~ \E o \in H : o.slot # s /\ When(o) \in When(x)..When(d)

\* The sums st of the bursts from are right, each for its slot.
EachOneSlot(st, from, H) ==
  \A n \in DOMAIN st :
    /\ st[n].sum = Total(from[n])
    /\ \A x \in from[n] : x.slot = st[n].slot
    /\ NotInterrupted(from[n], st[n].slot, H)

LEMMA StoredIs ==
  /\ StoredIsOneSlot <=> EachOneSlot(stored, storedFrom, overheard)
  /\ StoredIsOneSlot' <=> EachOneSlot(stored', storedFrom', overheard')
BY DEF StoredIsOneSlot, EachOneSlot, NotInterrupted, When, At

\* A new burst interrupts nothing that is over.
LEMMA HeardLater ==
  ASSUME NEW H, NEW B \in SUBSET H, NEW s, NEW b,
         \A x \in B : x.slot = s, NotInterrupted(B, s, H),
         \A o \in H : /\ When(o) \in Nat /\ When(b) \in Nat /\ When(o) <= When(b)
                      /\ o.slot # b.slot => When(o) < When(b)
  PROVE  NotInterrupted(B, s, H \cup {b})
<1> SUFFICES ASSUME NEW x \in B, NEW d \in B, x.frameNumber < d.frameNumber,
                    b.slot # s, When(b) \in When(x)..When(d)
             PROVE  FALSE
  BY DEF NotInterrupted
<1>1. d.slot # b.slot /\ d \in H /\ x \in H
  OBVIOUS
<1>2. When(d) < When(b)
  BY <1>1
<1>3. When(d) \in Nat /\ When(b) \in Nat /\ When(x) \in Nat
  BY <1>1
<1> QED BY <1>2, <1>3

\* The sum goes on within its slot.
LEMMA GoesOnStep ==
  ASSUME SlotInv, NEW c \in Cell, Overhear(c, slot, 0), slot = lastInterferenceSlot
  PROVE  SlotInv'
<1> DEFINE b == [frameNumber |-> frameNumber, slot |-> slot, cell |-> c]
<1>1. b.slot = slot /\ b.cell = c
  OBVIOUS
<1>2. /\ UNCHANGED <<frameNumber, slot>>
      /\ sent' = sent \cup {c} /\ sent' \subseteq Cell
      /\ slot \in 0..(UplinkSlots - 1)
      /\ lastInterferenceSlot' = slot
      /\ overheard' = overheard \cup {b}
      /\ counted' = counted \cup {b}
      /\ interferenceForSlot' = Sum(slot, Power[c])
      /\ Store(slot)
      /\ overheard' \subseteq Burst /\ IsFiniteSet(overheard')
      /\ HeardByNow'
  BY MeasuredRest
<1>3. /\ b \notin overheard
      /\ \A o \in overheard : o.slot # slot => When(o) < When(b)
      /\ \A o \in overheard : When(o) \in Nat /\ When(b) \in Nat /\ When(o) <= When(b)
  <2>1. c \notin sent
    BY DEF Overhear
  <2> QED BY <2>1, NewBurst
<1> HIDE DEF b
<1>4. UNCHANGED <<stored, storedFrom>> /\ interferenceForSlot' = interferenceForSlot + Power[c]
  BY <1>2 DEF Store, Begun, Sum
<1>5. interferenceForSlot' = Total(counted') /\ interferenceForSlot' \in Nat
  <2>1. counted \subseteq overheard /\ IsFiniteSet(counted) /\ \A d \in counted \cup {b} : d.cell \in Cell
    BY <1>1, FS_Subset DEF SlotInv, CountedIsOneSlot, Burst
  <2>2. Total(counted) \in Nat /\ Total(counted \cup {b}) = Total(counted) + Power[b.cell]
    BY <1>3, <2>1, TotalAdds
  <2>3. interferenceForSlot = Total(counted) /\ Power[c] \in Nat
    BY SlotAssumption DEF SlotInv, SlotSafe, NothingIsMissed
  <2> QED BY <1>1, <1>2, <1>4, <2>2, <2>3
<1>6. SlotTypeOK'
  <2>1. lastInterferenceSlot' \in NoSlot..(UplinkSlots - 1)
    BY <1>2, SlotAssumption DEF NoSlot
  <2> QED BY <1>2, <1>4, <1>5, <2>1 DEF SlotInv, SlotSafe, SlotTypeOK
<1>7. storedFrom' \in Seq(SUBSET overheard')
  <2>1. SUBSET overheard \subseteq SUBSET overheard'
    BY <1>2
  <2> QED BY <1>4, <2>1 DEF SlotInv
<1>8. ASSUME NEW n \in DOMAIN stored
      PROVE  storedFrom[n] \in SUBSET overheard /\ n \in DOMAIN storedFrom
  <2>1. stored \in Seq([slot : 0..(UplinkSlots - 1), sum : Nat]) /\ Len(storedFrom) = Len(stored)
    BY DEF SlotInv, SlotSafe, SlotTypeOK
  <2>2. storedFrom \in Seq(SUBSET overheard)
    BY DEF SlotInv
  <2> QED BY <2>1, <2>2
<1>9. StoredIsOneSlot'
  <2>1. EachOneSlot(stored, storedFrom, overheard)
    BY StoredIs DEF SlotInv, SlotSafe
  <2>2. ASSUME NEW n \in DOMAIN stored
        PROVE  NotInterrupted(storedFrom[n], stored[n].slot, overheard \cup {b})
    <3>1. NotInterrupted(storedFrom[n], stored[n].slot, overheard) /\ storedFrom[n] \in SUBSET overheard
          /\ \A x \in storedFrom[n] : x.slot = stored[n].slot
      BY <1>8, <2>1 DEF EachOneSlot
    <3> QED BY <1>1, <1>3, <3>1, HeardLater
  <2>3. EachOneSlot(stored, storedFrom, overheard \cup {b})
    BY <2>1, <2>2 DEF EachOneSlot
  <2> QED BY <1>2, <1>4, <2>3, StoredIs
<1>10. NothingIsMissed' /\ StoredIsOver'
  <2>1. /\ overheard = counted \cup UNION {storedFrom[n] : n \in DOMAIN stored}
        /\ \A m, n \in DOMAIN stored : m # n => storedFrom[m] \cap storedFrom[n] = {}
    BY DEF SlotInv, SlotSafe, NothingIsMissed
  <2>2. NothingIsMissed'
    BY <1>2, <1>4, <1>5, <2>1 DEF NothingIsMissed
  <2>3. \A n \in DOMAIN storedFrom : storedFrom[n] \in SUBSET overheard
    BY DEF SlotInv
  <2>4. StoredIsOver'
    BY <1>2, <1>3, <1>4, <2>3 DEF SlotInv, StoredIsOver
  <2> QED BY <2>2, <2>4
<1>11. CountedIsOneSlot'
  <2>1. counted \subseteq overheard /\ (\A x \in counted : x.slot = slot)
        /\ \A x \in counted : \A o \in overheard : o.slot # slot => When(o) < When(x)
    BY DEF SlotInv, CountedIsOneSlot
  <2>2. counted' \subseteq overheard' /\ lastInterferenceSlot' # NoSlot
        /\ \A x \in counted' : x.slot = lastInterferenceSlot'
    BY <1>1, <1>2, <2>1, SlotAssumption DEF NoSlot
  <2>3. ASSUME NEW x \in counted \cup {b}, NEW o \in overheard \cup {b}, o.slot # slot
        PROVE  When(o) < When(x)
    BY <1>1, <1>3, <2>1, <2>3
  <2> QED BY <1>2, <2>2, <2>3 DEF CountedIsOneSlot, When, At
<1> QED BY <1>2, <1>6, <1>7, <1>9, <1>10, <1>11 DEF SlotInv, SlotSafe

\* A sum begins; that of another slot, if there is one, is stored.
LEMMA RestartStep ==
  ASSUME SlotInv, NEW c \in Cell, Overhear(c, slot, 0), slot # lastInterferenceSlot
  PROVE  SlotInv'
<1> DEFINE b == [frameNumber |-> frameNumber, slot |-> slot, cell |-> c]
<1>1. b.slot = slot /\ b.cell = c
  OBVIOUS
<1>2. /\ UNCHANGED <<frameNumber, slot>>
      /\ sent' = sent \cup {c} /\ sent' \subseteq Cell
      /\ slot \in 0..(UplinkSlots - 1)
      /\ lastInterferenceSlot' = slot
      /\ overheard' = overheard \cup {b}
      /\ counted' = {b}
      /\ interferenceForSlot' = Sum(slot, Power[c])
      /\ Store(slot)
      /\ overheard' \subseteq Burst /\ IsFiniteSet(overheard')
      /\ HeardByNow'
  BY MeasuredRest
<1>3. /\ b \notin overheard
      /\ \A o \in overheard : o.slot # slot => When(o) < When(b)
      /\ \A o \in overheard : When(o) \in Nat /\ When(b) \in Nat /\ When(o) <= When(b)
  <2>1. c \notin sent
    BY DEF Overhear
  <2> QED BY <2>1, NewBurst
<1> HIDE DEF b
<1>4. interferenceForSlot' = Total(counted') /\ interferenceForSlot' \in Nat
  <2>1. Total({}) = 0 /\ Total({} \cup {b}) = Total({}) + Power[b.cell]
    BY <1>1, TotalAdds, TotalOfNone, FS_EmptySet
  <2>2. Power[c] \in Nat /\ interferenceForSlot' = Power[c]
    BY <1>2, SlotAssumption DEF Sum, Restart, Silence
  <2> QED BY <1>1, <1>2, <2>1, <2>2
<1>5. /\ stored \in Seq([slot : 0..(UplinkSlots - 1), sum : Nat]) /\ Len(storedFrom) = Len(stored)
      /\ storedFrom \in Seq(SUBSET overheard) /\ counted \in SUBSET overheard
      /\ DOMAIN stored = DOMAIN storedFrom
      /\ interferenceForSlot \in Nat /\ interferenceForSlot = Total(counted)
      /\ lastInterferenceSlot \in NoSlot..(UplinkSlots - 1)
  <2>1. stored \in Seq([slot : 0..(UplinkSlots - 1), sum : Nat]) /\ Len(storedFrom) = Len(stored)
        /\ interferenceForSlot \in Nat /\ lastInterferenceSlot \in NoSlot..(UplinkSlots - 1)
    BY DEF SlotInv, SlotSafe, SlotTypeOK
  <2>2. storedFrom \in Seq(SUBSET overheard) /\ counted \in SUBSET overheard
        /\ interferenceForSlot = Total(counted)
    BY DEF SlotInv, SlotSafe, CountedIsOneSlot, NothingIsMissed
  <2> QED BY <2>1, <2>2
<1>6. CountedIsOneSlot'
  <2>1. counted' \subseteq overheard' /\ lastInterferenceSlot' # NoSlot
        /\ \A x \in counted' : x.slot = lastInterferenceSlot'
    BY <1>1, <1>2, SlotAssumption DEF NoSlot
  <2>2. ASSUME NEW x \in {b}, NEW o \in overheard \cup {b}, o.slot # slot PROVE When(o) < When(x)
    BY <1>1, <1>3, <2>2
  <2> QED BY <1>2, <2>1, <2>2 DEF CountedIsOneSlot, When, At
<1>7. ASSUME NEW st, NEW from, EachOneSlot(st, from, overheard),
             \A n \in DOMAIN st : from[n] \in SUBSET overheard
      PROVE  EachOneSlot(st, from, overheard \cup {b})
  <2>1. ASSUME NEW n \in DOMAIN st PROVE NotInterrupted(from[n], st[n].slot, overheard \cup {b})
    <3>1. NotInterrupted(from[n], st[n].slot, overheard) /\ from[n] \in SUBSET overheard
          /\ \A x \in from[n] : x.slot = st[n].slot
      BY <1>7 DEF EachOneSlot
    <3> QED BY <1>1, <1>3, <3>1, HeardLater
  <2> QED BY <1>7, <2>1 DEF EachOneSlot
<1>8. /\ EachOneSlot(stored, storedFrom, overheard)
      /\ overheard = counted \cup UNION {storedFrom[n] : n \in DOMAIN stored}
      /\ \A m, n \in DOMAIN stored : m # n => storedFrom[m] \cap storedFrom[n] = {}
      /\ \A n \in DOMAIN stored : storedFrom[n] \cap counted = {}
      /\ \A x \in counted : x.slot = lastInterferenceSlot
      /\ \A x \in counted : \A o \in overheard : o.slot # lastInterferenceSlot => When(o) < When(x)
  BY <1>5, StoredIs DEF SlotInv, SlotSafe, NothingIsMissed, StoredIsOver, CountedIsOneSlot
<1>9. CASE lastInterferenceSlot = NoSlot
  <2>1. UNCHANGED <<stored, storedFrom>> /\ counted = {}
    BY <1>2, <1>9 DEF Store, Begun, SlotInv, CountedIsOneSlot
  <2>2. SlotTypeOK'
    <3>1. lastInterferenceSlot' \in NoSlot..(UplinkSlots - 1)
      BY <1>2, SlotAssumption DEF NoSlot
    <3> QED BY <1>2, <1>4, <2>1, <3>1 DEF SlotInv, SlotSafe, SlotTypeOK
  <2>3. storedFrom' \in Seq(SUBSET overheard')
    <3>1. SUBSET overheard \subseteq SUBSET overheard'
      BY <1>2
    <3> QED BY <1>5, <2>1, <3>1
  <2>4. StoredIsOneSlot'
    <3>1. \A n \in DOMAIN stored : storedFrom[n] \in SUBSET overheard
      BY <1>5
    <3> QED BY <1>2, <1>7, <1>8, <2>1, <3>1, StoredIs
  <2>5. NothingIsMissed' /\ StoredIsOver'
    <3>1. \A n \in DOMAIN stored : storedFrom[n] \in SUBSET overheard
      BY <1>5
    <3>2. NothingIsMissed'
      BY <1>2, <1>4, <1>8, <2>1 DEF NothingIsMissed
    <3>3. StoredIsOver'
      BY <1>2, <1>3, <1>5, <2>1, <3>1 DEF StoredIsOver
    <3> QED BY <3>2, <3>3
  <2> QED BY <1>2, <1>6, <2>2, <2>3, <2>4, <2>5 DEF SlotInv, SlotSafe
<1>10. CASE lastInterferenceSlot # NoSlot
  <2> DEFINE e == [slot |-> lastInterferenceSlot, sum |-> interferenceForSlot]
             m == Len(stored) + 1
  <2>1. stored' = Append(stored, e) /\ storedFrom' = Append(storedFrom, counted)
    BY <1>2, <1>10 DEF Store, Begun, StoredSlot
  <2>2. e \in [slot : 0..(UplinkSlots - 1), sum : Nat]
    BY <1>5, <1>10, SlotAssumption DEF NoSlot
  <2>3. /\ m \in Nat /\ m \notin DOMAIN stored
        /\ DOMAIN stored' = DOMAIN stored \cup {m} /\ DOMAIN storedFrom' = DOMAIN stored \cup {m}
        /\ \A n \in DOMAIN stored : stored'[n] = stored[n] /\ storedFrom'[n] = storedFrom[n]
        /\ stored'[m] = e /\ storedFrom'[m] = counted
        /\ Len(stored') = Len(storedFrom')
    BY <1>5, <2>1
  <2>4. e.slot = lastInterferenceSlot /\ e.sum = Total(counted)
    BY <1>5
  <2>5. stored' \in Seq([slot : 0..(UplinkSlots - 1), sum : Nat])
    BY <1>5, <2>1, <2>2
  <2>6. storedFrom' \in Seq(SUBSET overheard')
    <3>1. SUBSET overheard \subseteq SUBSET overheard'
      BY <1>2
    <3> QED BY <1>5, <2>1, <3>1
  <2> HIDE DEF e, m
  <2>7. SlotTypeOK'
    <3>1. lastInterferenceSlot' \in NoSlot..(UplinkSlots - 1)
      BY <1>2, SlotAssumption DEF NoSlot
    <3> QED BY <1>2, <1>4, <2>3, <2>5, <3>1 DEF SlotInv, SlotSafe, SlotTypeOK
  <2>8. NotInterrupted(counted, lastInterferenceSlot, overheard)
    <3> SUFFICES ASSUME NEW x \in counted, NEW d \in counted, NEW o \in overheard,
                        o.slot # lastInterferenceSlot, When(o) \in When(x)..When(d)
                 PROVE  FALSE
      BY DEF NotInterrupted
    <3>1. When(o) < When(x) /\ When(o) \in Nat /\ When(x) \in Nat
      BY <1>3, <1>5, <1>8
    <3> QED BY <3>1
  <2>9. EachOneSlot(stored', storedFrom', overheard)
    <3> SUFFICES ASSUME NEW n \in DOMAIN stored'
                 PROVE  /\ stored'[n].sum = Total(storedFrom'[n])
                        /\ \A x \in storedFrom'[n] : x.slot = stored'[n].slot
                        /\ NotInterrupted(storedFrom'[n], stored'[n].slot, overheard)
      BY DEF EachOneSlot
    <3>1. CASE n = m
      BY <1>8, <2>3, <2>4, <2>8, <3>1
    <3>2. CASE n \in DOMAIN stored
      <4>1. stored'[n] = stored[n] /\ storedFrom'[n] = storedFrom[n]
        BY <2>3, <3>2
      <4> QED BY <1>8, <3>2, <4>1 DEF EachOneSlot
    <3> QED BY <2>3, <3>1, <3>2
  <2>10. StoredIsOneSlot'
    <3>1. \A n \in DOMAIN stored' : storedFrom'[n] \in SUBSET overheard
      BY <1>5, <2>3
    <3> QED BY <1>2, <1>7, <2>9, <3>1, StoredIs
  <2>11. NothingIsMissed'
    <3>1. \A i, j \in DOMAIN stored' : i # j => storedFrom'[i] \cap storedFrom'[j] = {}
      BY <1>8, <2>3
    <3>2. overheard' = counted' \cup UNION {storedFrom'[n] : n \in DOMAIN stored'}
      <4>1. UNION {storedFrom'[n] : n \in DOMAIN stored'}
              = counted \cup UNION {storedFrom[n] : n \in DOMAIN stored}
        BY <2>3
      <4> QED BY <1>2, <1>8, <4>1
    <3> QED BY <1>4, <3>1, <3>2 DEF NothingIsMissed
  <2>12. StoredIsOver'
    <3>1. \A n \in DOMAIN storedFrom' : storedFrom'[n] \in SUBSET overheard
      BY <1>5, <2>3
    <3> QED BY <1>2, <1>3, <3>1 DEF StoredIsOver
  <2> QED BY <1>2, <1>6, <2>6, <2>7, <2>10, <2>11, <2>12 DEF SlotInv, SlotSafe
<1> QED BY <1>9, <1>10

\* In every state of every run the sums are right, and the invariant that
\* shows it holds: it knows of every burst when it was heard.
LEMMA SlotInvariance == SlotSpec => []SlotInv
<1>1. ASSUME SlotInv, SlotNext PROVE SlotInv'
  <2>1. ASSUME NEW c \in Cell, NEW b \in {0, 1}, NEW k \in {slot, NoSlot}, Overhear(c, k, b)
        PROVE  SlotInv'
    <3>1. CASE ~ Measured(k, b)
      BY <1>1, <2>1, <3>1, NotMeasuredStep
    <3>2. CASE Measured(k, b)
      <4>1. k = slot /\ b = 0
        BY <3>2 DEF Measured, NoSlot
      <4> QED BY <1>1, <2>1, <4>1, GoesOnStep, RestartStep
    <3> QED BY <3>1, <3>2
  <2> QED BY <1>1, <2>1, NextSlotStep DEF SlotNext
<1>2. ASSUME SlotInv, UNCHANGED slotVars PROVE SlotInv'
  <2>1. StoredIsOneSlot' /\ NothingIsMissed' /\ CountedIsOneSlot' /\ StoredIsOver'
    BY <1>2, SumsStay DEF slotVars
  <2>2. SlotTypeOK' /\ HeardByNow'
    BY <1>2 DEF slotVars, SlotInv, SlotSafe, SlotTypeOK, HeardByNow, When, At
  <2> QED BY <1>2, <2>1, <2>2 DEF slotVars, SlotInv, SlotSafe
<1> QED BY <1>1, <1>2, SlotStart, PTL DEF SlotSpec

\* Each slot's interference is measured, once, and stored for this very slot,
\* for any number of slots, cells and frames (the end of PhyUser::filter).
THEOREM SlotsAlwaysSafe == SlotSpec => []SlotSafe
<1>1. SlotInv => SlotSafe
  BY DEF SlotInv
<1> QED BY <1>1, SlotInvariance, PTL

---------------------------------------------------------------------------
(*************************************************************************)
(* Sectorization.  A direction belongs to the group that the number of its *)
(* part of the circle leaves when divided by the number of sectors.      *)
(*************************************************************************)

\* Division with a rest is unique.
LEMMA Division ==
  ASSUME NEW a \in Nat, NEW b \in Nat \ {0}
  PROVE  /\ a \div b \in Nat /\ a % b \in 0..(b - 1)
         /\ b * (a \div b) \in Nat /\ a = b * (a \div b) + (a % b)
OBVIOUS

LEMMA Times ==
  ASSUME NEW m \in Nat, NEW n \in Nat, NEW b \in Nat \ {0}, m < n
  PROVE  b * m + b <= b * n
<1>1. n - (m + 1) \in Nat /\ n = m + 1 + (n - (m + 1))
  OBVIOUS
<1>2. b * n = b * m + b + b * (n - (m + 1))
  BY <1>1
<1>3. b * (n - (m + 1)) \in Nat /\ b * m \in Nat
  BY <1>1
<1> QED BY <1>2, <1>3

LEMMA DivisionOnce ==
  ASSUME NEW a \in Nat, NEW b \in Nat \ {0}, NEW q \in Nat, NEW r \in 0..(b - 1), a = b * q + r
  PROVE  q = a \div b /\ r = a % b
<1> DEFINE d == a \div b
           e == a % b
<1>1. d \in Nat /\ e \in 0..(b - 1) /\ b * d \in Nat /\ a = b * d + e
  BY Division
<1> HIDE DEF d, e
<1>2. b * q \in Nat
  OBVIOUS
<1>3. CASE q < d
  <2>1. b * q + b <= b * d
    BY <1>1, <1>3, Times
  <2> QED BY <1>1, <1>2, <2>1
<1>4. CASE d < q
  <2>1. b * d + b <= b * q
    BY <1>1, <1>4, Times
  <2> QED BY <1>1, <1>2, <2>1
<1>5. CASE q = d
  BY <1>1, <1>5 DEF d, e
<1> QED BY <1>1, <1>3, <1>4, <1>5

\* The next number is in the same class or begins the next one.
LEMMA NextDivision ==
  ASSUME NEW a \in Nat, NEW b \in Nat \ {0}
  PROVE  /\ (a + 1) % b # 0 => (a + 1) \div b = a \div b
         /\ (a + 1) % b = 0 => (a + 1) \div b = a \div b + 1
<1> DEFINE q == a \div b
           r == a % b
<1>1. q \in Nat /\ r \in 0..(b - 1) /\ b * q \in Nat /\ a = b * q + r
  BY Division
<1> HIDE DEF q, r
<1>2. CASE r + 1 < b
  <2>1. a + 1 = b * q + (r + 1) /\ r + 1 \in 0..(b - 1) /\ a + 1 \in Nat
    BY <1>1, <1>2
  <2>2. q = (a + 1) \div b /\ r + 1 = (a + 1) % b
    BY <1>1, <2>1, DivisionOnce
  <2> QED BY <1>1, <2>2 DEF q
<1>3. CASE r + 1 = b
  <2>1. b * (q + 1) = b * q + b
    BY <1>1
  <2>2. a + 1 = b * (q + 1) + 0 /\ 0 \in 0..(b - 1) /\ a + 1 \in Nat /\ q + 1 \in Nat
    BY <1>1, <1>3, <2>1
  <2>3. q + 1 = (a + 1) \div b /\ 0 = (a + 1) % b
    BY <2>2, DivisionOnce
  <2> QED BY <2>3 DEF q
<1> QED BY <1>1, <1>2, <1>3

\* A direction d is in a part of group g, of S parts of width W that are N
\* widths apart, when the number of its part says so.
LEMMA PartOf ==
  ASSUME NEW N \in Nat \ {0}, NEW S \in Nat \ {0}, NEW W \in Nat \ {0},
         NEW d \in Nat, d < (W * N) * S, NEW g \in 0..(N - 1)
  PROVE  (\E i \in 0..(S - 1) : W * g + i * (W * N) <= d /\ d < W * g + i * (W * N) + W)
           <=> (d \div W) % N = g
<1> DEFINE q == d \div W
           e == d % W
           k == q \div N
           r == q % N
<1>1. q \in Nat /\ e \in 0..(W - 1) /\ W * q \in Nat /\ d = W * q + e
  BY Division
<1>2. k \in Nat /\ r \in 0..(N - 1) /\ N * k \in Nat /\ q = N * k + r
  BY <1>1, Division
<1>3. ASSUME NEW i \in 0..(S - 1), W * g + i * (W * N) <= d, d < W * g + i * (W * N) + W
      PROVE  r = g
  <2>1. N * i \in Nat /\ W * g \in Nat /\ i * (W * N) \in Nat
    OBVIOUS
  <2>2. W * (N * i + g) = W * g + i * (W * N)
    BY <2>1
  <2>3. N * i + g \in Nat /\ d - W * (N * i + g) \in 0..(W - 1)
        /\ d = W * (N * i + g) + (d - W * (N * i + g))
    BY <1>3, <2>1, <2>2
  <2>4. N * i + g = q
    <3> HIDE DEF q
    <3> QED BY <2>3, DivisionOnce DEF q
  <2> HIDE DEF q
  <2>5. q = N * i + g /\ i \in Nat
    BY <2>4
  <2> QED BY <1>1, <2>5, DivisionOnce
<1>4. ASSUME r = g
      PROVE  k \in 0..(S - 1) /\ W * g + k * (W * N) <= d /\ d < W * g + k * (W * N) + W
  <2> HIDE DEF q, e, k, r
  <2>1. W * q = W * g + k * (W * N) /\ W * g \in Nat /\ k * (W * N) \in Nat
    BY <1>2, <1>4
  <2>2. k < S
    <3> SUFFICES ASSUME S <= k PROVE FALSE
      BY <1>2
    <3>1. W * N \in Nat \ {0}
      OBVIOUS
    <3>2. (W * N) * S <= (W * N) * k /\ (W * N) * k = k * (W * N)
      <4> DEFINE c == W * N
      <4>1. c \in Nat /\ k - S \in Nat
        BY <1>2
      <4> HIDE DEF c
      <4>2. c * k = c * S + c * (k - S) /\ c * (k - S) \in Nat /\ c * S \in Nat /\ c * k = k * c
        BY <1>2, <4>1
      <4>3. c * S <= c * k
        BY <4>1, <4>2
      <4> QED BY <4>2, <4>3 DEF c
    <3>3. k * (W * N) <= d
      BY <1>1, <2>1
    <3> QED BY <1>2, <3>1, <3>2, <3>3
  <2> QED BY <1>1, <1>2, <2>1, <2>2
<1> QED BY <1>2, <1>3, <1>4

---------------------------------------------------------------------------
\* The part of a direction, and the group that the part belongs to.
GroupOf(d) == (d \div Width) % numberOfSectors

Configured ==
  /\ numberOfSectors \in 1..MaxSectors
  /\ numberOfSubsectors \in 1..MaxSubsectors

\* The parts make the circle.
LEMMA Circle ==
  ASSUME Configured
  PROVE  /\ Width \in Nat \ {0, 1}
         /\ numberOfSectors \in Nat \ {0} /\ numberOfSubsectors \in Nat \ {0}
         /\ (Width * numberOfSectors) * numberOfSubsectors = FullCircle
         /\ FullCircle \in Nat \ {0} /\ FullCircle = 2 * (FullCircle \div 2)
<1> DEFINE N == numberOfSectors
           S == numberOfSubsectors
           h == FullCircle \div (2 * N * S)
<1>1. N \in Nat \ {0} /\ S \in Nat \ {0} /\ FullCircle \in Nat \ {0} /\ FullCircle % (2 * N * S) = 0
  <2>1. N \in 1..MaxSectors /\ S \in 1..MaxSubsectors
    BY DEF Configured
  <2> HIDE DEF N, S
  <2>2. FullCircle % (2 * N * S) = 0
    BY <2>1, SectorAssumption, Zenon
  <2> QED BY <2>1, <2>2, SectorAssumption
<1>2. FullCircle % (2 * 1 * 1) = 0
  <2>1. 1 \in 1..MaxSectors /\ 1 \in 1..MaxSubsectors
    BY SectorAssumption
  <2> QED BY <2>1, SectorAssumption
<1>3. FullCircle = 2 * (FullCircle \div 2)
  BY <1>1, <1>2
<1> HIDE DEF N, S
<1>4. N * S \in Nat \ {0} /\ 2 * N * S = 2 * (N * S)
  BY <1>1
<1>5. h \in Nat /\ FullCircle = (2 * (N * S)) * h
  <2>1. 2 * (N * S) \in Nat \ {0}
    BY <1>4
  <2>2. FullCircle \div (2 * (N * S)) \in Nat
        /\ FullCircle = (2 * (N * S)) * (FullCircle \div (2 * (N * S))) + (FullCircle % (2 * (N * S)))
    BY <1>1, <2>1, Division
  <2>3. (2 * (N * S)) * (FullCircle \div (2 * (N * S))) \in Nat
    BY <2>1, <2>2
  <2> QED BY <1>1, <1>4, <2>2, <2>3
<1> HIDE DEF h
<1>6. FullCircle = (N * S) * (2 * h) + 0 /\ 2 * h \in Nat /\ 0 \in 0..((N * S) - 1)
  BY <1>4, <1>5
<1>7. Width = 2 * h
  <2>1. 2 * h = FullCircle \div (N * S)
    BY <1>1, <1>4, <1>6, DivisionOnce
  <2> QED BY <2>1 DEF Width, N, S
<1>8. h # 0
  BY <1>1, <1>4, <1>5
<1>9. (Width * N) * S = FullCircle
  BY <1>1, <1>5, <1>6, <1>7
<1> QED BY <1>1, <1>3, <1>5, <1>7, <1>8, <1>9 DEF N, S

\* Rounding does not touch what is inside a part.
LEMMA InGroup ==
  ASSUME Configured, NEW d \in 0..(FullCircle - 1), d % Width # 0,
         NEW g \in 0..(numberOfSectors - 1)
  PROVE  InActiveGroup(d, g) <=> GroupOf(d) = g
<1> DEFINE N == numberOfSectors
           S == numberOfSubsectors
           W == Width
<1>1. /\ W \in Nat \ {0} /\ N \in Nat \ {0} /\ S \in Nat \ {0}
      /\ (W * N) * S = FullCircle /\ FullCircle \in Nat
      /\ g \in 0..(N - 1)
  BY Circle
<1>2. InActiveGroup(d, g) <=> N = 1 \/ \E i \in 0..(S - 1) : W * g + i * (W * N) <= d /\ d < W * g + i * (W * N) + W
  <2> DEFINE at(i) == W * g + i * (W * N)
  <2>1. ASSUME NEW i \in 0..(S - 1)
        PROVE  at(i) \in Int /\ d # at(i) /\ d # at(i) + W
    <3> HIDE DEF N, S, W
    <3>1. W * g \in Nat /\ i * (W * N) \in Nat /\ i * N \in Nat
      BY <1>1
    <3>2. W * (g + i * N) = at(i) /\ W * (g + i * N + 1) = at(i) + W
      BY <1>1, <3>1
    <3>3. ASSUME NEW q \in Nat, d = W * q
          PROVE  FALSE
      <4>1. d = W * q + 0 /\ 0 \in 0..(W - 1) /\ d \in Nat
        BY <1>1, <3>3
      <4>2. 0 = d % W
        BY <1>1, <4>1, DivisionOnce
      <4> QED BY <4>2 DEF W
    <3>4. g + i * N \in Nat /\ g + i * N + 1 \in Nat
      BY <1>1, <3>1
    <3> QED BY <3>1, <3>2, <3>3, <3>4
  <2>2. InActiveGroup(d, g) <=>
          \/ N = 1
          \/ \E i \in 0..(S - 1) :
               \/ at(i) < d /\ d < at(i) + W
               \/ d = at(i) /\ (d = 0 \/ foundAbove)
               \/ d = at(i) + W /\ d < FullCircle /\ foundBelow
    BY DEF InActiveGroup, Begins
  <2> HIDE DEF N, S, W
  <2>3. ASSUME NEW i \in 0..(S - 1)
        PROVE  (\/ at(i) < d /\ d < at(i) + W
                \/ d = at(i) /\ (d = 0 \/ foundAbove)
                \/ d = at(i) + W /\ d < FullCircle /\ foundBelow)
               <=> at(i) <= d /\ d < at(i) + W
    <3> HIDE DEF at
    <3> QED BY <1>1, <2>1
  <2> QED BY <2>2, <2>3
<1>3. GroupOf(d) = (d \div W) % N
  BY DEF GroupOf
<1> HIDE DEF N, S, W
<1>4. d \in Nat /\ d < (W * N) * S
  BY <1>1
<1>5. (\E i \in 0..(S - 1) : W * g + i * (W * N) <= d /\ d < W * g + i * (W * N) + W)
        <=> (d \div W) % N = g
  BY <1>1, <1>4, PartOf
<1>6. N = 1 => (d \div W) % N = g
  <2>1. d \div W \in Nat
    BY <1>1, <1>4, Division
  <2> QED BY <1>1, <2>1
<1> QED BY <1>2, <1>3, <1>5, <1>6

\* The directions of users make the circle.
LEMMA Directions ==
  ASSUME Configured
  PROVE  /\ \A u \in User : DoA(u) \in 0..FullCircle
         /\ \A u \in Clear : DoA(u) \in 0..(FullCircle - 1) /\ u \in User
         /\ \A d \in 0..(FullCircle - 1) : \E u \in User : DoA(u) = d
<1> DEFINE h == FullCircle \div 2
<1>1. FullCircle \in Nat \ {0} /\ FullCircle = 2 * h /\ h \in Int
  BY Circle
<1>2. User = (-h)..h \cup {FullCircle}
  BY DEF User
<1> HIDE DEF h
<1>3. \A u \in User : DoA(u) \in 0..FullCircle
  BY <1>1, <1>2 DEF DoA
<1>5. FullCircle % Width = 0
  <2> DEFINE N == numberOfSectors
             S == numberOfSubsectors
             W == Width
  <2>1. W \in Nat \ {0} /\ N \in Nat \ {0} /\ S \in Nat \ {0} /\ (W * N) * S = FullCircle
    BY Circle
  <2> HIDE DEF N, S, W
  <2>2. N * S \in Nat /\ (W * N) * S = W * (N * S)
    BY <2>1
  <2>3. FullCircle = W * (N * S) + 0 /\ 0 \in 0..(W - 1)
    BY <1>1, <2>1, <2>2
  <2>4. 0 = FullCircle % W
    BY <1>1, <2>1, <2>2, <2>3, DivisionOnce
  <2> QED BY <2>4 DEF W
<1>6. \A u \in Clear : DoA(u) \in 0..(FullCircle - 1) /\ u \in User
  <2> SUFFICES ASSUME NEW u \in Clear PROVE DoA(u) \in 0..(FullCircle - 1) /\ u \in User
    OBVIOUS
  <2>1. u \in User /\ DoA(u) # FullCircle
    BY <1>5 DEF Clear
  <2> QED BY <1>1, <1>3, <2>1
<1>4. ASSUME NEW d \in 0..(FullCircle - 1) PROVE \E u \in User : DoA(u) = d
  <2>1. CASE d <= h
    <3>1. d \in User /\ DoA(d) = d
      BY <1>1, <1>2, <2>1 DEF DoA
    <3> QED BY <3>1
  <2>2. CASE d > h
    <3>1. d - FullCircle \in User /\ DoA(d - FullCircle) = d
      BY <1>1, <1>2, <2>2 DEF DoA
    <3> QED BY <3>1
  <2> QED BY <1>1, <2>1, <2>2
<1> QED BY <1>3, <1>4, <1>6

\* Schedulers have asked once in every frame so far, and were answered by the
\* number calculated for it.
SectorInv ==
  /\ Configured /\ time \in Nat
  /\ number \in Seq(Nat) /\ reachable \in Seq(SUBSET User)
  /\ Len(number) = Len(reachable)
  /\ Len(reachable) \in {time \div FrameLength, (time \div FrameLength) + 1}
  /\ \A f \in DOMAIN reachable : \A u \in Clear :
       u \in reachable[f] <=> GroupOf(DoA(u)) = number[f] % numberOfSectors

LEMMA SectorStart == SectorInit => SectorInv
<1> SUFFICES ASSUME SectorInit PROVE SectorInv
  OBVIOUS
<1>1. FrameLength \in Nat \ {0}
  BY SectorAssumption
<1>2. 0 \div FrameLength = 0
  BY <1>1
<1> QED BY <1>2 DEF SectorInit, SectorInv, Configured

LEMMA AskStep == SectorInv /\ Ask => SectorInv'
<1> SUFFICES ASSUME SectorInv, Ask PROVE SectorInv'
  OBVIOUS
<1> DEFINE l == time \div FrameLength
<1>0. PICK n \in FrameNumber :
        number' = Append(number, n) /\ reachable' = Append(reachable, FilterReachable(n))
  BY DEF Ask
<1> DEFINE new == FilterReachable(n)
<1>1. /\ Configured /\ time \in Nat /\ reachable \in Seq(SUBSET User) /\ number \in Seq(Nat)
      /\ Len(reachable) = l /\ Len(number) = l
      /\ UNCHANGED <<numberOfSectors, numberOfSubsectors, foundAbove, foundBelow, time>>
  BY DEF SectorInv, Ask, configVars
<1>2. l \in Nat /\ n \in Nat
      /\ numberOfSectors \in Nat \ {0} /\ n % numberOfSectors \in 0..(numberOfSectors - 1)
  <2>1. l \in Nat /\ time % FrameLength \in Nat /\ time = FrameLength * l + (time % FrameLength)
        /\ numberOfSectors \in Nat \ {0}
    <3>1. FrameLength \in Nat \ {0}
      BY SectorAssumption
    <3>2. l \in Nat /\ time % FrameLength \in Nat /\ time = FrameLength * l + (time % FrameLength)
      BY <1>1, <3>1, Division
    <3>3. numberOfSectors \in Nat \ {0}
      BY <1>1, Circle
    <3> QED BY <3>2, <3>3
  <2>2. FrameLength \in Nat \ {0}
    BY SectorAssumption
  <2>3. n = l \/ (n = l - 1 /\ time > 0 /\ time % FrameLength = 0)
    BY <1>0 DEF FrameNumber
  <2> HIDE DEF l
  <2>4. n = l - 1 /\ time > 0 /\ time % FrameLength = 0 => l # 0
    BY <1>1, <2>1, <2>2
  <2>5. n \in Nat
    BY <2>1, <2>3, <2>4
  <2> QED BY <2>1, <2>5, Division
<1>3. \A u \in Clear : u \in new <=> GroupOf(DoA(u)) = n % numberOfSectors
  <2>1. Group(n) = n % numberOfSectors
    BY DEF Group
  <2> SUFFICES ASSUME NEW u \in Clear
               PROVE  u \in new <=> GroupOf(DoA(u)) = n % numberOfSectors
    OBVIOUS
  <2>2. u \in User /\ DoA(u) \in 0..(FullCircle - 1) /\ DoA(u) % Width # 0
    BY <1>1, Directions DEF Clear
  <2>3. InActiveGroup(DoA(u), Group(n)) <=> GroupOf(DoA(u)) = n % numberOfSectors
    BY <1>1, <1>2, <2>1, <2>2, InGroup
  <2> QED BY <2>2, <2>3 DEF FilterReachable
<1>4. new \in SUBSET User
  BY DEF FilterReachable
<1> HIDE DEF l, new
<1>5. /\ reachable' \in Seq(SUBSET User) /\ Len(reachable') = l + 1
      /\ number' \in Seq(Nat) /\ Len(number') = l + 1
      /\ DOMAIN reachable' = DOMAIN reachable \cup {l + 1}
      /\ \A f \in DOMAIN reachable : reachable'[f] = reachable[f] /\ number'[f] = number[f]
      /\ reachable'[l + 1] = new /\ number'[l + 1] = n
  <2>1. reachable' = Append(reachable, new)
    BY <1>0 DEF new
  <2> QED BY <1>0, <1>1, <1>2, <1>4, <2>1
<1>6. \A f \in DOMAIN reachable' : \A u \in Clear :
        u \in reachable'[f] <=> GroupOf(DoA(u)) = number'[f] % numberOfSectors
  <2> SUFFICES ASSUME NEW f \in DOMAIN reachable', NEW u \in Clear
               PROVE  u \in reachable'[f] <=> GroupOf(DoA(u)) = number'[f] % numberOfSectors
    OBVIOUS
  <2>1. CASE f \in DOMAIN reachable
    BY <1>5, <2>1 DEF SectorInv
  <2>2. CASE f = l + 1
    BY <1>3, <1>5, <2>2
  <2> QED BY <1>5, <2>1, <2>2
<1>7. Configured' /\ time' \in Nat
  BY <1>1 DEF Configured
<1>8. Len(reachable') = (time' \div FrameLength) + 1 /\ Len(number') = Len(reachable')
  BY <1>1, <1>5 DEF l
<1>9. (\A f \in DOMAIN reachable : \A u \in Clear :
        u \in reachable[f] <=> GroupOf(DoA(u)) = number[f] % numberOfSectors)'
  BY <1>1, <1>6 DEF GroupOf, Width, Clear
<1> QED BY <1>5, <1>7, <1>8, <1>9 DEF SectorInv

\* Time passes; it does not leave a frame in which nobody has asked.
LEMMA SectorTickStep == SectorInv /\ SectorTick => SectorInv'
<1> SUFFICES ASSUME SectorInv, SectorTick PROVE SectorInv'
  OBVIOUS
<1>1. /\ Configured /\ time \in Nat /\ time' = time + 1
      /\ UNCHANGED <<numberOfSectors, numberOfSubsectors, number, reachable>>
      /\ Len(reachable) \in {time \div FrameLength, (time \div FrameLength) + 1}
      /\ (time + 1) % FrameLength = 0 => Len(reachable) = (time \div FrameLength) + 1
  BY DEF SectorInv, SectorTick, configVars
<1>2. /\ (time + 1) % FrameLength # 0 => (time + 1) \div FrameLength = time \div FrameLength
      /\ (time + 1) % FrameLength = 0 => (time + 1) \div FrameLength = (time \div FrameLength) + 1
  BY <1>1, NextDivision, SectorAssumption
<1>3. Len(reachable') \in {time' \div FrameLength, (time' \div FrameLength) + 1}
  BY <1>1, <1>2
<1>4. Configured' /\ time' \in Nat /\ reachable' \in Seq(SUBSET User)
      /\ number' \in Seq(Nat) /\ Len(number') = Len(reachable')
  BY <1>1 DEF Configured, SectorInv
<1>5. (\A f \in DOMAIN reachable : \A u \in Clear :
        u \in reachable[f] <=> GroupOf(DoA(u)) = number[f] % numberOfSectors)'
  BY <1>1 DEF SectorInv, GroupOf, Width, Clear
<1> QED BY <1>3, <1>4, <1>5 DEF SectorInv

---------------------------------------------------------------------------
\* Of N numbers in a row one has a given rest.
LEMMA OneRest ==
  ASSUME NEW N \in Nat \ {0}, NEW a \in Nat, NEW r \in 0..(N - 1)
  PROVE  \E x \in a..(a + N - 1) : \A y \in a..(a + N - 1) : y % N = r <=> y = x
<1> DEFINE q == a \div N
           s == a % N
<1>1. q \in Nat /\ s \in 0..(N - 1) /\ N * q \in Nat /\ a = N * q + s
  BY Division
<1> HIDE DEF q, s
<1>2. PICK x \in a..(a + N - 1) : x % N = r
  <2>1. CASE s <= r
    <3> DEFINE x == N * q + r
    <3>1. x \in a..(a + N - 1) /\ x \in Nat
      BY <1>1, <2>1
    <3>2. r = x % N
      <4>1. x = N * q + r
        OBVIOUS
      <4> HIDE DEF x
      <4> QED BY <1>1, <3>1, <4>1, DivisionOnce
    <3> QED BY <3>1, <3>2
  <2>2. CASE r < s
    <3> DEFINE x == N * (q + 1) + r
    <3>0. N * (q + 1) = N * q + N
      BY <1>1
    <3>1. x \in a..(a + N - 1) /\ x \in Nat /\ q + 1 \in Nat
      BY <1>1, <2>2, <3>0
    <3>2. r = x % N
      <4>1. x = N * (q + 1) + r
        OBVIOUS
      <4> HIDE DEF x
      <4> QED BY <1>1, <3>1, <4>1, DivisionOnce
    <3> QED BY <3>1, <3>2
  <2> QED BY <1>1, <2>1, <2>2
<1>3. ASSUME NEW y \in a..(a + N - 1), y % N = r PROVE y = x
  <2>1. x \in Nat /\ y \in Nat
    OBVIOUS
  <2> DEFINE i == x \div N
             j == y \div N
  <2>2. i \in Nat /\ j \in Nat /\ N * i \in Nat /\ N * j \in Nat /\ x = N * i + r /\ y = N * j + r
    BY <1>2, <1>3, <2>1, Division
  <2> HIDE DEF i, j
  <2>3. i < j => N * i + N <= N * j
    BY <2>2, Times
  <2>4. j < i => N * j + N <= N * i
    BY <2>2, Times
  <2>5. i = j => x = y
    BY <2>2
  <2> QED BY <2>2, <2>3, <2>4, <2>5
<1> QED BY <1>2, <1>3

LEMMA OnceHolds == SectorInv => OncePerCycle
<1> SUFFICES ASSUME SectorInv,
                    NEW f \in 1..(Len(reachable) - numberOfSectors + 1),
                    \A g \in f..(f + numberOfSectors - 1) : number[g] - number[f] = g - f,
                    NEW u \in Clear
             PROVE  Cardinality({g \in f..(f + numberOfSectors - 1) : u \in reachable[g]}) = 1
  BY DEF OncePerCycle
<1> DEFINE N == numberOfSectors
           G == {g \in f..(f + N - 1) : u \in reachable[g]}
           r == GroupOf(DoA(u))
           n == number[f]
<1>1. Configured /\ N \in Nat \ {0}
  BY Circle DEF SectorInv
<1>2. r \in 0..(N - 1)
  <2>1. DoA(u) \in Nat /\ Width \in Nat \ {0}
    BY <1>1, Directions, Circle
  <2>2. DoA(u) \div Width \in Nat
    BY <2>1, Division
  <2> DEFINE d == DoA(u) \div Width
  <2>3. d \in Nat
    BY <2>2
  <2> HIDE DEF d
  <2>4. d % N \in 0..(N - 1)
    BY <1>1, <2>3, Division
  <2> QED BY <2>4 DEF GroupOf, d
<1>3. \A g \in f..(f + N - 1) : number[g] \in Nat /\ (u \in reachable[g] <=> number[g] % N = r)
  <2>1. Len(reachable) \in Nat /\ DOMAIN reachable = 1..Len(reachable) /\ DOMAIN number = DOMAIN reachable
    BY DEF SectorInv
  <2>2. \A g \in f..(f + N - 1) : g \in DOMAIN reachable
    BY <1>1, <2>1
  <2>3. \A g \in DOMAIN number : number[g] \in Nat
    BY DEF SectorInv
  <2>4. \A g \in DOMAIN reachable : u \in reachable[g] <=> number[g] % N = r
    BY DEF SectorInv
  <2> HIDE DEF r, N
  <2> QED BY <2>1, <2>2, <2>3, <2>4
<1>4. f \in Nat /\ f \in f..(f + N - 1)
  BY <1>1
<1>5. n \in Nat
  BY <1>3, <1>4
<1>6. \A g \in f..(f + N - 1) : number[g] = n + (g - f)
  BY <1>3, <1>4, <1>5
<1> HIDE DEF r, n
<1>7. PICK x \in n..(n + N - 1) : \A y \in n..(n + N - 1) : y % N = r <=> y = x
  BY <1>1, <1>2, <1>5, OneRest
<1>8. x - n + f \in f..(f + N - 1)
      /\ \A g \in f..(f + N - 1) : u \in reachable[g] <=> g = x - n + f
  <2>1. \A g \in f..(f + N - 1) : n + (g - f) \in n..(n + N - 1) /\ (n + (g - f) = x <=> g = x - n + f)
    BY <1>1, <1>4, <1>5
  <2>2. x - n + f \in f..(f + N - 1)
    BY <1>1, <1>4, <1>5
  <2> QED BY <1>3, <1>6, <1>7, <2>1, <2>2
<1>9. G = {x - n + f}
  BY <1>8
<1> QED BY <1>9, FS_Singleton

\* A group has S parts, with W - 1 clear directions in each.
ClearIn(N, S, W, r) == {d \in 0..((W * N) * S - 1) : d % W # 0 /\ (d \div W) % N = r}

LEMMA GroupSize ==
  ASSUME NEW N \in Nat \ {0}, NEW S \in Nat \ {0}, NEW W \in Nat \ {0, 1}, NEW r \in 0..(N - 1)
  PROVE  Cardinality(ClearIn(N, S, W, r)) = S * (W - 1)
<1>d. PICK D : D = ClearIn(N, S, W, r)
  OBVIOUS
<1>e. D = {d \in 0..((W * N) * S - 1) : d % W # 0 /\ (d \div W) % N = r}
  BY <1>d DEF ClearIn
<1> DEFINE V == W - 1
           I == 0..(S * V - 1)
           at(k) == W * (N * (k \div V) + r) + ((k % V) + 1)
           h == [k \in I |-> at(k)]
<1>v. V \in Nat \ {0} /\ W = V + 1
  OBVIOUS
<1> HIDE DEF V
<1>0. S * V \in Nat \ {0} /\ (W * N) * S \in Nat
  BY <1>v
<1>1. ASSUME NEW k \in I
      PROVE  /\ k \div V \in 0..(S - 1) /\ k % V \in 0..(V - 1) /\ k = V * (k \div V) + (k % V)
             /\ N * (k \div V) + r \in Nat /\ at(k) \in Nat
             /\ at(k) \div W = N * (k \div V) + r /\ at(k) % W = (k % V) + 1
             /\ (at(k) \div W) % N = r /\ (at(k) \div W) \div N = k \div V
             /\ at(k) < (W * N) * S
  <2> DEFINE i == k \div V
             e == k % V
             q == N * i + r
             a == W * q + (e + 1)
  <2>0. k \in Nat
    BY <1>0
  <2>1. i \in Nat /\ e \in 0..(V - 1) /\ V * i \in Nat /\ k = V * i + e
    <3> HIDE DEF I
    <3> QED BY <1>v, <2>0, Division
  <2>2. a = at(k)
    OBVIOUS
  <2> HIDE DEF i, e
  <2>3. i < S
    <3> SUFFICES ASSUME S <= i PROVE FALSE
      BY <2>1
    <3>1. V * S <= V * i
      <4>1. i = S \/ S < i
        BY <2>1
      <4>2. V * S + V <= V * i \/ V * i = V * S
        BY <1>v, <2>1, <4>1, Times
      <4>3. V * S \in Nat
        BY <1>v
      <4> QED BY <1>v, <2>1, <4>2, <4>3
    <3>2. k < V * S /\ V * S \in Nat
      <4>1. S * V = V * S
        BY <1>v
      <4> QED BY <1>0, <4>1
    <3> QED BY <2>1, <3>1, <3>2
  <2>4. q \in Nat /\ N * i \in Nat /\ q = N * i + r
    BY <2>1
  <2>5. i = q \div N /\ r = q % N
    <3> HIDE DEF q
    <3> QED BY <2>1, <2>4, DivisionOnce
  <2>6. q < N * S /\ N * S \in Nat
    <3>1. N * i + N <= N * S
      BY <2>1, <2>3, Times
    <3>2. N * S \in Nat
      OBVIOUS
    <3> QED BY <2>4, <3>1, <3>2
  <2> HIDE DEF q
  <2>7. a \in Nat /\ W * q \in Nat /\ a = W * q + (e + 1) /\ e + 1 \in 0..(W - 1)
    BY <1>v, <2>1, <2>4
  <2>8. q = a \div W /\ e + 1 = a % W
    <3> HIDE DEF a
    <3>1. W \in Nat \ {0} /\ e + 1 \in Nat
      BY <2>1
    <3> QED BY <2>4, <2>7, <3>1, DivisionOnce
  <2>9. a < (W * N) * S
    <3>1. W * q + W <= W * (N * S)
      BY <2>4, <2>6, Times
    <3>2. W * (N * S) = (W * N) * S
      OBVIOUS
    <3> QED BY <1>0, <2>1, <2>7, <3>1, <3>2
  <2> HIDE DEF a
  <2> QED BY <2>1, <2>2, <2>3, <2>4, <2>5, <2>7, <2>8, <2>9 DEF i, e, q
<1> HIDE DEF at, I
<1>2. \A k \in I : h[k] \in D
  <2> SUFFICES ASSUME NEW k \in I PROVE at(k) \in D
    OBVIOUS
  <2>1. at(k) % W = (k % V) + 1 /\ k % V \in 0..(V - 1)
    BY <1>1
  <2>2. at(k) % W # 0
    BY <1>v, <2>1
  <2>3. at(k) \in Nat /\ at(k) < (W * N) * S /\ (at(k) \div W) % N = r
    BY <1>1
  <2>4. at(k) \in 0..((W * N) * S - 1)
    BY <1>0, <2>3
  <2> QED BY <1>e, <2>2, <2>3, <2>4
<1>3. \A k, l \in I : h[k] = h[l] => k = l
  <2> SUFFICES ASSUME NEW k \in I, NEW l \in I, at(k) = at(l) PROVE k = l
    OBVIOUS
  <2>1. k \div V = l \div V /\ k % V = l % V
    <3> DEFINE x == at(k)
    <3>1. x % W = (k % V) + 1 /\ k % V \in 0..(V - 1) /\ (x \div W) \div N = k \div V
      BY <1>1
    <3>2. x % W = (l % V) + 1 /\ l % V \in 0..(V - 1) /\ (x \div W) \div N = l \div V
      <4>1. at(l) % W = (l % V) + 1 /\ l % V \in 0..(V - 1) /\ (at(l) \div W) \div N = l \div V
        BY <1>1
      <4> QED BY <4>1
    <3> DEFINE y == x % W
               m == k % V
               n == l % V
    <3>3. y = m + 1 /\ y = n + 1 /\ m \in 0..(V - 1) /\ n \in 0..(V - 1)
      BY <3>1, <3>2
    <3>4. m = n
      <4> HIDE DEF x, y, m, n
      <4> QED BY <3>3
    <3> HIDE DEF x
    <3> QED BY <3>1, <3>2, <3>4
  <2> QED BY <1>1, <2>1
<1>4. \A d \in D : \E k \in I : h[k] = d
  <2> SUFFICES ASSUME NEW d \in D PROVE \E k \in I : at(k) = d
    OBVIOUS
  <2> DEFINE q == d \div W
             e == d % W
             i == q \div N
             k == V * i + (e - 1)
  <2>0. d \in Nat /\ d < (W * N) * S
    BY <1>e, <1>0
  <2>1. q \in Nat /\ e \in 0..(W - 1) /\ W * q \in Nat /\ d = W * q + e
    BY <2>0, Division
  <2>2. q % N = r /\ e # 0
    BY <1>e
  <2> HIDE DEF q, e
  <2>3. i \in Nat /\ q = N * i + r /\ N * i \in Nat
    BY <2>1, <2>2, Division
  <2> HIDE DEF i
  <2>4. i < S
    <3> SUFFICES ASSUME S <= i PROVE FALSE
      BY <2>3
    <3>1. N * S <= N * i
      <4>1. S < i => N * S + N <= N * i
        BY <2>3, Times
      <4>2. N * S \in Nat
        OBVIOUS
      <4> QED BY <2>3, <4>1, <4>2
    <3>2. N * S <= q /\ N * S \in Nat
      BY <2>3, <3>1
    <3>3. W * (N * S) <= W * q
      <4>1. N * S < q => W * (N * S) + W <= W * q
        BY <2>1, <3>2, Times
      <4>2. W * (N * S) \in Nat
        BY <3>2
      <4> QED BY <2>1, <3>2, <4>1, <4>2
    <3>4. W * (N * S) = (W * N) * S
      OBVIOUS
    <3> QED BY <1>0, <2>0, <2>1, <3>3, <3>4
  <2>5. k \in Nat /\ V * i \in Nat /\ k = V * i + (e - 1) /\ e - 1 \in 0..(V - 1)
    BY <1>v, <2>1, <2>2, <2>3
  <2>6. k < S * V
    <3>1. V * i + V <= V * S /\ V * S = S * V
      BY <1>v, <2>3, <2>4, Times
    <3> QED BY <1>0, <1>v, <2>1, <2>5, <3>1
  <2> HIDE DEF k
  <2>7. i = k \div V /\ e - 1 = k % V
    BY <1>v, <2>1, <2>3, <2>5, DivisionOnce
  <2>8. k \in I
    BY <1>0, <2>5, <2>6 DEF I
  <2>9. at(k) = d
    BY <2>1, <2>3, <2>7 DEF at
  <2> QED BY <2>8, <2>9
<1> HIDE DEF h
<1>5. h \in Bijection(I, D)
  <2>1. h \in [I -> D]
    BY <1>2 DEF h
  <2> QED BY <1>3, <1>4, <2>1, Fun_IsBij
<1>6. IsFiniteSet(I) /\ Cardinality(I) = S * V
  <2>1. 0 \in Int /\ S * V - 1 \in Int /\ ~ (0 > S * V - 1)
    BY <1>0
  <2> QED BY <1>0, <2>1, FS_Interval DEF I
<1>7. ExistsBijection(I, D)
  BY <1>5 DEF ExistsBijection
<1> QED BY <1>d, <1>6, <1>7, FS_Bijection DEF V

LEMMA EqualHolds == SectorInv => GroupsAreEqual
<1> SUFFICES ASSUME SectorInv, NEW f \in DOMAIN reachable
             PROVE  numberOfSectors * Cardinality({DoA(u) : u \in reachable[f] \cap Clear})
                      = FullCircle - numberOfSectors * numberOfSubsectors
  BY DEF GroupsAreEqual
<1> DEFINE N == numberOfSectors
           S == numberOfSubsectors
           W == Width
           r == number[f] % N
           D == {DoA(u) : u \in reachable[f] \cap Clear}
<1>1. /\ Configured
      /\ W \in Nat \ {0, 1} /\ N \in Nat \ {0} /\ S \in Nat \ {0}
      /\ (W * N) * S = FullCircle /\ FullCircle \in Nat
  BY Circle DEF SectorInv
<1>2. r \in 0..(N - 1)
  <2>1. number[f] \in Nat
    BY DEF SectorInv
  <2> QED BY <1>1, <2>1, Division
<1>3. D = {d \in 0..((W * N) * S - 1) : d % W # 0 /\ (d \div W) % N = r}
  <2>1. reachable[f] \cap Clear = {u \in Clear : (DoA(u) \div W) % N = r}
    <3>1. \A u \in Clear : u \in reachable[f] <=> (DoA(u) \div W) % N = r
      BY DEF SectorInv, GroupOf
    <3> QED BY <3>1
  <2>2. D = {d \in 0..(FullCircle - 1) : d % W # 0 /\ (d \div W) % N = r}
    <3>1. \A u \in User : u \in Clear <=> DoA(u) % W # 0
      BY DEF Clear
    <3> HIDE DEF N, W, r
    <3> QED BY <1>1, <2>1, <3>1, Directions
  <2> QED BY <1>1, <2>2
<1> HIDE DEF N, S, W, r, D
<1>4. Cardinality(D) = S * (W - 1)
  <2>1. D = ClearIn(N, S, W, r)
    BY <1>3 DEF ClearIn
  <2> QED BY <1>1, <1>2, <2>1, GroupSize
<1>5. N * (S * (W - 1)) = (W * N) * S - N * S
  <2>1. S * (W - 1) = S * W - S /\ S * W \in Int
    BY <1>1
  <2>2. N * (S * W - S) = N * (S * W) - N * S
    BY <1>1, <2>1
  <2>3. N * (S * W) = (W * N) * S
    BY <1>1
  <2> QED BY <2>1, <2>2, <2>3
<1> QED BY <1>1, <1>4, <1>5 DEF N, S, D

\* In numberOfSectors frames that are numbered in a row each direction off the
\* borders is scheduled once, and in each frame as many, for any division of
\* the circle into sectors and subsectors, whenever in a frame its scheduler
\* asks and however numbers and borders are rounded
\* (SpaceTimeSectorizationRegistryProxy).
THEOREM SectorsAlwaysFair == SectorSpec => []SectorsFair
<1>1. SectorInv /\ UNCHANGED sectorVars => SectorInv'
  BY DEF sectorVars, configVars, SectorInv, Configured, GroupOf, Width, Clear
<1>2. SectorInv /\ [SectorNext]_sectorVars => SectorInv'
  BY <1>1, AskStep, SectorTickStep DEF SectorNext
<1>3. SectorInv => SectorsFair
  BY OnceHolds, EqualHolds DEF SectorsFair
<1> QED BY <1>2, <1>3, SectorStart, PTL DEF SectorSpec
==============================================================================
