------------------------- MODULE BandwidthProofs -------------------------
(***************************************************************************)
(* BandwidthRequest for any trees of relays, any number of packets and     *)
(* while stations still associate: what a base station requests is what    *)
(* waits for it right below.  The proofs rest on the invariants of         *)
(* AssociationProofs, as the two ends look the connections up in different *)
(* fields of different tables.                                             *)
(***************************************************************************)
EXTENDS BandwidthRequest, PathProofs

---------------------------------------------------------------------------
(* The inductive invariant.                                                *)

\* The fake PDUs f of base station b, with the connections R, are as many as,
\* by the amounts a, waited for it in the stations right below, for each on
\* one of its connections.
Matches(b, R, f, a) ==
  /\ \A cid \in DOMAIN f : \E c \in R :
       /\ c.cid = cid /\ c.subscriberStation # b
       /\ a[c.subscriberStation] > 0
       /\ f[cid] = Least(QueueLimit, a[c.subscriberStation])
  /\ \A c, d \in R :
       /\ c.cid \in DOMAIN f /\ d.cid \in DOMAIN f
       /\ c.subscriberStation = d.subscriberStation
       => c.cid = d.cid
  /\ \A p \in Station : a[p] > 0 =>
       \E c \in R : c.cid \in DOMAIN f /\ c.subscriberStation = p

\* All PDUs in buffers, each with the station it waits in
Buffered == UNION {{s} \X buffer[s] : s \in Station}

\* All that relays have to forward, each packet with its relay
Injected == UNION {{r} \X (1..inject[r]) : r \in FRS}

\* What waits is within the bound, what is requested is what waited.
RequestInv ==
  /\ RequestTypeOK
  /\ DOMAIN fake = AP \cup FRS
  /\ IsFiniteSet(Buffered) /\ IsFiniteSet(Injected) /\ Queued <= MaxQueued
  /\ \A b \in AP \cup FRS : Matches(b, Rows(b), fake[b], asked[b])

---------------------------------------------------------------------------
(* Sums and amounts.                                                       *)

\* The sum over one element is its term.
LEMMA SumOfOne ==
  ASSUME NEW w, NEW c, w[c] \in Nat
  PROVE  SumFunctionOnSet(w, {c}) = w[c]
<1> DEFINE Step(s, h) == IF s = {} THEN 0
                         ELSE w[CHOOSE x \in s : TRUE] + h[s \ {CHOOSE x \in s : TRUE}]
           iter == CHOOSE h : h = [s \in SUBSET {c} |-> Step(s, h)]
           g == [s \in SUBSET {c} |-> IF s = {} THEN 0 ELSE w[c]]
<1>1. SumFunctionOnSet(w, {c}) = iter[{c}]
  BY DEF SumFunctionOnSet, FoldFunctionOnSet, MapThenFoldSet
<1>2. g = [s \in SUBSET {c} |-> Step(s, g)]
  <2> SUFFICES ASSUME NEW s \in SUBSET {c} PROVE (IF s = {} THEN 0 ELSE w[c]) = Step(s, g)
    OBVIOUS
  <2>1. CASE s = {}
    BY <2>1
  <2>2. CASE s # {}
    <3>1. s = {c} /\ (CHOOSE x \in s : TRUE) = c
      BY <2>2
    <3>2. g[{}] = 0 /\ {c} \ {c} = {}
      OBVIOUS
    <3> HIDE DEF g
    <3>3. Step(s, g) = w[c] + 0
      BY <3>1, <3>2
    <3> QED BY <2>2, <3>3
  <2> QED BY <2>1, <2>2
<1>3. iter = [s \in SUBSET {c} |-> Step(s, iter)]
  <2> HIDE DEF g, Step
  <2> QED BY <1>2
<1> HIDE DEF iter
<1>4. iter[{}] = 0 /\ iter[{c}] = w[c] + iter[{}]
  <2>1. iter[{}] = Step({}, iter) /\ iter[{c}] = Step({c}, iter)
    <3> HIDE DEF Step
    <3>1. {} \in SUBSET {c} /\ {c} \in SUBSET {c}
      OBVIOUS
    <3> QED BY <1>3, <3>1, Zenon
  <2>2. (CHOOSE x \in {c} : TRUE) = c /\ {c} \ {c} = {}
    OBVIOUS
  <2> QED BY <2>1, <2>2
<1> QED BY <1>1, <1>4

\* That over none is zero.
LEMMA SumOfNone == ASSUME NEW w PROVE SumFunctionOnSet(w, {}) = 0
<1> DEFINE Step(s, h) == IF s = {} THEN 0
                         ELSE w[CHOOSE x \in s : TRUE] + h[s \ {CHOOSE x \in s : TRUE}]
           iter == CHOOSE h : h = [s \in SUBSET {} |-> Step(s, h)]
           g == [s \in SUBSET {} |-> 0]
<1>1. SumFunctionOnSet(w, {}) = iter[{}]
  BY DEF SumFunctionOnSet, FoldFunctionOnSet, MapThenFoldSet
<1>2. g = [s \in SUBSET {} |-> Step(s, g)]
  <2>1. \A s \in SUBSET {} : Step(s, g) = 0
    OBVIOUS
  <2> HIDE DEF Step
  <2> QED BY <2>1
<1>3. iter = [s \in SUBSET {} |-> Step(s, iter)]
  <2> HIDE DEF g, Step
  <2> QED BY <1>2
<1> HIDE DEF iter
<1>4. iter[{}] = Step({}, iter)
  <2> HIDE DEF Step
  <2>1. {} \in SUBSET {}
    OBVIOUS
  <2> QED BY <1>3, <2>1, Zenon
<1> QED BY <1>1, <1>4

\* What waits in one station is part of what waits anywhere.
LEMMA BufferIsFinite ==
  ASSUME RequestInv, NEW p \in Station, NEW cids
  PROVE  /\ Cardinality(Waiting(p, cids)) \in Nat
         /\ Cardinality(Waiting(p, cids)) <= Cardinality(Buffered)
<1> DEFINE W == Waiting(p, cids)
           f == [x \in {p} \X W |-> x[2]]
<1>0. IsFiniteSet(Buffered)
  BY DEF RequestInv
<1>1. {p} \X W \in SUBSET Buffered
  BY DEF Waiting, Buffered
<1> HIDE DEF W
<1>2. IsFiniteSet({p} \X W) /\ Cardinality({p} \X W) <= Cardinality(Buffered)
  BY <1>0, <1>1, FS_Subset
<1>3. f \in Surjection({p} \X W, W)
  <2>1. f \in [{p} \X W -> W]
    OBVIOUS
  <2>2. ASSUME NEW y \in W PROVE \E x \in {p} \X W : f[x] = y
    <3>1. <<p, y>> \in {p} \X W /\ f[<<p, y>>] = y
      OBVIOUS
    <3> QED BY <3>1
  <2> HIDE DEF f
  <2> QED BY <2>1, <2>2 DEF Surjection
<1>4. IsFiniteSet(W) /\ Cardinality(W) <= Cardinality({p} \X W)
  <2> HIDE DEF f
  <2> QED BY <1>2, <1>3, FS_Surjection
<1>5. Cardinality(W) \in Nat /\ Cardinality({p} \X W) \in Nat /\ Cardinality(Buffered) \in Nat
  BY <1>0, <1>2, <1>4, FS_CardinalityType
<1> QED BY <1>2, <1>4, <1>5 DEF W

\* What waits in front of one relay's scheduler is part of what waits anywhere.
LEMMA InjectedHere ==
  ASSUME RequestInv, NEW r \in FRS
  PROVE  inject[r] \in Nat /\ inject[r] <= Cardinality(Injected)
<1> DEFINE I == 1..inject[r]
           f == [x \in {r} \X I |-> x[2]]
<1>0. inject[r] \in Nat /\ IsFiniteSet(Injected)
  BY DEF RequestInv, RequestTypeOK
<1>1. {r} \X I \in SUBSET Injected
  BY DEF Injected
<1>2. IsFiniteSet({r} \X I) /\ Cardinality({r} \X I) <= Cardinality(Injected)
  <2> HIDE DEF I
  <2> QED BY <1>0, <1>1, FS_Subset
<1>3. Cardinality(I) = inject[r]
  <2>1. Cardinality(1..inject[r]) = IF 1 > inject[r] THEN 0 ELSE inject[r] - 1 + 1
    BY <1>0, FS_Interval
  <2> QED BY <1>0, <2>1
<1> HIDE DEF I
<1>4. f \in Surjection({r} \X I, I)
  <2>1. f \in [{r} \X I -> I]
    OBVIOUS
  <2>2. ASSUME NEW y \in I PROVE \E x \in {r} \X I : f[x] = y
    <3>1. <<r, y>> \in {r} \X I /\ f[<<r, y>>] = y
      OBVIOUS
    <3> QED BY <3>1
  <2> HIDE DEF f
  <2> QED BY <2>1, <2>2 DEF Surjection
<1>5. Cardinality(I) <= Cardinality({r} \X I)
  <2> HIDE DEF f
  <2> QED BY <1>2, <1>4, FS_Surjection
<1>6. Cardinality({r} \X I) \in Nat /\ Cardinality(Injected) \in Nat
  BY <1>0, <1>2, FS_CardinalityType
<1> QED BY <1>0, <1>2, <1>3, <1>5, <1>6

\* The numbers of PDUs waiting.
LEMMA HeldCounted ==
  ASSUME RequestInv
  PROVE  /\ Cardinality(Buffered) \in Nat /\ Cardinality(Injected) \in Nat
         /\ Queued = Cardinality(Buffered) + Cardinality(Injected) /\ Queued <= MaxQueued
         /\ inject \in [FRS -> 0..MaxQueued] /\ buffer \in [Station -> SUBSET PDU]
         /\ MaxQueued \in Nat
BY FS_CardinalityType, BandwidthAssumption
   DEF RequestInv, RequestTypeOK, Queued, Buffered, Injected

\* So what a station is found to hold is within the bound.
LEMMA HeldIsQueued ==
  ASSUME RequestInv, NEW p \in Station, NEW cids
  PROVE  NumberOfQueuedPDUs(p, cids) \in 0..MaxQueued
BY BufferIsFinite, InjectedHere, HeldCounted DEF NumberOfQueuedPDUs

---------------------------------------------------------------------------
(* What a base station asks for and what a station below sends up.         *)

\* A CID names one row.
LEMMA OneRow ==
  ASSUME NEW s \in Station, PathInv, NEW c \in Rows(s), NEW d \in Rows(s), c.cid = d.cid
  PROVE  c = d
<1>1. PICK i \in DOMAIN table[s] : table[s][i] = c
  BY DEF Rows, Range
<1>2. PICK j \in DOMAIN table[s] : table[s][j] = d
  BY DEF Rows, Range
<1>3. i = j
  BY <1>1, <1>2 DEF PathInv, IInv, CIDsUnique
<1> QED BY <1>1, <1>2, <1>3

\* No two stations are each other's base station: each would have got an
\* identifier before the other.
LEMMA NoneBothWays ==
  ASSUME NEW s \in Station \ AP, NEW d \in Station \ AP, NEW e \in Rows(s), NEW c \in Rows(d),
         PathInv, Climbs,
         e.subscriberStation = s, e.baseStation = d, e.cid # 0,
         c.subscriberStation = d, c.baseStation = s
  PROVE  FALSE
<1> DEFINE N == {x.cid : x \in Own(s) \cup Own(d)}
<1>1. /\ \A x \in Own(s) : x.cid \in Nat /\ x \in Rows(s) /\ x.cid # 0 /\ x.subscriberStation = s
      /\ \A x \in Own(d) : x.cid \in Nat /\ x \in Rows(d) /\ x.cid # 0 /\ x.subscriberStation = d
  BY HopEnds DEF Own, Connection
<1>2. /\ \A x \in Own(s) : x.baseStation = d
      /\ \A x \in Own(d) : x.baseStation = s
  BY <1>1 DEF PathInv, Attached
<1>3. \A x \in Own(s) : \E y \in Own(d) : y.cid < x.cid
  <2> SUFFICES ASSUME NEW x \in Own(s) PROVE \E y \in Own(d) : y.cid < x.cid
    OBVIOUS
  <2>1. x \in Rows(s) /\ x.cid # 0 /\ x.subscriberStation = s /\ x.baseStation = d
    BY <1>1, <1>2
  <2> QED BY <2>1 DEF Climbs, Own
<1>4. \A x \in Own(d) : \E y \in Own(s) : y.cid < x.cid
  <2> SUFFICES ASSUME NEW x \in Own(d) PROVE \E y \in Own(s) : y.cid < x.cid
    OBVIOUS
  <2>1. x \in Rows(d) /\ x.cid # 0 /\ x.subscriberStation = d /\ x.baseStation = s
    BY <1>1, <1>2
  <2> QED BY <2>1 DEF Climbs, Own
<1>5. N \in SUBSET Nat /\ N # {}
  <2>1. e \in Own(s)
    BY DEF Own
  <2> QED BY <1>1, <2>1
<1> HIDE DEF N
<1>6. PICK n \in N : \A m \in N : n <= m
  BY <1>5, LeastExists
<1>7. PICK x \in Own(s) \cup Own(d) : x.cid = n
  BY DEF N
<1>8. PICK y \in Own(s) \cup Own(d) : y.cid < x.cid
  BY <1>3, <1>4
<1>9. n <= y.cid /\ n \in Nat /\ y.cid \in Nat
  BY <1>1, <1>6, <1>7 DEF N
<1> QED BY <1>7, <1>8, <1>9

\* A basic connection of b to a station below it
LEMMA BasicsBelow ==
  ASSUME PathInv, NEW b \in Station, NEW i \in Basics(b)
  PROVE  /\ i \in DOMAIN table[b] /\ table[b][i] \in Rows(b)
         /\ table[b][i].baseStation = b /\ table[b][i].cid # 0
         /\ table[b][i].subscriberStation \in Station \ AP
         /\ table[b][i].subscriberStation # b
         /\ table[b][i] \in Rows(table[b][i].subscriberStation)
         /\ table[b][i].kind = Basic
<1> DEFINE c == table[b][i]
<1>1. i \in DOMAIN table[b] /\ c.kind.type = "Basic" /\ c.subscriberStation # b
  BY DEF Basics, AllBasic
<1>2. c \in Rows(b)
  BY <1>1 DEF Rows, Range
<1> HIDE DEF c
<1>3. c.cid # 0
  BY <1>1, <1>2 DEF PathInv, IInv, RowsOK
<1>4. \E k \in 1..HopSize : c.kind = HopKinds[k]
  BY <1>2, <1>3 DEF PathInv, HopsShared
<1>5. c.kind = Basic
  BY <1>1, <1>4, KindsOfHop
<1> QED BY <1>1, <1>2, <1>3, <1>5, HopEnds DEF c

\* Where a station sends up, its base station holds the same connection and a
\* basic one of this station.
LEMMA UpwardIsHeld ==
  ASSUME PathInv, NEW p \in Station, NEW d \in Upward(p)
  PROVE  /\ p \notin AP /\ d.cid \in Nat
         /\ d.baseStation \in AP \cup FRS /\ d.baseStation \in Station /\ d.baseStation # p
         /\ d \in Rows(d.baseStation) /\ d.kind.direction \in {"Uplink", "Bidirectional"}
         /\ \E i \in Basics(d.baseStation) : table[d.baseStation][i].subscriberStation = p
<1>1. d \in Rows(p) /\ d.subscriberStation = p /\ d.cid # 0 /\ d.kind.direction # "Downlink"
  BY DEF Upward, Rows
<1>2. /\ d \in Connection /\ d.baseStation \in AP \cup FRS /\ d.baseStation \in Station
      /\ p \notin AP /\ d.baseStation # p /\ d \in Rows(d.baseStation)
  BY <1>1, HopEnds
<1>3. d.kind.direction \in {"Uplink", "Bidirectional"} /\ d.cid \in Nat
  BY <1>1, <1>2 DEF Connection, Kind, Direction
<1>4. PICK e \in Rows(d.baseStation) : /\ e.kind = Basic /\ e.baseStation = d.baseStation
                                       /\ e.subscriberStation = p
  BY <1>1, <1>2 DEF PathInv, HopsShared
<1>5. PICK i \in DOMAIN table[d.baseStation] : table[d.baseStation][i] = e
  BY <1>2, <1>4 DEF Rows, Range
<1>6. i \in Basics(d.baseStation)
  BY <1>2, <1>4, <1>5 DEF Basics, AllBasic, Basic, KindOf
<1> QED BY <1>1, <1>2, <1>3, <1>4, <1>5, <1>6

\* The connections that lead from station p up to b
UpTo(p, b) == {d \in Upward(p) : d.baseStation = b}

\* What b asks a station below about is what this station sends up to b,
\* although a relay's incoming connections are those of both of its sides.
LEMMA AskedIsUpward ==
  ASSUME PathInv, Climbs, NEW b \in AP \cup FRS, NEW i \in Basics(b),
         NEW p, p = table[b][i].subscriberStation
  PROVE  /\ \A j \in AskedFor(b, p) : table[b][j] \in UpTo(p, b)
         /\ \A d \in UpTo(p, b) : \E j \in AskedFor(b, p) : table[b][j] = d
         /\ table[b][i] \in UpTo(p, b)
<1>0. b \in Station /\ (b \in AP => TypeOf(b) = "AP") /\ (b \notin AP => TypeOf(b) = "FRS")
  BY StationAssumption DEF TypeOf
<1> DEFINE e == table[b][i]
<1>1. /\ e \in Rows(b) /\ e.baseStation = b /\ e.cid # 0 /\ p \in Station \ AP
      /\ e.subscriberStation = p /\ p # b /\ e \in Rows(p) /\ e.kind = Basic
  BY <1>0, BasicsBelow
<1> HIDE DEF e
<1>2. e \in UpTo(p, b)
  BY <1>1 DEF UpTo, Upward, Rows, Basic, KindOf
<1>3. ASSUME NEW c \in Rows(b), c.subscriberStation = p,
             c.kind.direction \in {"Uplink", "Bidirectional"}
      PROVE  c \in UpTo(p, b)
  <2>1. c.cid # 0 /\ c.baseStation = b /\ c \in Rows(p)
    BY <1>0, <1>1, <1>3, HopEnds
  <2> QED BY <1>3, <2>1 DEF UpTo, Upward, Rows
<1>4. ASSUME NEW j \in AskedFor(b, p) PROVE table[b][j] \in UpTo(p, b)
  <2> DEFINE c == table[b][j]
  <2>1. j \in DOMAIN table[b] /\ c \in Rows(b)
    BY DEF AskedFor, Incoming, LeadingTo, Rows, Range
  <2>2. \/ /\ b \in AP /\ p \in {c.remoteStation, c.subscriberStation}
           /\ c.kind.direction \in {"Uplink", "Bidirectional"}
        \/ /\ b \notin AP /\ c.baseStation = p
        \/ /\ c.subscriberStation = p
           /\ c.kind.direction \in {"Uplink", "Bidirectional"}
    BY <1>0 DEF AskedFor, Incoming, LeadingTo
  <2> HIDE DEF c
  <2>3. CASE b \in AP /\ c.remoteStation = p /\ c.kind.direction \in {"Uplink", "Bidirectional"}
    <3>1. c.subscriberStation = p
      BY <1>1, <2>1, <2>3, ServedDirectly
    <3> QED BY <1>3, <2>1, <2>3, <3>1 DEF c
  <2>4. CASE b \notin AP /\ c.baseStation = p
    <3>1. c.subscriberStation = b
      BY <1>0, <1>1, <2>1, <2>4, HopEnds
    <3> QED BY <1>0, <1>1, <2>1, <2>4, <3>1, NoneBothWays
  <2> QED BY <1>3, <2>1, <2>2, <2>3, <2>4 DEF c
<1>5. ASSUME NEW d \in UpTo(p, b) PROVE \E j \in AskedFor(b, p) : table[b][j] = d
  <2>1. /\ d \in Rows(b) /\ d.kind.direction \in {"Uplink", "Bidirectional"}
        /\ d.subscriberStation = p
    BY <1>1, UpwardIsHeld DEF UpTo, Upward
  <2>2. PICK j \in DOMAIN table[b] : table[b][j] = d
    BY <2>1 DEF Rows, Range
  <2>3. j \in AskedFor(b, p)
    BY <1>0, <2>1, <2>2 DEF AskedFor, Incoming, LeadingTo
  <2> QED BY <2>2, <2>3
<1> QED BY <1>2, <1>4, <1>5 DEF e

\* A base station never asks about a downlink connection.
LEMMA UplinkHolds == PathInv /\ Climbs => UplinkPDUsOnly
<1> SUFFICES ASSUME PathInv, Climbs, NEW b \in AP \cup FRS, NEW i \in Basics(b),
                    NEW j \in AskedFor(b, table[b][i].subscriberStation)
             PROVE  table[b][j].kind.direction # "Downlink"
  BY DEF UplinkPDUsOnly
<1>1. table[b][j] \in UpTo(table[b][i].subscriberStation, b)
  BY AskedIsUpward
<1> QED BY <1>1 DEF UpTo, Upward

\* What waits in station p for b
Amount(p, b) ==
  LET up == {c.cid : c \in UpTo(p, b)}
  IN  IF up = {} THEN 0 ELSE NumberOfQueuedPDUs(p, up)

\* This is what b finds in the stations below, and nothing waits for it in
\* any other one.
LEMMA FoundIsWaiting ==
  ASSUME PathInv, Climbs, NEW b \in AP \cup FRS
  PROVE  /\ \A i \in Basics(b) : QueueSize(b, table[b][i].subscriberStation)
                                   = Amount(table[b][i].subscriberStation, b)
         /\ \A p \in Station : Amount(p, b) > 0 =>
              \E i \in Basics(b) : table[b][i].subscriberStation = p
<1>1. ASSUME NEW i \in Basics(b)
      PROVE  QueueSize(b, table[b][i].subscriberStation) = Amount(table[b][i].subscriberStation, b)
  <2> DEFINE p == table[b][i].subscriberStation
             asks == CIDsOf(b, AskedFor(b, p))
             up == {c.cid : c \in UpTo(p, b)}
  <2>1. /\ \A j \in AskedFor(b, p) : table[b][j] \in UpTo(p, b)
        /\ \A d \in UpTo(p, b) : \E j \in AskedFor(b, p) : table[b][j] = d
        /\ table[b][i] \in UpTo(p, b)
    BY AskedIsUpward
  <2>2. asks = up /\ up # {}
    BY <2>1 DEF CIDsOf
  <2> QED BY <2>2 DEF QueueSize, Amount
<1>2. ASSUME NEW p \in Station, Amount(p, b) > 0
      PROVE  \E i \in Basics(b) : table[b][i].subscriberStation = p
  <2>1. UpTo(p, b) # {}
    BY <1>2 DEF Amount
  <2>2. PICK d \in Upward(p) : d.baseStation = b
    BY <2>1 DEF UpTo
  <2> QED BY <2>2, UpwardIsHeld
<1> QED BY <1>1, <1>2

---------------------------------------------------------------------------
(* What a base station has requested, when it looks and later.             *)

\* The fake PDUs b queues
Requested(b) ==
  [cid \in CIDsOf(b, UserIDs(b)) |->
     LET p == CHOOSE p \in Station : \E i \in WithID(table[b], cid) :
                table[b][i].subscriberStation = p
     IN  Reset(b, cid) + Accepted(QueueSize(b, p))]

\* A connection requested is the last basic one of a station, for which as
\* much is requested as waits there.
LEMMA RequestedIs ==
  ASSUME PathInv, NEW b \in AP \cup FRS, NEW cid \in DOMAIN Requested(b)
  PROVE  \E i \in UserIDs(b) :
           /\ table[b][i].cid = cid
           /\ Requested(b)[cid] = 0 + Least(QueueLimit, QueueSize(b, table[b][i].subscriberStation))
<1>0. b \in Station
  BY StationAssumption
<1>1. PICK i \in UserIDs(b) : table[b][i].cid = cid
  BY DEF Requested, CIDsOf
<1>2. i \in Basics(b) /\ i \in DOMAIN table[b]
  BY <1>0, <1>1, BasicsBelow DEF UserIDs
<1> DEFINE p == table[b][i].subscriberStation
           q == CHOOSE q \in Station : \E j \in WithID(table[b], cid) :
                  table[b][j].subscriberStation = q
<1>3. p \in Station
  BY <1>0, <1>2, BasicsBelow
<1>4. WithID(table[b], cid) = {i}
  <2>1. WithID(table[b], cid) = {j \in DOMAIN table[b] : table[b][j].cid = cid}
    BY <1>0, WithIDIs
  <2>2. \A j \in DOMAIN table[b] : table[b][j].cid = cid => j = i
    BY <1>0, <1>1, <1>2 DEF PathInv, IInv, CIDsUnique
  <2> QED BY <1>1, <1>2, <2>1, <2>2
<1>5. q = p
  BY <1>3, <1>4
<1>6. cid \in CIDsOf(b, UserIDs(b))
  BY DEF Requested
<1>7. Requested(b)[cid] = Reset(b, cid) + Accepted(QueueSize(b, q))
  <2> HIDE DEF p
  <2> QED BY <1>6 DEF Requested
<1> QED BY <1>1, <1>5, <1>7 DEF Reset, Accepted

\* Of the basic connections of one station there is a last one.
LEMMA LastBasic ==
  ASSUME PathInv, NEW b \in Station, NEW p, NEW k \in Basics(b),
         table[b][k].subscriberStation = p
  PROVE  \E i \in Basics(b) : /\ table[b][i].subscriberStation = p
                              /\ \A j \in Basics(b) : table[b][j].subscriberStation = p => j <= i
<1> DEFINE I == {i \in Basics(b) : table[b][i].subscriberStation = p}
           T == {Len(table[b]) - i : i \in I}
<1>1. DOMAIN table[b] = 1..Len(table[b]) /\ Len(table[b]) \in Nat
  BY RowsAre DEF PathInv, IInv
<1>2. \A i \in I : i \in 1..Len(table[b])
  BY <1>1 DEF Basics, AllBasic
<1>3. T \in SUBSET Nat /\ T # {}
  <2>1. \A i \in I : Len(table[b]) - i \in Nat
    <3> HIDE DEF I
    <3> QED BY <1>1, <1>2
  <2>2. k \in I
    OBVIOUS
  <2> HIDE DEF I
  <2> QED BY <2>1, <2>2
<1> HIDE DEF T
<1>4. PICK x \in T : \A y \in T : x <= y
  BY <1>3, LeastExists
<1>5. PICK i \in I : x = Len(table[b]) - i
  BY DEF T
<1>6. ASSUME NEW j \in I PROVE j <= i
  <2>1. x <= Len(table[b]) - j
    BY <1>4 DEF T
  <2>2. i \in 1..Len(table[b]) /\ j \in 1..Len(table[b])
    BY <1>2
  <2> HIDE DEF I
  <2> QED BY <1>1, <1>5, <2>1, <2>2
<1> QED BY <1>6

\* When b looks, it requests what waits.
LEMMA LookMatches ==
  ASSUME PathInv, Climbs, RequestInv, NEW b \in AP \cup FRS
  PROVE  Matches(b, Rows(b), Requested(b), [p \in Station |-> Amount(p, b)])
<1> DEFINE a == [p \in Station |-> Amount(p, b)]
           f == Requested(b)
<1>0. b \in Station
  BY StationAssumption
<1>1. \A i \in UserIDs(b) :
        /\ i \in Basics(b) /\ table[b][i] \in Rows(b) /\ i \in DOMAIN table[b]
        /\ table[b][i].subscriberStation \in Station /\ table[b][i].subscriberStation # b
        /\ QueueSize(b, table[b][i].subscriberStation) = a[table[b][i].subscriberStation]
        /\ a[table[b][i].subscriberStation] > 0
        /\ table[b][i].cid \in DOMAIN f
  <2> SUFFICES ASSUME NEW i \in UserIDs(b)
               PROVE  /\ i \in Basics(b) /\ table[b][i] \in Rows(b) /\ i \in DOMAIN table[b]
                      /\ table[b][i].subscriberStation \in Station
                      /\ table[b][i].subscriberStation # b
                      /\ QueueSize(b, table[b][i].subscriberStation)
                           = a[table[b][i].subscriberStation]
                      /\ a[table[b][i].subscriberStation] > 0
                      /\ table[b][i].cid \in DOMAIN f
    OBVIOUS
  <2>1. i \in Basics(b) /\ QueueSize(b, table[b][i].subscriberStation) > 0
    BY DEF UserIDs
  <2>2. /\ table[b][i] \in Rows(b) /\ table[b][i].subscriberStation \in Station
        /\ table[b][i].subscriberStation # b /\ i \in DOMAIN table[b]
    BY <1>0, <2>1, BasicsBelow
  <2>3. QueueSize(b, table[b][i].subscriberStation) = Amount(table[b][i].subscriberStation, b)
    BY <2>1, FoundIsWaiting
  <2>4. table[b][i].cid \in DOMAIN f
    BY DEF Requested, CIDsOf
  <2> HIDE DEF f
  <2> QED BY <2>1, <2>2, <2>3, <2>4
<1>2. \A cid \in DOMAIN f : \E i \in UserIDs(b) :
        /\ table[b][i].cid = cid
        /\ f[cid] = 0 + Least(QueueLimit, QueueSize(b, table[b][i].subscriberStation))
  BY RequestedIs
<1>3. \A p \in Station : a[p] > 0 => \E i \in UserIDs(b) : table[b][i].subscriberStation = p
  <2> SUFFICES ASSUME NEW p \in Station, a[p] > 0
               PROVE  \E i \in UserIDs(b) : table[b][i].subscriberStation = p
    OBVIOUS
  <2>1. Amount(p, b) > 0
    OBVIOUS
  <2>2. PICK k \in Basics(b) : table[b][k].subscriberStation = p
    BY <2>1, FoundIsWaiting
  <2>3. PICK i \in Basics(b) :
           /\ table[b][i].subscriberStation = p
           /\ \A j \in Basics(b) : table[b][j].subscriberStation = p => j <= i
    BY <1>0, <2>2, LastBasic
  <2>4. QueueSize(b, p) > 0
    BY <2>1, <2>3, FoundIsWaiting
  <2> QED BY <2>3, <2>4 DEF UserIDs
<1>4. \A p \in Station : a[p] \in Nat
  <2> SUFFICES ASSUME NEW p \in Station PROVE Amount(p, b) \in Nat
    OBVIOUS
  <2> QED BY HeldIsQueued DEF Amount
<1>5. \A i, j \in UserIDs(b) :
        table[b][i].subscriberStation = table[b][j].subscriberStation => i = j
  <2> SUFFICES ASSUME NEW i \in UserIDs(b), NEW j \in UserIDs(b),
                      table[b][i].subscriberStation = table[b][j].subscriberStation
               PROVE  i = j
    OBVIOUS
  <2>1. i <= j /\ j <= i
    BY DEF UserIDs
  <2>2. i \in Nat /\ j \in Nat
    <3>1. DOMAIN table[b] = 1..Len(table[b]) /\ Len(table[b]) \in Nat
      BY <1>0, RowsAre DEF PathInv, IInv
    <3>2. i \in DOMAIN table[b] /\ j \in DOMAIN table[b]
      BY <1>1
    <3> QED BY <3>1, <3>2
  <2> QED BY <2>1, <2>2
<1> HIDE DEF a, f
<1>6. ASSUME NEW cid \in DOMAIN f
      PROVE  \E c \in Rows(b) :
               /\ c.cid = cid /\ c.subscriberStation # b
               /\ a[c.subscriberStation] > 0
               /\ f[cid] = Least(QueueLimit, a[c.subscriberStation])
  <2>1. PICK i \in UserIDs(b) :
           /\ table[b][i].cid = cid
           /\ f[cid] = 0 + Least(QueueLimit, QueueSize(b, table[b][i].subscriberStation))
    BY <1>2
  <2>2. /\ table[b][i] \in Rows(b)
        /\ table[b][i].subscriberStation \in Station /\ table[b][i].subscriberStation # b
        /\ QueueSize(b, table[b][i].subscriberStation) = a[table[b][i].subscriberStation]
        /\ a[table[b][i].subscriberStation] > 0
    BY <1>1
  <2>3. Least(QueueLimit, a[table[b][i].subscriberStation]) \in Nat
    BY <1>4, <2>2, BandwidthAssumption DEF Least
  <2>4. f[cid] = Least(QueueLimit, a[table[b][i].subscriberStation])
    BY <2>1, <2>2, <2>3
  <2> QED BY <2>1, <2>2, <2>4
<1>7. ASSUME NEW c \in Rows(b), NEW d \in Rows(b), c.cid \in DOMAIN f, d.cid \in DOMAIN f,
             c.subscriberStation = d.subscriberStation
      PROVE  c.cid = d.cid
  <2>1. PICK i \in UserIDs(b) : table[b][i].cid = c.cid
    BY <1>2, <1>7
  <2>2. PICK j \in UserIDs(b) : table[b][j].cid = d.cid
    BY <1>2, <1>7
  <2>3. table[b][i] = c /\ table[b][j] = d
    BY <1>0, <1>1, <2>1, <2>2, OneRow
  <2> QED BY <1>5, <1>7, <2>1, <2>2, <2>3
<1>8. ASSUME NEW p \in Station, a[p] > 0
      PROVE  \E c \in Rows(b) : c.cid \in DOMAIN f /\ c.subscriberStation = p
  BY <1>1, <1>3, <1>8
<1>9. Matches(b, Rows(b), f, a)
  BY <1>6, <1>7, <1>8 DEF Matches
<1> QED BY <1>9 DEF a, f

\* Connections that are added do not change what a request was for.
LEMMA MatchesStay ==
  ASSUME NEW b \in Station, NEW f, NEW a, NEW R, NEW Q, R \subseteq Q,
         \A c, d \in Q : c.cid = d.cid => c = d, Matches(b, R, f, a)
  PROVE  Matches(b, Q, f, a)
<1>1. \A cid \in DOMAIN f : \E c \in Q :
       /\ c.cid = cid /\ c.subscriberStation # b
       /\ a[c.subscriberStation] > 0
       /\ f[cid] = Least(QueueLimit, a[c.subscriberStation])
  BY DEF Matches
<1>2. ASSUME NEW c \in Q, NEW d \in Q, c.cid \in DOMAIN f, d.cid \in DOMAIN f,
             c.subscriberStation = d.subscriberStation
      PROVE  c.cid = d.cid
  <2>1. \A x \in Q : x.cid \in DOMAIN f => x \in R
    BY DEF Matches
  <2> QED BY <1>2, <2>1 DEF Matches
<1>3. \A p \in Station : a[p] > 0 =>
       \E c \in Q : c.cid \in DOMAIN f /\ c.subscriberStation = p
  BY DEF Matches
<1> QED BY <1>1, <1>2, <1>3 DEF Matches

---------------------------------------------------------------------------
(* Every step preserves the invariant.                                     *)

\* What has been requested stays as it is while b does not look.
LEMMA RequestsStay ==
  ASSUME PathInv, PathInv', [Next]_vars, RequestInv, UNCHANGED <<fake, asked>>
  PROVE  /\ \A b \in AP \cup FRS : Matches(b, Rows(b)', fake'[b], asked'[b])
         /\ DOMAIN fake' = AP \cup FRS
         /\ asked' \in [AP \cup FRS -> [Station -> 0..MaxQueued]]
         /\ \A b \in AP \cup FRS : /\ DOMAIN fake'[b] \subseteq Nat
                                   /\ Range(fake'[b]) \subseteq 1..QueueLimit
<1>1. ASSUME NEW b \in AP \cup FRS PROVE Matches(b, Rows(b)', fake'[b], asked'[b])
  <2>1. b \in Station
    BY StationAssumption
  <2>2. Rows(b) \subseteq Rows(b)'
    BY <2>1, NothingIsLost
  <2>3. \A c, d \in Rows(b)' : c.cid = d.cid => c = d
    <3>1. CIDsUnique'
      BY DEF PathInv, IInv
    <3>2. \A i, j \in DOMAIN table'[b] : table'[b][i].cid = table'[b][j].cid => i = j
      BY <2>1, <3>1 DEF CIDsUnique
    <3> QED BY <3>2 DEF Rows, Range
  <2>4. Matches(b, Rows(b), fake[b], asked[b])
    BY DEF RequestInv
  <2>5. Matches(b, Rows(b)', fake[b], asked[b])
    BY <2>1, <2>2, <2>3, <2>4, MatchesStay
  <2> QED BY <2>5
<1> QED BY <1>1 DEF RequestInv, RequestTypeOK

\* Associations leave the buffers alone.
LEMMA NextKeepsRequests ==
  ASSUME PathInv, PathInv', RequestInv, [Next]_vars, UNCHANGED <<buffer, inject, fake, asked>>
  PROVE  RequestInv'
<1>1. /\ \A b \in AP \cup FRS : Matches(b, Rows(b)', fake'[b], asked'[b])
      /\ DOMAIN fake' = AP \cup FRS
      /\ asked' \in [AP \cup FRS -> [Station -> 0..MaxQueued]]
      /\ \A b \in AP \cup FRS : /\ DOMAIN fake'[b] \subseteq Nat
                                /\ Range(fake'[b]) \subseteq 1..QueueLimit
  BY RequestsStay
<1>2. /\ (IsFiniteSet(Buffered) /\ IsFiniteSet(Injected) /\ Queued <= MaxQueued)'
      /\ buffer' \in [Station -> SUBSET PDU] /\ inject' \in [FRS -> 0..MaxQueued]
  BY DEF RequestInv, RequestTypeOK, Buffered, Injected, Queued
<1> QED BY <1>1, <1>2 DEF RequestInv, RequestTypeOK

\* What the places S hold by the function f
Pairs(S, f) == UNION {{x} \X f[x] : x \in S}

\* new holds in place s one more thing than old, e.
OneMoreAt(S, s, e, old, new) ==
  \A x \in S : new[x] = IF x = s THEN old[x] \cup {e} ELSE old[x]

\* One more PDU in one place is one more altogether.
LEMMA OneMore ==
  ASSUME NEW S, NEW s \in S, NEW e, NEW old, NEW new,
         OneMoreAt(S, s, e, old, new)
  PROVE  Pairs(S, new) = Pairs(S, old) \cup {<<s, e>>}
<1> DEFINE N == UNION {{x} \X new[x] : x \in S}
           O == UNION {{x} \X old[x] : x \in S}
<1>1. ASSUME NEW y \in N PROVE y \in O \cup {<<s, e>>}
  <2>1. PICK x \in S : y \in {x} \X new[x]
    OBVIOUS
  <2>2. PICK z \in new[x] : y = <<x, z>>
    BY <2>1
  <2>3. z \in old[x] \/ (x = s /\ z = e)
    BY <2>2 DEF OneMoreAt
  <2> QED BY <2>2, <2>3
<1>2. ASSUME NEW y \in O PROVE y \in N
  <2>1. PICK x \in S : y \in {x} \X old[x]
    OBVIOUS
  <2>2. PICK z \in old[x] : y = <<x, z>>
    BY <2>1
  <2>3. z \in new[x]
    BY <2>2 DEF OneMoreAt
  <2> QED BY <2>2, <2>3
<1>3. <<s, e>> \in N
  <2>1. e \in new[s] /\ s \in {s}
    BY DEF OneMoreAt
  <2> QED BY <2>1
<1> HIDE DEF N, O
<1>4. N = O \cup {<<s, e>>}
  BY <1>1, <1>2, <1>3
<1> QED BY <1>4 DEF N, O, Pairs

\* A packet more in a station's buffer.
LEMMA EnqueueRequests ==
  ASSUME PathInv, PathInv', RequestInv, NEW s \in Station, NEW c \in Upward(s), Enqueue(s, c)
  PROVE  RequestInv'
<1> DEFINE pdu == <<c.cid, Cardinality(Waiting(s, {c.cid})) + 1>>
<1>1. /\ Queued < MaxQueued
      /\ buffer' = [buffer EXCEPT ![s] = @ \cup {pdu}]
      /\ UNCHANGED <<vars, inject, fake, asked>>
  BY DEF Enqueue
<1>2. pdu \in PDU
  <2>1. Cardinality(Waiting(s, {c.cid})) \in Nat
    BY BufferIsFinite
  <2>2. c.cid \in Nat
    BY UpwardIsHeld
  <2> QED BY <2>1, <2>2 DEF PDU
<1> HIDE DEF pdu
<1>3. /\ \A b \in AP \cup FRS : Matches(b, Rows(b)', fake'[b], asked'[b])
      /\ DOMAIN fake' = AP \cup FRS
      /\ asked' \in [AP \cup FRS -> [Station -> 0..MaxQueued]]
      /\ \A b \in AP \cup FRS : /\ DOMAIN fake'[b] \subseteq Nat
                                /\ Range(fake'[b]) \subseteq 1..QueueLimit
  BY <1>1, RequestsStay
<1>4. buffer \in [Station -> SUBSET PDU] /\ inject' \in [FRS -> 0..MaxQueued]
  BY <1>1, HeldCounted
<1>5. Buffered' = Buffered \cup {<<s, pdu>>}
  <2>1. OneMoreAt(Station, s, pdu, buffer, buffer')
    BY <1>1, <1>4 DEF OneMoreAt
  <2>2. Pairs(Station, buffer') = Pairs(Station, buffer) \cup {<<s, pdu>>}
    BY <2>1, OneMore
  <2> QED BY <2>2 DEF Buffered, Pairs
<1>6. Injected' = Injected /\ Queued' = Cardinality(Buffered)' + Cardinality(Injected)'
  BY <1>1 DEF Injected, Buffered, Queued
<1>7. IsFiniteSet(Buffered) /\ IsFiniteSet(Injected)
  BY DEF RequestInv
<1>8. /\ IsFiniteSet(Buffered') /\ Cardinality(Buffered') \in Nat
      /\ Cardinality(Buffered') <= Cardinality(Buffered) + 1
  <2> DEFINE x == <<s, pdu>>
  <2>1. Buffered' = Buffered \cup {x}
    BY <1>5
  <2> HIDE DEF x
  <2>2. /\ IsFiniteSet(Buffered \cup {x})
        /\ \/ Cardinality(Buffered \cup {x}) = Cardinality(Buffered)
           \/ Cardinality(Buffered \cup {x}) = Cardinality(Buffered) + 1
    BY <1>7, FS_AddElement
  <2>3. Cardinality(Buffered) \in Nat
    BY HeldCounted
  <2> QED BY <2>1, <2>2, <2>3
<1>9. Queued' <= MaxQueued
  BY <1>1, <1>6, <1>8, HeldCounted
<1>10. buffer' \in [Station -> SUBSET PDU]
  BY <1>1, <1>2, <1>4
<1> QED BY <1>3, <1>4, <1>6, <1>7, <1>8, <1>9, <1>10 DEF RequestInv, RequestTypeOK

\* A packet more to be forwarded.
LEMMA ForwardRequests ==
  ASSUME PathInv, PathInv', RequestInv, NEW r \in FRS, Forward(r)
  PROVE  RequestInv'
<1>1. /\ Queued < MaxQueued
      /\ inject' = [inject EXCEPT ![r] = @ + 1]
      /\ UNCHANGED <<vars, buffer, fake, asked>>
  BY DEF Forward
<1>3. /\ \A b \in AP \cup FRS : Matches(b, Rows(b)', fake'[b], asked'[b])
      /\ DOMAIN fake' = AP \cup FRS
      /\ asked' \in [AP \cup FRS -> [Station -> 0..MaxQueued]]
      /\ \A b \in AP \cup FRS : /\ DOMAIN fake'[b] \subseteq Nat
                                /\ Range(fake'[b]) \subseteq 1..QueueLimit
  BY <1>1, RequestsStay
<1>4. buffer' \in [Station -> SUBSET PDU] /\ inject \in [FRS -> 0..MaxQueued]
  BY <1>1, HeldCounted
<1>5. Injected' = Injected \cup {<<r, inject[r] + 1>>}
  <2>1. \A x \in FRS : inject'[x] = IF x = r THEN inject[x] + 1 ELSE inject[x]
    BY <1>1, <1>4
  <2>2. inject[r] \in Nat /\ 1..(inject[r] + 1) = (1..inject[r]) \cup {inject[r] + 1}
    BY <1>4
  <2>3. \A x \in FRS : 1..inject'[x] = IF x = r THEN (1..inject[x]) \cup {inject[r] + 1}
                                       ELSE 1..inject[x]
    BY <2>1, <2>2
  <2> DEFINE old == [x \in FRS |-> 1..inject[x]]
             new == [x \in FRS |-> 1..inject'[x]]
  <2>4. OneMoreAt(FRS, r, inject[r] + 1, old, new)
    BY <2>3 DEF OneMoreAt
  <2>5. \A x \in FRS : new[x] = 1..inject'[x] /\ old[x] = 1..inject[x]
    OBVIOUS
  <2> HIDE DEF old, new
  <2>6. Pairs(FRS, new) = Pairs(FRS, old) \cup {<<r, inject[r] + 1>>}
    BY <2>4, OneMore
  <2>7. Pairs(FRS, new) = Injected' /\ Pairs(FRS, old) = Injected
    BY <2>5 DEF Injected, Pairs
  <2> QED BY <2>6, <2>7
<1>6. Buffered' = Buffered /\ Queued' = Cardinality(Buffered)' + Cardinality(Injected)'
  BY <1>1 DEF Injected, Buffered, Queued
<1>7. IsFiniteSet(Buffered) /\ IsFiniteSet(Injected)
  BY DEF RequestInv
<1>8. /\ IsFiniteSet(Injected') /\ Cardinality(Injected') \in Nat
      /\ Cardinality(Injected') <= Cardinality(Injected) + 1
  <2> DEFINE x == <<r, inject[r] + 1>>
  <2>1. Injected' = Injected \cup {x}
    BY <1>5
  <2> HIDE DEF x
  <2>2. /\ IsFiniteSet(Injected \cup {x})
        /\ \/ Cardinality(Injected \cup {x}) = Cardinality(Injected)
           \/ Cardinality(Injected \cup {x}) = Cardinality(Injected) + 1
    BY <1>7, FS_AddElement
  <2>3. Cardinality(Injected) \in Nat
    BY HeldCounted
  <2> QED BY <2>1, <2>2, <2>3
<1>9. Queued' <= MaxQueued
  BY <1>1, <1>6, <1>8, HeldCounted
<1>10. inject' \in [FRS -> 0..MaxQueued]
  <2>1. inject[r] <= Cardinality(Injected) /\ inject[r] \in Nat
    BY InjectedHere
  <2>2. inject[r] + 1 \in 0..MaxQueued
    BY <1>1, <2>1, HeldCounted
  <2> QED BY <1>1, <1>4, <2>2
<1> QED BY <1>3, <1>4, <1>6, <1>7, <1>8, <1>9, <1>10 DEF RequestInv, RequestTypeOK

\* A packet less.
LEMMA SendRequests ==
  ASSUME PathInv, PathInv', RequestInv, NEW s \in Station, Send(s)
  PROVE  RequestInv'
<1>1. UNCHANGED <<vars, fake, asked>>
  BY DEF Send
<1>2. buffer \in [Station -> SUBSET PDU] /\ inject \in [FRS -> 0..MaxQueued] /\ MaxQueued \in Nat
  BY HeldCounted
<1>3. /\ buffer' \in [Station -> SUBSET PDU] /\ inject' \in [FRS -> 0..MaxQueued]
      /\ \A x \in Station : buffer'[x] \subseteq buffer[x]
      /\ \A x \in FRS : 1..inject'[x] \subseteq 1..inject[x]
  <2>1. ASSUME NEW pdu \in buffer[s], buffer' = [buffer EXCEPT ![s] = @ \ {pdu}], UNCHANGED inject
        PROVE  /\ buffer' \in [Station -> SUBSET PDU] /\ inject' \in [FRS -> 0..MaxQueued]
               /\ \A x \in Station : buffer'[x] \subseteq buffer[x]
               /\ \A x \in FRS : 1..inject'[x] \subseteq 1..inject[x]
    BY <1>2, <2>1
  <2>2. ASSUME s \in FRS, inject[s] > 0, inject' = [inject EXCEPT ![s] = @ - 1], UNCHANGED buffer
        PROVE  /\ buffer' \in [Station -> SUBSET PDU] /\ inject' \in [FRS -> 0..MaxQueued]
               /\ \A x \in Station : buffer'[x] \subseteq buffer[x]
               /\ \A x \in FRS : 1..inject'[x] \subseteq 1..inject[x]
    <3>1. inject[s] \in 0..MaxQueued /\ inject[s] - 1 \in 0..MaxQueued
      BY <1>2, <2>2
    <3>2. \A x \in FRS : inject'[x] = IF x = s THEN inject[x] - 1 ELSE inject[x]
      BY <1>2, <2>2
    <3>3. 1..(inject[s] - 1) \subseteq 1..inject[s]
      BY <3>1
    <3> QED BY <1>2, <2>2, <3>1, <3>2, <3>3
  <2> QED BY <2>1, <2>2 DEF Send
<1>4. Buffered' \subseteq Buffered
  BY <1>3 DEF Buffered
<1>5. Injected' \subseteq Injected
  BY <1>3 DEF Injected
<1>6. IsFiniteSet(Buffered) /\ IsFiniteSet(Injected) /\ Queued <= MaxQueued
  BY DEF RequestInv
<1>7. /\ IsFiniteSet(Buffered') /\ Cardinality(Buffered') <= Cardinality(Buffered)
      /\ IsFiniteSet(Injected') /\ Cardinality(Injected') <= Cardinality(Injected)
  BY <1>4, <1>5, <1>6, FS_Subset
<1>8. Cardinality(Buffered') \in Nat /\ Cardinality(Injected') \in Nat
  BY <1>7, FS_CardinalityType
<1>9. Queued' = Cardinality(Buffered)' + Cardinality(Injected)'
  BY DEF Injected, Buffered, Queued
<1>10. Queued' <= MaxQueued
  BY <1>6, <1>7, <1>8, <1>9, HeldCounted
<1>11. /\ \A b \in AP \cup FRS : Matches(b, Rows(b)', fake'[b], asked'[b])
       /\ DOMAIN fake' = AP \cup FRS
       /\ asked' \in [AP \cup FRS -> [Station -> 0..MaxQueued]]
       /\ \A b \in AP \cup FRS : /\ DOMAIN fake'[b] \subseteq Nat
                                 /\ Range(fake'[b]) \subseteq 1..QueueLimit
  BY <1>1, RequestsStay
<1> QED BY <1>3, <1>7, <1>10, <1>11 DEF RequestInv, RequestTypeOK

\* The types of what b queues.
LEMMA RequestedType ==
  ASSUME PathInv, Climbs, RequestInv, NEW b \in AP \cup FRS
  PROVE  /\ DOMAIN Requested(b) \subseteq Nat
         /\ Range(Requested(b)) \subseteq 1..QueueLimit
         /\ [p \in Station |-> Amount(p, b)] \in [Station -> 0..MaxQueued]
<1> DEFINE a == [p \in Station |-> Amount(p, b)]
<1>0. b \in Station
  BY StationAssumption
<1>1. \A p \in Station : Amount(p, b) \in 0..MaxQueued
  <2> SUFFICES ASSUME NEW p \in Station PROVE Amount(p, b) \in 0..MaxQueued
    OBVIOUS
  <2> QED BY HeldIsQueued, BandwidthAssumption DEF Amount
<1>2. a \in [Station -> 0..MaxQueued]
  BY <1>1
<1>3. Matches(b, Rows(b), Requested(b), a)
  BY LookMatches
<1> HIDE DEF a
<1>4. ASSUME NEW cid \in DOMAIN Requested(b)
      PROVE  cid \in Nat /\ Requested(b)[cid] \in 1..QueueLimit
  <2>1. PICK c \in Rows(b) : /\ c.cid = cid
                             /\ a[c.subscriberStation] > 0
                             /\ Requested(b)[cid] = Least(QueueLimit, a[c.subscriberStation])
    BY <1>3 DEF Matches
  <2>2. c \in Connection
    BY <1>0, HopEnds
  <2>3. cid \in Nat /\ c.subscriberStation \in Station
    BY <2>1, <2>2 DEF Connection
  <2>4. a[c.subscriberStation] \in 0..MaxQueued
    BY <1>2, <2>3
  <2> QED BY <2>1, <2>3, <2>4, BandwidthAssumption DEF Least
<1> QED BY <1>2, <1>4 DEF a, Range

\* The handler: w looks, the requests of the others stand.
LEMMA WakeupRequests ==
  ASSUME PathInv, PathInv', Climbs, RequestInv, NEW w \in AP \cup FRS, Wakeup(w)
  PROVE  RequestInv'
<1> DEFINE a == [p \in Station |-> Amount(p, w)]
           f == Requested(w)
<1>1. /\ UNCHANGED <<vars, buffer, inject>>
      /\ fake' = [fake EXCEPT ![w] = f]
  BY DEF Wakeup, Requested
<1>2. asked' = [asked EXCEPT ![w] = a]
  BY DEF Wakeup, Amount, UpTo, NumberOfQueuedPDUs
<1>3. /\ Matches(w, Rows(w), f, a) /\ DOMAIN f \subseteq Nat /\ Range(f) \subseteq 1..QueueLimit
      /\ a \in [Station -> 0..MaxQueued]
  BY LookMatches, RequestedType
<1> HIDE DEF a, f
<1>4. /\ asked \in [AP \cup FRS -> [Station -> 0..MaxQueued]] /\ DOMAIN fake = AP \cup FRS
      /\ buffer' \in [Station -> SUBSET PDU] /\ inject' \in [FRS -> 0..MaxQueued]
      /\ \A b \in AP \cup FRS : /\ DOMAIN fake[b] \subseteq Nat
                                /\ Range(fake[b]) \subseteq 1..QueueLimit
      /\ \A b \in AP \cup FRS : Matches(b, Rows(b), fake[b], asked[b])
  BY <1>1 DEF RequestInv, RequestTypeOK
<1>5. /\ DOMAIN fake' = AP \cup FRS
      /\ \A b \in AP \cup FRS : /\ fake'[b] = IF b = w THEN f ELSE fake[b]
                                /\ asked'[b] = IF b = w THEN a ELSE asked[b]
      /\ asked' \in [AP \cup FRS -> [Station -> 0..MaxQueued]]
  BY <1>1, <1>2, <1>3, <1>4
<1>6. \A b \in AP \cup FRS : Rows(b)' = Rows(b)
  BY <1>1 DEF Rows, vars
<1>7. \A b \in AP \cup FRS : Matches(b, Rows(b)', fake'[b], asked'[b])
  BY <1>3, <1>4, <1>5, <1>6
<1>8. \A b \in AP \cup FRS : DOMAIN fake'[b] \subseteq Nat /\ Range(fake'[b]) \subseteq 1..QueueLimit
  BY <1>3, <1>4, <1>5
<1>9. (IsFiniteSet(Buffered) /\ IsFiniteSet(Injected) /\ Queued <= MaxQueued)'
  BY <1>1 DEF RequestInv, Buffered, Injected, Queued
<1> QED BY <1>4, <1>5, <1>7, <1>8, <1>9 DEF RequestInv, RequestTypeOK

\* In the beginning nothing waits and nothing is requested.
LEMMA InitRequests == RequestInit => RequestInv
<1> SUFFICES ASSUME RequestInit PROVE RequestInv
  OBVIOUS
<1>1. Buffered = {} /\ Injected = {}
  BY DEF RequestInit, Buffered, Injected
<1>2. IsFiniteSet(Buffered) /\ IsFiniteSet(Injected) /\ Queued = 0
  <2>1. IsFiniteSet(Buffered) /\ IsFiniteSet(Injected)
    BY <1>1, FS_EmptySet
  <2>2. Cardinality(Buffered) = 0 /\ Cardinality(Injected) = 0
    BY <1>1, FS_EmptySet
  <2>3. Queued = Cardinality(Buffered) + Cardinality(Injected)
    BY DEF Queued, Buffered, Injected
  <2> QED BY <2>1, <2>2, <2>3
<1>3. \A b \in AP \cup FRS : /\ fake[b] = <<>> /\ DOMAIN fake[b] = {} /\ Range(fake[b]) = {}
                             /\ asked[b] = [p \in Station |-> 0]
  BY DEF RequestInit, Range
<1>4. RequestTypeOK
  <2>1. buffer \in [Station -> SUBSET PDU] /\ inject \in [FRS -> 0..MaxQueued]
    BY BandwidthAssumption DEF RequestInit
  <2>2. asked \in [AP \cup FRS -> [Station -> 0..MaxQueued]]
    BY BandwidthAssumption DEF RequestInit
  <2> QED BY <1>3, <2>1, <2>2 DEF RequestTypeOK
<1>5. \A b \in AP \cup FRS : Matches(b, Rows(b), fake[b], asked[b])
  BY <1>3 DEF Matches
<1> QED BY <1>2, <1>4, <1>5, BandwidthAssumption DEF RequestInit, RequestInv

\* One case per action.
LEMMA RequestStep ==
  PathInv /\ PathInv' /\ Climbs /\ RequestInv /\ [RequestNext]_requestVars => RequestInv'
<1> SUFFICES ASSUME PathInv, PathInv', Climbs, RequestInv, [RequestNext]_requestVars
             PROVE  RequestInv'
  OBVIOUS
<1>1. CASE Next /\ UNCHANGED <<buffer, inject, fake, asked>>
  BY <1>1, NextKeepsRequests
<1>2. CASE UNCHANGED requestVars
  <2>1. UNCHANGED vars /\ UNCHANGED <<buffer, inject, fake, asked>>
    BY <1>2 DEF requestVars
  <2> QED BY <2>1, NextKeepsRequests
<1> QED BY <1>1, <1>2, EnqueueRequests, ForwardRequests, SendRequests, WakeupRequests DEF RequestNext

---------------------------------------------------------------------------
(* What the invariant implies.                                             *)

\* The one row a queued CID names, and its user.
LEMMA RowOfRequest ==
  ASSUME PathInv, RequestInv, NEW b \in AP \cup FRS, NEW cid \in DOMAIN fake[b],
         NEW i \in WithID(table[b], cid)
  PROVE  LET c == table[b][i]
         IN  /\ c \in Rows(b) /\ c.cid = cid /\ c.subscriberStation \in Station
             /\ c.subscriberStation # b /\ User(b, i) = c.subscriberStation
             /\ asked[b][c.subscriberStation] > 0
             /\ fake[b][cid] = Least(QueueLimit, asked[b][c.subscriberStation])
<1>0. b \in Station
  BY StationAssumption
<1>1. i \in DOMAIN table[b] /\ table[b][i].cid = cid
  BY <1>0, WithIDIs
<1> DEFINE c == table[b][i]
<1>2. c \in Rows(b) /\ c.cid = cid
  BY <1>1 DEF Rows, Range
<1>3. c.baseStation = b => User(b, i) = c.subscriberStation
  BY <1>0, <1>1, UserIs
<1> HIDE DEF c
<1>4. PICK d \in Rows(b) :
         /\ d.cid = cid /\ d.subscriberStation # b
         /\ asked[b][d.subscriberStation] > 0
         /\ fake[b][cid] = Least(QueueLimit, asked[b][d.subscriberStation])
  BY DEF RequestInv, Matches
<1>5. c = d
  BY <1>0, <1>2, <1>4, OneRow
<1>6. c.baseStation = b /\ c.subscriberStation \in Station
  BY <1>0, <1>2, <1>4, <1>5, HopEnds
<1> QED BY <1>2, <1>3, <1>4, <1>5, <1>6 DEF c

\* Two connections requested are two users', as each user has one of them.
LEMMA ForUsersHolds == PathInv /\ RequestInv => RequestsAreForUsers
<1> SUFFICES ASSUME PathInv, RequestInv, NEW b \in AP \cup FRS, NEW cid \in DOMAIN fake[b]
             PROVE  \E i \in WithID(table[b], cid) :
                      /\ User(b, i) # b /\ asked[b][User(b, i)] > 0
                      /\ \A c \in DOMAIN fake[b] \ {cid} : \A j \in WithID(table[b], c) :
                           User(b, j) # User(b, i)
  BY DEF RequestsAreForUsers
<1>0. b \in Station
  BY StationAssumption
<1>1. PICK c \in Rows(b) : c.cid = cid
  BY DEF RequestInv, Matches
<1>2. PICK i \in DOMAIN table[b] : table[b][i] = c
  BY DEF Rows, Range
<1>3. i \in WithID(table[b], cid)
  BY <1>0, <1>1, <1>2, WithIDIs
<1>4. ASSUME NEW c2 \in DOMAIN fake[b], c2 # cid, NEW j \in WithID(table[b], c2)
      PROVE  User(b, j) # User(b, i)
  <2>1. /\ table[b][i] \in Rows(b) /\ table[b][i].cid = cid
        /\ User(b, i) = table[b][i].subscriberStation
    BY <1>3, RowOfRequest
  <2>2. /\ table[b][j] \in Rows(b) /\ table[b][j].cid = c2
        /\ User(b, j) = table[b][j].subscriberStation
    BY <1>4, RowOfRequest
  <2>3. Matches(b, Rows(b), fake[b], asked[b])
    BY DEF RequestInv
  <2> QED BY <1>4, <2>1, <2>2, <2>3 DEF Matches
<1>5. User(b, i) # b /\ asked[b][User(b, i)] > 0
  BY <1>3, RowOfRequest
<1> QED BY <1>3, <1>4, <1>5

\* The sum over a station's connections has one term, or none if nothing waited.
LEMMA AsksHolds == PathInv /\ RequestInv => AsksForAllThatWaits
<1> SUFFICES ASSUME PathInv, RequestInv, NEW b \in AP \cup FRS, NEW p \in Station
             PROVE  SumFunctionOnSet(fake[b],
                      {cid \in DOMAIN fake[b] : \E i \in WithID(table[b], cid) :
                         table[b][i].subscriberStation = p})
                    = Least(QueueLimit, asked[b][p])
  BY DEF AsksForAllThatWaits
<1> DEFINE cids == {cid \in DOMAIN fake[b] : \E i \in WithID(table[b], cid) :
                      table[b][i].subscriberStation = p}
<1>0. b \in Station /\ asked[b][p] \in Nat /\ QueueLimit \in Nat
  BY StationAssumption, BandwidthAssumption DEF RequestInv, RequestTypeOK
<1>1. Matches(b, Rows(b), fake[b], asked[b])
  BY DEF RequestInv
<1>2. CASE asked[b][p] > 0
  <2>1. PICK c \in Rows(b) : c.cid \in DOMAIN fake[b] /\ c.subscriberStation = p
    BY <1>1, <1>2 DEF Matches
  <2>2. PICK i \in DOMAIN table[b] : table[b][i] = c
    BY DEF Rows, Range
  <2>3. i \in WithID(table[b], c.cid)
    BY <1>0, <2>2, WithIDIs
  <2>4. fake[b][c.cid] = Least(QueueLimit, asked[b][p])
    BY <2>1, <2>2, <2>3, RowOfRequest
  <2>5. \A cid \in cids : cid = c.cid
    <3> SUFFICES ASSUME NEW cid \in DOMAIN fake[b], NEW j \in WithID(table[b], cid),
                        table[b][j].subscriberStation = p
                 PROVE  cid = c.cid
      OBVIOUS
    <3>1. table[b][j] \in Rows(b) /\ table[b][j].cid = cid
      BY RowOfRequest
    <3> QED BY <1>1, <2>1, <3>1 DEF Matches
  <2>6. cids = {c.cid}
    BY <2>1, <2>2, <2>3, <2>5
  <2> HIDE DEF cids
  <2>7. fake[b][c.cid] \in Nat
    BY <1>0, <2>4 DEF Least
  <2>8. SumFunctionOnSet(fake[b], cids) = fake[b][c.cid]
    BY <2>6, <2>7, SumOfOne
  <2> QED BY <2>4, <2>8 DEF cids
<1>3. CASE ~ (asked[b][p] > 0)
  <2>1. cids = {}
    <3> SUFFICES ASSUME NEW cid \in DOMAIN fake[b], NEW j \in WithID(table[b], cid),
                        table[b][j].subscriberStation = p
                 PROVE  FALSE
      OBVIOUS
    <3>1. asked[b][table[b][j].subscriberStation] > 0
      BY RowOfRequest
    <3> QED BY <1>3, <3>1
  <2> HIDE DEF cids
  <2>2. SumFunctionOnSet(fake[b], cids) = 0
    BY <2>1, SumOfNone
  <2>3. Least(QueueLimit, asked[b][p]) = 0
    BY <1>0, <1>3, BandwidthAssumption DEF Least
  <2> QED BY <2>2, <2>3 DEF cids
<1> QED BY <1>2, <1>3

---------------------------------------------------------------------------
(* The theorems.                                                           *)

\* The stations and their connections are those of Association.
LEMMA RequestsRefine == RequestSpec => Spec
<1>1. RequestInit => Init
  BY DEF RequestInit
<1>2. [RequestNext]_requestVars => [Next]_vars
  BY DEF RequestNext, requestVars, Enqueue, Forward, Send, Wakeup
<1> QED BY <1>1, <1>2, PTL DEF RequestSpec, Spec

\* While stations associate and packets come and go, the fake packets of every
\* base station match what its last look found.
THEOREM RequestInvariance == RequestSpec => []RequestInv
BY RequestsRefine, PathInvariance, ClimbsInvariance, InitRequests, RequestStep, PTL DEF RequestSpec

\* PseudoBWRequestGenerator requests for users only, each on one connection,
\* and the assertion of getNumberOfQueuedPDUs ("works for uplink PDUs only")
\* never fails, whatever relays lie between.
THEOREM RequestsAlwaysSound == RequestSpec => []RequestsSound
<1>1. PathInv /\ Climbs /\ RequestInv => RequestsSound
  BY UplinkHolds, ForUsersHolds DEF RequestsSound, RequestInv
<1> QED BY <1>1, RequestsRefine, PathInvariance, ClimbsInvariance, RequestInvariance, PTL

\* What a base station has requested for a station is always what waited in
\* it when it looked, up to the limit of its queue.
THEOREM AlwaysAsksForAll == RequestSpec => []AsksForAllThatWaits
BY AsksHolds, RequestsRefine, PathInvariance, RequestInvariance, PTL
==========================================================================
