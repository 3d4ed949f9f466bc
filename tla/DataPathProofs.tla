-------------------------- MODULE DataPathProofs --------------------------
(***************************************************************************)
(* Proofs about DataPath: whatever stations join and in whatever order the *)
(* queues are served, packets stay on connections of their own terminal,   *)
(* what an access point learns from them is right, and acknowledgements    *)
(* name the connection their data was sent on.  The proofs rest on the     *)
(* invariant of PathProofs, which a packet never disturbs.                 *)
(*                                                                         *)
(* What is said of acknowledgements needs a condition: an access point     *)
(* behind which there are relays does not acknowledge.  Without it the     *)
(* basic connection found for a relayed connection is the first one of the *)
(* hop, which is the relay's own (see BasicBelongs).                       *)
(***************************************************************************)
EXTENDS DataPath, PathProofs

\* The condition on the deployment under which acknowledgements find their way.
AcksDirect == Acking \subseteq UT \/ FRS = {}

---------------------------------------------------------------------------
(* The inductive invariants.                                               *)

\* Connection c takes packets of station s one hop on, up or down.
Leads(s, c, up) == IF up THEN c.subscriberStation = s ELSE c.baseStation = s

\* The station it takes them to.
Onward(c, up) == IF up THEN c.baseStation ELSE c.subscriberStation

DataKind(up, q) == KindOf("Data", IF up THEN "Uplink" ELSE "Downlink", q)

\* A hop whose lower end is a terminal serves that terminal.
TerminalHops ==
  \A s \in Station : \A c \in Rows(s) :
    c.cid # 0 /\ c.subscriberStation \in UT => c.remoteStation = c.subscriberStation

\* Packet p is queued for a connection of its terminal, of the given kind,
\* that takes it on in its direction.
Queued(p, kind) ==
  /\ life[p.ut] = "joined"
  /\ \E c \in Rows(p.at) : /\ c.cid = p.cid /\ c.cid # 0
                           /\ c.remoteStation = p.ut
                           /\ c.kind = kind
                           /\ Leads(p.at, c, p.up)

\* Who sent the data of terminal u in a direction.
Origin(u, up) == IF up THEN u ELSE cell[u]

\* Connection of is the origin's one for the class and the direction.
SentOn(u, up, q, of) ==
  \E d \in Rows(Origin(u, up)) :
    d.cid = of /\ d.remoteStation = u /\ d.kind = DataKind(up, q)

\* Data is on the data connection of its class and direction, and was from
\* its origin on.
DataQueued ==
  \A p \in air : ~p.ack => /\ Queued(p, DataKind(p.up, p.class))
                           /\ SentOn(p.ut, p.up, p.class, p.of)

\* Flow identifiers are given out once, and an access point that knows of a
\* flow knows the class its terminal asked for.
FlowsKnown ==
  /\ \A s \in Station, f \in Flow : f > dllFlowID => flowClass[s][f] = "none"
  /\ \A u, v \in UT, f \in Flow :
       flowClass[u][f] # "none" /\ flowClass[v][f] # "none" => u = v
  /\ \A u \in UT : flowClass[u][NoFlow] = "none"
  /\ \A a \in AP, f \in Flow : f # NoFlow /\ flowClass[a][f] # "none" =>
       \E u \in UT : flowClass[u][f] = flowClass[a][f]
  /\ \A u \in UT, f \in Flow : <<u, f>> \in heard =>
       /\ f # NoFlow /\ lookup[u] # NoStation
       /\ flowClass[u][f] # "none"
       /\ flowClass[lookup[u]][f] = flowClass[u][f]

\* The invariant of data and of what is learned from it.
DataInv == /\ DataTypeOK
           /\ DataQueued
           /\ LocationRight
           /\ FlowsKnown
           /\ FlowKeepsClass

\* An acknowledgement is on a basic connection of its terminal, and the CID it
\* carries belongs to the connection that its data took over the same hop.  It
\* goes down only where there are no relays.
AcksQueued ==
  \A p \in air : p.ack =>
    /\ Queued(p, Basic)
    /\ p.up \/ FRS = {}
    /\ \E q \in DataQoS :
         /\ SentOn(p.ut, ~p.up, q, p.of)
         /\ \E e \in Rows(p.at) : /\ e.cid = p.originalCID /\ e.cid # 0
                                  /\ e.remoteStation = p.ut
                                  /\ e.kind = DataKind(~p.up, q)
                                  /\ Leads(p.at, e, p.up)

AckInv == /\ AcksQueued
          /\ fault = "none"

---------------------------------------------------------------------------
(* Associations take nothing away from a packet.                           *)

\* A hop down to a terminal is built for that terminal: createRecursive starts
\* there.
LEMMA TerminalHopsStep == PathInv /\ TerminalHops /\ [Next]_vars => TerminalHops'
<1> SUFFICES ASSUME PathInv, TerminalHops, [Next]_vars,
                    NEW s \in Station, NEW c \in Rows(s)',
                    c.cid # 0, c.subscriberStation \in UT
             PROVE  c.remoteStation = c.subscriberStation
  BY DEF TerminalHops
<1>1. CASE c \in Rows(s)
  BY <1>1 DEF TerminalHops
<1>2. CASE UNCHANGED table
  BY <1>1, <1>2 DEF Rows
<1>3. ASSUME NEW x \in FRS \cup UT, NEW d \in AP \cup FRS, AssociateTo(x, d)
      PROVE  c \in Rows(s)
  BY <1>3, AssociateToRows DEF PathInv, IInv
<1>4. CASE Hop
  <2>1. IInv /\ CallBuilds /\ call.pc = "climb"
    BY <1>4, HopContext DEF PathInv
  <2>2. CASE c \in NewRows
    <3>1. c.subscriberStation = call.child /\ c.remoteStation = call.remote
      BY <2>2 DEF NewRows, HopRow
    <3>2. call.child = call.remote \/ call.child \in FRS
      BY <2>1 DEF CallBuilds
    <3> QED BY <3>1, <3>2, StationAssumption
  <2> QED BY <1>1, <1>4, <2>1, <2>2, HopGrows
<1> QED BY <1>1, <1>2, <1>3, <1>4 DEF Next, vars, Construct, Climb

\* A terminal's hop is its own, whatever relays lie above it.
THEOREM TerminalHopsInvariance == Spec => []TerminalHops
<1>1. Init => TerminalHops
  BY StationAssumption DEF Init, TerminalHops, Rows, Range
<1> QED BY <1>1, TerminalHopsStep, PathInvariance, PTL DEF Spec

\* The connections of a terminal serve it and lead up from it.
LEMMA AtTerminal ==
  ASSUME NEW u \in UT, NEW c \in Rows(u), PathInv, TerminalHops, c.cid # 0
  PROVE  c.subscriberStation = u /\ c.remoteStation = u /\ c.baseStation # u
<1>1. u \in Station /\ u \notin AP \cup FRS
  BY StationAssumption
<1>2. c.subscriberStation = u /\ c.baseStation # u
  BY <1>1, HopEnds
<1> QED BY <1>1, <1>2 DEF TerminalHops

---------------------------------------------------------------------------
(* What happens to a packet on a connection that leads it on.              *)

\* It is transmitted to the other end of the hop, which accepts it.
LEMMA OnwardIs ==
  ASSUME NEW s \in Station, NEW c \in Rows(s), NEW up \in BOOLEAN,
         PathInv, c.cid # 0, Leads(s, c, up)
  PROVE  /\ Onward(c, up) \in Station /\ Onward(c, up) # s
         /\ Peer(s, c) = Onward(c, up)
         /\ c \in Rows(Onward(c, up)) /\ Leads(Onward(c, up), c, ~up)
         /\ Accepts(Onward(c, up), c.cid)
         /\ up => Onward(c, up) \in AP \cup FRS
         /\ ~up => Onward(c, up) \in FRS \cup UT
<1>1. /\ c.baseStation \in AP \cup FRS /\ c.baseStation \in Station
      /\ c.subscriberStation \in Station \ AP
      /\ c.baseStation # c.subscriberStation
      /\ c \in Rows(c.baseStation) /\ c \in Rows(c.subscriberStation)
  BY HopEnds
<1> DEFINE n == Onward(c, up)
<1>2. /\ n \in Station /\ n # s /\ c \in Rows(n) /\ Leads(n, c, ~up)
      /\ up => n \in AP \cup FRS
      /\ ~up => n \in FRS \cup UT
  BY <1>1, StationAssumption DEF Onward, Leads
<1>3. Peer(s, c) = n
  BY <1>1, StationAssumption DEF Peer, Onward, Leads
<1>4. Accepts(n, c.cid)
  <2> HIDE DEF n
  <2>1. TypeOK /\ RowsOK /\ Attached
    BY DEF PathInv, IInv
  <2>2. PICK i \in DOMAIN table[n] : table[n][i] = c
    BY <1>2, <2>1, RowsAre
  <2>3. WithID(table[n], c.cid) # {}
    BY <1>2, <2>2, WithIDIs
  <2>4. ASSUME n \notin AP PROVE WithID(table[n], 0) # {}
    <3>1. cell[n] # NoStation
      BY <1>2, <2>1, StationAssumption DEF RowsOK
    <3>2. PICK r \in Rows(n) : r.cid = 0
      BY <1>2, <2>1, <2>4, <3>1 DEF Attached
    <3>3. PICK j \in DOMAIN table[n] : table[n][j] = r
      BY <1>2, <2>1, RowsAre
    <3> QED BY <1>2, <3>2, <3>3, WithIDIs
  <2> QED BY <2>3, <2>4 DEF Accepts
<1> QED BY <1>2, <1>3, <1>4

\* The connection that has the CID is the one that was meant.
LEMMA WithIDOf ==
  ASSUME NEW s \in Station, NEW c \in Rows(s), PathInv
  PROVE  /\ WithID(table[s], c.cid) # {}
         /\ \A i \in WithID(table[s], c.cid) : i \in DOMAIN table[s] /\ table[s][i] = c
<1>1. TypeOK /\ CIDsUnique
  BY DEF PathInv, IInv
<1>2. PICK j \in DOMAIN table[s] : table[s][j] = c
  BY <1>1, RowsAre
<1>3. WithID(table[s], c.cid) = {i \in DOMAIN table[s] : table[s][i].cid = c.cid}
  BY WithIDIs
<1>4. \A i \in DOMAIN table[s] : table[s][i].cid = c.cid => i = j
  BY <1>1, <1>2 DEF CIDsUnique
<1> QED BY <1>2, <1>3, <1>4

\* Two connections of a station with one CID are one.
LEMMA SameCID ==
  ASSUME NEW s \in Station, NEW c \in Rows(s), NEW d \in Rows(s), PathInv, c.cid = d.cid
  PROVE  c = d
<1>1. PICK i \in WithID(table[s], c.cid) : TRUE
  BY WithIDOf
<1> QED BY <1>1, WithIDOf

\* What a relay is given for another station it maps to the connection of
\* the same station and kind on its other side.
LEMMA MappedOn ==
  ASSUME NEW r \in FRS, NEW c \in Rows(r), NEW up \in BOOLEAN,
         PathInv, call.pc = "idle", c.cid # 0,
         c.remoteStation \in UT, Leads(r, c, ~up)
  PROVE  /\ MappingsOf(r, c.cid) # {}
         /\ \E d \in Rows(r) : /\ Mapped(r, c.cid) = {d.cid}
                               /\ d.cid # 0 /\ d.kind = c.kind
                               /\ d.remoteStation = c.remoteStation
                               /\ Leads(r, d, up)
<1>1. /\ r \in Station /\ c.remoteStation # r /\ Rows(r) = Range(table[r])
      /\ RelayedPathComplete /\ MappingsFaithful /\ RowsOK
  BY StationAssumption, RelayedHolds DEF PathInv, IInv, Rows
<1> DEFINE M == MappingsOf(r, c.cid)
<1>2. Cardinality(M) = 1
  BY <1>1 DEF RelayedPathComplete, Leads
<1>3. M \subseteq DOMAIN mappings[r] /\ DOMAIN mappings[r] \subseteq Nat /\ IsFiniteSet(M)
  <2>1. M \subseteq DOMAIN mappings[r]
    BY DEF MappingsOf
  <2>2. mappings[r] \in Seq(RelayMapping)
    BY DEF PathInv, IInv, TypeOK
  <2>3. DOMAIN mappings[r] = 1..Len(mappings[r]) /\ Len(mappings[r]) \in Nat
    BY <2>2, LenProperties
  <2>4. IsFiniteSet(1..Len(mappings[r])) /\ 1..Len(mappings[r]) \subseteq Nat
    BY <2>3, FS_Interval
  <2> QED BY <2>1, <2>3, <2>4, FS_Subset
<1>4. PICK n : M = {n}
  <2> HIDE DEF M
  <2> QED BY <1>2, <1>3, FS_Singleton
<1>5. /\ n \in DOMAIN mappings[r] /\ n \in Nat
      /\ c.cid \in {mappings[r][n].upper, mappings[r][n].lower}
  BY <1>3, <1>4 DEF MappingsOf
<1>6. Mapped(r, c.cid) = {IF c.cid = mappings[r][n].upper THEN mappings[r][n].lower
                                                          ELSE mappings[r][n].upper}
  <2>1. {k \in MappingsOf(r, c.cid) : \A m \in MappingsOf(r, c.cid) : k <= m} = {n}
    BY <1>4, <1>5
  <2> QED BY <2>1 DEF Mapped
<1>7. PICK a, b \in Rows(r) :
        /\ a.cid = mappings[r][n].upper /\ a.subscriberStation = r
        /\ b.cid = mappings[r][n].lower /\ b.baseStation = r
        /\ a.kind = b.kind /\ a.remoteStation = b.remoteStation
  BY <1>1, <1>5 DEF MappingsFaithful, Range
<1>8. c.cid = a.cid => c = a
  BY <1>1, SameCID
<1>9. c.cid = b.cid => c = b
  BY <1>1, SameCID
<1>10. a.baseStation # r /\ b.subscriberStation # r /\ b.cid # 0
  <2>1. b.cid = 0 => b.subscriberStation = r
    BY <1>1, HopEnds
  <2> QED BY <1>1, <1>7, <2>1, HopEnds
<1>11. a.cid # 0
  <2> SUFFICES ASSUME a.cid = 0 PROVE FALSE
    OBVIOUS
  <2>1. a.remoteStation = r
    BY <1>1, HopEnds
  <2>2. c = b
    BY <1>5, <1>7, <1>9
  <2> QED BY <1>1, <1>7, <2>1, <2>2
<1>12. CASE up
  <2>1. c.baseStation = r
    BY <1>12 DEF Leads
  <2>2. c = b /\ c.cid # a.cid
    BY <1>5, <1>7, <1>8, <1>9, <1>10, <2>1
  <2> QED BY <1>4, <1>6, <1>7, <1>11, <1>12, <2>2 DEF Leads
<1>13. CASE ~up
  <2>1. c.subscriberStation = r
    BY <1>13 DEF Leads
  <2>2. c = a
    BY <1>5, <1>7, <1>8, <1>9, <1>10, <2>1
  <2> QED BY <1>4, <1>6, <1>7, <1>10, <1>13, <2>2 DEF Leads
<1> QED BY <1>12, <1>13

\* A joined terminal has one uplink data connection of each class, and its
\* access point has one downlink one to it.
LEMMA OneAtOrigin ==
  ASSUME NEW u \in UT, NEW up \in BOOLEAN, NEW q \in DataQoS,
         PathInv, TerminalHops, life[u] = "joined",
         NEW c \in Rows(Origin(u, up)), NEW d \in Rows(Origin(u, up)),
         c.remoteStation = u, c.kind = DataKind(up, q),
         d.remoteStation = u, d.kind = DataKind(up, q)
  PROVE  c = d
<1> DEFINE s == Origin(u, up)
           S == IF up THEN AllData(table[s], "Uplink", q)
                      ELSE OutgoingData(table[s], "AP", u, q)
<1>1. u \in Station \ AP /\ AP \subseteq Station
  BY StationAssumption
<1>2. s \in Station /\ TypeOK
  BY <1>1 DEF PathInv, IInv, ServedOnce, Origin
<1>3. Cardinality(S) = 1
  BY OneHolds DEF OneConnectionPerQoS, Origin
<1>4. S \subseteq DOMAIN table[s]
  BY DEF AllData, DataOf, OutgoingData
<1>5. IsFiniteSet(S)
  <2> HIDE DEF S, s
  <2>1. DOMAIN table[s] = 1..Len(table[s]) /\ Len(table[s]) \in Nat
    BY <1>2, RowsAre
  <2>2. IsFiniteSet(1..Len(table[s]))
    BY <2>1, FS_Interval
  <2> QED BY <1>4, <2>1, <2>2, FS_Subset
<1>6. PICK x : S = {x}
  <2> HIDE DEF S
  <2> QED BY <1>3, <1>5, FS_Singleton
<1>7. ASSUME NEW e \in Rows(s), e.remoteStation = u, e.kind = DataKind(up, q)
      PROVE  e = table[s][x]
  <2>1. PICK i \in DOMAIN table[s] : table[s][i] = e
    BY <1>2, RowsAre
  <2>2. i \in S
    BY <1>7, <2>1 DEF AllData, DataOf, OutgoingData, DataKind, KindOf
  <2> QED BY <1>6, <2>1, <2>2
<1> HIDE DEF S, s
<1>8. c \in Rows(s) /\ d \in Rows(s)
  BY DEF s
<1> QED BY <1>7, <1>8

---------------------------------------------------------------------------
(* What the invariants mean for the properties that are checked.           *)

\* Where a packet goes that is queued for a connection.
LEMMA QueuedGoes ==
  ASSUME NEW p \in PDU, NEW kind, PathInv, Queued(p, kind)
  PROVE  \E c \in Rows(p.at) :
           /\ c.cid = p.cid /\ c.cid # 0 /\ c.kind = kind
           /\ c.remoteStation = p.ut /\ Leads(p.at, c, p.up)
           /\ p.at \in Station
           /\ Onward(c, p.up) \in Station /\ Onward(c, p.up) # p.at
           /\ c \in Rows(Onward(c, p.up)) /\ Leads(Onward(c, p.up), c, ~p.up)
           /\ Accepts(Onward(c, p.up), p.cid)
           /\ p.up => Onward(c, p.up) \in AP \cup FRS
           /\ ~p.up => Onward(c, p.up) \in FRS \cup UT
           /\ WithID(table[p.at], p.cid) # {}
           /\ \A i \in WithID(table[p.at], p.cid) :
                table[p.at][i] = c /\ Peer(p.at, table[p.at][i]) = Onward(c, p.up)
<1>1. p.at \in Station /\ p.up \in BOOLEAN
  BY DEF PDU
<1>2. PICK c \in Rows(p.at) : /\ c.cid = p.cid /\ c.cid # 0
                              /\ c.remoteStation = p.ut
                              /\ c.kind = kind
                              /\ Leads(p.at, c, p.up)
  BY DEF Queued
<1>3. /\ Onward(c, p.up) \in Station /\ Onward(c, p.up) # p.at
      /\ Peer(p.at, c) = Onward(c, p.up)
      /\ c \in Rows(Onward(c, p.up)) /\ Leads(Onward(c, p.up), c, ~p.up)
      /\ Accepts(Onward(c, p.up), c.cid)
      /\ p.up => Onward(c, p.up) \in AP \cup FRS
      /\ ~p.up => Onward(c, p.up) \in FRS \cup UT
  BY <1>1, <1>2, OnwardIs
<1>4. /\ WithID(table[p.at], c.cid) # {}
      /\ \A i \in WithID(table[p.at], c.cid) : table[p.at][i] = c
  BY <1>1, <1>2, WithIDOf
<1> QED BY <1>1, <1>2, <1>3, <1>4

\* The terminal that a connection of an access point serves is in its cell.
LEMMA ServedInCell ==
  ASSUME NEW a \in AP, NEW c \in Rows(a), PathInv, c.cid # 0
  PROVE  cell[c.remoteStation] = a /\ c.remoteStation \in Station
BY StationAssumption DEF PathInv, IInv, CellOK, Serves

\* Queued packets are on connections that take them on.
LEMMA CourseHolds == PathInv /\ DataInv /\ AckInv => OnCourse
<1> SUFFICES ASSUME PathInv, DataInv, AckInv, NEW p \in air
    PROVE \E i \in WithID(table[p.at], p.cid) :
            LET c == table[p.at][i]
                n == IF p.up THEN c.baseStation ELSE c.subscriberStation
            IN  /\ c.remoteStation = p.ut
                /\ c.kind = IF p.ack THEN Basic
                            ELSE KindOf("Data", IF p.up THEN "Uplink" ELSE "Downlink", p.class)
                /\ Peer(p.at, c) = n /\ n # p.at
                /\ Accepts(n, p.cid)
  BY DEF OnCourse
<1>1. p \in PDU
  BY DEF DataInv, DataTypeOK
<1> DEFINE kind == IF p.ack THEN Basic ELSE DataKind(p.up, p.class)
<1>2. Queued(p, kind)
  BY DEF DataInv, DataQueued, AckInv, AcksQueued
<1> HIDE DEF kind
<1>3. PICK c \in Rows(p.at) :
        /\ c.kind = kind /\ c.remoteStation = p.ut
        /\ Onward(c, p.up) # p.at
        /\ Accepts(Onward(c, p.up), p.cid)
        /\ WithID(table[p.at], p.cid) # {}
        /\ \A i \in WithID(table[p.at], p.cid) :
             table[p.at][i] = c /\ Peer(p.at, table[p.at][i]) = Onward(c, p.up)
  BY <1>1, <1>2, QueuedGoes
<1>4. PICK i \in WithID(table[p.at], p.cid) : TRUE
  BY <1>3
<1> QED BY <1>3, <1>4 DEF Onward, kind, DataKind

\* The connection behind an acknowledgement's CID is the one its data took.
LEMMA NamesHolds == PathInv /\ TerminalHops /\ DataInv /\ AckInv => AckNamesItsData
<1> SUFFICES ASSUME PathInv, TerminalHops, DataInv, AckInv, NEW p \in air, p.ack,
                    NEW i \in WithID(table[p.at], p.cid),
                    Peer(p.at, table[p.at][i]) \notin FRS
             PROVE  /\ p.originalCID = p.of
                    /\ Peer(p.at, table[p.at][i]) = IF p.up THEN cell[p.ut] ELSE p.ut
  BY DEF AckNamesItsData
<1>1. p \in PDU /\ p.ut \in UT /\ p.up \in BOOLEAN /\ p.at \in Station
  BY DEF DataInv, DataTypeOK, PDU
<1>2. Queued(p, Basic)
  BY DEF AckInv, AcksQueued
<1>3. PICK c \in Rows(p.at) :
        /\ c.cid # 0 /\ c.remoteStation = p.ut
        /\ Leads(p.at, c, p.up)
        /\ c \in Rows(Onward(c, p.up))
        /\ p.up => Onward(c, p.up) \in AP \cup FRS
        /\ ~p.up => Onward(c, p.up) \in FRS \cup UT
        /\ \A j \in WithID(table[p.at], p.cid) :
             table[p.at][j] = c /\ Peer(p.at, table[p.at][j]) = Onward(c, p.up)
  BY <1>1, <1>2, QueuedGoes
<1> DEFINE n == Onward(c, p.up)
<1>4. n = Peer(p.at, table[p.at][i])
  BY <1>3
<1>5. PICK q \in DataQoS :
        /\ SentOn(p.ut, ~p.up, q, p.of)
        /\ \E e \in Rows(p.at) : /\ e.cid = p.originalCID /\ e.cid # 0
                                 /\ e.remoteStation = p.ut
                                 /\ e.kind = DataKind(~p.up, q)
                                 /\ Leads(p.at, e, p.up)
  <2>1. AcksQueued /\ p \in air /\ p.ack
    BY DEF AckInv
  <2> QED BY <2>1 DEF AcksQueued
<1>6. PICK e \in Rows(p.at) : /\ e.cid = p.originalCID /\ e.cid # 0
                              /\ e.remoteStation = p.ut
                              /\ e.kind = DataKind(~p.up, q)
                              /\ Leads(p.at, e, p.up)
  BY <1>5
\* all connections upwards lead to one base station, and the end of the way
\* down is the terminal
<1>7. n = Origin(p.ut, ~p.up)
  <2>1. CASE p.up
    <3>1. n \in AP
      BY <1>3, <1>4, <2>1
    <3>2. n = cell[p.ut]
      BY <1>3, <2>1, <3>1, ServedInCell
    <3> QED BY <2>1, <3>2 DEF Origin
  <2>2. CASE ~p.up
    <3>1. n \in UT
      BY <1>3, <1>4, <2>2
    <3>2. c.remoteStation = n
      BY <1>3, <3>1, AtTerminal
    <3> QED BY <1>3, <2>2, <3>2 DEF Origin
  <2> QED BY <2>1, <2>2
<1>8. e \in Rows(n)
  <2>1. Onward(e, p.up) = n
    <3>1. CASE p.up
      <4>1. p.at \in Station \ AP
        BY <1>1, <1>6, <3>1, HopEnds DEF Leads
      <4> QED BY <1>3, <1>6, <3>1, <4>1 DEF PathInv, Attached, Onward, Leads
    <3>2. CASE ~p.up
      <4>1. n \in UT /\ n = p.ut
        BY <1>3, <1>4, <1>7, <3>2 DEF Origin
      <4>2. e.subscriberStation = p.ut
        <5>1. FRS = {}
          BY <3>2 DEF AckInv, AcksQueued
        <5> QED BY <1>1, <1>6, <5>1 DEF PathInv, Serves
      <4> QED BY <3>2, <4>1, <4>2 DEF Onward
    <3> QED BY <3>1, <3>2
  <2> QED BY <1>1, <1>6, <2>1, OnwardIs
<1>9. PICK d \in Rows(n) : d.cid = p.of /\ d.remoteStation = p.ut /\ d.kind = DataKind(~p.up, q)
  BY <1>5, <1>7 DEF SentOn
<1>10. life[p.ut] = "joined"
  BY <1>2 DEF Queued
<1>11. e = d
  BY <1>1, <1>6, <1>7, <1>8, <1>9, <1>10, OneAtOrigin
<1> QED BY <1>4, <1>6, <1>7, <1>9, <1>11 DEF Origin

---------------------------------------------------------------------------
(* An association disturbs nothing of this.                                *)

\* An association does not take a packet off its connection.
LEMMA QueuedStays ==
  ASSUME NEW p \in PDU, NEW kind, PathInv, [Next]_vars, Queued(p, kind)
  PROVE  Queued(p, kind)'
<1>1. p.at \in Station /\ p.ut \in Station
  BY StationAssumption DEF PDU
<1>2. life'[p.ut] = "joined"
  BY <1>1, NothingIsLost DEF Queued
<1>3. PICK c \in Rows(p.at) : /\ c.cid = p.cid /\ c.cid # 0
                              /\ c.remoteStation = p.ut
                              /\ c.kind = kind
                              /\ Leads(p.at, c, p.up)
  BY DEF Queued
<1>4. c \in Rows(p.at)'
  BY <1>1, NothingIsLost
<1> QED BY <1>2, <1>3, <1>4 DEF Queued, Leads

\* The rows of the origin, too, are there to stay.
LEMMA OriginStays ==
  ASSUME NEW u \in UT, NEW up \in BOOLEAN, PathInv, [Next]_vars, life[u] = "joined"
  PROVE  Origin(u, up) \in Station /\ Origin(u, up)' = Origin(u, up)
<1>1. u \in Station \ AP /\ AP \subseteq Station
  BY StationAssumption
<1>2. cell[u] \in AP
  BY <1>1 DEF PathInv, ServedOnce
<1>3. cell'[u] = cell[u]
  BY <1>1, <1>2, StationAssumption, NothingIsLost
<1> QED BY <1>1, <1>2, <1>3 DEF Origin

\* Nor does it change which connection data was sent on.
LEMMA SentOnStays ==
  ASSUME NEW u \in UT, NEW up \in BOOLEAN, NEW q, NEW of,
         PathInv, [Next]_vars, life[u] = "joined", SentOn(u, up, q, of)
  PROVE  SentOn(u, up, q, of)'
<1>1. PICK o \in Station : o = Origin(u, up) /\ o = Origin(u, up)'
  BY OriginStays
<1>2. PICK d \in Rows(o) : d.cid = of /\ d.remoteStation = u /\ d.kind = DataKind(up, q)
  BY <1>1 DEF SentOn
<1>3. d \in Rows(o)'
  BY NothingIsLost
<1> QED BY <1>1, <1>2, <1>3 DEF SentOn

\* Associations keep the invariant of data.
LEMMA AssocData == PathInv /\ DataInv /\ [Next]_vars /\ UNCHANGED dataVars => DataInv'
<1> SUFFICES ASSUME PathInv, DataInv, [Next]_vars, UNCHANGED dataVars PROVE DataInv'
  OBVIOUS
<1>1. UNCHANGED <<dllFlowID, flowClass, lookup, heard, air, fault>>
  BY DEF dataVars
<1>2. DataTypeOK' /\ FlowsKnown' /\ FlowKeepsClass'
  <2>1. DataTypeOK'
    BY <1>1 DEF DataInv, DataTypeOK
  <2>2. FlowsKnown'
    BY <1>1 DEF DataInv, FlowsKnown
  <2>3. FlowKeepsClass'
    BY <1>1 DEF DataInv, FlowKeepsClass
  <2> QED BY <2>1, <2>2, <2>3
<1>3. DataQueued'
  <2> SUFFICES ASSUME NEW p \in air, ~p.ack
               PROVE  /\ Queued(p, DataKind(p.up, p.class))'
                      /\ SentOn(p.ut, p.up, p.class, p.of)'
    BY <1>1 DEF DataQueued
  <2>1. p \in PDU /\ p.ut \in UT /\ p.up \in BOOLEAN
    BY DEF DataInv, DataTypeOK, PDU
  <2>2. Queued(p, DataKind(p.up, p.class)) /\ SentOn(p.ut, p.up, p.class, p.of)
    BY DEF DataInv, DataQueued
  <2>3. life[p.ut] = "joined"
    BY <2>2 DEF Queued
  <2> QED BY <2>1, <2>2, <2>3, QueuedStays, SentOnStays
<1>4. LocationRight'
  <2> SUFFICES ASSUME NEW u \in UT, lookup[u] # NoStation PROVE lookup[u] = cell'[u]
    BY <1>1 DEF LocationRight
  <2>1. lookup[u] = cell[u] /\ u \in Station
    BY StationAssumption DEF DataInv, LocationRight
  <2> QED BY <2>1, NothingIsLost
<1> QED BY <1>2, <1>3, <1>4 DEF DataInv

\* Associations keep the invariant of acknowledgements.
LEMMA AssocAcks == PathInv /\ DataInv /\ AckInv /\ [Next]_vars /\ UNCHANGED dataVars => AckInv'
<1> SUFFICES ASSUME PathInv, DataInv, AckInv, [Next]_vars, UNCHANGED dataVars PROVE AckInv'
  OBVIOUS
<1>1. air' = air /\ fault' = fault
  BY DEF dataVars
<1>2. ASSUME NEW p \in air, p.ack
      PROVE  /\ Queued(p, Basic)'
             /\ p.up \/ FRS = {}
             /\ \E q \in DataQoS :
                  /\ SentOn(p.ut, ~p.up, q, p.of)'
                  /\ \E e \in Rows(p.at)' : /\ e.cid = p.originalCID /\ e.cid # 0
                                            /\ e.remoteStation = p.ut
                                            /\ e.kind = DataKind(~p.up, q)
                                            /\ Leads(p.at, e, p.up)
  <2>1. p \in PDU /\ p.ut \in UT /\ p.at \in Station /\ (~p.up) \in BOOLEAN
    BY DEF DataInv, DataTypeOK, PDU
  <2>2. Queued(p, Basic) /\ (p.up \/ FRS = {})
    BY <1>2 DEF AckInv, AcksQueued
  <2>3. PICK q \in DataQoS :
          /\ SentOn(p.ut, ~p.up, q, p.of)
          /\ \E e \in Rows(p.at) : /\ e.cid = p.originalCID /\ e.cid # 0
                                   /\ e.remoteStation = p.ut
                                   /\ e.kind = DataKind(~p.up, q)
                                   /\ Leads(p.at, e, p.up)
    BY <1>2 DEF AckInv, AcksQueued
  <2>4. life[p.ut] = "joined"
    BY <2>2 DEF Queued
  <2>5. Queued(p, Basic)' /\ SentOn(p.ut, ~p.up, q, p.of)'
    BY <2>1, <2>2, <2>3, <2>4, QueuedStays, SentOnStays
  <2>6. Rows(p.at) \subseteq Rows(p.at)'
    BY <2>1, NothingIsLost
  <2> QED BY <2>2, <2>3, <2>5, <2>6
<1> QED BY <1>1, <1>2 DEF AckInv, AcksQueued, Leads

---------------------------------------------------------------------------
(* While packets move, the tables stay.                                    *)

\* Nothing that is said of packets changes but by the packets themselves.
LEMMA TablesStay ==
  ASSUME UNCHANGED vars
  PROVE  /\ UNCHANGED <<life, table, highestCID, mappings, call, cell>>
         /\ \A s : Rows(s)' = Rows(s)
         /\ \A p, kind : Queued(p, kind)' <=> Queued(p, kind)
         /\ \A u, up, q, of : SentOn(u, up, q, of)' <=> SentOn(u, up, q, of)
<1>1. UNCHANGED <<life, table, highestCID, mappings, call, cell>>
  BY DEF vars
<1>2. \A s : Rows(s)' = Rows(s)
  BY <1>1 DEF Rows
<1>3. \A p, kind : Queued(p, kind)' <=> Queued(p, kind)
  BY <1>1, <1>2 DEF Queued, Leads
<1>4. \A u, up, q, of : SentOn(u, up, q, of)' <=> SentOn(u, up, q, of)
  BY <1>1, <1>2 DEF SentOn, Origin
<1> QED BY <1>1, <1>2, <1>3, <1>4

---------------------------------------------------------------------------
(* UpperConvergence::sendData.                                             *)

\* Every flow has a class: what is not known is best effort.
LEMMA ClassOfType ==
  ASSUME NEW s \in Station, NEW f \in Flow, DataTypeOK
  PROVE  ClassOf(s, f) \in DataQoS
<1>1. flowClass[s][f] \in DataQoS \cup {"none"}
  BY DEF DataTypeOK
<1> QED BY <1>1 DEF ClassOf, DataQoS

\* A connection that the classifier finds serves the terminal, which joined,
\* and it is the only one.
LEMMA ClassifiedIs ==
  ASSUME NEW s \in Station, NEW u \in UT, NEW q \in DataQoS,
         NEW i \in Classified(s, u, q),
         PathInv, TerminalHops, call.pc = "idle", s = u \/ s \in AP
  PROVE  /\ life[u] = "joined" /\ s = Origin(u, s = u)
         /\ table[s][i] \in Rows(s)
         /\ table[s][i].cid # 0 /\ table[s][i].cid \in Nat
         /\ table[s][i].remoteStation = u
         /\ table[s][i].kind = DataKind(s = u, q)
         /\ Leads(s, table[s][i], s = u)
         /\ Cardinality(Classified(s, u, q)) = 1
<1>1. u \in Station \ AP /\ AP \subseteq Station
  BY StationAssumption
<1>2. TypeOK /\ (call.remote = NoStation)
  BY DEF PathInv, IInv, Newcomers
<1> DEFINE c == table[s][i]
<1>3. i \in DOMAIN table[s]
  BY DEF Classified, OutgoingData, AllData, DataOf
<1>4. c \in Rows(s)
  BY <1>2, <1>3, RowsAre
<1>5. c.kind \in Kind /\ c.cid \in Nat
  <2>1. c \in Connection
    BY <1>4, HopEnds
  <2> QED BY <2>1 DEF Connection
<1>6. c.kind.type = "Data" /\ c.kind.qos = q
  BY DEF Classified, OutgoingData, AllData, DataOf
<1>7. c.cid # 0
  <2> SUFFICES ASSUME c.cid = 0 PROVE FALSE
    OBVIOUS
  <2>1. c.kind = Ranging
    BY <1>4, HopEnds
  <2> QED BY <1>6, <2>1 DEF Ranging, KindOf
<1>8. CASE s = u
  <2>1. s \notin AP /\ i \in AllData(table[s], "Uplink", q)
    BY <1>1, <1>8 DEF Classified
  <2>2. c.kind.direction = "Uplink"
    BY <2>1 DEF AllData, DataOf
  <2>3. c.kind = DataKind(TRUE, q)
    BY <1>5, <1>6, <2>2 DEF Kind, DataKind, KindOf
  <2>4. c.subscriberStation = u /\ c.remoteStation = u
    BY <1>4, <1>7, <1>8, AtTerminal
  <2>5. life[u] = "joined"
    <3> SUFFICES ASSUME life[u] # "joined" PROVE FALSE
      OBVIOUS
    <3>1. table[u] = <<>>
      BY <1>1, <1>2, StationAssumption DEF PathInv, TerminalsOwn
    <3> QED BY <1>3, <1>8, <3>1
  <2>6. Cardinality(Classified(s, u, q)) = 1
    BY <1>8, <2>1, <2>5, OneHolds DEF OneConnectionPerQoS, Classified
  <2> QED BY <1>4, <1>5, <1>7, <1>8, <2>3, <2>4, <2>5, <2>6 DEF Leads, Origin
<1>9. CASE s \in AP
  <2>1. s # u /\ i \in OutgoingData(table[s], "AP", u, q)
    BY <1>1, <1>9 DEF Classified
  <2>2. c.kind.direction = "Downlink" /\ c.remoteStation = u
    BY <2>1 DEF OutgoingData
  <2>3. c.kind = DataKind(FALSE, q)
    BY <1>5, <1>6, <2>2 DEF Kind, DataKind, KindOf
  <2>4. c.baseStation = s
    BY <1>4, <1>7, <1>9, HopEnds
  <2>5. life[u] = "joined"
    BY <1>1, <1>4, <1>9, <2>2 DEF PathInv, ServedOnce
  <2>6. cell[u] = s
    BY <1>4, <1>7, <1>9, <2>2, ServedInCell
  <2>7. Cardinality(Classified(s, u, q)) = 1
    BY <1>9, <2>5, <2>6, OneHolds DEF OneConnectionPerQoS, Classified
  <2> QED BY <1>4, <1>5, <1>7, <2>1, <2>2, <2>3, <2>4, <2>5, <2>6, <2>7 DEF Leads, Origin
<1> QED BY <1>8, <1>9

\* Data p is queued for terminal u, or from it, on flow f and of class q.
Enqueues(p, u, f, q) ==
  /\ air' = air \cup {p}
  /\ p.ack = FALSE /\ p.ut = u /\ p.flow = f /\ p.class = q
  /\ Queued(p, DataKind(p.up, p.class))
  /\ SentOn(p.ut, p.up, p.class, p.of)

\* What is sent is queued on the connection of its class, and no assertion
\* fails.
LEMMA Sends ==
  ASSUME NEW s \in Station, NEW u \in UT, NEW f \in Flow,
         PathInv, TerminalHops, DataTypeOK, call.pc = "idle", s = u \/ s \in AP,
         SendData(s, u, f)
  PROVE  /\ UNCHANGED <<dllFlowID, flowClass, lookup, heard, fault>>
         /\ \E p \in PDU : Enqueues(p, u, f, ClassOf(s, f))
<1>1. PICK q \in DataQoS : q = ClassOf(s, f)
  BY ClassOfType
<1> DEFINE cis == Classified(s, u, q)
<1>2. /\ UNCHANGED <<dllFlowID, flowClass, lookup, heard>>
      /\ cis # {}
      /\ \/ /\ Cardinality(cis) = 1
            /\ \E i \in cis : air' = air \cup
                 {[ack |-> FALSE, at |-> s, cid |-> table[s][i].cid,
                   originalCID |-> 0, ut |-> u, up |-> s = u,
                   flow |-> f, class |-> q, of |-> table[s][i].cid]}
            /\ UNCHANGED fault
         \/ Cardinality(cis) > 1
  BY <1>1 DEF SendData
<1>3. PICK j \in cis : TRUE
  BY <1>2
<1>4. Cardinality(cis) = 1
  BY <1>3, ClassifiedIs
<1>5. UNCHANGED fault
  BY <1>2, <1>4
<1>6. PICK i \in cis : air' = air \cup
                 {[ack |-> FALSE, at |-> s, cid |-> table[s][i].cid,
                   originalCID |-> 0, ut |-> u, up |-> s = u,
                   flow |-> f, class |-> q, of |-> table[s][i].cid]}
  BY <1>2, <1>4
<1>7. /\ life[u] = "joined" /\ s = Origin(u, s = u)
      /\ table[s][i] \in Rows(s)
      /\ table[s][i].cid # 0 /\ table[s][i].cid \in Nat
      /\ table[s][i].remoteStation = u
      /\ table[s][i].kind = DataKind(s = u, q)
      /\ Leads(s, table[s][i], s = u)
  BY <1>6, ClassifiedIs
<1> DEFINE p == [ack |-> FALSE, at |-> s, cid |-> table[s][i].cid,
                 originalCID |-> 0, ut |-> u, up |-> s = u,
                 flow |-> f, class |-> q, of |-> table[s][i].cid]
<1>8. p \in PDU
  BY <1>7 DEF PDU
<1>9. Queued(p, DataKind(p.up, p.class))
  BY <1>7 DEF Queued
<1>10. SentOn(p.ut, p.up, p.class, p.of)
  BY <1>7 DEF SentOn
<1>11. p.ack = FALSE /\ p.ut = u /\ p.flow = f /\ p.class = ClassOf(s, f)
  BY <1>1
<1>12. air' = air \cup {p}
  BY <1>6
<1> HIDE DEF p
<1>13. Enqueues(p, u, f, ClassOf(s, f))
  BY <1>9, <1>10, <1>11, <1>12 DEF Enqueues
<1> QED BY <1>2, <1>5, <1>8, <1>13

---------------------------------------------------------------------------
(* What relays and receivers make of a packet.                             *)

\* A relay changes nothing of a packet but the connections.
LEMMA RelayedType ==
  ASSUME NEW r \in FRS, NEW p \in PDU, NEW q \in Relayed(r, p), PathInv
  PROVE  /\ q \in PDU /\ q.at = r
         /\ q.ack = p.ack /\ q.ut = p.ut /\ q.up = p.up /\ q.flow = p.flow
         /\ q.class = p.class /\ q.of = p.of
         /\ q.cid \in Mapped(r, p.cid)
         /\ p.ack /\ MappingsOf(r, p.originalCID) # {} =>
              q.originalCID \in Mapped(r, p.originalCID)
<1>1. PICK c \in Mapped(r, p.cid),
           o \in (IF p.ack /\ MappingsOf(r, p.originalCID) # {}
                    THEN Mapped(r, p.originalCID) ELSE {0}) :
        q = Remapped(r, p, c, o)
  BY DEF Relayed
<1>2. \A cid : Mapped(r, cid) \subseteq Nat
  <2>1. mappings[r] \in Seq(RelayMapping)
    BY DEF PathInv, IInv, TypeOK
  <2>2. \A n \in DOMAIN mappings[r] : mappings[r][n] \in RelayMapping
    BY <2>1, ElementOfSeq, LenProperties
  <2>3. \A n \in DOMAIN mappings[r] : mappings[r][n].upper \in Nat /\ mappings[r][n].lower \in Nat
    BY <2>2 DEF RelayMapping
  <2> QED BY <2>3 DEF Mapped, MappingsOf
<1>3. r \in Station /\ c \in Nat /\ o \in Nat
  BY <1>2, StationAssumption
<1> QED BY <1>1, <1>3 DEF PDU, Remapped

\* An acknowledgement goes back to the terminal its data came from or to.
LEMMA AckType ==
  ASSUME NEW n \in Station, NEW p \in PDU, NEW q \in Acknowledgement(n, p), PathInv
  PROVE  /\ q \in PDU /\ q.ack /\ q.at = n /\ q.originalCID = p.cid
         /\ q.ut = p.ut /\ q.up = ~p.up /\ q.of = p.of
         /\ \E b \in BasicForCID(table[n], p.cid) : q.cid = table[n][b].cid
<1>1. PICK b \in BasicForCID(table[n], p.cid) :
        q = [ack |-> TRUE, at |-> n, cid |-> table[n][b].cid, originalCID |-> p.cid,
             ut |-> p.ut, up |-> ~p.up, flow |-> NoFlow, class |-> "BE", of |-> p.of]
  BY DEF Acknowledgement
<1>2. b \in DOMAIN table[n]
  <2>1. PICK i \in WithID(table[n], p.cid) :
          b \in IF table[n][i].kind.type = "Basic"
                  THEN {i}
                  ELSE FirstOf(table[n], {j \in DOMAIN table[n] :
                         /\ table[n][j].baseStation = table[n][i].baseStation
                         /\ table[n][j].subscriberStation = table[n][i].subscriberStation
                         /\ table[n][j].kind.type = "Basic"})
    BY DEF BasicForCID
  <2>2. i \in DOMAIN table[n]
    BY FirstOfSubset DEF WithID
  <2> QED BY <2>1, <2>2, FirstOfSubset
<1>3. table[n][b].cid \in Nat
  <2>1. table[n][b] \in Connection
    BY <1>2, RowsAre DEF PathInv, IInv
  <2> QED BY <2>1 DEF Connection
<1>4. NoFlow \in Flow /\ "BE" \in DataQoS
  BY DataPathAssumption DEF NoFlow, Flow, DataQoS
<1> QED BY <1>1, <1>3, <1>4 DEF PDU

\* A relay finds the connection that leads a queued packet on.
LEMMA RelayedQueued ==
  ASSUME NEW p \in PDU, NEW kind, NEW c \in Rows(p.at),
         PathInv, call.pc = "idle", Queued(p, kind),
         c.cid = p.cid, c.cid # 0, c.kind = kind, c.remoteStation = p.ut,
         Leads(p.at, c, p.up), Onward(c, p.up) \in FRS
  PROVE  LET r == Onward(c, p.up)
         IN  /\ Mapped(r, p.cid) # {}
             /\ \A q \in Relayed(r, p) : Queued(q, kind)
<1>1. p.up \in BOOLEAN /\ p.ut \in UT /\ p.at \in Station
  BY DEF PDU
<1>2. PICK r \in FRS : r = Onward(c, p.up)
  OBVIOUS
<1>3. c \in Rows(r) /\ Leads(r, c, ~p.up)
  BY <1>1, <1>2, OnwardIs
<1>4. PICK d \in Rows(r) : /\ Mapped(r, c.cid) = {d.cid}
                           /\ d.cid # 0 /\ d.kind = c.kind
                           /\ d.remoteStation = c.remoteStation
                           /\ Leads(r, d, p.up)
  BY <1>1, <1>3, MappedOn
<1>5. ASSUME NEW q \in Relayed(r, p) PROVE Queued(q, kind)
  <2>1. q.at = r /\ q.ut = p.ut /\ q.up = p.up /\ q.cid = d.cid
    BY <1>4, RelayedType
  <2>2. life[q.ut] = "joined"
    BY <2>1 DEF Queued
  <2> QED BY <1>4, <2>1, <2>2 DEF Queued
<1> QED BY <1>2, <1>4, <1>5

\* What becomes of any packet that is transmitted.
LEMMA TransmitIs ==
  ASSUME NEW p \in PDU, Transmit(p), PathInv
  PROVE  \E n \in Station :
           /\ \E i \in WithID(table[p.at], p.cid) : n = Peer(p.at, table[p.at][i])
           /\ \/ n \in FRS /\ Forward(n, p)
              \/ n \notin FRS /\ Deliver(n, p)
              \/ /\ ~Accepts(n, p.cid)
                 /\ air' = air \ {p}
                 /\ UNCHANGED <<dllFlowID, flowClass, lookup, heard, fault>>
<1>1. PICK i \in WithID(table[p.at], p.cid) :
        LET n == Peer(p.at, table[p.at][i])
        IN  \/ Accepts(n, p.cid) /\ n \in FRS /\ Forward(n, p)
            \/ Accepts(n, p.cid) /\ n \notin FRS /\ Deliver(n, p)
            \/ /\ ~Accepts(n, p.cid)
               /\ air' = air \ {p}
               /\ UNCHANGED <<dllFlowID, flowClass, lookup, heard, fault>>
  BY DEF Transmit
<1>2. p.at \in Station
  BY DEF PDU
<1>3. i \in DOMAIN table[p.at]
  BY FirstOfSubset DEF WithID
<1>4. table[p.at][i] \in Connection
  BY <1>2, <1>3, RowsAre DEF PathInv, IInv
<1>5. Peer(p.at, table[p.at][i]) \in Station
  BY <1>4 DEF Connection, Peer
<1> QED BY <1>1, <1>5

\* A queued packet is transmitted to the station its connection leads to, and
\* is not dropped there.
LEMMA TransmitQueued ==
  ASSUME NEW p \in PDU, NEW kind, Transmit(p), PathInv, Queued(p, kind)
  PROVE  \E c \in Rows(p.at) :
           /\ c.cid = p.cid /\ c.cid # 0 /\ c.kind = kind
           /\ c.remoteStation = p.ut /\ Leads(p.at, c, p.up)
           /\ Onward(c, p.up) \in Station /\ c \in Rows(Onward(c, p.up))
           /\ Leads(Onward(c, p.up), c, ~p.up)
           /\ p.up => Onward(c, p.up) \in AP \cup FRS
           /\ ~p.up => Onward(c, p.up) \in FRS \cup UT
           /\ \/ Onward(c, p.up) \in FRS /\ Forward(Onward(c, p.up), p)
              \/ Onward(c, p.up) \notin FRS /\ Deliver(Onward(c, p.up), p)
<1>1. PICK c \in Rows(p.at) :
        /\ c.cid = p.cid /\ c.cid # 0 /\ c.kind = kind
        /\ c.remoteStation = p.ut /\ Leads(p.at, c, p.up)
        /\ Onward(c, p.up) \in Station /\ c \in Rows(Onward(c, p.up))
        /\ Leads(Onward(c, p.up), c, ~p.up)
        /\ p.up => Onward(c, p.up) \in AP \cup FRS
        /\ ~p.up => Onward(c, p.up) \in FRS \cup UT
        /\ Accepts(Onward(c, p.up), p.cid)
        /\ \A i \in WithID(table[p.at], p.cid) :
             Peer(p.at, table[p.at][i]) = Onward(c, p.up)
  BY QueuedGoes
<1>2. \/ Onward(c, p.up) \in FRS /\ Forward(Onward(c, p.up), p)
      \/ Onward(c, p.up) \notin FRS /\ Deliver(Onward(c, p.up), p)
  BY <1>1, TransmitIs
<1> QED BY <1>1, <1>2

---------------------------------------------------------------------------
(* Data: every step of a packet preserves the invariant.                   *)

\* What the invariant says of a packet.
Sound(p) ==
  ~p.ack => /\ Queued(p, DataKind(p.up, p.class))
            /\ SentOn(p.ut, p.up, p.class, p.of)
            /\ p.flow # NoFlow => p.class = flowClass[p.ut][p.flow]

\* What is known of the flows stays where nothing is learned.
LEMMA FlowsStay ==
  ASSUME FlowsKnown, UNCHANGED <<dllFlowID, flowClass, lookup, heard>>
  PROVE  FlowsKnown'
<1>1. dllFlowID' = dllFlowID /\ flowClass' = flowClass /\ lookup' = lookup /\ heard' = heard
  OBVIOUS
<1> QED BY <1>1 DEF FlowsKnown

\* Where nothing is learned, only what is new in the queues matters.
LEMMA SoundKept ==
  ASSUME DataInv, UNCHANGED vars, UNCHANGED <<dllFlowID, flowClass, lookup, heard>>,
         fault' \in {"none", "classifier", "no mapping"},
         \A q \in air' : q \in air \/ (q \in PDU /\ Sound(q))
  PROVE  DataInv'
<1>1. \A q \in air' : q \in PDU /\ Sound(q)
  BY DEF DataInv, DataTypeOK, DataQueued, FlowKeepsClass, Sound
<1>2. DataTypeOK'
  BY <1>1 DEF DataInv, DataTypeOK
<1>3. DataQueued'
  <2>1. \A p, kind : Queued(p, kind)' <=> Queued(p, kind)
    BY TablesStay
  <2>2. \A u, up, q, of : SentOn(u, up, q, of)' <=> SentOn(u, up, q, of)
    BY TablesStay
  <2> QED BY <1>1, <2>1, <2>2 DEF DataQueued, Sound
<1>4. LocationRight' /\ FlowsKnown'
  <2>1. LocationRight /\ FlowsKnown
    BY DEF DataInv
  <2>2. UNCHANGED <<life, cell>>
    BY DEF vars
  <2>3. LocationRight'
    BY <2>1, <2>2 DEF LocationRight
  <2>4. FlowsKnown'
    BY <2>1, FlowsStay
  <2> QED BY <2>3, <2>4
<1>5. FlowKeepsClass'
  BY <1>1 DEF FlowKeepsClass, Sound
<1> QED BY <1>2, <1>3, <1>4, <1>5 DEF DataInv

\* A flow that is established has a number that no other flow has.
LEMMA EstablishData ==
  ASSUME DataInv, UNCHANGED vars, NEW u \in UT, NEW q \in Classes, EstablishFlow(u, q)
  PROVE  DataInv'
<1> DEFINE g == dllFlowID + 1
<1>0. /\ dllFlowID \in Flow /\ dllFlowID \in Nat
      /\ q \in DataQoS /\ u \in Station \ AP
      /\ MaxFlows \in Nat /\ dllFlowID < MaxFlows
  <2>1. dllFlowID \in Flow /\ dllFlowID < MaxFlows
    BY DEF DataInv, DataTypeOK, EstablishFlow
  <2>2. MaxFlows \in Nat /\ dllFlowID \in Nat
    BY <2>1, DataPathAssumption DEF Flow
  <2>3. q \in DataQoS
    BY DataPathAssumption
  <2>4. u \in Station \ AP
    BY StationAssumption
  <2> QED BY <2>1, <2>2, <2>3, <2>4
<1>1. /\ g \in Flow /\ g # NoFlow /\ g > dllFlowID
      /\ dllFlowID' = g
      /\ flowClass' = [flowClass EXCEPT ![u][g] = q]
      /\ UNCHANGED <<lookup, heard, air, fault>>
      /\ q \in DataQoS /\ u \in Station \ AP
      /\ dllFlowID \in Nat
  BY <1>0 DEF EstablishFlow, Flow, NoFlow
<1>2. /\ flowClass \in [Station -> [Flow -> DataQoS \cup {"none"}]]
      /\ flowClass' \in [Station -> [Flow -> DataQoS \cup {"none"}]]
      /\ \A s \in Station, f \in Flow :
           flowClass'[s][f] = IF s = u /\ f = g THEN q ELSE flowClass[s][f]
  BY <1>1 DEF DataInv, DataTypeOK
<1>3. \A s \in Station : flowClass[s][g] = "none"
  BY <1>1 DEF DataInv, FlowsKnown
<1>4. q # "none" /\ AP \subseteq Station /\ UT \subseteq Station /\ Flow \subseteq Nat
  BY <1>1, StationAssumption DEF DataQoS, Flow
<1> HIDE DEF g
<1>5. DataTypeOK'
  BY <1>1, <1>2 DEF DataInv, DataTypeOK
<1>6. DataQueued' /\ LocationRight'
  BY <1>1, TablesStay DEF DataInv, DataQueued, LocationRight
<1>7. FlowsKnown'
  <2>1. ASSUME NEW s \in Station, NEW f \in Flow, f > g PROVE flowClass'[s][f] = "none"
    <3>1. f > dllFlowID /\ f # g
      BY <1>1, <1>4, <2>1
    <3> QED BY <1>2, <3>1 DEF DataInv, FlowsKnown
  <2>2. \A v, w \in UT, f \in Flow :
          flowClass'[v][f] # "none" /\ flowClass'[w][f] # "none" => v = w
    BY <1>2, <1>3, <1>4 DEF DataInv, FlowsKnown
  <2>3. \A v \in UT : flowClass'[v][NoFlow] = "none"
    <3>1. NoFlow \in Flow
      BY DataPathAssumption DEF NoFlow, Flow
    <3> QED BY <1>1, <1>2, <1>4, <3>1 DEF DataInv, FlowsKnown
  <2>4. ASSUME NEW a \in AP, NEW f \in Flow, f # NoFlow, flowClass'[a][f] # "none"
        PROVE  \E v \in UT : flowClass'[v][f] = flowClass'[a][f]
    <3>1. flowClass[a][f] # "none" /\ flowClass'[a][f] = flowClass[a][f] /\ f # g
      BY <1>1, <1>2, <1>3, <1>4, <2>4
    <3>2. PICK v \in UT : flowClass[v][f] = flowClass[a][f]
      BY <2>4, <3>1 DEF DataInv, FlowsKnown
    <3> QED BY <1>2, <1>4, <3>1, <3>2
  <2>5. ASSUME NEW v \in UT, NEW f \in Flow, <<v, f>> \in heard
        PROVE  /\ f # NoFlow /\ lookup[v] # NoStation
               /\ flowClass'[v][f] # "none"
               /\ flowClass'[lookup[v]][f] = flowClass'[v][f]
    <3>1. /\ f # NoFlow /\ lookup[v] # NoStation /\ flowClass[v][f] # "none"
          /\ flowClass[lookup[v]][f] = flowClass[v][f]
      BY <2>5 DEF DataInv, FlowsKnown
    <3>2. f # g /\ lookup[v] \in Station
      BY <1>3, <1>4, <3>1 DEF DataInv, DataTypeOK
    <3> QED BY <1>2, <1>4, <3>1, <3>2
  <2> QED BY <1>1, <2>1, <2>2, <2>3, <2>4, <2>5 DEF FlowsKnown
<1>8. FlowKeepsClass'
  <2> SUFFICES ASSUME NEW p \in air, ~p.ack, p.flow # NoFlow
               PROVE  p.class = flowClass'[p.ut][p.flow]
    BY <1>1 DEF FlowKeepsClass
  <2>1. p.class \in DataQoS /\ p.ut \in UT /\ p.flow \in Flow
    BY DEF DataInv, DataTypeOK, PDU
  <2>2. p.class = flowClass[p.ut][p.flow]
    BY DEF DataInv, FlowKeepsClass
  <2>3. p.flow # g
    BY <1>3, <1>4, <2>1, <2>2 DEF DataQoS
  <2> QED BY <1>2, <1>4, <2>1, <2>2, <2>3
<1> QED BY <1>5, <1>6, <1>7, <1>8 DEF DataInv

\* A terminal's packet is classified onto its connection up.
LEMMA UplinkData ==
  ASSUME PathInv, TerminalHops, DataInv, call.pc = "idle", UNCHANGED vars,
         NEW u \in UT, NEW f \in Flow, SendUp(u, f)
  PROVE  DataInv' /\ fault' = fault /\ \A q \in air' : q \in air \/ ~q.ack
<1>1. u \in Station /\ DataTypeOK /\ UT \subseteq Station
  BY StationAssumption DEF DataInv
<1>2. /\ UNCHANGED <<dllFlowID, flowClass, lookup, heard, fault>>
      /\ \E p \in PDU : Enqueues(p, u, f, ClassOf(u, f))
  <2>1. SendData(u, u, f) /\ (u = u \/ u \in AP)
    BY DEF SendUp
  <2> QED BY <1>1, <2>1, Sends
<1>3. PICK p \in PDU : Enqueues(p, u, f, ClassOf(u, f))
  BY <1>2
<1>4. p.flow # NoFlow => p.class = flowClass[p.ut][p.flow]
  BY <1>3 DEF SendUp, ClassOf, Enqueues
<1>5. Sound(p)
  BY <1>3, <1>4 DEF Sound, Enqueues
<1>6. DataInv'
  BY <1>1, <1>2, <1>3, <1>5, SoundKept DEF DataTypeOK, Enqueues
<1> QED BY <1>2, <1>3, <1>6 DEF Enqueues

\* An access point's packet is classified onto the terminal's connection down.
LEMMA DownlinkData ==
  ASSUME PathInv, TerminalHops, DataInv, call.pc = "idle", UNCHANGED vars,
         NEW u \in UT, NEW f \in Flow, SendDown(u, f)
  PROVE  DataInv' /\ fault' = fault /\ \A q \in air' : q \in air \/ ~q.ack
<1>1. PICK a \in AP : a = lookup[u] /\ SendData(a, u, f)
  BY DEF DataInv, DataTypeOK, SendDown
<1>2. a \in Station /\ DataTypeOK
  BY StationAssumption DEF DataInv
<1>3. /\ UNCHANGED <<dllFlowID, flowClass, lookup, heard, fault>>
      /\ \E p \in PDU : Enqueues(p, u, f, ClassOf(a, f))
  <2>1. a = u \/ a \in AP
    OBVIOUS
  <2> QED BY <1>1, <1>2, <2>1, Sends
<1>4. PICK p \in PDU : Enqueues(p, u, f, ClassOf(a, f))
  BY <1>3
<1>5. p.flow # NoFlow => p.class = flowClass[p.ut][p.flow]
  <2> SUFFICES ASSUME f # NoFlow PROVE ClassOf(a, f) = flowClass[u][f]
    BY <1>4 DEF Enqueues
  <2>1. flowClass[u][f] # "none" /\ flowClass[a][f] = flowClass[u][f]
    BY <1>1 DEF SendDown, DataInv, FlowsKnown
  <2> QED BY <2>1 DEF ClassOf
<1>6. Sound(p)
  BY <1>4, <1>5 DEF Sound, Enqueues
<1>7. DataInv'
  BY <1>2, <1>3, <1>4, <1>6, SoundKept DEF DataTypeOK, Enqueues
<1> QED BY <1>3, <1>4, <1>7 DEF Enqueues

\* A relay forwards data to the connection of the same terminal and kind that
\* its map names.
LEMMA ForwardData ==
  ASSUME PathInv, TerminalHops, DataInv, call.pc = "idle", UNCHANGED vars,
         NEW p \in air, NEW r \in FRS, Forward(r, p),
         ~p.ack => /\ Mapped(r, p.cid) # {}
                   /\ \A q \in Relayed(r, p) : Queued(q, DataKind(p.up, p.class))
  PROVE  DataInv'
<1>1. p \in PDU /\ (~p.ack => Sound(p))
  BY DEF DataInv, DataTypeOK, DataQueued, FlowKeepsClass, Sound
<1>2. /\ UNCHANGED <<dllFlowID, flowClass, lookup, heard>>
      /\ fault' \in {"none", "classifier", "no mapping"}
      /\ \A q \in air' : q \in air \/ q \in Relayed(r, p)
  BY DEF Forward, DataInv, DataTypeOK
<1>3. ASSUME NEW q \in Relayed(r, p) PROVE q \in PDU /\ Sound(q)
  <2>1. /\ q \in PDU /\ q.ack = p.ack /\ q.ut = p.ut /\ q.up = p.up /\ q.flow = p.flow
        /\ q.class = p.class /\ q.of = p.of
    BY <1>1, RelayedType
  <2> SUFFICES ASSUME ~p.ack PROVE Sound(q)
    BY <2>1 DEF Sound
  <2>2. Queued(q, DataKind(q.up, q.class))
    BY <2>1
  <2> QED BY <1>1, <2>1, <2>2 DEF Sound
<1> QED BY <1>2, <1>3, SoundKept

\* What an access point learns from a data packet of terminal u.
LEMMA LearnData ==
  ASSUME PathInv, DataInv, UNCHANGED vars, UNCHANGED <<dllFlowID, fault>>,
         NEW a \in AP, NEW p \in air, ~p.ack, cell[p.ut] = a, Learn(a, p),
         \A q \in air' : q \in air \/ (q \in PDU /\ q.ack)
  PROVE  DataInv'
<1> DEFINE u == p.ut
           f == p.flow
<1>1. /\ p \in PDU /\ u \in UT /\ f \in Flow /\ a \in Station /\ a # NoStation
      /\ p.class \in DataQoS /\ p.class # "none"
      /\ AP \subseteq Station /\ UT \subseteq Station /\ a \notin UT
  BY StationAssumption DEF DataInv, DataTypeOK, PDU, DataQoS
<1>2. Queued(p, DataKind(p.up, p.class)) /\ SentOn(p.ut, p.up, p.class, p.of)
  BY DEF DataInv, DataQueued
<1>3. f # NoFlow => p.class = flowClass[u][f]
  BY DEF DataInv, FlowKeepsClass
<1> HIDE DEF u, f
<1>4. /\ flowClass' = [flowClass EXCEPT ![a][f] = IF @ = "none" THEN p.class ELSE @]
      /\ lookup'    = [lookup EXCEPT ![u] = a]
      /\ heard'     = IF f = NoFlow THEN heard ELSE heard \cup {<<u, f>>}
      /\ cell[u] = a
  BY DEF Learn, u, f
<1>5. /\ flowClass \in [Station -> [Flow -> DataQoS \cup {"none"}]]
      /\ flowClass' \in [Station -> [Flow -> DataQoS \cup {"none"}]]
      /\ \A s \in Station, g \in Flow :
           flowClass'[s][g] = IF s = a /\ g = f /\ flowClass[a][f] = "none"
                                THEN p.class ELSE flowClass[s][g]
  BY <1>1, <1>4 DEF DataInv, DataTypeOK
<1>6. \A v \in UT, g \in Flow : flowClass'[v][g] = flowClass[v][g]
  BY <1>1, <1>5
<1>7. \A v \in UT : lookup'[v] = IF v = u THEN a ELSE lookup[v]
  BY <1>1, <1>4 DEF DataInv, DataTypeOK
<1>8. DataTypeOK'
  <2>1. lookup' \in [UT -> AP \cup {NoStation}]
    BY <1>1, <1>4 DEF DataInv, DataTypeOK
  <2>2. heard' \subseteq UT \X Flow
    <3>1. heard \subseteq UT \X Flow
      BY DEF DataInv, DataTypeOK
    <3>2. <<u, f>> \in UT \X Flow
      BY <1>1
    <3> QED BY <1>4, <3>1, <3>2
  <2>3. dllFlowID' \in Flow /\ fault' \in {"none", "classifier", "no mapping"} /\ air' \subseteq PDU
    BY DEF DataInv, DataTypeOK
  <2> QED BY <1>5, <2>1, <2>2, <2>3 DEF DataTypeOK
<1>9. DataQueued'
  BY TablesStay DEF DataInv, DataQueued
<1>10. cell' = cell
  BY TablesStay
<1>11. LocationRight'
  BY <1>4, <1>7, <1>10 DEF DataInv, LocationRight
<1>12. FlowsKnown'
  <2>1. ASSUME NEW s \in Station, NEW g \in Flow, g > dllFlowID PROVE flowClass'[s][g] = "none"
    <3>1. flowClass[s][g] = "none"
      BY <2>1 DEF DataInv, FlowsKnown
    <3>2. CASE g = f
      <4>1. f # NoFlow
        <5>1. dllFlowID \in Flow
          BY DEF DataInv, DataTypeOK
        <5>2. dllFlowID \in Nat
          BY <5>1, DataPathAssumption DEF Flow
        <5> QED BY <2>1, <3>2, <5>2 DEF NoFlow
      <4>2. flowClass[u][f] = "none"
        BY <1>1, <2>1, <3>2 DEF DataInv, FlowsKnown
      <4> QED BY <1>1, <1>3, <4>1, <4>2
    <3> QED BY <1>5, <3>1, <3>2
  <2>2. \A v, w \in UT, g \in Flow :
          flowClass'[v][g] # "none" /\ flowClass'[w][g] # "none" => v = w
    BY <1>6 DEF DataInv, FlowsKnown
  <2>3. \A v \in UT : flowClass'[v][NoFlow] = "none"
    <3>1. NoFlow \in Flow
      BY DataPathAssumption DEF NoFlow, Flow
    <3> QED BY <1>6, <3>1 DEF DataInv, FlowsKnown
  <2>4. ASSUME NEW b \in AP, NEW g \in Flow, g # NoFlow, flowClass'[b][g] # "none"
        PROVE  \E v \in UT : flowClass'[v][g] = flowClass'[b][g]
    <3>1. CASE b = a /\ g = f /\ flowClass[a][f] = "none"
      BY <1>1, <1>3, <1>5, <1>6, <2>4, <3>1
    <3>2. CASE ~ (b = a /\ g = f /\ flowClass[a][f] = "none")
      <4>1. flowClass'[b][g] = flowClass[b][g]
        BY <1>1, <1>5, <3>2
      <4>2. PICK v \in UT : flowClass[v][g] = flowClass[b][g]
        BY <2>4, <4>1 DEF DataInv, FlowsKnown
      <4> QED BY <1>6, <4>1, <4>2
    <3> QED BY <3>1, <3>2
  <2>5. ASSUME NEW v \in UT, NEW g \in Flow, <<v, g>> \in heard'
        PROVE  /\ g # NoFlow /\ lookup'[v] # NoStation
               /\ flowClass'[v][g] # "none"
               /\ flowClass'[lookup'[v]][g] = flowClass'[v][g]
    <3>1. CASE <<v, g>> \in heard
      <4>1. /\ g # NoFlow /\ lookup[v] # NoStation /\ flowClass[v][g] # "none"
            /\ flowClass[lookup[v]][g] = flowClass[v][g]
        BY <3>1 DEF DataInv, FlowsKnown
      <4>2. lookup'[v] = lookup[v] /\ lookup[v] \in Station
        BY <1>1, <1>4, <1>7, <4>1 DEF DataInv, DataTypeOK, LocationRight
      <4> QED BY <1>5, <1>6, <4>1, <4>2
    <3>2. CASE v = u /\ g = f /\ f # NoFlow
      <4>1. flowClass[u][f] = p.class /\ lookup'[v] = a
        BY <1>3, <1>7, <3>2
      <4>2. flowClass[a][f] # "none" => flowClass[a][f] = flowClass[u][f]
        <5> SUFFICES ASSUME flowClass[a][f] # "none" PROVE flowClass[a][f] = flowClass[u][f]
          OBVIOUS
        <5>1. PICK w \in UT : flowClass[w][f] = flowClass[a][f]
          BY <1>1, <3>2 DEF DataInv, FlowsKnown
        <5>2. w = u
          BY <1>1, <4>1, <5>1 DEF DataInv, FlowsKnown
        <5> QED BY <5>1, <5>2
      <4> QED BY <1>1, <1>5, <1>6, <3>2, <4>1, <4>2
    <3> QED BY <1>4, <2>5, <3>1, <3>2
  <2> QED BY <2>1, <2>2, <2>3, <2>4, <2>5 DEF FlowsKnown
<1>13. FlowKeepsClass'
  <2> SUFFICES ASSUME NEW q \in air', ~q.ack, q.flow # NoFlow
               PROVE  q.class = flowClass'[q.ut][q.flow]
    BY DEF FlowKeepsClass
  <2>1. q \in air /\ q.ut \in UT /\ q.flow \in Flow
    BY DEF DataInv, DataTypeOK, PDU
  <2> QED BY <1>6, <2>1 DEF DataInv, FlowKeepsClass
<1> QED BY <1>8, <1>9, <1>11, <1>12, <1>13 DEF DataInv

\* What an access point or a terminal learns from data that arrives is right.
LEMMA DeliverData ==
  ASSUME PathInv, TerminalHops, DataInv, UNCHANGED vars,
         NEW p \in air, NEW n \in Station, Deliver(n, p),
         ~p.ack /\ n \in AP => cell[p.ut] = n
  PROVE  DataInv'
<1>1. p \in PDU
  BY DEF DataInv, DataTypeOK
<1>2. /\ UNCHANGED <<dllFlowID, fault>>
      /\ \A q \in air' : q \in air \/ q \in Acknowledgement(n, p)
      /\ \/ ~p.ack /\ n \in AP /\ Learn(n, p)
         \/ UNCHANGED <<flowClass, lookup, heard>>
  BY DEF Deliver
<1>3. \A q \in Acknowledgement(n, p) : q \in PDU /\ q.ack
  BY <1>1, AckType
<1>4. CASE ~p.ack /\ n \in AP /\ Learn(n, p)
  BY <1>2, <1>3, <1>4, LearnData
<1>5. CASE UNCHANGED <<flowClass, lookup, heard>>
  <2>1. \A q \in air' : q \in air \/ (q \in PDU /\ Sound(q))
    BY <1>2, <1>3 DEF Sound
  <2>2. fault' \in {"none", "classifier", "no mapping"}
    BY <1>2 DEF DataInv, DataTypeOK
  <2> QED BY <1>2, <1>5, <2>1, <2>2, SoundKept
<1> QED BY <1>2, <1>4, <1>5

\* A packet that has been sent is at the other end of its hop, where it is
\* forwarded or delivered.
LEMMA TransmitData ==
  ASSUME PathInv, TerminalHops, DataInv, call.pc = "idle", UNCHANGED vars,
         NEW p \in air, Transmit(p)
  PROVE  DataInv'
<1>1. p \in PDU
  BY DEF DataInv, DataTypeOK
<1>2. CASE p.ack
  <2>1. PICK n \in Station :
          \/ n \in FRS /\ Forward(n, p)
          \/ n \notin FRS /\ Deliver(n, p)
          \/ air' = air \ {p} /\ UNCHANGED <<dllFlowID, flowClass, lookup, heard, fault>>
    BY <1>1, TransmitIs
  <2>2. CASE n \in FRS /\ Forward(n, p)
    BY <1>2, <2>2, ForwardData
  <2>3. CASE n \notin FRS /\ Deliver(n, p)
    BY <1>2, <2>3, DeliverData
  <2>4. CASE air' = air \ {p} /\ UNCHANGED <<dllFlowID, flowClass, lookup, heard, fault>>
    <3>1. fault' \in {"none", "classifier", "no mapping"}
      BY <2>4 DEF DataInv, DataTypeOK
    <3> QED BY <2>4, <3>1, SoundKept
  <2> QED BY <2>1, <2>2, <2>3, <2>4
<1>3. CASE ~p.ack
  <2> DEFINE kind == DataKind(p.up, p.class)
  <2>1. Queued(p, kind)
    BY <1>3 DEF DataInv, DataQueued
  <2> HIDE DEF kind
  <2>2. PICK c \in Rows(p.at) :
          /\ c.cid = p.cid /\ c.cid # 0 /\ c.kind = kind
          /\ c.remoteStation = p.ut /\ Leads(p.at, c, p.up)
          /\ Onward(c, p.up) \in Station /\ c \in Rows(Onward(c, p.up))
          /\ \/ Onward(c, p.up) \in FRS /\ Forward(Onward(c, p.up), p)
             \/ Onward(c, p.up) \notin FRS /\ Deliver(Onward(c, p.up), p)
    BY <1>1, <2>1, TransmitQueued
  <2>3. PICK n \in Station : n = Onward(c, p.up)
    BY <2>2
  <2>4. CASE n \in FRS /\ Forward(n, p)
    <3>1. Mapped(n, p.cid) # {} /\ \A q \in Relayed(n, p) : Queued(q, kind)
      BY <1>1, <2>1, <2>2, <2>3, <2>4, RelayedQueued
    <3> QED BY <2>4, <3>1, ForwardData DEF kind
  <2>5. CASE n \notin FRS /\ Deliver(n, p)
    <3>1. n \in AP => cell[p.ut] = n
      BY <2>2, <2>3, ServedInCell
    <3> QED BY <2>5, <3>1, DeliverData
  <2> QED BY <2>2, <2>3, <2>4, <2>5
<1> QED BY <1>2, <1>3

\* Every step of the system keeps the invariant of data.
LEMMA StepData ==
  PathInv /\ TerminalHops /\ DataInv /\ [DataNext]_allVars => DataInv'
<1> SUFFICES ASSUME PathInv, TerminalHops, DataInv, [DataNext]_allVars PROVE DataInv'
  OBVIOUS
<1>1. CASE Assoc
  BY <1>1, AssocData DEF Assoc
<1>2. CASE Establish
  BY <1>2, EstablishData DEF Establish, Quiet
<1>3. CASE Uplink
  BY <1>3, UplinkData DEF Uplink, Quiet
<1>4. CASE Downlink
  BY <1>4, DownlinkData DEF Downlink, Quiet
<1>5. ASSUME NEW s \in Station, NEW u \in UT, NEW up \in BOOLEAN, Served(s, u, up)
      PROVE  DataInv'
  BY <1>5, TransmitData DEF Served, Quiet
<1>6. CASE UNCHANGED allVars
  BY <1>6, AssocData DEF allVars
<1> QED BY <1>1, <1>2, <1>3, <1>4, <1>5, <1>6 DEF DataNext

\* At the start there are no packets and nothing has been learned.
LEMMA InitData == DataInit => DataInv
<1> SUFFICES ASSUME DataInit PROVE DataInv
  OBVIOUS
<1>1. /\ dllFlowID = 0 /\ air = {} /\ heard = {} /\ fault = "none"
      /\ flowClass = [s \in Station |-> [f \in Flow |-> "none"]]
      /\ lookup = [u \in UT |-> NoStation]
      /\ AP \subseteq Station /\ UT \subseteq Station
      /\ 0 \in Flow
  BY StationAssumption, DataPathAssumption DEF DataInit, Flow
<1>2. DataTypeOK
  BY <1>1 DEF DataTypeOK
<1>3. DataQueued /\ LocationRight /\ FlowKeepsClass
  BY <1>1 DEF DataQueued, LocationRight, FlowKeepsClass
<1>4. FlowsKnown
  BY <1>1 DEF FlowsKnown, NoFlow
<1> QED BY <1>2, <1>3, <1>4 DEF DataInv

---------------------------------------------------------------------------
(* The theorems on data, which hold for every deployment.                  *)

\* Packets leave the associations alone, so that all that is proved of Spec
\* holds of DataSpec.
THEOREM DataIsAssociation == DataSpec => Spec
<1>1. DataInit => Init
  BY DEF DataInit
<1>2. [DataNext]_allVars => [Next]_vars
  BY DEF DataNext, allVars, Assoc, Establish, Uplink, Downlink, Served, Quiet
<1> QED BY <1>1, <1>2, PTL DEF DataSpec, Spec

\* Data stays on the connections of its terminal, of its direction and class,
\* and the identifiers of flows are given out once.
THEOREM DataInvariance == DataSpec => []DataInv
BY DataIsAssociation, PathInvariance, TerminalHopsInvariance, InitData, StepData, PTL
   DEF DataSpec

\* The RANG always sends to the access point in whose cell the terminal is,
\* and a flow keeps its class in both directions.
THEOREM AlwaysLearnedRight == DataSpec => []LearnedRight
<1>1. DataInv => LearnedRight
  BY DEF DataInv, LearnedRight
<1> QED BY <1>1, DataInvariance, PTL

---------------------------------------------------------------------------
(* Acknowledgements, under the condition AcksDirect.                       *)

\* The CID that acknowledgement p carries is that of a data connection which
\* leads on over the same hop, and of the origin's one of the same class.
Names(p) ==
  \E q \in DataQoS :
    /\ SentOn(p.ut, ~p.up, q, p.of)
    /\ \E e \in Rows(p.at) : /\ e.cid = p.originalCID /\ e.cid # 0
                             /\ e.remoteStation = p.ut
                             /\ e.kind = DataKind(~p.up, q)
                             /\ Leads(p.at, e, p.up)

\* What the invariant says of a packet.
AckSound(p) ==
  p.ack => Queued(p, Basic) /\ (p.up \/ FRS = {}) /\ Names(p)

\* A step that adds only sound acknowledgements keeps their invariant.
LEMMA AckSoundKept ==
  ASSUME AckInv, UNCHANGED vars, fault' = fault,
         \A q \in air' : q \in air \/ AckSound(q)
  PROVE  AckInv'
<1>1. \A q \in air' : AckSound(q)
  BY DEF AckInv, AcksQueued, AckSound, Names
<1>2. \A q \in air' : Names(q)' <=> Names(q)
  BY TablesStay DEF Names, Leads
<1>3. \A q \in air' : q.ack => Queued(q, Basic)' /\ (q.up \/ FRS = {}) /\ Names(q)'
  BY <1>1, <1>2, TablesStay DEF AckSound
<1>4. AcksQueued'
  BY <1>3 DEF AcksQueued, Names
<1> QED BY <1>4 DEF AckInv

\* The basic connection that is found for a data connection is its hop's.
LEMMA BasicIs ==
  ASSUME NEW n \in Station, NEW c \in Rows(n), NEW b \in BasicForCID(table[n], c.cid),
         PathInv, c.kind.type = "Data"
  PROVE  /\ table[n][b] \in Rows(n)
         /\ table[n][b].kind = Basic /\ table[n][b].cid # 0
         /\ table[n][b].baseStation = c.baseStation
         /\ table[n][b].subscriberStation = c.subscriberStation
<1>1. PICK i \in WithID(table[n], c.cid) :
        b \in IF table[n][i].kind.type = "Basic"
                THEN {i}
                ELSE FirstOf(table[n], {j \in DOMAIN table[n] :
                       /\ table[n][j].baseStation = table[n][i].baseStation
                       /\ table[n][j].subscriberStation = table[n][i].subscriberStation
                       /\ table[n][j].kind.type = "Basic"})
  BY DEF BasicForCID
<1>2. table[n][i] = c
  BY WithIDOf
<1>3. /\ b \in DOMAIN table[n]
      /\ table[n][b].baseStation = c.baseStation
      /\ table[n][b].subscriberStation = c.subscriberStation
      /\ table[n][b].kind.type = "Basic"
  BY <1>1, <1>2, FirstOfSubset
<1> DEFINE r == table[n][b]
<1>4. r \in Rows(n)
  BY <1>3, RowsAre DEF PathInv, IInv
<1>5. r.cid # 0
  BY <1>3, <1>4 DEF PathInv, IInv, RowsOK
<1>6. PICK k \in 1..HopSize : r.kind = HopKinds[k]
  BY <1>4, <1>5 DEF PathInv, HopsShared
<1>7. r.kind = Basic
  BY <1>3, <1>6, KindsOfHop
<1> QED BY <1>3, <1>4, <1>5, <1>7

\* The reply to data at the end of its way finds its own way back.
LEMMA AckQueued ==
  ASSUME NEW p \in PDU, NEW n \in Acking, NEW c \in Rows(n), NEW q \in Acknowledgement(n, p),
         PathInv, TerminalHops, AcksDirect, n \in Station, n \notin FRS,
         c.cid = p.cid, c.cid # 0, c.remoteStation = p.ut,
         c.kind = DataKind(p.up, p.class), Leads(n, c, ~p.up),
         p.up => n \in AP \cup FRS,
         life[p.ut] = "joined", SentOn(p.ut, p.up, p.class, p.of)
  PROVE  AckSound(q)
<1>1. /\ q \in PDU /\ q.ack /\ q.at = n /\ q.originalCID = p.cid
      /\ q.ut = p.ut /\ q.up = ~p.up /\ q.of = p.of
  BY AckType
<1>2. PICK b \in BasicForCID(table[n], p.cid) : q.cid = table[n][b].cid
  BY AckType
<1> DEFINE r == table[n][b]
<1>3. c.kind.type = "Data"
  BY DEF DataKind, KindOf
<1>4. /\ r \in Rows(n) /\ r.kind = Basic /\ r.cid # 0
      /\ r.baseStation = c.baseStation
      /\ r.subscriberStation = c.subscriberStation
  BY <1>2, <1>3, BasicIs
<1> HIDE DEF r
<1>5. r.remoteStation = p.ut
  <2>1. CASE n \in UT
    <3>1. r.remoteStation = n /\ c.remoteStation = n
      BY <1>4, <2>1, AtTerminal
    <3> QED BY <3>1
  <2>2. CASE FRS = {}
    <3>1. r.remoteStation = r.subscriberStation /\ c.remoteStation = c.subscriberStation
      BY <1>4, <2>2 DEF PathInv, Serves
    <3> QED BY <1>4, <3>1
  <2> QED BY <2>1, <2>2 DEF AcksDirect
<1>6. q.up \/ FRS = {}
  <2> SUFFICES ASSUME p.up PROVE FRS = {}
    BY <1>1
  <2>1. n \in AP /\ n \notin UT
    BY StationAssumption
  <2> QED BY <2>1 DEF AcksDirect
<1>7. Leads(n, r, q.up) /\ Leads(n, c, q.up)
  BY <1>1, <1>4 DEF Leads
<1>8. Queued(q, Basic)
  BY <1>1, <1>2, <1>4, <1>5, <1>7 DEF Queued, r
<1>9. Names(q)
  <2>1. (~q.up) = p.up /\ p.class \in DataQoS
    BY <1>1 DEF PDU
  <2>2. SentOn(q.ut, ~q.up, p.class, q.of) /\ c.kind = DataKind(~q.up, p.class)
    BY <1>1, <2>1
  <2> QED BY <1>1, <1>7, <2>1, <2>2 DEF Names
<1> QED BY <1>6, <1>8, <1>9 DEF AckSound

\* A relay maps the CID in an acknowledgement as it maps the connection.
LEMMA NamesMapped ==
  ASSUME NEW p \in PDU, NEW c \in Rows(p.at), NEW r \in FRS,
         PathInv, call.pc = "idle", p.ack, p.up \/ FRS = {}, Names(p),
         c.cid # 0, Leads(p.at, c, p.up), r = Onward(c, p.up)
  PROVE  /\ MappingsOf(r, p.originalCID) # {}
         /\ \E k \in DataQoS :
              /\ SentOn(p.ut, ~p.up, k, p.of)
              /\ \E d \in Rows(r) : /\ Mapped(r, p.originalCID) = {d.cid} /\ d.cid # 0
                                    /\ d.remoteStation = p.ut
                                    /\ d.kind = DataKind(~p.up, k)
                                    /\ Leads(r, d, p.up)
<1>1. p.up /\ p.ut \in UT /\ p.at \in Station /\ FRS # {}
  BY DEF PDU
<1>2. PICK k \in DataQoS :
        /\ SentOn(p.ut, ~p.up, k, p.of)
        /\ \E e \in Rows(p.at) : /\ e.cid = p.originalCID /\ e.cid # 0
                                 /\ e.remoteStation = p.ut
                                 /\ e.kind = DataKind(~p.up, k)
                                 /\ Leads(p.at, e, p.up)
  BY DEF Names
<1>3. PICK e \in Rows(p.at) : /\ e.cid = p.originalCID /\ e.cid # 0
                              /\ e.remoteStation = p.ut
                              /\ e.kind = DataKind(~p.up, k)
                              /\ Leads(p.at, e, p.up)
  BY <1>2
<1>4. e.baseStation = r
  <2>1. p.at \in Station \ AP
    BY <1>1, <1>3, HopEnds DEF Leads
  <2> QED BY <1>1, <1>3, <2>1 DEF PathInv, Attached, Onward, Leads
<1>5. e \in Rows(r) /\ Leads(r, e, ~p.up)
  BY <1>1, <1>3, <1>4, HopEnds DEF Leads
<1>6. /\ MappingsOf(r, e.cid) # {}
      /\ \E d \in Rows(r) : /\ Mapped(r, e.cid) = {d.cid}
                            /\ d.cid # 0 /\ d.kind = e.kind
                            /\ d.remoteStation = e.remoteStation
                            /\ Leads(r, d, p.up)
  <2>1. p.up \in BOOLEAN
    BY DEF PDU
  <2> QED BY <1>1, <1>3, <1>5, <2>1, MappedOn
<1> QED BY <1>2, <1>3, <1>6

\* A relay that forwards an acknowledgement renames the connection it carries
\* to the one the data took over the next hop.
LEMMA RelayedNames ==
  ASSUME NEW p \in PDU, NEW c \in Rows(p.at), NEW r \in FRS, NEW q \in Relayed(r, p),
         PathInv, call.pc = "idle", p.ack, p.up \/ FRS = {}, Names(p),
         c.cid # 0, Leads(p.at, c, p.up), r = Onward(c, p.up)
  PROVE  Names(q)
<1>1. PICK k \in DataQoS :
        /\ SentOn(p.ut, ~p.up, k, p.of)
        /\ \E d \in Rows(r) : /\ Mapped(r, p.originalCID) = {d.cid} /\ d.cid # 0
                              /\ d.remoteStation = p.ut
                              /\ d.kind = DataKind(~p.up, k)
                              /\ Leads(r, d, p.up)
  BY NamesMapped
<1>2. MappingsOf(r, p.originalCID) # {}
  BY NamesMapped
<1>3. /\ q.at = r /\ q.ut = p.ut /\ q.up = p.up /\ q.of = p.of
      /\ q.originalCID \in Mapped(r, p.originalCID)
  BY <1>2, RelayedType
<1> QED BY <1>1, <1>3 DEF Names

\* A relay that finds the connections does not fail.
LEMMA RelayedExists ==
  ASSUME NEW p, NEW r, Mapped(r, p.cid) # {},
         p.ack => Mapped(r, p.originalCID) # {}
  PROVE  Relayed(r, p) # {}
<1> DEFINE O == IF p.ack /\ MappingsOf(r, p.originalCID) # {}
                  THEN Mapped(r, p.originalCID) ELSE {0}
<1>1. PICK c \in Mapped(r, p.cid) : TRUE
  OBVIOUS
<1>2. PICK o \in O : TRUE
  OBVIOUS
<1>3. Remapped(r, p, c, o) \in Relayed(r, p)
  BY <1>1, <1>2 DEF Relayed
<1> QED BY <1>3

\* An acknowledgement that has been sent is forwarded or consumed, and data
\* that is delivered is acknowledged soundly.
LEMMA TransmitAcks ==
  ASSUME PathInv, TerminalHops, DataInv, AckInv, AcksDirect, call.pc = "idle",
         UNCHANGED vars, NEW p \in air, Transmit(p)
  PROVE  AckInv'
<1> DEFINE kind == IF p.ack THEN Basic ELSE DataKind(p.up, p.class)
<1>1. /\ p \in PDU /\ AckSound(p)
      /\ ~p.ack => SentOn(p.ut, p.up, p.class, p.of)
      /\ Queued(p, kind) /\ life[p.ut] = "joined"
  BY DEF DataInv, DataTypeOK, DataQueued, AckInv, AcksQueued, AckSound, Names, Queued
<1>2. /\ p.ack => kind = Basic
      /\ ~p.ack => kind = DataKind(p.up, p.class)
  OBVIOUS
<1> HIDE DEF kind
<1>3. PICK c \in Rows(p.at) :
        /\ c.cid = p.cid /\ c.cid # 0 /\ c.kind = kind
        /\ c.remoteStation = p.ut /\ Leads(p.at, c, p.up)
        /\ Onward(c, p.up) \in Station /\ c \in Rows(Onward(c, p.up))
        /\ Leads(Onward(c, p.up), c, ~p.up)
        /\ p.up => Onward(c, p.up) \in AP \cup FRS
        /\ \/ Onward(c, p.up) \in FRS /\ Forward(Onward(c, p.up), p)
           \/ Onward(c, p.up) \notin FRS /\ Deliver(Onward(c, p.up), p)
  BY <1>1, TransmitQueued
<1>4. PICK n \in Station : n = Onward(c, p.up)
  BY <1>3
<1>5. CASE n \in FRS /\ Forward(n, p)
  <2>1. Mapped(n, p.cid) # {} /\ \A q \in Relayed(n, p) : Queued(q, kind)
    BY <1>1, <1>3, <1>4, <1>5, RelayedQueued
  <2>2. p.ack => Mapped(n, p.originalCID) # {}
    BY <1>1, <1>3, <1>4, <1>5, NamesMapped DEF AckSound
  <2>3. Relayed(n, p) # {}
    BY <2>1, <2>2, RelayedExists
  <2>4. fault' = fault /\ \A q \in air' : q \in air \/ q \in Relayed(n, p)
    BY <1>5, <2>3 DEF Forward
  <2>5. ASSUME NEW q \in Relayed(n, p), q.ack PROVE AckSound(q)
    <3>1. p.ack /\ q.up = p.up
      BY <1>1, <1>5, <2>5, RelayedType
    <3>2. Names(q)
      BY <1>1, <1>3, <1>4, <1>5, <3>1, RelayedNames DEF AckSound
    <3> QED BY <1>1, <1>2, <2>1, <3>1, <3>2 DEF AckSound
  <2>6. \A q \in air' : q \in air \/ AckSound(q)
    BY <2>4, <2>5 DEF AckSound
  <2> QED BY <2>4, <2>6, AckSoundKept
<1>6. CASE n \notin FRS /\ Deliver(n, p)
  <2>1. /\ fault' = fault
        /\ \A q \in air' : \/ q \in air
                           \/ ~p.ack /\ n \in Acking /\ q \in Acknowledgement(n, p)
    BY <1>6 DEF Deliver
  <2>2. ASSUME ~p.ack, n \in Acking, NEW q \in Acknowledgement(n, p) PROVE AckSound(q)
    <3>1. /\ c \in Rows(n) /\ c.kind = DataKind(p.up, p.class) /\ Leads(n, c, ~p.up)
          /\ p.up => n \in AP \cup FRS
      BY <1>2, <1>3, <1>4, <2>2
    <3> QED BY <1>1, <1>3, <1>6, <2>2, <3>1, AckQueued
  <2>3. \A q \in air' : q \in air \/ AckSound(q)
    BY <2>1, <2>2
  <2> QED BY <2>1, <2>3, AckSoundKept
<1> QED BY <1>3, <1>4, <1>5, <1>6

\* Every step of the system keeps the invariant of acknowledgements.
LEMMA StepAcks ==
  AcksDirect /\ PathInv /\ TerminalHops /\ DataInv /\ AckInv /\ [DataNext]_allVars => AckInv'
<1> SUFFICES ASSUME AcksDirect, PathInv, TerminalHops, DataInv, AckInv, [DataNext]_allVars
             PROVE  AckInv'
  OBVIOUS
<1>1. CASE Assoc
  BY <1>1, AssocAcks DEF Assoc
<1>2. CASE Establish
  <2>1. UNCHANGED vars /\ air' = air /\ fault' = fault
    BY <1>2 DEF Establish, Quiet, EstablishFlow
  <2> QED BY <2>1, AckSoundKept
<1>3. ASSUME UNCHANGED vars, fault' = fault, \A q \in air' : q \in air \/ ~q.ack
      PROVE  AckInv'
  <2>1. \A q \in air' : q \in air \/ AckSound(q)
    BY <1>3 DEF AckSound
  <2> QED BY <1>3, <2>1, AckSoundKept
<1>4. CASE Uplink
  <2>1. PICK u \in UT, f \in Flow : SendUp(u, f)
    BY <1>4 DEF Uplink
  <2>2. UNCHANGED vars /\ call.pc = "idle"
    BY <1>4 DEF Uplink, Quiet
  <2> QED BY <1>3, <2>1, <2>2, UplinkData
<1>5. CASE Downlink
  <2>1. PICK u \in UT, f \in Flow : SendDown(u, f)
    BY <1>5 DEF Downlink
  <2>2. UNCHANGED vars /\ call.pc = "idle"
    BY <1>5 DEF Downlink, Quiet
  <2> QED BY <1>3, <2>1, <2>2, DownlinkData
<1>6. ASSUME NEW s \in Station, NEW u \in UT, NEW up \in BOOLEAN, Served(s, u, up)
      PROVE  AckInv'
  BY <1>6, TransmitAcks DEF Served, Quiet
<1>7. CASE UNCHANGED allVars
  BY <1>7, AssocAcks DEF allVars
<1> QED BY <1>1, <1>2, <1>4, <1>5, <1>6, <1>7 DEF DataNext

---------------------------------------------------------------------------
(* The theorems on acknowledgements.                                       *)

\* Where access points with relays do not acknowledge, an acknowledgement is on
\* a basic connection of its terminal and names the data it is about.
THEOREM AckInvariance == ASSUME AcksDirect PROVE DataSpec => []AckInv
<1>1. DataInit => AckInv
  BY DEF DataInit, AckInv, AcksQueued
<1>2. PathInv /\ TerminalHops /\ DataInv /\ AckInv /\ [DataNext]_allVars => AckInv'
  BY StepAcks
<1> QED BY <1>1, <1>2, DataIsAssociation, PathInvariance, TerminalHopsInvariance,
           DataInvariance, PTL DEF DataSpec

\* Where access points with relays do not acknowledge, no assertion on the way
\* of a packet fails: the classifier finds one connection, every relay a
\* mapping.
THEOREM NoneFails == ASSUME AcksDirect PROVE DataSpec => []NoAssertionFails
<1>1. DataInv /\ AckInv => NoAssertionFails
  BY DEF DataInv, AckInv, NoAssertionFails
<1> QED BY <1>1, DataInvariance, AckInvariance, PTL

\* Every packet in a queue is on a connection of its terminal and its class
\* that leads on in its direction, and the next station accepts it.
THEOREM AlwaysOnCourse == ASSUME AcksDirect PROVE DataSpec => []OnCourse
BY CourseHolds, DataIsAssociation, PathInvariance, DataInvariance, AckInvariance, PTL

\* Across all relays an acknowledgement arrives with the CID that its data was
\* first sent on, at the station that sent it.
THEOREM AcksNameTheirData == ASSUME AcksDirect PROVE DataSpec => []AckNamesItsData
BY NamesHolds, DataIsAssociation, PathInvariance, TerminalHopsInvariance,
   DataInvariance, AckInvariance, PTL
==========================================================================
