------------------------ MODULE AssociationProofs ------------------------
(***************************************************************************)
(* Proofs about Association, for any number of access points, relays and   *)
(* terminals and any shape of the relay trees.                             *)
(***************************************************************************)
EXTENDS Association, SequenceTheorems, TLAPS

Rows(s) == Range(table[s])

---------------------------------------------------------------------------
(* The inductive invariant.                                                *)

\* A call in progress climbs inside one cell, and its lower end either is new
\* or already belongs to that cell.
CallOK ==
  call.pc = "climb" =>
    /\ call.child \in Station \ AP
    /\ call.parent \in Station
    /\ call.ask \in Station
    /\ call.remote \in Station
    /\ call.child # call.parent
    /\ cell[call.ask] = cell[call.parent]
    /\ cell[call.child] \in {NoStation, cell[call.parent]}
    /\ call.child # call.remote => cell[call.child] # NoStation

\* Access points number themselves, from 1 on.
CellOK ==
  /\ \A a \in AP : cell[a] = a
  /\ \A a \in AP : highestCID[a] >= 1

\* A numbered connection lies in one cell and below that cell's counter.
RowsOK ==
  \A s \in Station : \A c \in Rows(s) :
    /\ c.baseStation # c.subscriberStation
    /\ c.kind.type = "Basic" => c.cid # 0
    /\ c.cid # 0 => /\ cell[s] \in AP
                    /\ cell[c.baseStation] = cell[s]
                    /\ c.cid < highestCID[cell[s]]

\* A station that has not begun to associate is in no cell (so by RowsOK it
\* has no numbered connection) and holds no ranging connection.
Newcomers ==
  /\ call.pc = "idle" => call.remote = NoStation
  /\ \A s \in Station : life[s] # "joined" /\ call.remote # s =>
       /\ s \notin AP => cell[s] = NoStation
       /\ \A c \in Rows(s) : c.cid # 0

IInv == /\ TypeOK
        /\ CallOK
        /\ CellOK
        /\ RowsOK
        /\ Newcomers
        /\ CIDsUnique
        /\ CIDsUniqueInCell

---------------------------------------------------------------------------
(* Lemmas on the operators.                                                *)

\* The kinds of a hop are kinds, and there are HopSize of them.
LEMMA HopKindsType == HopKinds \in Seq(Kind) /\ Len(HopKinds) = HopSize
<1>1. \A k \in 1..10 : HopKinds[k] \in Kind
  BY DEF HopKinds, Kind, KindOf, Basic, Primary, ConnectionType, Direction,
         QoSCategory, DataQoS
<1>2. Len(HopKinds) = 10
  BY DEF HopKinds
<1> QED
  BY <1>1, <1>2, IsASeq DEF HopSize, HopKinds

\* FirstOf returns positions of the set it is given.
LEMMA FirstOfSubset == \A t, S : FirstOf(t, S) \subseteq S
BY DEF FirstOf

\* The rows of a sequence to which rows are appended.
LEMMA RangeOfConcat ==
  ASSUME NEW S, NEW s1 \in Seq(S), NEW s2 \in Seq(S)
  PROVE  Range(s1 \o s2) = Range(s1) \cup Range(s2)
<1> DEFINE s == s1 \o s2
<1>1. /\ s \in Seq(S) /\ Len(s) = Len(s1) + Len(s2)
      /\ \A i \in 1..Len(s1) + Len(s2) :
           s[i] = IF i <= Len(s1) THEN s1[i] ELSE s2[i - Len(s1)]
  BY ConcatProperties
<1>2. /\ DOMAIN s1 = 1..Len(s1) /\ DOMAIN s2 = 1..Len(s2)
      /\ DOMAIN s = 1..Len(s) /\ Len(s1) \in Nat /\ Len(s2) \in Nat
  BY <1>1, LenProperties
<1> HIDE DEF s
<1>3. ASSUME NEW i \in DOMAIN s PROVE s[i] \in Range(s1) \cup Range(s2)
  <2>1. CASE i <= Len(s1)
    BY <1>1, <1>2, <1>3, <2>1 DEF Range
  <2>2. CASE ~(i <= Len(s1))
    <3>1. i - Len(s1) \in 1..Len(s2) /\ s[i] = s2[i - Len(s1)]
      BY <1>1, <1>2, <1>3, <2>2
    <3> QED
      BY <1>2, <3>1 DEF Range
  <2> QED
    BY <2>1, <2>2
<1>4. ASSUME NEW i \in DOMAIN s1 PROVE s1[i] \in Range(s)
  <2>1. i \in DOMAIN s /\ s[i] = s1[i]
    BY <1>1, <1>2, <1>4
  <2> QED
    BY <2>1 DEF Range
<1>5. ASSUME NEW i \in DOMAIN s2 PROVE s2[i] \in Range(s)
  <2>1. Len(s1) + i \in DOMAIN s /\ s[Len(s1) + i] = s2[i]
    BY <1>1, <1>2, <1>5
  <2> QED
    BY <2>1 DEF Range
<1> QED
  BY <1>3, <1>4, <1>5 DEF Range, s

\* The rows of a hop.
LEMMA HopRowsType ==
  ASSUME NEW c, c.child \in Station, c.parent \in Station, c.remote \in Station,
         NEW first \in Nat, first >= 1
  PROVE  /\ HopRows(c, first) \in Seq(Connection)
         /\ Len(HopRows(c, first)) = HopSize
         /\ \A k \in 1..HopSize :
              LET r == HopRows(c, first)[k]
              IN  /\ r.cid \in Nat /\ first <= r.cid /\ r.cid < first + HopSize
                  /\ r.baseStation = c.parent
                  /\ r.subscriberStation = c.child
         /\ \A k, l \in 1..HopSize :
              HopRows(c, first)[k].cid = HopRows(c, first)[l].cid => k = l
<1>1. \A k \in 1..HopSize : HopKinds[k] \in Kind
  BY HopKindsType, ElementOfSeq
<1>2. \A k \in 1..HopSize : first + k - 1 \in Nat
  BY DEF HopSize
<1>3. \A k \in 1..HopSize : HopRows(c, first)[k] \in Connection
  BY <1>1, <1>2 DEF HopRows, NthCID, Connection
<1>4. HopSize \in Nat /\ HopRows(c, first) = [k \in 1..HopSize |-> HopRows(c, first)[k]]
  BY DEF HopSize, HopRows
<1>5. HopRows(c, first) \in Seq(Connection) /\ Len(HopRows(c, first)) = HopSize
  BY <1>3, <1>4, LenProperties, IsASeq
<1>6. \A k \in 1..HopSize : /\ HopRows(c, first)[k].cid = first + k - 1
                            /\ HopRows(c, first)[k].baseStation = c.parent
                            /\ HopRows(c, first)[k].subscriberStation = c.child
  BY DEF HopRows, NthCID
<1>7. \A k \in 1..HopSize : /\ first + k - 1 \in Nat /\ first <= first + k - 1
                            /\ first + k - 1 < first + HopSize
  BY DEF HopSize
<1>8. \A k, l \in 1..HopSize : first + k - 1 = first + l - 1 => k = l
  BY DEF HopSize
<1> QED
  BY <1>5, <1>6, <1>7, <1>8

\* What Registered does to each table.
LEMMA RegisteredTables ==
  ASSUME TypeOK, NEW c, c.child \in Station, c.parent \in Station,
         c.child # c.parent, NEW rows \in Seq(Connection), NEW s \in Station
  PROVE  /\ Registered(c, rows)[s] = IF s \in {c.child, c.parent}
                                       THEN table[s] \o rows ELSE table[s]
         /\ Registered(c, rows)[s] \in Seq(Connection)
         /\ Range(Registered(c, rows)[s]) =
              IF s \in {c.child, c.parent} THEN Rows(s) \cup Range(rows) ELSE Rows(s)
<1>1. table \in [Station -> Seq(Connection)]
  BY DEF TypeOK
<1>2. Registered(c, rows)[s] = IF s \in {c.child, c.parent}
                                 THEN table[s] \o rows ELSE table[s]
  BY <1>1 DEF Registered
<1>3. table[s] \in Seq(Connection)
  BY <1>1
<1>4. /\ table[s] \o rows \in Seq(Connection)
      /\ Range(table[s] \o rows) = Range(table[s]) \cup Range(rows)
  BY <1>3, ConcatProperties, RangeOfConcat
<1> QED
  BY <1>2, <1>3, <1>4 DEF Rows

---------------------------------------------------------------------------
(* The invariant holds initially and is preserved by every step.           *)

\* At the start there are no tables, and no call is under way.
LEMMA InitInv == Init => IInv
<1> SUFFICES ASSUME Init PROVE IInv
  OBVIOUS
<1> USE StationAssumption DEF Init
<1>1. TypeOK
  <2>1. Idle \in Call
    BY EmptySeq DEF Idle, Call
  <2>2. <<>> \in Seq(Connection) /\ <<>> \in Seq(RelayMapping)
    BY EmptySeq
  <2> QED
    BY <2>1, <2>2 DEF TypeOK
<1>2. \A s \in Station : Rows(s) = {} /\ DOMAIN table[s] = {}
  BY DEF Rows, Range
<1>3. CallOK /\ CellOK
  BY DEF CallOK, CellOK, Idle
<1>4. RowsOK /\ Newcomers
  BY <1>2 DEF RowsOK, Newcomers, Idle
<1>5. CIDsUnique /\ CIDsUniqueInCell
  BY <1>2 DEF CIDsUnique, CIDsUniqueInCell
<1> QED
  BY <1>1, <1>3, <1>4, <1>5 DEF IInv

\* Steps that leave the tables, the counters and the cells alone.
LEMMA ConstructInv == ASSUME IInv, NEW s \in Station, Construct(s) PROVE IInv'
<1> USE DEF IInv, Construct
<1>1. TypeOK'
  BY DEF TypeOK
<1>2. \A x \in Station : life'[x] # "joined" => life[x] # "joined"
  BY DEF TypeOK
<1>3. \A x \in Station : Rows(x)' = Rows(x)
  BY DEF Rows
<1>4. CallOK' /\ CellOK' /\ RowsOK' /\ Newcomers'
  BY <1>2, <1>3 DEF CallOK, CellOK, RowsOK, Newcomers
<1>5. CIDsUnique' /\ CIDsUniqueInCell'
  BY DEF CIDsUnique, CIDsUniqueInCell
<1> QED
  BY <1>1, <1>4, <1>5

\* A question that is passed up the relays changes the call only.
LEMMA ClimbInv == ASSUME IInv, Climb PROVE IInv'
<1> USE DEF IInv
<1>0. /\ call \in Call /\ call.pc = "climb" /\ call.ask \notin AP
      /\ call.ask \in Station
      /\ UNCHANGED <<life, table, highestCID, mappings, cell>>
  BY DEF TypeOK, Climb, CallOK
<1>1. \A x \in Station : Rows(x)' = Rows(x)
  BY <1>0 DEF Rows
<1>2. /\ call' \in Call /\ call'.remote = call.remote
      /\ call'.pc # "idle" /\ CallOK'
  <2>1. CASE \E i \in BasicForStation(table[call.ask], call.ask) :
               call' = [call EXCEPT !.ask = table[call.ask][i].baseStation]
    <3>1. PICK i \in BasicForStation(table[call.ask], call.ask) :
             call' = [call EXCEPT !.ask = table[call.ask][i].baseStation]
      BY <2>1
    <3>2. /\ i \in DOMAIN table[call.ask]
          /\ table[call.ask][i].subscriberStation = call.ask
          /\ table[call.ask][i].kind.type = "Basic"
      BY FirstOfSubset DEF BasicForStation
    <3> DEFINE c == table[call.ask][i]
    <3>3. c \in Rows(call.ask) /\ c \in Connection
      <4>1. table[call.ask] \in Seq(Connection)
        BY <1>0 DEF TypeOK
      <4> QED
        BY <3>2, <4>1, ElementOfSeq, LenProperties DEF Rows, Range
    <3>4. cell[c.baseStation] = cell[call.ask] /\ c.baseStation \in Station
      BY <1>0, <3>2, <3>3 DEF RowsOK, Connection
    <3> HIDE DEF c
    <3>5. call' = [call EXCEPT !.ask = c.baseStation]
      BY <3>1 DEF c
    <3>6. /\ call'.pc = call.pc /\ call'.child = call.child
          /\ call'.parent = call.parent /\ call'.remote = call.remote
          /\ call'.ask = c.baseStation /\ call' \in Call
      BY <1>0, <3>4, <3>5 DEF Call
    <3> QED
      BY <1>0, <3>4, <3>6 DEF CallOK
  <2>2. CASE call' = Failed(call)
    BY <1>0, <2>2 DEF CallOK, Failed, Call
  <2> QED
    BY <2>1, <2>2 DEF Climb
<1>3. TypeOK'
  BY <1>0, <1>2 DEF TypeOK
<1>4. CellOK' /\ RowsOK' /\ Newcomers'
  BY <1>0, <1>1, <1>2 DEF CellOK, RowsOK, Newcomers
<1>5. CIDsUnique' /\ CIDsUniqueInCell'
  BY <1>0 DEF CIDsUnique, CIDsUniqueInCell
<1> QED
  BY <1>2, <1>3, <1>4, <1>5

\* The start of an association puts a ranging connection into one table.
LEMMA AssociateToInv ==
  ASSUME IInv, NEW s \in FRS \cup UT, NEW d \in AP \cup FRS, s # d, AssociateTo(s, d)
  PROVE  IInv'
<1> USE DEF IInv
<1> DEFINE c == [pc |-> "climb", child |-> s, parent |-> d, ask |-> d,
                 remote |-> s, lower |-> <<>>]
<1>0. /\ s \in Station /\ s \notin AP /\ d \in Station
      /\ call.pc = "idle" /\ life[s] = "constructed"
      /\ UNCHANGED <<life, highestCID, mappings, cell>>
      /\ cell[s] = NoStation /\ \A r \in Rows(s) : r.cid # 0
      /\ table \in [Station -> Seq(Connection)]
  BY StationAssumption DEF AssociateTo, Newcomers, TypeOK
<1>1. c \in Call /\ Failed(c) \in Call
  BY <1>0, EmptySeq DEF Call, Failed
<1>2. CASE call' = Failed(c) /\ UNCHANGED table
  <2>1. call'.pc = "failed" /\ call'.remote = s
    BY <1>2 DEF Failed
  <2>2. \A x \in Station : Rows(x)' = Rows(x)
    BY <1>2 DEF Rows
  <2>3. TypeOK' /\ CallOK' /\ CellOK' /\ RowsOK'
    BY <1>0, <1>1, <1>2, <2>1, <2>2 DEF TypeOK, CallOK, CellOK, RowsOK
  <2>4. Newcomers'
    BY <1>0, <2>1, <2>2, StationAssumption DEF Newcomers
  <2>5. CIDsUnique' /\ CIDsUniqueInCell'
    BY <1>0, <1>2 DEF CIDsUnique, CIDsUniqueInCell
  <2> QED
    BY <2>3, <2>4, <2>5
<1>3. CASE call' = c /\ table' = [table EXCEPT ![s] = Append(@, RangingTo(s, d))]
  <2> DEFINE row == RangingTo(s, d)
             n   == Len(table[s])
  <2>1. /\ row \in Connection /\ row.cid = 0 /\ row.kind.type # "Basic"
        /\ row.baseStation # row.subscriberStation
    BY <1>0 DEF RangingTo, Connection, Ranging, KindOf, Kind, ConnectionType,
                Direction, QoSCategory
  <2> HIDE DEF row
  <2>2. /\ n \in Nat /\ DOMAIN table[s] = 1..n
        /\ table'[s] = Append(table[s], row) /\ table'[s] \in Seq(Connection)
        /\ DOMAIN table'[s] = 1..(n + 1)
        /\ table'[s][n + 1] = row
        /\ \A i \in 1..n : table'[s][i] = table[s][i]
    BY <1>0, <1>3, <2>1, AppendProperties, LenProperties DEF row
  <2>3. \A x \in Station : x # s => table'[x] = table[x]
    BY <1>0, <1>3
  <2>4. Rows(s)' = Rows(s) \cup {row} /\ \A x \in Station : x # s => Rows(x)' = Rows(x)
    BY <2>2, <2>3 DEF Rows, Range
  <2>5. TypeOK'
    BY <1>0, <1>1, <1>3, <2>2, <2>3 DEF TypeOK, RangingTo, row
  <2>6. CallOK' /\ CellOK'
    BY <1>0, <1>3 DEF CallOK, CellOK
  <2>7. RowsOK'
    <3> SUFFICES ASSUME NEW x \in Station, NEW r \in Rows(x)'
                 PROVE  /\ r.baseStation # r.subscriberStation
                        /\ r.kind.type = "Basic" => r.cid # 0
                        /\ r.cid # 0 => /\ cell[x] \in AP
                                        /\ cell[r.baseStation] = cell[x]
                                        /\ r.cid < highestCID[cell[x]]
      BY <1>0 DEF RowsOK
    <3>1. CASE r \in Rows(x)
      BY <3>1 DEF RowsOK
    <3>2. CASE r = row
      BY <2>1, <3>2
    <3> QED
      BY <2>4, <3>1, <3>2
  <2>8. Newcomers'
    <3>1. call'.pc = "climb" /\ call'.remote = s /\ call.remote = NoStation
      BY <1>0, <1>3 DEF Newcomers
    <3> QED
      BY <1>0, <2>4, <3>1, StationAssumption DEF Newcomers
  <2>9. CIDsUnique'
    <3> SUFFICES ASSUME NEW x \in Station, NEW i \in DOMAIN table'[x],
                        NEW j \in DOMAIN table'[x], table'[x][i].cid = table'[x][j].cid
                 PROVE  i = j
      BY DEF CIDsUnique
    <3>1. CASE x # s
      BY <2>3, <3>1 DEF CIDsUnique
    <3>2. CASE x = s
      <4>1. \A k \in 1..n : table'[s][k].cid # 0
        BY <1>0, <2>2 DEF Rows, Range
      <4>2. CASE i \in 1..n /\ j \in 1..n
        BY <2>2, <3>2, <4>2 DEF CIDsUnique
      <4>3. CASE i = n + 1 \/ j = n + 1
        <5>1. i \in 1..(n + 1) /\ j \in 1..(n + 1)
          BY <2>2, <3>2
        <5>2. table'[s][i].cid = 0 /\ table'[s][j].cid = 0
          BY <2>1, <2>2, <3>2, <4>3
        <5>3. i \notin 1..n /\ j \notin 1..n
          BY <4>1, <5>2
        <5> QED
          BY <2>2, <5>1, <5>3
      <4> QED
        BY <2>2, <3>2, <4>2, <4>3
    <3> QED
      BY <3>1, <3>2
  <2>10. CIDsUniqueInCell'
    BY <1>0, <2>1, <2>2, <2>3 DEF CIDsUniqueInCell
  <2> QED
    BY <2>5, <2>6, <2>7, <2>8, <2>9, <2>10
<1> QED
  BY <1>2, <1>3 DEF AssociateTo

\* A hop puts the same new identifiers into the tables of both of its ends.
LEMMA HopInv == ASSUME IInv, Hop PROVE IInv'
<1> USE DEF IInv
<1> DEFINE a     == call.ask
           p     == call.parent
           x     == call.child
           first == highestCID[a]
           rows  == HopRows(call, first)
<1>1. /\ call \in Call /\ call.pc = "climb" /\ a \in AP
      /\ x \in Station \ AP /\ p \in Station /\ x # p
      /\ call.remote \in Station
      /\ first \in Nat /\ first >= 1
      /\ cell[a] = a /\ cell[p] = a
      /\ cell[x] \in {NoStation, a}
      /\ x # call.remote => cell[x] # NoStation
      /\ \A s \in AP : s \in Station /\ s # NoStation
  BY StationAssumption DEF Hop, CallOK, CellOK, TypeOK
<1>2. /\ rows \in Seq(Connection) /\ Len(rows) = HopSize
      /\ \A k \in 1..HopSize : /\ rows[k].cid \in Nat /\ first <= rows[k].cid
                               /\ rows[k].cid < first + HopSize
                               /\ rows[k].baseStation = p
                               /\ rows[k].subscriberStation = x
      /\ \A k, l \in 1..HopSize : rows[k].cid = rows[l].cid => k = l
  BY <1>1, HopRowsType
<1>3. /\ highestCID' = [highestCID EXCEPT ![a] = first + HopSize]
      /\ table' = Registered(call, rows)
      /\ mappings' = [r \in FRS |-> IF r = x THEN mappings[r] \o HopMappings(call, first)
                                             ELSE mappings[r]]
      /\ cell' = [cell EXCEPT ![x] = a]
      /\ \/ p \in FRS /\ NextHop(call, p, first) /\ UNCHANGED life
         \/ p \notin FRS /\ call' = Idle /\ life' = [life EXCEPT ![call.remote] = "joined"]
  BY DEF Hop, CounterAfter
<1> HIDE DEF rows, first
<1>4. ASSUME NEW s \in Station
      PROVE  /\ table'[s] = IF s \in {x, p} THEN table[s] \o rows ELSE table[s]
             /\ table'[s] \in Seq(Connection)
             /\ Rows(s)' = IF s \in {x, p} THEN Rows(s) \cup Range(rows) ELSE Rows(s)
  <2>1. rows \in Seq(Connection)
    BY <1>2
  <2>2. /\ Registered(call, rows)[s] = IF s \in {x, p} THEN table[s] \o rows ELSE table[s]
        /\ Registered(call, rows)[s] \in Seq(Connection)
        /\ Range(Registered(call, rows)[s]) =
             IF s \in {x, p} THEN Rows(s) \cup Range(rows) ELSE Rows(s)
    BY <1>1, <2>1, RegisteredTables
  <2> DEFINE reg == Registered(call, rows)[s]
  <2>3. table'[s] = reg
    BY <1>3
  <2>4. Rows(s)' = Range(table'[s])
    BY DEF Rows
  <2>5. /\ reg = IF s \in {x, p} THEN table[s] \o rows ELSE table[s]
        /\ reg \in Seq(Connection)
        /\ Range(reg) = IF s \in {x, p} THEN Rows(s) \cup Range(rows) ELSE Rows(s)
    BY <2>2
  <2> HIDE DEF reg
  <2>6. Rows(s)' = Range(reg)
    BY <2>3, <2>4
  <2>7. Rows(s)' = IF s \in {x, p} THEN Rows(s) \cup Range(rows) ELSE Rows(s)
    BY <2>5, <2>6
  <2>8. table'[s] = IF s \in {x, p} THEN table[s] \o rows ELSE table[s]
    BY <2>3, <2>5
  <2>9. table'[s] \in Seq(Connection)
    BY <2>3, <2>5
  <2> HIDE DEF x, p
  <2> QED
    BY <2>7, <2>8, <2>9
<1>5. \A r \in Range(rows) : /\ r.baseStation = p /\ r.subscriberStation = x
                             /\ first <= r.cid /\ r.cid < first + HopSize
                             /\ r.cid # 0 /\ r.cid \in Nat
  <2>1. \A k \in 1..HopSize : rows[k].cid # 0
    BY <1>1, <1>2
  <2> QED
    BY <1>2, <2>1, LenProperties DEF Range
<1>6. /\ cell \in [Station -> AP \cup {NoStation}]
      /\ cell' \in [Station -> AP \cup {NoStation}]
      /\ cell'[x] = a /\ cell'[p] = a
      /\ \A s \in Station : s # x => cell'[s] = cell[s]
      /\ \A s \in Station : cell[s] # NoStation => cell'[s] = cell[s]
  BY <1>1, <1>3 DEF TypeOK
<1>7. /\ highestCID' \in [AP -> Nat]
      /\ highestCID'[a] = first + HopSize
      /\ \A b \in AP : highestCID[b] \in Nat /\ highestCID'[b] >= highestCID[b]
      /\ \A b \in AP : b # a => highestCID'[b] = highestCID[b]
  BY <1>1, <1>3 DEF TypeOK, HopSize, first
\* the rows there were, in terms of the old counter
<1>8. ASSUME NEW s \in Station, NEW r \in Rows(s), r.cid # 0
      PROVE  /\ r.cid < highestCID[cell[s]]
             /\ cell[s] = a => r.cid < first
             /\ cell[s] \in AP /\ cell'[s] = cell[s]
             /\ cell[r.baseStation] = cell[s]
             /\ r.baseStation \in Station /\ r.cid \in Nat
  <2>1. r \in Connection
    <3>1. table[s] \in Seq(Connection)
      BY DEF TypeOK
    <3> QED
      BY <3>1, ElementOfSeq, LenProperties DEF Rows, Range
  <2> QED
    BY <1>1, <1>6, <1>8, <2>1 DEF RowsOK, Connection, first
<1>9. /\ call' \in Call
      /\ call'.remote \in {call.remote, NoStation}
      /\ call'.pc = "idle" => /\ call'.remote = NoStation
                              /\ life' = [life EXCEPT ![call.remote] = "joined"]
      /\ call'.pc # "idle" => call'.remote = call.remote /\ life' = life
      /\ CallOK'
  <2>1. CASE p \in FRS /\ NextHop(call, p, first) /\ UNCHANGED life
    <3>1. PICK i \in BasicForStation(table[p], p) :
            call' = [call EXCEPT !.child = p, !.parent = table[p][i].baseStation,
                                 !.ask = table[p][i].baseStation,
                                 !.lower = [k \in 1..HopSize |-> NthCID(first, k)]]
      BY <2>1 DEF NextHop
    <3> DEFINE c  == table[p][i]
               lw == [k \in 1..HopSize |-> NthCID(first, k)]
    <3>2. /\ i \in DOMAIN table[p]
          /\ c.subscriberStation = p /\ c.kind.type = "Basic"
      BY FirstOfSubset DEF BasicForStation
    <3>3. c \in Rows(p)
      BY <3>2 DEF Rows, Range
    <3>4. c.cid # 0 /\ c.baseStation # p
      BY <1>1, <3>2, <3>3 DEF RowsOK
    <3>5. cell[c.baseStation] = a /\ c.baseStation \in Station
      BY <1>1, <1>8, <3>3, <3>4
    <3>6. lw \in Seq(Nat)
      <4>1. \A k \in 1..HopSize : NthCID(first, k) \in Nat
        BY <1>1 DEF HopSize, NthCID
      <4> QED
        BY <4>1, IsASeq DEF HopSize
    <3> HIDE DEF c, lw
    <3>7. call' = [call EXCEPT !.child = p, !.parent = c.baseStation,
                               !.ask = c.baseStation, !.lower = lw]
      BY <3>1 DEF c, lw
    <3>8. /\ call'.pc = "climb" /\ call'.child = p /\ call'.parent = c.baseStation
          /\ call'.ask = c.baseStation /\ call'.remote = call.remote
          /\ call' \in Call
      BY <1>1, <3>5, <3>6, <3>7 DEF Call
    <3>9. p \notin AP /\ cell'[c.baseStation] = a
      BY <1>1, <1>6, <2>1, <3>5, StationAssumption
    <3> QED
      BY <1>1, <1>6, <2>1, <3>4, <3>5, <3>8, <3>9 DEF CallOK
  <2>2. CASE p \notin FRS /\ call' = Idle /\ life' = [life EXCEPT ![call.remote] = "joined"]
    BY <2>2, EmptySeq DEF Idle, Call, CallOK
  <2> QED
    BY <1>3, <2>1, <2>2
<1>10. TypeOK'
  <2>1. table' \in [Station -> Seq(Connection)]
    BY <1>3, <1>4 DEF Registered, TypeOK
  <2>2. life' \in [Station -> {"absent", "constructed", "joined"}]
    BY <1>1, <1>9 DEF TypeOK
  <2>3. mappings' \in [FRS -> Seq(RelayMapping)]
    <3>1. HopMappings(call, first) \in Seq(RelayMapping)
      <4>1. call.lower \in Seq(Nat)
        BY <1>1 DEF Call
      <4>2. \A k \in 1..Len(call.lower) :
              [upper |-> NthCID(first, k), lower |-> call.lower[k]] \in RelayMapping
        BY <1>1, <4>1, ElementOfSeq DEF NthCID, RelayMapping
      <4> QED
        BY <4>1, <4>2, IsASeq, LenProperties DEF HopMappings
    <3>2. \A r \in FRS : mappings[r] \in Seq(RelayMapping)
      BY DEF TypeOK
    <3>3. \A r \in FRS : mappings[r] \o HopMappings(call, first) \in Seq(RelayMapping)
      BY <3>1, <3>2, ConcatProperties
    <3> QED
      BY <1>3, <3>2, <3>3
  <2> QED
    BY <1>6, <1>7, <1>9, <2>1, <2>2, <2>3 DEF TypeOK
<1>11. CellOK'
  BY <1>1, <1>6, <1>7 DEF CellOK
<1>12. RowsOK'
  <2> SUFFICES ASSUME NEW s \in Station, NEW r \in Rows(s)'
               PROVE  /\ r.baseStation # r.subscriberStation
                      /\ r.kind.type = "Basic" => r.cid # 0
                      /\ r.cid # 0 => /\ cell'[s] \in AP
                                      /\ cell'[r.baseStation] = cell'[s]
                                      /\ r.cid < highestCID'[cell'[s]]
    BY DEF RowsOK
  <2>1. CASE r \in Rows(s)
    <3>1. r.baseStation # r.subscriberStation /\ (r.kind.type = "Basic" => r.cid # 0)
      BY <2>1 DEF RowsOK
    <3>2. ASSUME r.cid # 0
          PROVE  /\ cell'[s] \in AP /\ cell'[r.baseStation] = cell'[s]
                 /\ r.cid < highestCID'[cell'[s]]
      <4>1. /\ r.cid < highestCID[cell[s]] /\ cell[s] \in AP
            /\ cell[r.baseStation] = cell[s] /\ r.baseStation \in Station
            /\ r.cid \in Nat /\ cell'[s] = cell[s]
        BY <1>8, <2>1, <3>2
      <4>2. cell[s] # NoStation
        BY <1>1, <4>1
      <4>3. cell'[r.baseStation] = cell[s]
        BY <1>6, <4>1, <4>2
      <4>4. /\ highestCID[cell[s]] \in Nat /\ highestCID'[cell[s]] \in Nat
            /\ highestCID'[cell[s]] >= highestCID[cell[s]]
        BY <1>7, <4>1
      <4> QED
        BY <4>1, <4>3, <4>4
    <3> QED
      BY <3>1, <3>2
  <2>2. CASE s \in {x, p} /\ r \in Range(rows)
    BY <1>1, <1>5, <1>6, <1>7, <2>2
  <2> QED
    BY <1>4, <2>1, <2>2
<1>13. Newcomers'
  <2> SUFFICES ASSUME NEW s \in Station, life'[s] # "joined", call'.remote # s
               PROVE  /\ s \notin AP => cell'[s] = NoStation
                      /\ \A r \in Rows(s)' : r.cid # 0
    BY <1>9 DEF Newcomers
  <2>1. life[s] # "joined" /\ s # call.remote
    <3>1. life \in [Station -> {"absent", "constructed", "joined"}]
      BY DEF TypeOK
    <3> QED
      BY <1>1, <1>9, <3>1
  <2>2. /\ s \notin AP => cell[s] = NoStation
        /\ \A r \in Rows(s) : r.cid # 0
    BY <2>1 DEF Newcomers
  <2>3. s # x
    BY <1>1, <2>1, <2>2
  <2> QED
    BY <1>4, <1>5, <1>6, <2>2, <2>3
\* A row of a station of the cell is one there was, below the old counter, or
\* one of the hop, from the old counter on.
<1>14. ASSUME NEW s \in Station, NEW i \in DOMAIN table'[s]
       PROVE  \/ i \in DOMAIN table[s] /\ table'[s][i] = table[s][i]
              \/ /\ s \in {x, p}
                 /\ i - Len(table[s]) \in 1..HopSize
                 /\ table'[s][i] = rows[i - Len(table[s])]
  <2>1. table[s] \in Seq(Connection)
    BY DEF TypeOK
  <2>2. CASE s \notin {x, p}
    BY <1>4, <1>14, <2>2
  <2>3. CASE s \in {x, p}
    <3>1. table'[s] = table[s] \o rows
      BY <1>4, <2>3
    <3>2. /\ table[s] \o rows \in Seq(Connection)
          /\ Len(table[s] \o rows) = Len(table[s]) + Len(rows)
          /\ \A j \in 1..Len(table[s]) + Len(rows) :
               (table[s] \o rows)[j] = IF j <= Len(table[s]) THEN table[s][j]
                                       ELSE rows[j - Len(table[s])]
      <4>1. rows \in Seq(Connection)
        BY <1>2
      <4> QED
        BY <2>1, <4>1, ConcatProperties
    <3>3. /\ Len(table[s]) \in Nat /\ DOMAIN table[s] = 1..Len(table[s])
          /\ i \in 1..Len(table[s]) + HopSize /\ HopSize \in Nat
      BY <1>2, <1>14, <2>1, <3>1, <3>2, LenProperties DEF HopSize
    <3> QED
      BY <1>2, <2>3, <3>1, <3>2, <3>3
  <2> QED
    BY <2>2, <2>3
<1>15. ASSUME NEW s \in {x, p}, NEW i \in DOMAIN table[s]
       PROVE  table[s][i].cid < first
  <2>1. table[s][i] \in Rows(s) /\ table[s][i] \in Connection
    BY <1>1, ElementOfSeq, LenProperties DEF Rows, Range, TypeOK
  <2>2. CASE table[s][i].cid = 0
    BY <1>1, <2>2
  <2>3. CASE table[s][i].cid # 0
    <3>1. cell[s] \in AP /\ (cell[s] = a => table[s][i].cid < first)
      BY <1>1, <1>8, <2>1, <2>3
    <3> QED
      BY <1>1, <3>1
  <2> QED
    BY <2>2, <2>3
<1>16. CIDsUnique'
  <2> SUFFICES ASSUME NEW s \in Station, NEW i \in DOMAIN table'[s],
                      NEW j \in DOMAIN table'[s], table'[s][i].cid = table'[s][j].cid
               PROVE  i = j
    BY DEF CIDsUnique
  <2> DEFINE n == Len(table[s])
  <2>1. n \in Nat /\ DOMAIN table[s] = 1..n
    BY LenProperties DEF TypeOK
  <2>2. i \in Int /\ j \in Int
    <3>1. table'[s] \in Seq(Connection)
      BY <1>4
    <3> QED
      BY <3>1, LenProperties
  <2>5. \A k \in DOMAIN table[s] : s \in {x, p} => table[s][k].cid < first /\ table[s][k].cid \in Nat
    <3>1. \A k \in DOMAIN table[s] : table[s][k] \in Connection
      BY ElementOfSeq, LenProperties DEF TypeOK
    <3> QED
      BY <1>15, <3>1 DEF Connection
  <2>6. CASE i \in DOMAIN table[s] /\ table'[s][i] = table[s][i]
             /\ j \in DOMAIN table[s] /\ table'[s][j] = table[s][j]
    BY <2>6 DEF CIDsUnique
  <2>7. CASE /\ i \in DOMAIN table[s] /\ table'[s][i] = table[s][i]
             /\ s \in {x, p} /\ j - n \in 1..HopSize /\ table'[s][j] = rows[j - n]
    BY <1>1, <1>2, <2>5, <2>7
  <2>8. CASE /\ j \in DOMAIN table[s] /\ table'[s][j] = table[s][j]
             /\ s \in {x, p} /\ i - n \in 1..HopSize /\ table'[s][i] = rows[i - n]
    BY <1>1, <1>2, <2>5, <2>8
  <2>9. CASE /\ s \in {x, p} /\ i - n \in 1..HopSize /\ table'[s][i] = rows[i - n]
             /\ j - n \in 1..HopSize /\ table'[s][j] = rows[j - n]
    BY <1>2, <2>1, <2>2, <2>9
  <2> QED
    BY <1>14, <2>6, <2>7, <2>8, <2>9
<1>17. CIDsUniqueInCell'
  <2> SUFFICES ASSUME NEW s \in Station, NEW t \in Station,
                      NEW i \in DOMAIN table'[s], NEW j \in DOMAIN table'[t],
                      cell'[s] = cell'[t], cell'[s] # NoStation,
                      table'[s][i].cid = table'[t][j].cid, table'[s][i].cid # 0
               PROVE  table'[s][i] = table'[t][j]
    BY DEF CIDsUniqueInCell
  \* a row that was there, with a number of this cell
  <2>3. ASSUME NEW u \in Station, NEW k \in DOMAIN table[u], table[u][k].cid # 0
        PROVE  /\ cell'[u] = cell[u]
               /\ cell[u] = a => table[u][k].cid < first /\ table[u][k].cid \in Nat
    <3>1. table[u][k] \in Rows(u)
      BY DEF Rows, Range
    <3> QED
      BY <1>8, <2>3, <3>1
  <2>4. CASE /\ i \in DOMAIN table[s] /\ table'[s][i] = table[s][i]
             /\ j \in DOMAIN table[t] /\ table'[t][j] = table[t][j]
    <3>1. cell[s] = cell[t] /\ cell[s] # NoStation
      BY <2>3, <2>4
    <3> QED
      BY <2>4, <3>1 DEF CIDsUniqueInCell
  <2>5. CASE /\ i \in DOMAIN table[s] /\ table'[s][i] = table[s][i]
             /\ t \in {x, p} /\ \E l \in 1..HopSize : table'[t][j] = rows[l]
    <3>1. cell[s] = a
      BY <1>6, <2>3, <2>5
    <3> QED
      BY <1>1, <1>2, <2>3, <2>5, <3>1
  <2>6. CASE /\ j \in DOMAIN table[t] /\ table'[t][j] = table[t][j]
             /\ s \in {x, p} /\ \E l \in 1..HopSize : table'[s][i] = rows[l]
    <3>1. cell[t] = a
      BY <1>6, <2>3, <2>6
    <3> QED
      BY <1>1, <1>2, <2>3, <2>6, <3>1
  <2>7. CASE /\ \E l \in 1..HopSize : table'[s][i] = rows[l]
             /\ \E l \in 1..HopSize : table'[t][j] = rows[l]
    BY <1>2, <2>7
  <2> QED
    BY <1>14, <2>4, <2>5, <2>6, <2>7
<1> QED
  BY <1>9, <1>10, <1>11, <1>12, <1>13, <1>16, <1>17

---------------------------------------------------------------------------
(* The theorems.                                                           *)

\* Every step of the system keeps the invariant.
LEMMA StepInv == IInv /\ [Next]_vars => IInv'
<1> SUFFICES ASSUME IInv, [Next]_vars PROVE IInv'
  OBVIOUS
<1>1. ASSUME NEW s \in Station, Construct(s) PROVE IInv'
  BY <1>1, ConstructInv
<1>2. ASSUME NEW s \in FRS \cup UT, NEW d \in AP \cup FRS, s # d /\ AssociateTo(s, d)
      PROVE  IInv'
  BY <1>2, AssociateToInv
<1>3. CASE Climb
  BY <1>3, ClimbInv
<1>4. CASE Hop
  BY <1>4, HopInv
<1>5. CASE UNCHANGED vars
  BY <1>5 DEF IInv, vars, TypeOK, CallOK, CellOK, RowsOK, Newcomers, Rows,
              CIDsUnique, CIDsUniqueInCell
<1> QED
  BY <1>1, <1>2, <1>3, <1>4, <1>5 DEF Next

\* The inductive invariant holds in every reachable state.
THEOREM Invariance == Spec => []IInv
BY InitInv, StepInv, PTL DEF Spec

\* Every variable of Association has its type in every reachable state.
THEOREM TypeCorrect == Spec => []TypeOK
<1>1. IInv => TypeOK
  BY DEF IInv
<1> QED
  BY <1>1, Invariance, PTL

\* No station ever holds two connections with one CID, however many relays
\* the numbers were asked through.
THEOREM UniqueCIDs == Spec => []CIDsUnique
<1>1. IInv => CIDsUnique
  BY DEF IInv
<1> QED
  BY <1>1, Invariance, PTL

\* Within a cell a CID names one connection for every station of the cell.
THEOREM UniqueCIDsInCell == Spec => []CIDsUniqueInCell
<1>1. IInv => CIDsUniqueInCell
  BY DEF IInv
<1> QED
  BY <1>1, Invariance, PTL
==========================================================================
