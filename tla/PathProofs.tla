---------------------------- MODULE PathProofs ----------------------------
(***************************************************************************)
(* What the rest of the MAC relies on in the tables that associations      *)
(* leave behind, for any number of access points, relays and terminals and *)
(* any shape of the relay trees: both ends of a hop agree, relays can      *)
(* forward, access points find one connection per terminal and class, the  *)
(* registries of the two ends answer alike, and ordered starts do not      *)
(* fail.  The proofs rest on the invariant of AssociationProofs.           *)
(***************************************************************************)
EXTENDS AssociationProofs, Registry, FiniteSetTheorems, WellFoundedInduction

---------------------------------------------------------------------------
(* The inductive invariant.                                                *)

\* A ranging connection is its station's own; every other connection is one
\* of a hop, and held by both of its ends.
HopsShared ==
  \A s \in Station : \A c \in Rows(s) :
    /\ c.baseStation \in AP \cup FRS /\ c.subscriberStation \notin AP
    /\ c.cid = 0 => c = RangingTo(s, c.baseStation)
    /\ c.cid # 0 => /\ s \in {c.baseStation, c.subscriberStation}
                    /\ c \in Rows(c.baseStation) /\ c \in Rows(c.subscriberStation)
                    /\ \E k \in 1..HopSize : c.kind = HopKinds[k]
                    /\ \E b \in Rows(s) : /\ b.kind = Basic
                                          /\ b.baseStation = c.baseStation
                                          /\ b.subscriberStation = c.subscriberStation

\* A station in a cell has a ranging and a basic connection, and all of its
\* connections upwards lead to one base station.
Attached ==
  \A s \in Station \ AP :
    /\ cell[s] # NoStation => /\ \E c \in Rows(s) : c.kind = Basic /\ c.subscriberStation = s
                              /\ \E c \in Rows(s) : c.cid = 0
    /\ \A c, d \in Rows(s) : c.subscriberStation = s /\ d.subscriberStation = s
                               => c.baseStation = d.baseStation

\* The station a connection serves is in the cell, and if the connection does
\* not end there it is a relay that this station is connected to.
Serves ==
  \A s \in Station : \A c \in Rows(s) : c.cid # 0 =>
    /\ c.remoteStation \in Station \ AP
    /\ cell[c.remoteStation] = cell[s]
    /\ c.remoteStation # c.subscriberStation =>
         \E d \in Rows(c.remoteStation) :
           d.subscriberStation = c.remoteStation /\ d.baseStation \in FRS

\* The connections of the hop below that a call in progress has yet to map.
Pending(r) ==
  IF call.pc = "climb" /\ call.child = r THEN Range(call.lower) ELSE {}

\* What a call in progress has built so far.
CallBuilds ==
  call.pc = "climb" =>
    /\ call.parent \in AP \cup FRS
    /\ call.remote \notin AP
    /\ life[call.remote] = "constructed"
    /\ OrderedStart => cell[call.parent] # NoStation
    /\ \E c \in Rows(call.remote) : c.cid = 0
    /\ \A c \in Rows(call.child) :
         c.subscriberStation = call.child => c.baseStation = call.parent
    /\ \/ /\ call.lower = <<>> /\ call.child = call.remote
          /\ cell[call.remote] = NoStation
       \/ /\ call.child \in FRS
          /\ Len(call.lower) = HopSize
          /\ cell[call.remote] = cell[call.child] /\ cell[call.child] # NoStation
          /\ \E d \in Rows(call.remote) :
               d.subscriberStation = call.remote /\ d.baseStation \in FRS
          /\ \A k \in 1..HopSize : \E c \in Rows(call.child) :
               /\ c.cid = call.lower[k] /\ c.baseStation = call.child
               /\ c.kind = HopKinds[k] /\ c.remoteStation = call.remote

\* A mapping is faithful (as MappingsFaithful says), no CID is in two mappings,
\* and what still has to be mapped is in none.
MappingsOnce ==
  \A r \in FRS :
    /\ \A m, n \in DOMAIN mappings[r] : m # n =>
         {mappings[r][m].upper, mappings[r][m].lower}
           \cap {mappings[r][n].upper, mappings[r][n].lower} = {}
    /\ \A n \in DOMAIN mappings[r] :
         {mappings[r][n].upper, mappings[r][n].lower} \cap Pending(r) = {}

\* Unless a call has failed, what a relay may have to forward is mapped.
MappingsComplete ==
  call.pc # "failed" =>
    \A r \in FRS : \A c \in Rows(r) :
      /\ c.cid # 0
      /\ c.baseStation = r \/ (c.subscriberStation = r /\ c.remoteStation # r)
      => \/ c.cid \in Pending(r)
         \/ \E n \in DOMAIN mappings[r] : c.cid \in {mappings[r][n].upper, mappings[r][n].lower}

\* The connections of table t that serve station u are one hop's, after n.
Block(t, n, u) ==
  /\ n + HopSize <= Len(t)
  /\ \A k \in 1..HopSize : t[n + k].kind = HopKinds[k] /\ t[n + k].remoteStation = u
  /\ \A i \in DOMAIN t : t[i].remoteStation = u => t[i].cid = 0 \/ i - n \in 1..HopSize

\* An access point serves each station that joined its cell by one hop, and
\* no other one.
ServedOnce ==
  \A u \in Station \ AP :
    /\ life[u] = "joined" => cell[u] \in AP /\ \E n \in 0..Len(table[cell[u]]) : Block(table[cell[u]], n, u)
    /\ life[u] # "joined" => \A a \in AP : \A c \in Rows(a) : c.remoteStation # u

\* A terminal has the connections of its own hop only.
TerminalTable(u, b) ==
  /\ Len(table[u]) = 1 + HopSize
  /\ table[u][1] = RangingTo(u, b)
  /\ \A k \in 1..HopSize :
       LET c == table[u][1 + k]
       IN  /\ c.baseStation = b /\ c.subscriberStation = u /\ c.remoteStation = u
           /\ c.kind = HopKinds[k] /\ c.cid # 0

TerminalsOwn ==
  \A u \in UT :
    /\ life[u] = "joined" => \E b \in Station : TerminalTable(u, b)
    /\ life[u] # "joined" /\ call.remote # u => table[u] = <<>>
    /\ call.pc = "climb" /\ call.remote = u /\ call.child = u =>
         table[u] = << RangingTo(u, call.parent) >>
    /\ call.pc = "climb" /\ call.remote = u /\ call.child # u =>
         \E b \in Station : TerminalTable(u, b)

PathInv == /\ IInv
           /\ HopsShared
           /\ Attached
           /\ Serves
           /\ CallBuilds
           /\ MappingsFaithful
           /\ MappingsOnce
           /\ MappingsComplete
           /\ ServedOnce
           /\ TerminalsOwn
           /\ NeverFails

---------------------------------------------------------------------------
(* Lemmas on the operators.                                                *)

\* Every set of natural numbers but the empty one has a least element.
LEMMA LeastExists ==
  ASSUME NEW T \in SUBSET Nat, T # {}
  PROVE  \E x \in T : \A y \in T : x <= y
<1> DEFINE U == {0..n : n \in T}
           R == StrictSubsetOrdering(Nat)
<1>1. U \subseteq FiniteSubsetsOf(Nat) /\ U # {}
  <2>1. \A n \in T : 0..n \subseteq Nat /\ IsFiniteSet(0..n)
    BY FS_Interval
  <2> QED BY <2>1 DEF FiniteSubsetsOf
<1>2. PICK I \in U : \A J \in U : ~ (<<J, I>> \in R)
  <2> HIDE DEF U, R
  <2>1. IsWellFoundedOn(R, FiniteSubsetsOf(Nat))
    BY FS_StrictSubsetOrderingWellFounded DEF R
  <2> QED BY <1>1, <2>1, WFMin
<1>3. PICK x \in T : I = 0..x
  OBVIOUS
<1>4. ASSUME NEW y \in T, y < x PROVE FALSE
  <2>1. 0..y \in U /\ 0..y \subseteq 0..x /\ 0..y # 0..x
    <3>1. x \in 0..x /\ x \notin 0..y
      BY <1>4
    <3> QED BY <1>4, <3>1
  <2>2. 0..x \in SUBSET Nat /\ 0..y \in SUBSET Nat
    OBVIOUS
  <2> QED BY <1>2, <1>3, <2>1, <2>2 DEF StrictSubsetOrdering
<1> QED BY <1>4

\* A lookup finds something when there is something to be found.
LEMMA FirstOfFinds ==
  ASSUME NEW t, NEW S \in SUBSET Nat, S # {}
  PROVE  FirstOf(t, S) # {}
BY LeastExists DEF FirstOf

\* A row is a connection at some position of its table.
LEMMA RowsAre ==
  ASSUME TypeOK, NEW s \in Station
  PROVE  /\ table[s] \in Seq(Connection)
         /\ DOMAIN table[s] = 1..Len(table[s]) /\ Len(table[s]) \in Nat
         /\ Rows(s) \subseteq Connection
         /\ \A i \in DOMAIN table[s] : table[s][i] \in Rows(s)
         /\ \A c \in Rows(s) : \E i \in DOMAIN table[s] : table[s][i] = c
<1>1. table[s] \in Seq(Connection)
  BY DEF TypeOK
<1>2. DOMAIN table[s] = 1..Len(table[s]) /\ Len(table[s]) \in Nat
  BY <1>1, LenProperties
<1>3. \A i \in DOMAIN table[s] : table[s][i] \in Connection
  BY <1>1, <1>2, ElementOfSeq
<1> QED
  BY <1>1, <1>2, <1>3 DEF Rows, Range

\* The kinds of a hop differ, and the first one is the only basic one.
LEMMA KindsOfHop ==
  /\ HopKinds[1] = Basic
  /\ \A k \in 1..HopSize : /\ HopKinds[k] \in Kind
                           /\ HopKinds[k].type = "Basic" => k = 1
  /\ \A k, l \in 1..HopSize : HopKinds[k] = HopKinds[l] => k = l
<1>1. \A k \in 1..HopSize : HopKinds[k] \in Kind
  BY HopKindsType, ElementOfSeq
<1>2. HopKinds[1] = Basic /\ \A k \in 1..HopSize : HopKinds[k].type = "Basic" => k = 1
  BY DEF HopKinds, HopSize, KindOf, Basic, Primary
<1>3. \A k, l \in 1..HopSize : HopKinds[k] = HopKinds[l] => k = l
  BY DEF HopKinds, HopSize, KindOf, Basic, Primary
<1> QED BY <1>1, <1>2, <1>3

---------------------------------------------------------------------------
(* What the actions do to the tables.                                      *)

First == highestCID[call.ask]

\* The connections a hop adds.
HopRow(k) ==
  [baseStation |-> call.parent, cid |-> First + k - 1, subscriberStation |-> call.child,
   remoteStation |-> call.remote, kind |-> HopKinds[k]]
NewRows == {HopRow(k) : k \in 1..HopSize}

\* Where a hop happens.
LEMMA HopContext ==
  ASSUME IInv, Hop
  PROVE  /\ call \in Call /\ call.pc = "climb" /\ call.ask \in AP
         /\ call.child \in Station \ AP /\ call.parent \in Station
         /\ call.child # call.parent /\ call.remote \in Station
         /\ First \in Nat /\ First >= 1
         /\ cell[call.parent] = call.ask
         /\ cell[call.child] \in {NoStation, call.ask}
         /\ call.ask \in Station /\ call.ask # NoStation
BY StationAssumption DEF IInv, Hop, CallOK, CellOK, TypeOK, First

\* The tables of the two ends get the hop's connections, the others nothing.
LEMMA HopTables ==
  ASSUME IInv, Hop, NEW s \in Station
  PROVE  /\ s \in {call.child, call.parent} =>
              /\ Rows(s)' = Rows(s) \cup NewRows
              /\ Len(table'[s]) = Len(table[s]) + HopSize
              /\ \A i \in 1..Len(table[s]) : table'[s][i] = table[s][i]
              /\ \A k \in 1..HopSize : table'[s][Len(table[s]) + k] = HopRow(k)
         /\ s \notin {call.child, call.parent} =>
              table'[s] = table[s] /\ Rows(s)' = Rows(s)
<1> DEFINE rows == HopRows(call, First)
<1>1. TypeOK
  BY DEF IInv
<1>2. rows \in Seq(Connection) /\ Len(rows) = HopSize
  BY HopContext, HopRowsType
<1>3. \A k \in 1..HopSize : rows[k] = HopRow(k)
  BY DEF HopRows, HopRow, NthCID
<1>4. Range(rows) = NewRows
  BY <1>2, <1>3, LenProperties DEF Range, NewRows
<1>5. table' = Registered(call, rows)
  BY DEF Hop, First
<1> HIDE DEF rows
<1>6. /\ table'[s] = IF s \in {call.child, call.parent} THEN table[s] \o rows ELSE table[s]
      /\ Rows(s)' = IF s \in {call.child, call.parent} THEN Rows(s) \cup Range(rows) ELSE Rows(s)
  <2>1. /\ table \in [Station -> Seq(Connection)] /\ table[s] \in Seq(Connection)
        /\ call.child \in Station /\ call.parent \in Station
        /\ call.child # call.parent
    BY <1>1, HopContext DEF TypeOK
  <2>2. Range(table[s] \o rows) = Rows(s) \cup Range(rows)
    BY <1>2, <2>1, RangeOfConcat DEF Rows
  <2>3. Registered(call, rows)[s] = IF s \in {call.child, call.parent}
                                      THEN table[s] \o rows ELSE table[s]
    BY <2>1 DEF Registered
  <2> QED BY <1>5, <2>2, <2>3 DEF Rows
<1>7. /\ Len(table[s] \o rows) = Len(table[s]) + HopSize
      /\ \A i \in 1..Len(table[s]) : (table[s] \o rows)[i] = table[s][i]
      /\ \A k \in 1..HopSize : (table[s] \o rows)[Len(table[s]) + k] = rows[k]
  <2>1. table[s] \in Seq(Connection) /\ Len(table[s]) \in Nat /\ HopSize \in Nat
    BY <1>1, RowsAre DEF HopSize
  <2>2. /\ Len(table[s] \o rows) = Len(table[s]) + Len(rows)
        /\ \A i \in 1..Len(table[s]) + Len(rows) :
             (table[s] \o rows)[i] = IF i <= Len(table[s]) THEN table[s][i]
                                     ELSE rows[i - Len(table[s])]
    BY <1>2, <2>1, ConcatProperties
  <2>3. \A i \in 1..Len(table[s]) : i \in 1..Len(table[s]) + HopSize /\ i <= Len(table[s])
    BY <2>1
  <2>4. \A k \in 1..HopSize : /\ Len(table[s]) + k \in 1..Len(table[s]) + HopSize
                              /\ ~ (Len(table[s]) + k <= Len(table[s]))
                              /\ (Len(table[s]) + k) - Len(table[s]) = k
    BY <2>1
  <2> QED BY <1>2, <2>2, <2>3, <2>4
<1> QED BY <1>3, <1>4, <1>6, <1>7

\* The hop's connections have numbers of their own.
LEMMA HopNumbers ==
  ASSUME IInv, Hop
  PROVE  /\ \A c \in NewRows : c \in Connection /\ c.cid # 0 /\ c.cid >= First
         /\ \A k \in 1..HopSize : HopRow(k) \in NewRows /\ HopRow(k).cid = First + k - 1
         /\ \A s \in Station : cell[s] \in {NoStation, call.ask} =>
              \A c \in Rows(s) : c.cid < First
         /\ \A c \in NewRows : \E k \in 1..HopSize : c = HopRow(k)
<1>1. \A k \in 1..HopSize : /\ HopRow(k) \in Connection /\ HopRow(k).cid = First + k - 1
                            /\ First + k - 1 # 0 /\ First + k - 1 >= First
  <2>1. \A k \in 1..HopSize : /\ First + k - 1 \in Nat /\ First + k - 1 # 0
                              /\ First + k - 1 >= First
    BY HopContext DEF HopSize
  <2> QED BY <2>1, HopContext, KindsOfHop DEF HopRow, Connection
<1>2. ASSUME NEW s \in Station, cell[s] \in {NoStation, call.ask}, NEW c \in Rows(s)
      PROVE  c.cid < First
  <2>1. CASE c.cid = 0
    BY <2>1, HopContext
  <2>2. CASE c.cid # 0
    <3>1. cell[s] \in AP /\ c.cid < highestCID[cell[s]]
      BY <2>2 DEF IInv, RowsOK
    <3>2. cell[s] = call.ask
      BY <1>2, <3>1, StationAssumption
    <3> QED BY <3>1, <3>2 DEF First
  <2> QED BY <2>1, <2>2
<1> QED BY <1>1, <1>2 DEF NewRows

\* What a call that goes on to the next hop changes, and what it keeps.
NextOf(c, x, b, lw) == [c EXCEPT !.child = x, !.parent = b, !.ask = b, !.lower = lw]

\* Its fields.
LEMMA NextCall ==
  ASSUME NEW c \in Call, NEW x, NEW b, NEW lw
  PROVE  /\ NextOf(c, x, b, lw).parent = b
         /\ NextOf(c, x, b, lw).child = x
         /\ NextOf(c, x, b, lw).lower = lw
         /\ NextOf(c, x, b, lw).pc = c.pc
         /\ NextOf(c, x, b, lw).remote = c.remote
BY DEF Call, NextOf

\* The other variables; the call ends or goes on above its parent.
LEMMA HopRest ==
  ASSUME IInv, Hop
  PROVE  /\ cell' = [cell EXCEPT ![call.child] = call.ask]
         /\ \A s \in Station : cell'[s] = IF s = call.child THEN call.ask ELSE cell[s]
         /\ \A s \in Station : cell[s] # NoStation => cell'[s] = cell[s]
         /\ \/ /\ call.parent \in FRS /\ life' = life
               /\ \E b \in Rows(call.parent) :
                    /\ b.kind.type = "Basic" /\ b.subscriberStation = call.parent
                    /\ call'.parent = b.baseStation
               /\ call'.pc = "climb" /\ call'.child = call.parent
               /\ call'.remote = call.remote
               /\ Len(call'.lower) = HopSize
               /\ \A k \in 1..HopSize : call'.lower[k] = First + k - 1
               /\ Range(call'.lower) = {First + k - 1 : k \in 1..HopSize}
            \/ /\ call.parent \notin FRS /\ call' = Idle
               /\ life' = [life EXCEPT ![call.remote] = "joined"]
<1>0. TypeOK
  BY DEF IInv
<1>1. /\ cell' = [cell EXCEPT ![call.child] = call.ask]
      /\ \/ call.parent \in FRS /\ NextHop(call, call.parent, First) /\ UNCHANGED life
         \/ /\ call.parent \notin FRS /\ call' = Idle
            /\ life' = [life EXCEPT ![call.remote] = "joined"]
  BY DEF Hop, First
<1>2. \A s \in Station : cell'[s] = IF s = call.child THEN call.ask ELSE cell[s]
  BY <1>0, <1>1 DEF TypeOK
<1>3. \A s \in Station : cell[s] # NoStation => cell'[s] = cell[s]
  BY <1>2, HopContext
<1>4. CASE call.parent \in FRS /\ NextHop(call, call.parent, First) /\ UNCHANGED life
  <2>1. PICK i \in BasicForStation(table[call.parent], call.parent) :
          call' = [call EXCEPT !.child = call.parent,
                               !.parent = table[call.parent][i].baseStation,
                               !.ask = table[call.parent][i].baseStation,
                               !.lower = [k \in 1..HopSize |-> NthCID(First, k)]]
    BY <1>4 DEF NextHop
  <2> DEFINE lw == [k \in 1..HopSize |-> NthCID(First, k)]
             b  == table[call.parent][i].baseStation
  <2>2. /\ i \in DOMAIN table[call.parent]
        /\ table[call.parent][i].subscriberStation = call.parent
        /\ table[call.parent][i].kind.type = "Basic"
    BY FirstOfSubset DEF BasicForStation
  <2>3. table[call.parent][i] \in Rows(call.parent)
    BY <1>0, <2>2, HopContext, RowsAre
  <2>4. Len(lw) = HopSize /\ \A k \in 1..HopSize : lw[k] = First + k - 1
    BY LenProperties DEF NthCID, HopSize
  <2>5. Range(lw) = {First + k - 1 : k \in 1..HopSize}
    BY <2>4 DEF Range
  <2> HIDE DEF lw, b
  <2>6. /\ call'.parent = b /\ call'.pc = "climb" /\ call'.child = call.parent
        /\ call'.remote = call.remote /\ call'.lower = lw
    <3> DEFINE y == call.parent
               d == call'
    <3>1. d = NextOf(call, y, b, lw)
      BY <2>1 DEF lw, b, NextOf
    <3>2. call \in Call /\ call.pc = "climb"
      BY HopContext
    <3> HIDE DEF y, d
    <3>3. /\ d.parent = b /\ d.child = y /\ d.lower = lw
          /\ d.pc = call.pc /\ d.remote = call.remote
      BY <3>1, <3>2, NextCall
    <3> QED BY <3>2, <3>3 DEF y, d
  <2> QED BY <1>1, <1>2, <1>3, <1>4, <2>2, <2>3, <2>4, <2>5, <2>6 DEF b
<1>5. CASE /\ call.parent \notin FRS /\ call' = Idle
           /\ life' = [life EXCEPT ![call.remote] = "joined"]
  BY <1>1, <1>2, <1>3, <1>5
<1> QED BY <1>1, <1>4, <1>5

---------------------------------------------------------------------------
(* The invariant holds initially and is preserved by every step.           *)

\* Before the first association there are no connections to say anything about.
LEMMA InitPath == Init => PathInv
<1> SUFFICES ASSUME Init PROVE PathInv
  OBVIOUS
<1>1. IInv
  BY InitInv
<1>2. /\ \A s \in Station : Rows(s) = {} /\ table[s] = <<>> /\ life[s] = "absent"
      /\ call = Idle /\ call.pc = "idle"
      /\ \A s \in Station \ AP : cell[s] = NoStation
      /\ \A r \in FRS : mappings[r] = <<>> /\ DOMAIN mappings[r] = {} /\ Range(mappings[r]) = {}
  BY StationAssumption DEF Init, Rows, Range, Idle
<1>3. /\ AP \subseteq Station /\ FRS \subseteq Station /\ UT \subseteq Station
      /\ \A u \in UT : u \notin AP
  BY StationAssumption
<1>4. HopsShared /\ Attached /\ Serves /\ CallBuilds /\ NeverFails
  BY <1>2 DEF HopsShared, Attached, Serves, CallBuilds, NeverFails
<1>5. MappingsFaithful /\ MappingsOnce /\ MappingsComplete
  BY <1>2, <1>3 DEF MappingsFaithful, MappingsOnce, MappingsComplete
<1>6. ServedOnce /\ TerminalsOwn
  BY <1>2, <1>3 DEF ServedOnce, TerminalsOwn
<1> QED
  BY <1>1, <1>4, <1>5, <1>6 DEF PathInv

\* A station that is constructed has no connections yet.
LEMMA ConstructPath ==
  ASSUME PathInv, NEW s \in Station, Construct(s) PROVE PathInv'
<1> USE DEF PathInv
<1>1. IInv'
  BY ConstructInv
<1>2. /\ UNCHANGED <<table, highestCID, mappings, call, cell>>
      /\ call.pc = "idle" /\ life[s] = "absent"
      /\ life' = [life EXCEPT ![s] = "constructed"]
      /\ \A x \in Station : life'[x] = "joined" <=> life[x] = "joined"
      /\ \A x : Rows(x)' = Rows(x)
      /\ \A u, b : TerminalTable(u, b)' = TerminalTable(u, b)
      /\ \A r \in FRS : Pending(r)' = Pending(r)
  BY DEF Construct, IInv, TypeOK, Rows, Pending, TerminalTable
<1>3. HopsShared' /\ Attached' /\ Serves' /\ CallBuilds' /\ NeverFails'
  BY <1>2, StationAssumption DEF HopsShared, Attached, Serves, CallBuilds, NeverFails
<1>4. MappingsFaithful' /\ MappingsOnce' /\ MappingsComplete'
  BY <1>2, StationAssumption DEF MappingsFaithful, MappingsOnce, MappingsComplete
<1>5. ServedOnce'
  BY <1>2, StationAssumption DEF ServedOnce
<1>6. TerminalsOwn'
  BY <1>2, StationAssumption DEF TerminalsOwn
<1> QED
  BY <1>1, <1>3, <1>4, <1>5, <1>6

\* The question for a CID always reaches the access point when stations wait
\* for their targets: every station it passes has a basic connection.
LEMMA ClimbPath == ASSUME PathInv, Climb PROVE PathInv'
<1> USE DEF PathInv
<1>1. IInv'
  BY ClimbInv
<1>2. /\ UNCHANGED <<life, table, highestCID, mappings, cell>>
      /\ call.pc = "climb" /\ call \in Call /\ call.ask \in Station \ AP
      /\ cell[call.ask] = cell[call.parent]
      /\ \A x : Rows(x)' = Rows(x)
      /\ \A u, b : TerminalTable(u, b)' = TerminalTable(u, b)
  BY DEF Climb, IInv, TypeOK, CallOK, Rows, TerminalTable
<1>3. /\ call'.pc \in {"climb", "failed"} /\ call'.child = call.child
      /\ call'.parent = call.parent /\ call'.remote = call.remote
      /\ call'.lower = call.lower
  <2>1. CASE \E i \in BasicForStation(table[call.ask], call.ask) :
               call' = [call EXCEPT !.ask = table[call.ask][i].baseStation]
    BY <1>2, <2>1 DEF Call
  <2>2. CASE call' = Failed(call)
    BY <1>2, <2>2 DEF Call, Failed
  <2> QED
    BY <2>1, <2>2 DEF Climb
<1>4. \A r \in FRS : Pending(r)' \subseteq Pending(r)
                    /\ (call'.pc = "climb" => Pending(r)' = Pending(r))
  BY <1>2, <1>3 DEF Pending
<1>5. HopsShared' /\ Attached' /\ Serves'
  BY <1>2 DEF HopsShared, Attached, Serves
<1>6. CallBuilds'
  BY <1>1, <1>2, <1>3 DEF CallBuilds, IInv, CallOK
<1>7. MappingsFaithful' /\ MappingsOnce' /\ MappingsComplete'
  BY <1>2, <1>3, <1>4, StationAssumption DEF MappingsFaithful, MappingsOnce, MappingsComplete
<1>8. ServedOnce'
  BY <1>2, StationAssumption DEF ServedOnce
<1>9. TerminalsOwn'
  BY <1>2, <1>3 DEF TerminalsOwn
<1>10. NeverFails'
  <2> SUFFICES ASSUME OrderedStart PROVE call'.pc # "failed"
    BY DEF NeverFails
  <2>1. cell[call.ask] # NoStation
    BY <1>2 DEF CallBuilds
  <2>2. PICK c \in Rows(call.ask) : c.kind = Basic /\ c.subscriberStation = call.ask
    BY <1>2, <2>1 DEF Attached
  <2>3. PICK i \in DOMAIN table[call.ask] : table[call.ask][i] = c
    BY <1>2, RowsAre DEF IInv
  <2>4. DOMAIN table[call.ask] \subseteq Nat
    BY <1>2, RowsAre DEF IInv
  <2>5. BasicForStation(table[call.ask], call.ask) # {}
    <3> DEFINE S == {j \in DOMAIN table[call.ask] :
                       /\ table[call.ask][j].subscriberStation = call.ask
                       /\ table[call.ask][j].kind.type = "Basic"}
    <3>1. i \in S
      BY <2>2, <2>3 DEF Basic, KindOf
    <3>2. S \in SUBSET Nat
      BY <2>4
    <3> HIDE DEF S
    <3>3. FirstOf(table[call.ask], S) # {}
      BY <3>1, <3>2, FirstOfFinds
    <3> QED
      BY <3>3 DEF BasicForStation, S
  <2>6. PICK j \in BasicForStation(table[call.ask], call.ask) :
          call' = [call EXCEPT !.ask = table[call.ask][j].baseStation]
    BY <2>5 DEF Climb
  <2> QED
    BY <1>2, <2>6 DEF Call
<1> QED
  BY <1>1, <1>5, <1>6, <1>7, <1>8, <1>9, <1>10

\* A station that begins to associate has no connection yet; with ordered
\* starts its target has been constructed.
LEMMA AssociateToPath ==
  ASSUME PathInv, NEW s \in FRS \cup UT, NEW d \in AP \cup FRS, s # d, AssociateTo(s, d)
  PROVE  PathInv'
<1> USE DEF PathInv
<1> DEFINE c   == [pc |-> "climb", child |-> s, parent |-> d, ask |-> d,
                   remote |-> s, lower |-> <<>>]
           row == RangingTo(s, d)
<1>1. IInv'
  BY AssociateToInv
<1>2. /\ s \in Station \ AP /\ d \in Station
      /\ call.pc = "idle" /\ call.remote = NoStation /\ life[s] = "constructed"
      /\ OrderedStart => life[d] # "absent" /\ cell[d] # NoStation
      /\ UNCHANGED <<life, highestCID, mappings, cell>>
      /\ cell[s] = NoStation
      /\ \/ call' = Failed(c) /\ UNCHANGED table /\ life[d] = "absent"
         \/ call' = c /\ table' = [table EXCEPT ![s] = Append(@, row)]
  BY StationAssumption DEF AssociateTo, IInv, Newcomers
<1>3. Rows(s) = {} /\ table[s] = <<>>
  <2>1. ASSUME NEW r \in Rows(s) PROVE FALSE
    BY <1>2, StationAssumption DEF IInv, Newcomers, RowsOK
  <2>2. DOMAIN table[s] = {}
    BY <1>2, <2>1, RowsAre DEF IInv
  <2>3. Len(table[s]) = 0
    BY <1>2, <2>2, RowsAre DEF IInv
  <2> QED
    BY <1>2, <2>1, <2>3, RowsAre, EmptySeq DEF IInv
<1>4. \A r \in FRS : Pending(r) = {}
  BY <1>2 DEF Pending
<1>5. CASE call' = Failed(c) /\ UNCHANGED table /\ life[d] = "absent"
  <2>1. /\ call'.pc = "failed" /\ call'.remote = s
        /\ \A x : Rows(x)' = Rows(x)
        /\ \A u, b : TerminalTable(u, b)' = TerminalTable(u, b)
        /\ \A r \in FRS : Pending(r)' = {}
    BY <1>5 DEF Failed, Rows, TerminalTable, Pending
  <2>2. HopsShared' /\ Attached' /\ Serves' /\ CallBuilds' /\ NeverFails'
    BY <1>2, <1>5, <2>1 DEF HopsShared, Attached, Serves, CallBuilds, NeverFails
  <2>3. MappingsFaithful' /\ MappingsOnce' /\ MappingsComplete'
    BY <1>2, <1>5, <2>1 DEF MappingsFaithful, MappingsOnce, MappingsComplete
  <2>4. ServedOnce'
    BY <1>2, <1>5, <2>1 DEF ServedOnce
  <2>5. TerminalsOwn'
    BY <1>2, <1>5, <2>1, StationAssumption DEF TerminalsOwn
  <2> QED
    BY <1>1, <2>2, <2>3, <2>4, <2>5
<1>6. CASE call' = c /\ table' = [table EXCEPT ![s] = Append(@, row)]
  <2>1. row.cid = 0 /\ row.baseStation = d /\ row.subscriberStation = s /\ row.remoteStation = s
    BY DEF RangingTo
  <2>2. table'[s] = <<row>>
    BY <1>2, <1>3, <1>6 DEF IInv, TypeOK
  <2> HIDE DEF row
  <2>3. Rows(s)' = {row}
    <3>1. DOMAIN table'[s] = 1..1 /\ table'[s][1] = row
      BY <2>2
    <3> QED
      BY <3>1 DEF Rows, Range
  <2>4. \A x \in Station : x # s => table'[x] = table[x] /\ Rows(x)' = Rows(x)
    BY <1>2, <1>6 DEF IInv, TypeOK, Rows
  <2>5. /\ \A x \in Station : Rows(x) \subseteq Rows(x)'
        /\ \A x \in Station : \A r \in Rows(x)' : r.cid # 0 => r \in Rows(x)
        /\ \A x \in Station : \A r \in Rows(x)' : r \in Rows(x) \/ (x = s /\ r = row)
    BY <1>3, <2>1, <2>3, <2>4
  <2>6. \A x \in Station : Rows(x) \subseteq Connection
    BY RowsAre DEF IInv
  <2>7. /\ call'.pc = "climb" /\ call'.child = s /\ call'.parent = d
        /\ call'.remote = s /\ call'.lower = <<>>
    BY <1>6
  <2>8. \A r \in FRS : Pending(r)' = {}
    BY <2>7 DEF Pending, Range
  <2>9. HopsShared'
    <3> SUFFICES ASSUME NEW x \in Station, NEW r \in Rows(x)'
        PROVE /\ r.baseStation \in AP \cup FRS /\ r.subscriberStation \notin AP
              /\ r.cid = 0 => r = RangingTo(x, r.baseStation)
              /\ r.cid # 0 => /\ x \in {r.baseStation, r.subscriberStation}
                              /\ r \in Rows(r.baseStation)' /\ r \in Rows(r.subscriberStation)'
                              /\ \E k \in 1..HopSize : r.kind = HopKinds[k]
                              /\ \E b \in Rows(x)' : /\ b.kind = Basic
                                                     /\ b.baseStation = r.baseStation
                                                     /\ b.subscriberStation = r.subscriberStation
      BY DEF HopsShared
    <3>1. CASE r \in Rows(x)
      <4>1. r.baseStation \in Station /\ r.subscriberStation \in Station
        BY <2>6, <3>1 DEF Connection
      <4> QED
        BY <2>5, <3>1, <4>1 DEF HopsShared
    <3>2. CASE x = s /\ r = row
      BY <1>2, <2>1, <3>2 DEF row
    <3> QED
      BY <2>5, <3>1, <3>2
  <2>10. Attached'
    BY <1>2, <2>3, <2>4, <2>5 DEF Attached
  <2>11. Serves'
    <3> SUFFICES ASSUME NEW x \in Station, NEW r \in Rows(x)', r.cid # 0
        PROVE /\ r.remoteStation \in Station \ AP
              /\ cell[r.remoteStation] = cell[x]
              /\ r.remoteStation # r.subscriberStation =>
                   \E e \in Rows(r.remoteStation)' :
                     e.subscriberStation = r.remoteStation /\ e.baseStation \in FRS
      BY <1>2 DEF Serves
    <3> QED
      BY <2>5 DEF Serves
  <2>12. CallBuilds'
    BY <1>2, <2>1, <2>3, <2>7 DEF CallBuilds
  <2>13. MappingsFaithful'
    <3> SUFFICES ASSUME NEW r \in FRS, NEW m \in Range(mappings[r])
        PROVE \E up, low \in Rows(r)' :
                /\ up.cid = m.upper /\ up.subscriberStation = r
                /\ low.cid = m.lower /\ low.baseStation = r
                /\ up.kind = low.kind /\ up.remoteStation = low.remoteStation
      BY <1>2 DEF MappingsFaithful, Rows
    <3>1. Rows(r) \subseteq Rows(r)'
      BY <2>5, StationAssumption
    <3> QED
      BY <3>1 DEF MappingsFaithful, Rows
  <2>14. MappingsOnce'
    BY <1>2, <2>8 DEF MappingsOnce
  <2>15. MappingsComplete'
    <3> SUFFICES ASSUME NEW r \in FRS, NEW e \in Rows(r)', e.cid # 0,
                        e.baseStation = r \/ (e.subscriberStation = r /\ e.remoteStation # r)
        PROVE \E n \in DOMAIN mappings[r] : e.cid \in {mappings[r][n].upper, mappings[r][n].lower}
      BY <1>2 DEF MappingsComplete
    <3>1. e \in Rows(r)
      BY <2>5, StationAssumption
    <3> QED
      BY <1>2, <1>4, <3>1 DEF MappingsComplete
  <2>16. ServedOnce'
    <3>1. \A a \in AP : table'[a] = table[a] /\ Rows(a)' = Rows(a)
      BY <1>2, <2>4, StationAssumption
    <3> QED
      BY <1>2, <3>1 DEF ServedOnce
  <2>17. TerminalsOwn'
    <3> SUFFICES ASSUME NEW u \in UT
        PROVE /\ life[u] = "joined" => \E b \in Station : TerminalTable(u, b)'
              /\ life[u] # "joined" /\ s # u => table'[u] = <<>>
              /\ s = u => table'[u] = << RangingTo(u, d) >>
      BY <1>2, <2>7 DEF TerminalsOwn
    <3>1. CASE u = s
      BY <1>2, <2>2, <3>1 DEF row
    <3>2. CASE u # s
      <4>1. u \in Station /\ table'[u] = table[u]
        BY <2>4, <3>2, StationAssumption
      <4>2. \A b : TerminalTable(u, b)' = TerminalTable(u, b)
        BY <4>1 DEF TerminalTable
      <4> QED
        BY <1>2, <3>2, <4>1, <4>2, StationAssumption DEF TerminalsOwn
    <3> QED
      BY <3>1, <3>2
  <2>18. NeverFails'
    BY <2>7 DEF NeverFails
  <2> QED
    BY <1>1, <2>9, <2>10, <2>11, <2>12, <2>13, <2>14, <2>15, <2>16, <2>17, <2>18
<1> QED
  BY <1>2, <1>5, <1>6

---------------------------------------------------------------------------
(* A hop preserves the invariant: one lemma for each of its parts.         *)

\* No connection is lost, and both ends of the hop get the new ones.
LEMMA HopGrows ==
  ASSUME IInv, Hop
  PROVE  /\ \A s \in Station : Rows(s) \subseteq Rows(s)'
         /\ \A s \in Station : \A c \in Rows(s)' :
              c \in Rows(s) \/ (s \in {call.child, call.parent} /\ c \in NewRows)
         /\ \A s \in {call.child, call.parent} : \A k \in 1..HopSize : HopRow(k) \in Rows(s)'
         /\ \A s \in Station : Rows(s) \subseteq Connection
<1>1. \A s \in Station : Rows(s) \subseteq Connection
  BY RowsAre DEF IInv
<1>2. call.child \in Station /\ call.parent \in Station
  BY HopContext
<1>3. \A k \in 1..HopSize : HopRow(k) \in NewRows
  BY DEF NewRows
<1> QED BY <1>1, <1>2, <1>3, HopTables

\* The station that associates is in the cell once its first hop is there.
LEMMA HopCells ==
  ASSUME PathInv, Hop
  PROVE  /\ cell'[call.child] = call.ask /\ cell'[call.parent] = call.ask
         /\ cell'[call.remote] = call.ask
         /\ call.parent \in AP => call.parent = call.ask
         /\ call.remote # call.child =>
              /\ call.child \in FRS /\ Len(call.lower) = HopSize
              /\ cell[call.remote] = call.ask
<1>1. IInv /\ CallBuilds
  BY DEF PathInv
<1>2. cell'[call.child] = call.ask /\ cell'[call.parent] = call.ask
  BY <1>1, HopContext, HopRest
<1>3. call.remote # call.child =>
        /\ call.child \in FRS /\ Len(call.lower) = HopSize
        /\ cell[call.remote] = call.ask
  BY <1>1, HopContext DEF CallBuilds
<1>4. cell'[call.remote] = call.ask
  BY <1>1, <1>2, <1>3, HopContext, HopRest
<1>5. call.parent \in AP => call.parent = call.ask
  BY <1>1, HopContext DEF IInv, CellOK
<1> QED BY <1>2, <1>3, <1>4, <1>5

\* A hop puts the same connections into the tables of both of its ends.
LEMMA HopHopsShared == ASSUME PathInv, Hop PROVE HopsShared'
<1>1. IInv /\ CallBuilds /\ HopsShared
  BY DEF PathInv
<1> SUFFICES ASSUME NEW x \in Station, NEW r \in Rows(x)'
    PROVE /\ r.baseStation \in AP \cup FRS /\ r.subscriberStation \notin AP
          /\ r.cid = 0 => r = RangingTo(x, r.baseStation)
          /\ r.cid # 0 => /\ x \in {r.baseStation, r.subscriberStation}
                          /\ r \in Rows(r.baseStation)' /\ r \in Rows(r.subscriberStation)'
                          /\ \E k \in 1..HopSize : r.kind = HopKinds[k]
                          /\ \E b \in Rows(x)' : /\ b.kind = Basic
                                                 /\ b.baseStation = r.baseStation
                                                 /\ b.subscriberStation = r.subscriberStation
  BY DEF HopsShared
<1>2. CASE r \in Rows(x)
  <2>1. r.baseStation \in Station /\ r.subscriberStation \in Station
    BY <1>1, <1>2, HopGrows DEF Connection
  <2> QED
    BY <1>1, <1>2, <2>1, HopGrows DEF HopsShared
<1>3. CASE x \in {call.child, call.parent} /\ r \in NewRows
  <2>1. PICK k \in 1..HopSize : r = HopRow(k)
    BY <1>3 DEF NewRows
  <2>2. /\ r.baseStation = call.parent /\ r.subscriberStation = call.child
        /\ r.cid # 0 /\ r.kind = HopKinds[k]
    BY <1>1, <1>3, <2>1, HopNumbers DEF HopRow
  <2>3. call.parent \in AP \cup FRS /\ call.child \notin AP
    BY <1>1, HopContext DEF CallBuilds
  <2>4. r \in Rows(r.baseStation)' /\ r \in Rows(r.subscriberStation)'
    BY <1>1, <2>1, <2>2, HopGrows
  <2>5. /\ HopRow(1) \in Rows(x)' /\ HopRow(1).kind = Basic
        /\ HopRow(1).baseStation = call.parent /\ HopRow(1).subscriberStation = call.child
    BY <1>1, <1>3, HopGrows, KindsOfHop DEF HopSize, HopRow
  <2> QED
    BY <1>3, <2>2, <2>3, <2>4, <2>5
<1> QED BY <1>1, <1>2, <1>3, HopGrows

\* The hop lies between stations of the path that is being built.
LEMMA HopAttached == ASSUME PathInv, Hop PROVE Attached'
<1>1. IInv /\ CallBuilds /\ Attached /\ call.pc = "climb"
  BY HopContext DEF PathInv
<1>2. \A r \in NewRows : r.baseStation = call.parent /\ r.subscriberStation = call.child
  BY DEF NewRows, HopRow
<1> SUFFICES ASSUME NEW s \in Station \ AP
    PROVE /\ cell'[s] # NoStation =>
               /\ \E c \in Rows(s)' : c.kind = Basic /\ c.subscriberStation = s
               /\ \E c \in Rows(s)' : c.cid = 0
          /\ \A c, d \in Rows(s)' : c.subscriberStation = s /\ d.subscriberStation = s
                                      => c.baseStation = d.baseStation
  BY DEF Attached
<1>3. CASE s = call.child
  <2>1. HopRow(1) \in Rows(s)' /\ HopRow(1).kind = Basic /\ HopRow(1).subscriberStation = s
    BY <1>1, <1>3, HopGrows, KindsOfHop DEF HopSize, HopRow
  <2>2. \E c \in Rows(s) : c.cid = 0
    <3>1. CASE s = call.remote
      BY <1>1, <3>1 DEF CallBuilds
    <3>2. CASE s # call.remote
      BY <1>1, <1>3, <3>2, HopContext DEF Attached, CallBuilds
    <3> QED BY <3>1, <3>2
  <2>3. \A c \in Rows(s)' : c.subscriberStation = s => c.baseStation = call.parent
    BY <1>1, <1>2, <1>3, HopGrows DEF CallBuilds
  <2> QED BY <1>1, <2>1, <2>2, <2>3, HopGrows
<1>4. CASE s # call.child
  <2>1. cell'[s] = cell[s]
    BY <1>1, <1>4, HopRest
  <2>2. \A c \in Rows(s)' : c.subscriberStation = s => c \in Rows(s)
    BY <1>1, <1>2, <1>4, HopGrows
  <2> QED BY <1>1, <2>1, <2>2, HopGrows DEF Attached
<1> QED BY <1>3, <1>4

\* The connections of a hop serve the station that associates.
LEMMA HopServes == ASSUME PathInv, Hop PROVE Serves'
<1>1. IInv /\ CallBuilds /\ Serves /\ call.pc = "climb" /\ call.remote \in Station \ AP
  BY HopContext DEF PathInv, CallBuilds
<1> SUFFICES ASSUME NEW x \in Station, NEW r \in Rows(x)', r.cid # 0
    PROVE /\ r.remoteStation \in Station \ AP
          /\ cell'[r.remoteStation] = cell'[x]
          /\ r.remoteStation # r.subscriberStation =>
               \E e \in Rows(r.remoteStation)' :
                 e.subscriberStation = r.remoteStation /\ e.baseStation \in FRS
  BY DEF Serves
<1>2. CASE r \in Rows(x)
  <2>1. cell[x] # NoStation
    BY <1>1, <1>2, StationAssumption DEF IInv, RowsOK
  <2>2. /\ r.remoteStation \in Station \ AP /\ cell[r.remoteStation] = cell[x]
        /\ r.remoteStation # r.subscriberStation =>
             \E e \in Rows(r.remoteStation) :
               e.subscriberStation = r.remoteStation /\ e.baseStation \in FRS
    BY <1>1, <1>2 DEF Serves
  <2>3. cell'[r.remoteStation] = cell'[x]
    BY <1>1, <2>1, <2>2, HopRest
  <2> QED BY <1>1, <2>2, <2>3, HopGrows
<1>3. CASE x \in {call.child, call.parent} /\ r \in NewRows
  <2>1. r.remoteStation = call.remote /\ r.subscriberStation = call.child
    BY <1>3 DEF NewRows, HopRow
  <2>2. cell'[r.remoteStation] = cell'[x]
    BY <1>3, <2>1, HopCells
  <2>3. ASSUME call.remote # call.child
        PROVE  \E e \in Rows(call.remote) :
                 e.subscriberStation = call.remote /\ e.baseStation \in FRS
    BY <1>1, <2>3 DEF CallBuilds
  <2> QED BY <1>1, <2>1, <2>2, <2>3, HopGrows
<1> QED BY <1>1, <1>2, <1>3, HopGrows

\* After a hop the call builds the next one above it, or is done.
LEMMA HopCallBuilds == ASSUME PathInv, Hop PROVE CallBuilds'
<1>1. IInv /\ CallBuilds /\ HopsShared /\ Attached /\ call.pc = "climb"
  BY HopContext DEF PathInv
<1> SUFFICES ASSUME call'.pc = "climb" PROVE CallBuilds'
  BY DEF CallBuilds
<1>2. PICK p \in Station, u \in Station : p = call.parent /\ u = call.remote
  BY <1>1, HopContext
<1>3. /\ call.parent \in FRS /\ life' = life
      /\ call'.child = call.parent /\ call'.remote = call.remote
      /\ Len(call'.lower) = HopSize
      /\ \A k \in 1..HopSize : call'.lower[k] = First + k - 1
      /\ \E b \in Rows(call.parent) :
           /\ b.kind.type = "Basic" /\ b.subscriberStation = call.parent
           /\ call'.parent = b.baseStation
  <2>1. call' # Idle
    BY DEF Idle
  <2> QED BY <1>1, <2>1, HopRest
<1>4. PICK b \in Rows(call.parent) :
        /\ b.kind.type = "Basic" /\ b.subscriberStation = call.parent
        /\ call'.parent = b.baseStation
  BY <1>3
<1>5. /\ call.parent \in Station \ AP /\ call.remote \in Station \ AP
      /\ call.child # call.parent /\ call.ask # NoStation
      /\ b \in Connection /\ b.cid # 0 /\ b.baseStation \in Station
      /\ b.baseStation \in AP \cup FRS
  <2>1. b \in Connection /\ b.cid # 0
    BY <1>1, <1>4, HopGrows, HopContext DEF IInv, RowsOK
  <2> QED BY <1>1, <1>3, <1>4, <2>1, HopContext, StationAssumption
          DEF HopsShared, CallBuilds, Connection
<1>6. cell'[b.baseStation] = call.ask
  <2>1. cell[b.baseStation] = cell[call.parent]
    BY <1>1, <1>4, <1>5 DEF IInv, RowsOK
  <2> QED BY <1>1, <1>5, <2>1, HopContext, HopRest
<1>7. \A c \in Rows(p)' :
        c.subscriberStation = call.parent => c.baseStation = b.baseStation
  <2> SUFFICES ASSUME NEW c \in Rows(p)', c.subscriberStation = call.parent
               PROVE  c.baseStation = b.baseStation
    OBVIOUS
  <2>1. c \in Rows(p)
    BY <1>1, <1>2, <1>5, HopGrows DEF NewRows, HopRow
  <2> QED BY <1>1, <1>2, <1>4, <1>5, <2>1 DEF Attached
<1>8. \E d \in Rows(u)' :
        d.subscriberStation = call.remote /\ d.baseStation \in FRS
  <2>1. CASE call.remote = call.child
    <3>1. /\ HopRow(1) \in Rows(u)'
          /\ HopRow(1).subscriberStation = call.child /\ HopRow(1).baseStation = call.parent
      BY <1>1, <1>2, <2>1, HopGrows DEF HopSize, HopRow
    <3> QED BY <1>3, <2>1, <3>1
  <2>2. CASE call.remote # call.child
    <3>1. PICK d \in Rows(u) :
            d.subscriberStation = call.remote /\ d.baseStation \in FRS
      BY <1>1, <1>2, <2>2 DEF CallBuilds
    <3> QED BY <1>1, <1>2, <3>1, HopGrows
  <2> QED BY <2>1, <2>2
<1>9. \A k \in 1..HopSize : \E c \in Rows(p)' :
         /\ c.cid = call'.lower[k] /\ c.baseStation = call.parent
         /\ c.kind = HopKinds[k] /\ c.remoteStation = call.remote
  <2> SUFFICES ASSUME NEW k \in 1..HopSize
               PROVE  /\ HopRow(k) \in Rows(p)'
                      /\ HopRow(k).cid = call'.lower[k]
                      /\ HopRow(k).baseStation = call.parent
                      /\ HopRow(k).kind = HopKinds[k] /\ HopRow(k).remoteStation = call.remote
    OBVIOUS
  <2>1. HopRow(k) \in Rows(p)'
    BY <1>1, <1>2, HopGrows
  <2> QED BY <1>3, <2>1 DEF HopRow
<1>10. \E c \in Rows(u)' : c.cid = 0
  <2>1. PICK c \in Rows(u) : c.cid = 0
    BY <1>1, <1>2 DEF CallBuilds
  <2> QED BY <1>1, <2>1, HopGrows
<1>11. life'[call.remote] = "constructed"
  BY <1>1, <1>3 DEF CallBuilds
<1>12. cell'[call.remote] = call.ask /\ cell'[call.parent] = call.ask
  BY HopCells
<1> QED
  BY <1>2, <1>3, <1>4, <1>5, <1>6, <1>7, <1>8, <1>9, <1>10, <1>11, <1>12 DEF CallBuilds

\* A hop has all the connections of the hop below to map, or none.
LEMMA LowerLength ==
  ASSUME PathInv, Hop
  PROVE  /\ Len(call.lower) \in Nat /\ call.lower \in Seq(Nat)
         /\ \A k \in 1..Len(call.lower) : k \in 1..HopSize
<1>1. CallBuilds /\ call.lower \in Seq(Nat) /\ call.pc = "climb"
  BY HopContext DEF PathInv, Call
<1>2. Len(call.lower) = 0 \/ Len(call.lower) = HopSize
  BY <1>1, EmptySeq DEF CallBuilds
<1>3. Len(call.lower) \in Nat
  BY <1>1, LenProperties
<1>4. \A k \in 1..Len(call.lower) : k \in 1..HopSize
  <2>1. \A n \in Nat : n = 0 \/ n = 10 => \A k \in 1..n : k \in 1..10
    OBVIOUS
  <2> QED BY <1>2, <1>3, <2>1 DEF HopSize
<1> QED BY <1>1, <1>3, <1>4

\* The relay at the lower end of the hop gets a mapping for each connection
\* of the hop below; no other relay's mappings change.
Extends(old, new, n) ==
  /\ DOMAIN old = 1..n
  /\ DOMAIN new = 1..(n + Len(call.lower))
  /\ \A i \in 1..n : new[i] = old[i]
  /\ \A k \in 1..Len(call.lower) : /\ new[n + k].upper = First + k - 1
                                   /\ new[n + k].lower = call.lower[k]
  /\ \A i \in DOMAIN new : i \in 1..n \/ \E k \in 1..Len(call.lower) : i = n + k

\* A hop extends the map of the relay at its lower end, and no other one.
LEMMA HopMaps ==
  ASSUME PathInv, Hop, NEW r \in FRS
  PROVE  /\ r # call.child => mappings'[r] = mappings[r]
         /\ r = call.child => \E n \in Nat : Extends(mappings[r], mappings'[r], n)
<1>1. IInv /\ TypeOK
  BY DEF PathInv, IInv
<1>2. mappings'[r] = IF r = call.child THEN mappings[r] \o HopMappings(call, First)
                                       ELSE mappings[r]
  BY DEF Hop, First
<1>3. ASSUME r = call.child
      PROVE  Extends(mappings[r], mappings'[r], Len(mappings[r])) /\ Len(mappings[r]) \in Nat
  <2> DEFINE new == HopMappings(call, First)
             n   == Len(mappings[r])
             l   == Len(call.lower)
  <2>1. l \in Nat /\ call.lower \in Seq(Nat)
    BY LowerLength
  <2>2. mappings[r] \in Seq(RelayMapping)
    BY <1>1 DEF TypeOK
  <2>3. n \in Nat /\ DOMAIN mappings[r] = 1..n
    BY <2>2, LenProperties
  <2>4. new \in Seq(RelayMapping)
    <3>1. First \in Nat /\ First >= 1
      BY <1>1, HopContext
    <3>2. \A k \in 1..l : [upper |-> NthCID(First, k), lower |-> call.lower[k]] \in RelayMapping
      BY <2>1, <3>1, ElementOfSeq DEF NthCID, RelayMapping
    <3> QED BY <2>1, <3>2, IsASeq, LenProperties DEF HopMappings
  <2>5. /\ new = [k \in 1..l |-> [upper |-> First + k - 1, lower |-> call.lower[k]]]
        /\ \A k \in 1..l : new[k].upper = First + k - 1 /\ new[k].lower = call.lower[k]
    BY DEF HopMappings, NthCID
  <2> HIDE DEF new, l, n
  <2>6. Len(new) = l
    BY <2>1, <2>4, <2>5, LenProperties
  <2>7. mappings'[r] = mappings[r] \o new
    BY <1>2, <1>3 DEF new
  <2>8. /\ mappings'[r] \in Seq(RelayMapping) /\ Len(mappings'[r]) = n + l
        /\ \A i \in 1..(n + l) :
             mappings'[r][i] = IF i <= n THEN mappings[r][i] ELSE new[i - n]
    <3>1. /\ mappings[r] \o new \in Seq(RelayMapping)
          /\ Len(mappings[r] \o new) = Len(mappings[r]) + Len(new)
          /\ \A i \in 1..Len(mappings[r]) + Len(new) :
               (mappings[r] \o new)[i] = IF i <= Len(mappings[r]) THEN mappings[r][i]
                                         ELSE new[i - Len(mappings[r])]
      BY <2>2, <2>4, ConcatProperties
    <3> QED BY <2>6, <2>7, <3>1 DEF n
  <2>9. DOMAIN mappings'[r] = 1..(n + l)
    BY <2>8, LenProperties
  <2>10. /\ \A i \in 1..n : i \in 1..(n + l) /\ i <= n
         /\ \A k \in 1..l : n + k \in 1..(n + l) /\ ~ (n + k <= n) /\ (n + k) - n = k
         /\ \A i \in 1..(n + l) : i \in 1..n \/ (i - n \in 1..l /\ i = n + (i - n))
    BY <2>1, <2>3
  <2>11. \A i \in 1..n : mappings'[r][i] = mappings[r][i]
    BY <2>8, <2>10
  <2>12. \A k \in 1..l : mappings'[r][n + k] = new[k]
    BY <2>8, <2>10
  <2>13. Extends(mappings[r], mappings'[r], n)
    <3>1. \A i \in 1..(n + l) : i \in 1..n \/ \E k \in 1..l : i = n + k
      BY <2>10
    <3>2. \A k \in 1..l : /\ mappings'[r][n + k].upper = First + k - 1
                          /\ mappings'[r][n + k].lower = call.lower[k]
      BY <2>5, <2>12
    <3> QED BY <2>3, <2>9, <2>11, <3>1, <3>2 DEF Extends, l
  <2> QED BY <2>3, <2>13 DEF n
<1> QED BY <1>2, <1>3

\* A CID that is mapped, or is to be mapped, is one of the relay's connections.
LEMMA MappedIsHeld ==
  ASSUME PathInv, NEW r \in FRS
  PROVE  /\ \A n \in DOMAIN mappings[r] :
              \E up, low \in Rows(r) : /\ up.cid = mappings[r][n].upper
                                       /\ low.cid = mappings[r][n].lower
         /\ call.pc = "climb" /\ call.child = r =>
              \A k \in 1..Len(call.lower) : \E c \in Rows(r) :
                /\ c.cid = call.lower[k] /\ c.baseStation = call.child
                /\ c.kind = HopKinds[k] /\ c.remoteStation = call.remote
<1>1. ASSUME NEW n \in DOMAIN mappings[r]
      PROVE  \E up, low \in Rows(r) : /\ up.cid = mappings[r][n].upper
                                      /\ low.cid = mappings[r][n].lower
  <2>1. mappings[r][n] \in Range(mappings[r])
    BY DEF Range
  <2> QED BY <2>1 DEF PathInv, MappingsFaithful, Rows
<1>2. ASSUME call.pc = "climb", call.child = r, NEW k \in 1..Len(call.lower)
      PROVE  \E c \in Rows(r) :
                /\ c.cid = call.lower[k] /\ c.baseStation = call.child
                /\ c.kind = HopKinds[k] /\ c.remoteStation = call.remote
  <2>1. call.lower # <<>>
    BY <1>2, EmptySeq
  <2> QED BY <1>2, <2>1 DEF PathInv, CallBuilds
<1> QED BY <1>1, <1>2

\* The new mappings join connections of the same station and kind.
LEMMA HopMappingsFaithful == ASSUME PathInv, Hop PROVE MappingsFaithful'
<1>1. IInv /\ call.pc = "climb"
  BY HopContext DEF PathInv
<1> SUFFICES ASSUME NEW r \in FRS, NEW m \in Range(mappings'[r])
    PROVE \E up, low \in Rows(r)' :
            /\ up.cid = m.upper /\ up.subscriberStation = r
            /\ low.cid = m.lower /\ low.baseStation = r
            /\ up.kind = low.kind /\ up.remoteStation = low.remoteStation
  BY DEF MappingsFaithful, Rows
<1>2. r \in Station /\ Rows(r) \subseteq Rows(r)'
  BY <1>1, HopGrows, StationAssumption
<1>3. CASE m \in Range(mappings[r])
  BY <1>2, <1>3 DEF PathInv, MappingsFaithful, Rows
<1>4. CASE m \notin Range(mappings[r])
  <2>1. PICK i \in DOMAIN mappings'[r] : m = mappings'[r][i]
    BY DEF Range
  <2>2. r = call.child
    BY <1>4, <2>1, HopMaps DEF Range
  <2>3. PICK n \in Nat : Extends(mappings[r], mappings'[r], n)
    BY <2>2, HopMaps
  <2>4. i \notin 1..n
    BY <1>4, <2>1, <2>3 DEF Range, Extends
  <2>5. PICK k \in 1..Len(call.lower) : m.upper = First + k - 1 /\ m.lower = call.lower[k]
    BY <2>1, <2>3, <2>4 DEF Extends
  <2>6. PICK low \in Rows(r) :
          /\ low.cid = call.lower[k] /\ low.baseStation = call.child
          /\ low.kind = HopKinds[k] /\ low.remoteStation = call.remote
    BY <1>1, <2>2, MappedIsHeld
  <2>7. k \in 1..HopSize
    BY LowerLength
  <2>8. /\ HopRow(k) \in Rows(r)' /\ HopRow(k).cid = m.upper
        /\ HopRow(k).subscriberStation = r
        /\ HopRow(k).kind = HopKinds[k] /\ HopRow(k).remoteStation = call.remote
    <3>1. HopRow(k) \in Rows(r)'
      BY <1>1, <2>2, <2>7, HopGrows
    <3> QED BY <2>2, <2>5, <3>1 DEF HopRow
  <2>9. low \in Rows(r)'
    BY <1>2, <2>6
  <2> QED BY <2>2, <2>5, <2>6, <2>8, <2>9
<1> QED BY <1>3, <1>4

\* A new mapping's upper CID is above all others of the relay, and its lower
\* one was waiting to be mapped; those are of different kinds.
LEMMA HopMappingsOnce == ASSUME PathInv, Hop PROVE MappingsOnce'
<1>1. IInv /\ MappingsOnce /\ call.pc = "climb"
  BY HopContext DEF PathInv
<1> SUFFICES ASSUME NEW r \in FRS
    PROVE /\ \A m, n \in DOMAIN mappings'[r] : m # n =>
               {mappings'[r][m].upper, mappings'[r][m].lower}
                 \cap {mappings'[r][n].upper, mappings'[r][n].lower} = {}
          /\ \A n \in DOMAIN mappings'[r] :
               {mappings'[r][n].upper, mappings'[r][n].lower} \cap Pending(r)' = {}
  BY DEF MappingsOnce
<1>2. r \in Station /\ r \notin AP
  BY StationAssumption
\* what the relay holds is below the counter
<1>3. ASSUME r \in {call.child, call.parent}
      PROVE  /\ \A c \in Rows(r) : c.cid < First /\ c.cid \in Nat
             /\ \A n \in DOMAIN mappings[r] :
                  /\ mappings[r][n].upper < First /\ mappings[r][n].upper \in Nat
                  /\ mappings[r][n].lower < First /\ mappings[r][n].lower \in Nat
  <2>1. cell[r] \in {NoStation, call.ask}
    BY <1>1, <1>3, HopContext
  <2>2. \A c \in Rows(r) : c.cid < First /\ c.cid \in Nat
    BY <1>1, <1>2, <2>1, HopNumbers, HopGrows DEF Connection
  <2> QED BY <2>2, MappedIsHeld DEF PathInv
<1>4. First \in Nat /\ Len(call.lower) \in Nat /\ HopSize \in Nat
  BY <1>1, HopContext, LenProperties DEF Call, HopSize
<1>5. Pending(r)' \subseteq {First + k - 1 : k \in 1..HopSize}
      /\ (Pending(r)' # {} => r = call.parent)
  <2>1. CASE call' = Idle
    BY <2>1 DEF Pending, Idle
  <2>2. CASE call' # Idle
    BY <1>1, <2>2, HopRest DEF Pending
  <2> QED BY <2>1, <2>2
<1>6. CASE r # call.child
  <2>1. mappings'[r] = mappings[r]
    BY <1>6, HopMaps
  <2>2. \A n \in DOMAIN mappings[r] :
          {mappings[r][n].upper, mappings[r][n].lower} \cap Pending(r)' = {}
    <3>1. CASE Pending(r)' = {}
      BY <3>1
    <3>2. CASE Pending(r)' # {}
      <4>1. \A c \in Pending(r)' : \E k \in 1..HopSize : c = First + k - 1
        BY <1>5
      <4>2. \A k \in 1..HopSize : First + k - 1 >= First
        BY <1>4
      <4>3. r \in {call.child, call.parent}
        BY <1>5, <3>2
      <4>4. \A n \in DOMAIN mappings[r] :
              /\ mappings[r][n].upper \notin Pending(r)'
              /\ mappings[r][n].lower \notin Pending(r)'
        BY <1>3, <1>4, <4>1, <4>2, <4>3
      <4> QED BY <4>4
    <3> QED BY <3>1, <3>2
  <2> QED BY <1>1, <2>1, <2>2 DEF MappingsOnce
<1>7. CASE r = call.child
  <2>1. Pending(r)' = {}
    BY <1>1, <1>5, <1>7, HopContext
  <2>2. PICK p \in Nat : Extends(mappings[r], mappings'[r], p)
    BY <1>7, HopMaps
  <2>3. \A k \in 1..Len(call.lower) : call.lower[k] \in Pending(r)
    <3>1. call.lower \in Seq(Nat)
      BY <1>1, HopContext DEF Call
    <3>2. DOMAIN call.lower = 1..Len(call.lower)
      BY <3>1, LenProperties
    <3> QED BY <1>1, <1>7, <3>2 DEF Pending, Range
  <2>4. \A k \in 1..Len(call.lower) : call.lower[k] \in Nat /\ call.lower[k] < First
    BY <1>1, <1>3, <1>7, MappedIsHeld
  <2>5. ASSUME NEW k \in 1..Len(call.lower), NEW l \in 1..Len(call.lower),
               call.lower[k] = call.lower[l]
        PROVE  k = l
    <3>1. PICK c \in Rows(r) : c.cid = call.lower[k] /\ c.kind = HopKinds[k]
      BY <1>1, <1>7, MappedIsHeld
    <3>2. PICK d \in Rows(r) : d.cid = call.lower[l] /\ d.kind = HopKinds[l]
      BY <1>1, <1>7, MappedIsHeld
    <3>3. c = d
      BY <1>1, <1>2, <2>5, <3>1, <3>2, RowsAre DEF IInv, CIDsUnique
    <3>4. k \in 1..HopSize /\ l \in 1..HopSize
      BY LowerLength
    <3> QED BY <3>1, <3>2, <3>3, <3>4, KindsOfHop
  <2>6. ASSUME NEW m \in 1..p, NEW k \in 1..Len(call.lower)
        PROVE  {mappings'[r][m].upper, mappings'[r][m].lower}
                 \cap {mappings'[r][p + k].upper, mappings'[r][p + k].lower} = {}
    <3>1. call.lower[k] \notin {mappings[r][m].upper, mappings[r][m].lower}
      BY <1>1, <2>2, <2>3 DEF MappingsOnce, Extends
    <3>2. First + k - 1 \notin {mappings[r][m].upper, mappings[r][m].lower}
      <4>1. m \in DOMAIN mappings[r] /\ First + k - 1 >= First
        BY <1>4, <2>2 DEF Extends
      <4>2. /\ mappings[r][m].upper < First /\ mappings[r][m].upper \in Nat
            /\ mappings[r][m].lower < First /\ mappings[r][m].lower \in Nat
        BY <1>3, <1>7, <4>1
      <4> QED BY <1>4, <4>1, <4>2
    <3> QED BY <2>2, <3>1, <3>2 DEF Extends
  <2>7. ASSUME NEW k \in 1..Len(call.lower), NEW l \in 1..Len(call.lower), k # l
        PROVE  {mappings'[r][p + k].upper, mappings'[r][p + k].lower}
                 \cap {mappings'[r][p + l].upper, mappings'[r][p + l].lower} = {}
    <3>1. call.lower[k] # call.lower[l]
      BY <2>5, <2>7
    <3>2. First + k - 1 # First + l - 1 /\ First + k - 1 >= First /\ First + l - 1 >= First
      BY <1>4, <2>7
    <3>3. First + k - 1 # call.lower[l] /\ First + l - 1 # call.lower[k]
      BY <1>4, <2>4, <3>2
    <3> QED BY <2>2, <3>1, <3>2, <3>3 DEF Extends
  <2>8. ASSUME NEW m \in 1..p, NEW n \in 1..p, m # n
        PROVE  {mappings'[r][m].upper, mappings'[r][m].lower}
                 \cap {mappings'[r][n].upper, mappings'[r][n].lower} = {}
    BY <1>1, <2>2, <2>8 DEF MappingsOnce, Extends
  <2>9. ASSUME NEW m \in DOMAIN mappings'[r], NEW n \in DOMAIN mappings'[r], m # n
        PROVE  {mappings'[r][m].upper, mappings'[r][m].lower}
                 \cap {mappings'[r][n].upper, mappings'[r][n].lower} = {}
    <3>1. /\ m \in 1..p \/ \E k \in 1..Len(call.lower) : m = p + k
          /\ n \in 1..p \/ \E k \in 1..Len(call.lower) : n = p + k
      BY <2>2 DEF Extends
    <3>2. CASE m \in 1..p /\ n \in 1..p
      BY <2>8, <2>9, <3>2
    <3>3. CASE m \in 1..p /\ \E k \in 1..Len(call.lower) : n = p + k
      BY <2>6, <3>3
    <3>4. CASE n \in 1..p /\ \E k \in 1..Len(call.lower) : m = p + k
      BY <2>6, <3>4
    <3>5. CASE (\E k \in 1..Len(call.lower) : m = p + k)
               /\ \E l \in 1..Len(call.lower) : n = p + l
      BY <2>7, <2>9, <3>5
    <3> QED BY <3>1, <3>2, <3>3, <3>4, <3>5
  <2> QED BY <2>1, <2>9
<1> QED BY <1>6, <1>7

\* What a relay got from the hop below is mapped by the hop above it.
LEMMA HopMappingsComplete == ASSUME PathInv, Hop PROVE MappingsComplete'
<1>1. IInv /\ CallBuilds /\ MappingsComplete /\ call.pc = "climb"
  BY HopContext DEF PathInv
<1> SUFFICES ASSUME NEW r \in FRS, NEW e \in Rows(r)', e.cid # 0,
                    e.baseStation = r \/ (e.subscriberStation = r /\ e.remoteStation # r)
    PROVE  \/ e.cid \in Pending(r)'
           \/ \E n \in DOMAIN mappings'[r] :
                e.cid \in {mappings'[r][n].upper, mappings'[r][n].lower}
  BY DEF MappingsComplete
<1>2. r \in Station /\ r \notin AP
  BY StationAssumption
\* old mappings are kept
<1>3. ASSUME NEW n \in DOMAIN mappings[r]
      PROVE  n \in DOMAIN mappings'[r] /\ mappings'[r][n] = mappings[r][n]
  <2>1. CASE r = call.child
    <3>1. PICK p \in Nat : Extends(mappings[r], mappings'[r], p)
      BY <2>1, HopMaps
    <3>2. n \in 1..p /\ Len(call.lower) \in Nat
      BY <3>1, LowerLength DEF Extends
    <3>3. n \in 1..(p + Len(call.lower))
      BY <3>2
    <3> QED BY <3>1, <3>2, <3>3 DEF Extends
  <2> QED BY <2>1, HopMaps
\* the new ones of the lower end
<1>4. ASSUME r = call.child, NEW k \in 1..Len(call.lower)
      PROVE  \E n \in DOMAIN mappings'[r] :
               mappings'[r][n].upper = First + k - 1 /\ mappings'[r][n].lower = call.lower[k]
  <2>1. PICK p \in Nat : Extends(mappings[r], mappings'[r], p)
    BY <1>4, HopMaps
  <2>2. p + k \in 1..(p + Len(call.lower))
    BY LowerLength
  <2> QED BY <2>1, <2>2 DEF Extends
<1>5. CASE e \in Rows(r)
  <2>1. \/ e.cid \in Pending(r)
        \/ \E n \in DOMAIN mappings[r] : e.cid \in {mappings[r][n].upper, mappings[r][n].lower}
    BY <1>1, <1>5 DEF MappingsComplete
  <2>2. CASE e.cid \in Pending(r)
    <3>1. r = call.child /\ e.cid \in Range(call.lower)
      BY <2>2 DEF Pending
    <3>2. DOMAIN call.lower = 1..Len(call.lower)
      BY LowerLength, LenProperties
    <3>3. PICK k \in 1..Len(call.lower) : e.cid = call.lower[k]
      BY <3>1, <3>2 DEF Range
    <3> QED BY <1>4, <3>1, <3>3
  <2>3. CASE \E n \in DOMAIN mappings[r] : e.cid \in {mappings[r][n].upper, mappings[r][n].lower}
    BY <1>3, <2>3
  <2> QED BY <2>1, <2>2, <2>3
<1>6. CASE r \in {call.child, call.parent} /\ e \in NewRows
  <2>1. PICK k \in 1..HopSize : e = HopRow(k)
    BY <1>6 DEF NewRows
  <2>2. /\ e.cid = First + k - 1 /\ e.baseStation = call.parent
        /\ e.subscriberStation = call.child /\ e.remoteStation = call.remote
    BY <2>1 DEF HopRow
  <2>3. call.child # call.parent
    BY <1>1, HopContext
  <2>4. CASE r = call.child
    <3>1. Len(call.lower) = HopSize
      BY <2>2, <2>3, <2>4, HopCells
    <3> QED BY <1>4, <2>2, <2>4, <3>1
  <2>5. CASE r = call.parent
    <3>1. call'.pc = "climb" /\ call'.child = r /\ Range(call'.lower) = {First + j - 1 : j \in 1..HopSize}
      BY <1>1, <2>5, HopRest
    <3> QED BY <2>2, <3>1 DEF Pending
  <2> QED BY <1>6, <2>4, <2>5
<1> QED BY <1>1, <1>2, <1>5, <1>6, HopGrows

\* The joining station's last hop is the block of the access point's table
\* that serves it; no other hop serves a station that has joined.
LEMMA HopServedOnce == ASSUME PathInv, Hop PROVE ServedOnce'
<1>1. IInv /\ CallBuilds /\ ServedOnce /\ call.pc = "climb"
  BY HopContext DEF PathInv
<1>2. /\ call.remote \in Station \ AP /\ call.parent \in Station /\ call.child \notin AP
      /\ life[call.remote] = "constructed" /\ call.parent \in AP \cup FRS
      /\ life \in [Station -> {"absent", "constructed", "joined"}]
      /\ HopSize \in Nat
  BY <1>1, HopContext DEF CallBuilds, IInv, TypeOK, HopSize
<1>3. \A u \in Station : life'[u] # "joined" => life[u] # "joined"
  BY <1>1, <1>2, HopRest
<1> SUFFICES ASSUME NEW u \in Station \ AP
    PROVE /\ life'[u] = "joined" =>
               cell'[u] \in AP /\ \E n \in 0..Len(table'[cell'[u]]) : Block(table'[cell'[u]], n, u)
          /\ life'[u] # "joined" => \A a \in AP : \A c \in Rows(a)' : c.remoteStation # u
  BY DEF ServedOnce
<1>4. CASE life'[u] # "joined"
  <2> SUFFICES ASSUME NEW a \in AP, NEW c \in Rows(a)' PROVE c.remoteStation # u
    BY <1>4
  <2>1. CASE c \in Rows(a)
    BY <1>1, <1>3, <1>4, <2>1 DEF ServedOnce
  <2>2. CASE a \in {call.child, call.parent} /\ c \in NewRows
    <3>1. c.remoteStation = call.remote /\ a = call.parent
      BY <1>2, <2>2 DEF NewRows, HopRow
    <3>2. a \notin FRS
      BY StationAssumption
    <3>3. life'[call.remote] = "joined"
      BY <1>1, <1>2, <3>1, <3>2, HopRest
    <3> QED BY <1>4, <3>1, <3>3
  <2> QED BY <1>1, <2>1, <2>2, HopGrows, StationAssumption
<1>5. CASE life[u] = "joined"
  <2>1. PICK a \in AP : a = cell[u]
    BY <1>1, <1>5 DEF ServedOnce
  <2>2. /\ a \in Station /\ cell'[u] = a /\ u # call.remote /\ a \notin FRS
        /\ a # NoStation /\ life'[u] = "joined"
    BY <1>1, <1>2, <1>5, <2>1, HopRest, StationAssumption
  <2>3. PICK n \in 0..Len(table[a]) : Block(table[a], n, u)
    BY <1>1, <1>5, <2>1 DEF ServedOnce
  <2>4. CASE a \notin {call.child, call.parent}
    <3>1. table'[a] = table[a]
      BY <1>1, <2>2, <2>4, HopTables
    <3> QED BY <1>5, <2>1, <2>2, <2>3, <3>1
  <2>5. CASE a \in {call.child, call.parent}
    <3> DEFINE t == table[a]
               v == table'[a]
               m == Len(t)
    <3>1. /\ Len(v) = m + HopSize
          /\ \A i \in 1..m : v[i] = t[i]
          /\ \A k \in 1..HopSize : v[m + k] = HopRow(k)
      BY <1>1, <2>2, <2>5, HopTables
    <3>2. v \in Seq(Connection) /\ t \in Seq(Connection)
      BY <1>1, <2>2, HopInv DEF IInv, TypeOK
    <3>3. /\ m \in Nat /\ DOMAIN t = 1..m
          /\ DOMAIN v = 1..(m + HopSize)
      BY <3>1, <3>2, LenProperties
    <3>4. /\ n + HopSize <= m /\ n \in Nat
          /\ \A k \in 1..HopSize : t[n + k].kind = HopKinds[k] /\ t[n + k].remoteStation = u
          /\ \A i \in 1..m : t[i].remoteStation = u => t[i].cid = 0 \/ i - n \in 1..HopSize
      BY <2>3, <3>3 DEF Block
    <3>5. \A k \in 1..HopSize : HopRow(k).remoteStation = call.remote
      BY DEF HopRow
    <3> HIDE DEF t, v, m
    <3>6. \A k \in 1..HopSize : n + k \in 1..m
      BY <1>2, <3>3, <3>4
    <3>7. \A i \in 1..(m + HopSize) : i \in 1..m \/ (i - m \in 1..HopSize /\ i = m + (i - m))
      BY <1>2, <3>3
    <3>8. \A i \in 1..(m + HopSize) : v[i].remoteStation = u => i \in 1..m
      BY <2>2, <3>1, <3>5, <3>7
    <3>9. n + HopSize <= m + HopSize /\ n \in 0..(m + HopSize)
      BY <1>2, <3>3, <3>4
    <3>10. Block(v, n, u)
      <4>1. \A k \in 1..HopSize : v[n + k].kind = HopKinds[k] /\ v[n + k].remoteStation = u
        BY <3>1, <3>4, <3>6
      <4>2. \A i \in DOMAIN v : v[i].remoteStation = u => v[i].cid = 0 \/ i - n \in 1..HopSize
        BY <3>1, <3>3, <3>4, <3>8
      <4> QED BY <3>1, <3>9, <4>1, <4>2 DEF Block
    <3> QED BY <1>5, <2>1, <2>2, <3>1, <3>9, <3>10 DEF v
  <2> QED BY <2>4, <2>5
<1>6. CASE life'[u] = "joined" /\ life[u] # "joined"
  <2>1. u = call.remote /\ call.parent \notin FRS
    BY <1>1, <1>2, <1>6, HopRest
  <2>2. PICK a \in AP : a = call.parent
    BY <1>2, <2>1
  <2>3. a = cell'[u] /\ a \in Station
    BY <1>1, <2>1, <2>2, HopCells, HopContext
  <2> DEFINE t == table[a]
             v == table'[a]
             m == Len(t)
  <2>4. /\ Len(v) = m + HopSize
        /\ \A i \in 1..m : v[i] = t[i]
        /\ \A k \in 1..HopSize : v[m + k] = HopRow(k)
    BY <1>1, <2>2, <2>3, HopTables
  <2>5. v \in Seq(Connection) /\ t \in Seq(Connection)
    BY <1>1, <2>3, HopInv DEF IInv, TypeOK
  <2>6. /\ m \in Nat /\ DOMAIN t = 1..m
        /\ DOMAIN v = 1..(m + HopSize)
    BY <2>4, <2>5, LenProperties
  <2>7. \A i \in 1..m : t[i].remoteStation # u
    <3>1. \A i \in DOMAIN t : t[i] \in Rows(a)
      BY DEF Rows, Range
    <3> QED BY <1>1, <1>6, <2>6, <3>1 DEF ServedOnce
  <2>8. \A k \in 1..HopSize : HopRow(k).remoteStation = u /\ HopRow(k).kind = HopKinds[k]
    BY <2>1 DEF HopRow
  <2> HIDE DEF t, v, m
  <2>9. \A i \in 1..(m + HopSize) : i \in 1..m \/ i - m \in 1..HopSize
    BY <1>2, <2>6
  <2>10. Block(v, m, u)
    BY <2>4, <2>6, <2>7, <2>8, <2>9 DEF Block
  <2>11. m \in 0..(m + HopSize)
    BY <1>2, <2>6
  <2> QED BY <1>6, <2>3, <2>4, <2>10, <2>11 DEF v
<1> QED BY <1>4, <1>5, <1>6

\* Only the terminal that associates gets connections: those of its own hop,
\* which is the first one.
LEMMA HopTerminalsOwn == ASSUME PathInv, Hop PROVE TerminalsOwn'
<1>1. IInv /\ CallBuilds /\ TerminalsOwn /\ call.pc = "climb"
  BY HopContext DEF PathInv
<1>2. /\ call.remote \in Station /\ call.parent \in AP \cup FRS /\ call.child \in Station
      /\ life[call.remote] = "constructed" /\ call.child # call.parent
      /\ call.child \in FRS \/ call.child = call.remote
      /\ life \in [Station -> {"absent", "constructed", "joined"}]
      /\ First \in Nat /\ First >= 1 /\ HopSize \in Nat
  BY <1>1, HopContext DEF CallBuilds, IInv, TypeOK, HopSize
<1> SUFFICES ASSUME NEW u \in UT
    PROVE /\ life'[u] = "joined" => \E b \in Station : TerminalTable(u, b)'
          /\ life'[u] # "joined" /\ call'.remote # u => table'[u] = <<>>
          /\ call'.pc = "climb" /\ call'.remote = u /\ call'.child = u =>
               table'[u] = << RangingTo(u, call'.parent) >>
          /\ call'.pc = "climb" /\ call'.remote = u /\ call'.child # u =>
               \E b \in Station : TerminalTable(u, b)'
  BY DEF TerminalsOwn
<1>3. u \in Station /\ u \notin AP /\ u \notin FRS /\ u # call.parent
  BY <1>2, StationAssumption
<1>4. /\ call'.pc = "climb" => /\ call'.child \in FRS /\ call'.remote = call.remote
                               /\ life' = life
      /\ call'.pc # "climb" => life' = [life EXCEPT ![call.remote] = "joined"]
  BY <1>1, HopRest DEF Idle
<1>5. CASE u # call.child
  <2>1. table'[u] = table[u]
    BY <1>1, <1>3, <1>5, HopTables
  <2>2. \A b : TerminalTable(u, b)' = TerminalTable(u, b)
    BY <2>1 DEF TerminalTable
  <2> QED BY <1>1, <1>2, <1>3, <1>4, <1>5, <2>1, <2>2 DEF TerminalsOwn
<1>6. CASE u = call.child
  <2>1. u = call.remote /\ life[u] = "constructed"
    BY <1>2, <1>3, <1>6
  <2>2. PICK p \in Station : p = call.parent
    BY <1>1, HopContext
  <2>3. table[u] = << RangingTo(u, p) >>
    BY <1>1, <1>6, <2>1, <2>2 DEF TerminalsOwn
  <2>4. Len(table[u]) = 1 /\ table[u][1] = RangingTo(u, p)
    BY <2>3
  <2>5. /\ Len(table'[u]) = 1 + HopSize
        /\ table'[u][1] = RangingTo(u, p)
        /\ \A k \in 1..HopSize : table'[u][1 + k] = HopRow(k)
    BY <1>1, <1>3, <1>6, <2>4, HopTables
  <2>6. \A k \in 1..HopSize :
          /\ HopRow(k).baseStation = p /\ HopRow(k).subscriberStation = u
          /\ HopRow(k).remoteStation = u /\ HopRow(k).kind = HopKinds[k]
          /\ HopRow(k).cid # 0
    <3>1. \A k \in 1..HopSize : First + k - 1 # 0
      BY <1>2
    <3> QED BY <1>6, <2>1, <2>2, <3>1 DEF HopRow
  <2>7. TerminalTable(u, p)'
    BY <2>5, <2>6 DEF TerminalTable
  <2>8. call'.pc # "climb" => life'[u] = "joined"
    BY <1>2, <1>4, <2>1
  <2> QED BY <1>3, <1>4, <2>1, <2>7, <2>8
<1> QED BY <1>5, <1>6

\* A hop keeps the invariant.
LEMMA HopPath == ASSUME PathInv, Hop PROVE PathInv'
<1>1. IInv' /\ NeverFails'
  BY HopInv, HopRest DEF PathInv, Idle, NeverFails
<1> QED
  BY <1>1, HopHopsShared, HopAttached, HopServes, HopCallBuilds, HopMappingsFaithful,
     HopMappingsOnce, HopMappingsComplete, HopServedOnce, HopTerminalsOwn DEF PathInv

\* Every step of the system keeps the invariant.
LEMMA StepPath == PathInv /\ [Next]_vars => PathInv'
<1> SUFFICES ASSUME PathInv, [Next]_vars PROVE PathInv'
  OBVIOUS
<1>1. ASSUME NEW s \in Station, Construct(s) PROVE PathInv'
  BY <1>1, ConstructPath
<1>2. ASSUME NEW s \in FRS \cup UT, NEW d \in AP \cup FRS, s # d /\ AssociateTo(s, d)
      PROVE  PathInv'
  BY <1>2, AssociateToPath
<1>3. CASE Climb
  BY <1>3, ClimbPath
<1>4. CASE Hop
  BY <1>4, HopPath
<1>5. CASE UNCHANGED vars
  <2>1. /\ \A x : Rows(x)' = Rows(x)
        /\ \A x : Pending(x)' = Pending(x)
        /\ \A u, b : TerminalTable(u, b)' = TerminalTable(u, b)
        /\ UNCHANGED <<life, table, highestCID, mappings, call, cell>>
    BY <1>5 DEF vars, Rows, Pending, TerminalTable
  <2>2. IInv'
    BY <1>5, StepInv DEF PathInv
  <2>3. HopsShared' /\ Attached' /\ Serves' /\ CallBuilds' /\ NeverFails'
    BY <2>1 DEF PathInv, HopsShared, Attached, Serves, CallBuilds, NeverFails
  <2>4. MappingsFaithful' /\ MappingsOnce' /\ MappingsComplete'
    BY <2>1 DEF PathInv, MappingsFaithful, MappingsOnce, MappingsComplete
  <2>5. ServedOnce' /\ TerminalsOwn'
    BY <2>1 DEF PathInv, ServedOnce, TerminalsOwn
  <2> QED BY <2>2, <2>3, <2>4, <2>5 DEF PathInv
<1> QED
  BY <1>1, <1>2, <1>3, <1>4, <1>5 DEF Next

\* Whatever stations join, in whatever order and over however many relays, the
\* tables at both ends of every hop and the relays' maps agree.
THEOREM PathInvariance == Spec => []PathInv
BY InitPath, StepPath, PTL DEF Spec

---------------------------------------------------------------------------
(* What follows from the invariant.                                        *)

\* A CID is looked up by comparing: the first connection with it is the only.
LEMMA WithIDIs ==
  ASSUME PathInv, NEW s \in Station, NEW cid
  PROVE  WithID(table[s], cid) = {i \in DOMAIN table[s] : table[s][i].cid = cid}
<1> DEFINE S == {i \in DOMAIN table[s] : table[s][i].cid = cid}
<1>1. IInv /\ TypeOK /\ CIDsUnique
  BY DEF PathInv, IInv
<1>2. S \in SUBSET Nat
  BY <1>1, RowsAre
<1>3. \A i, j \in S : i = j
  BY <1>1 DEF CIDsUnique
<1> HIDE DEF S
<1>4. \A i, j \in S : i <= j
  BY <1>2, <1>3
<1>5. FirstOf(table[s], S) = S
  BY <1>4 DEF FirstOf
<1> QED BY <1>5 DEF WithID, S

\* A numbered connection leads from its subscriber to its base station.
LEMMA HopEnds ==
  ASSUME PathInv, NEW s \in Station, NEW c \in Rows(s)
  PROVE  /\ c \in Connection
         /\ c.baseStation \in AP \cup FRS /\ c.baseStation \in Station
         /\ c.subscriberStation \in Station \ AP
         /\ c.baseStation # c.subscriberStation
         /\ c.cid = 0 => c.subscriberStation = s /\ c.remoteStation = s /\ c.kind = Ranging
         /\ c.cid # 0 => /\ s \in {c.baseStation, c.subscriberStation}
                         /\ c \in Rows(c.baseStation) /\ c \in Rows(c.subscriberStation)
<1>1. c \in Connection
  BY RowsAre DEF PathInv, IInv
<1>2. /\ c.baseStation \in AP \cup FRS /\ c.subscriberStation \notin AP
      /\ c.baseStation # c.subscriberStation
      /\ c.cid = 0 => c = RangingTo(s, c.baseStation)
      /\ c.cid # 0 => /\ s \in {c.baseStation, c.subscriberStation}
                      /\ c \in Rows(c.baseStation) /\ c \in Rows(c.subscriberStation)
  BY DEF PathInv, IInv, HopsShared, RowsOK
<1> QED BY <1>1, <1>2 DEF Connection, RangingTo

\* Tables that share every hop agree about every connection.
LEMMA EndpointsHold == PathInv => EndpointsAgree
<1> SUFFICES ASSUME PathInv, NEW s \in Station, NEW d \in Station, s # d
             PROVE  {table[s][i] : i \in OfBase(table[s], d) \ WithID(table[s], 0)}
                    = {table[d][i] : i \in OfSubscriber(table[d], s)}
  BY DEF EndpointsAgree
<1>1. /\ \A i \in DOMAIN table[s] : table[s][i] \in Rows(s)
      /\ \A i \in DOMAIN table[d] : table[d][i] \in Rows(d)
      /\ \A c \in Rows(s) : \E i \in DOMAIN table[s] : table[s][i] = c
      /\ \A c \in Rows(d) : \E i \in DOMAIN table[d] : table[d][i] = c
  BY RowsAre DEF PathInv, IInv
<1>2. \A i \in DOMAIN table[s] : i \in WithID(table[s], 0) <=> table[s][i].cid = 0
  BY WithIDIs
<1>3. ASSUME NEW i \in OfBase(table[s], d) \ WithID(table[s], 0)
      PROVE  \E j \in OfSubscriber(table[d], s) : table[d][j] = table[s][i]
  <2>1. i \in DOMAIN table[s] /\ table[s][i].baseStation = d /\ table[s][i].cid # 0
    BY <1>2, <1>3 DEF OfBase
  <2>2. table[s][i] \in Rows(d) /\ table[s][i].subscriberStation = s
    BY <1>1, <2>1, HopEnds
  <2> QED BY <1>1, <2>2 DEF OfSubscriber
<1>4. ASSUME NEW j \in OfSubscriber(table[d], s)
      PROVE  \E i \in OfBase(table[s], d) \ WithID(table[s], 0) : table[s][i] = table[d][j]
  <2>1. j \in DOMAIN table[d] /\ table[d][j].subscriberStation = s
    BY <1>4 DEF OfSubscriber
  <2>2. table[d][j].cid # 0 /\ table[d][j] \in Rows(s) /\ table[d][j].baseStation = d
    BY <1>1, <2>1, HopEnds
  <2> QED BY <1>1, <1>2, <2>2 DEF OfBase
<1> QED BY <1>3, <1>4

\* A joined station behind relays has mapped connections at each of them.
LEMMA RelayedHolds == PathInv => RelayedPathComplete
<1> SUFFICES ASSUME PathInv, call.pc = "idle", NEW r \in FRS, NEW c \in Range(table[r]),
                    c.baseStation = r \/ (c.subscriberStation = r /\ c.remoteStation # r)
             PROVE  Cardinality(MappingsOf(r, c.cid)) = 1
  BY DEF RelayedPathComplete
<1>1. r \in Station /\ c \in Rows(r)
  BY StationAssumption DEF Rows
<1>2. c.cid # 0
  BY <1>1, HopEnds
<1>3. Pending(r) = {}
  BY DEF Pending
<1>4. PICK n \in DOMAIN mappings[r] : c.cid \in {mappings[r][n].upper, mappings[r][n].lower}
  BY <1>1, <1>2, <1>3 DEF PathInv, MappingsComplete
<1>5. ASSUME NEW m \in DOMAIN mappings[r], m # n
      PROVE  c.cid \notin {mappings[r][m].upper, mappings[r][m].lower}
  BY <1>4, <1>5 DEF PathInv, MappingsOnce
<1>6. MappingsOf(r, c.cid) = {n}
  BY <1>4, <1>5 DEF MappingsOf
<1> QED BY <1>6, FS_Singleton

\* One connection of a hop carries the class in the direction.
OneKind(q, direction) ==
  \E k \in 1..HopSize : \A l \in 1..HopSize :
    /\ HopKinds[l].type = "Data" /\ HopKinds[l].qos = q
    /\ HopKinds[l].direction = direction
    <=> l = k

\* Each data class has one downlink and one uplink connection in a hop.
LEMMA DataKindsOfHop ==
  ASSUME NEW q \in DataQoS, NEW direction \in {"Downlink", "Uplink"}
  PROVE  OneKind(q, direction)
<1>1. HopKinds = << Basic, Primary,
        KindOf("Data", "Downlink", "BE"),    KindOf("Data", "Downlink", "rtPS"),
        KindOf("Data", "Downlink", "nrtPS"), KindOf("Data", "Downlink", "UGS"),
        KindOf("Data", "Uplink", "BE"),      KindOf("Data", "Uplink", "rtPS"),
        KindOf("Data", "Uplink", "nrtPS"),   KindOf("Data", "Uplink", "UGS") >>
  BY DEF HopKinds
<1> DEFINE Is(k) == \A l \in 1..10 : /\ HopKinds[l].type = "Data" /\ HopKinds[l].qos = q
                                     /\ HopKinds[l].direction = direction
                                     <=> l = k
<1>2. CASE direction = "Downlink"
  <2>1. q = "BE" => Is(3)
    BY <1>1, <1>2 DEF Basic, Primary, KindOf
  <2>2. q = "rtPS" => Is(4)
    BY <1>1, <1>2 DEF Basic, Primary, KindOf
  <2>3. q = "nrtPS" => Is(5)
    BY <1>1, <1>2 DEF Basic, Primary, KindOf
  <2>4. q = "UGS" => Is(6)
    BY <1>1, <1>2 DEF Basic, Primary, KindOf
  <2> HIDE DEF Is
  <2>5. \E k \in 1..10 : Is(k)
    BY <2>1, <2>2, <2>3, <2>4 DEF DataQoS
  <2> QED BY <2>5 DEF Is, HopSize, OneKind
<1>3. CASE direction = "Uplink"
  <2>1. q = "BE" => Is(7)
    BY <1>1, <1>3 DEF Basic, Primary, KindOf
  <2>2. q = "rtPS" => Is(8)
    BY <1>1, <1>3 DEF Basic, Primary, KindOf
  <2>3. q = "nrtPS" => Is(9)
    BY <1>1, <1>3 DEF Basic, Primary, KindOf
  <2>4. q = "UGS" => Is(10)
    BY <1>1, <1>3 DEF Basic, Primary, KindOf
  <2> HIDE DEF Is
  <2>5. \E k \in 1..10 : Is(k)
    BY <2>1, <2>2, <2>3, <2>4 DEF DataQoS
  <2> QED BY <2>5 DEF Is, HopSize, OneKind
<1> QED BY <1>2, <1>3

\* The data connections of a class and direction that serve a station.
ServingData(t, u, q, direction) ==
  {i \in DOMAIN t : /\ t[i].kind.type = "Data" /\ t[i].kind.qos = q
                    /\ t[i].remoteStation = u
                    /\ t[i].kind.direction = direction}

\* A hop has exactly one data connection for each class and direction.
LEMMA OneInBlock ==
  ASSUME NEW q \in DataQoS, NEW direction \in {"Downlink", "Uplink"},
         NEW a \in AP, NEW u \in Station, NEW n \in 0..Len(table[a]),
         PathInv, Block(table[a], n, u)
  PROVE  \E k : ServingData(table[a], u, q, direction) = {k}
<1> DEFINE t == table[a]
<1>1. PICK k \in 1..HopSize : \A l \in 1..HopSize :
        /\ HopKinds[l].type = "Data" /\ HopKinds[l].qos = q
        /\ HopKinds[l].direction = direction
        <=> l = k
  <2>1. OneKind(q, direction)
    BY DataKindsOfHop
  <2> QED BY <2>1 DEF OneKind
<1>2. DOMAIN t = 1..Len(t) /\ Len(t) \in Nat /\ HopSize \in Nat /\ a \in Station
  BY RowsAre, StationAssumption DEF PathInv, IInv, HopSize
<1>3. \A i \in DOMAIN t : t[i].kind.type = "Data" => t[i].cid # 0
  <2>1. \A i \in DOMAIN t : t[i] \in Rows(a)
    BY DEF Rows, Range
  <2> QED BY <1>2, <2>1, HopEnds DEF Ranging, KindOf
<1>4. /\ n + HopSize <= Len(t)
      /\ \A l \in 1..HopSize : t[n + l].kind = HopKinds[l] /\ t[n + l].remoteStation = u
      /\ \A i \in DOMAIN t : t[i].remoteStation = u => t[i].cid = 0 \/ i - n \in 1..HopSize
  BY DEF Block
<1> HIDE DEF t
<1>5. n + k \in DOMAIN t
  BY <1>2, <1>4
<1>6. ASSUME NEW i \in DOMAIN t,
             t[i].kind.type = "Data", t[i].kind.qos = q, t[i].remoteStation = u,
             t[i].kind.direction = direction
      PROVE  i = n + k
  <2>1. i - n \in 1..HopSize
    BY <1>3, <1>4, <1>6
  <2>2. i = n + (i - n)
    BY <1>2
  <2>3. t[i].kind = HopKinds[i - n]
    BY <1>4, <2>1, <2>2
  <2> QED BY <1>1, <1>2, <1>6, <2>1, <2>3
<1>7. ServingData(t, u, q, direction) = {n + k}
  BY <1>1, <1>4, <1>5, <1>6 DEF ServingData
<1> QED BY <1>7 DEF t

\* The classifier finds one connection where a station is served by one hop.
LEMMA OneHolds == PathInv => OneConnectionPerQoS
<1> SUFFICES ASSUME PathInv, NEW u \in UT, NEW q \in DataQoS, life[u] = "joined"
    PROVE /\ Cardinality(OutgoingData(table[cell[u]], "AP", u, q)) = 1
          /\ Cardinality(IncomingData(table[cell[u]], "AP", u, q)) = 1
          /\ Cardinality(AllData(table[u], "Uplink", q)) = 1
          /\ \E i \in WithID(table[u], 0) :
               LET b == table[u][i].baseStation
               IN  /\ Cardinality(IncomingData(table[u], "UT", b, q)) = 1
                   /\ OutgoingData(table[u], "UT", b, q) = AllData(table[u], "Uplink", q)
  BY DEF OneConnectionPerQoS
<1>1. u \in Station \ AP
  BY StationAssumption
<1>2. PICK a \in AP : a = cell[u]
  BY <1>1 DEF PathInv, ServedOnce
<1>3. PICK n \in 0..Len(table[a]) : Block(table[a], n, u)
  BY <1>1, <1>2 DEF PathInv, ServedOnce
<1>4. Cardinality(OutgoingData(table[a], "AP", u, q)) = 1
  <2>1. OutgoingData(table[a], "AP", u, q) = ServingData(table[a], u, q, "Downlink")
    BY DEF OutgoingData, ServingData
  <2>2. \E k : ServingData(table[a], u, q, "Downlink") = {k}
    BY <1>1, <1>3, OneInBlock
  <2> QED BY <2>1, <2>2, FS_Singleton
<1>5. Cardinality(IncomingData(table[a], "AP", u, q)) = 1
  <2>1. IncomingData(table[a], "AP", u, q) = ServingData(table[a], u, q, "Uplink")
    BY DEF IncomingData, ServingData
  <2>2. \E k : ServingData(table[a], u, q, "Uplink") = {k}
    BY <1>1, <1>3, OneInBlock
  <2> QED BY <2>1, <2>2, FS_Singleton
<1>6. PICK b \in Station : TerminalTable(u, b)
  BY DEF PathInv, TerminalsOwn
<1> DEFINE t == table[u]
<1>7. /\ DOMAIN t = 1..(1 + HopSize) /\ t[1] = RangingTo(u, b)
      /\ \A k \in 1..HopSize :
           /\ t[1 + k].baseStation = b /\ t[1 + k].kind = HopKinds[k] /\ t[1 + k].cid # 0
  BY <1>1, <1>6, RowsAre DEF TerminalTable, PathInv, IInv
<1> HIDE DEF t
<1>8. ASSUME NEW i \in DOMAIN t, t[i].kind.type = "Data"
      PROVE  \E k \in 1..HopSize : i = 1 + k
  <2>1. i # 1
    BY <1>7, <1>8 DEF RangingTo, Ranging, KindOf
  <2>2. i - 1 \in 1..HopSize /\ i = 1 + (i - 1)
    BY <1>7, <2>1 DEF HopSize
  <2> QED BY <2>2
<1>9. \A k \in 1..HopSize : 1 + k \in DOMAIN t
  BY <1>7 DEF HopSize
<1>10. ASSUME NEW direction \in {"Downlink", "Uplink"}
       PROVE  \E k : {i \in DOMAIN t : /\ t[i].kind.type = "Data" /\ t[i].kind.qos = q
                                       /\ t[i].baseStation = b
                                       /\ t[i].kind.direction = direction} = {k}
                     /\ AllData(t, direction, q) = {k}
  <2>1. PICK k \in 1..HopSize : \A l \in 1..HopSize :
          /\ HopKinds[l].type = "Data" /\ HopKinds[l].qos = q
          /\ HopKinds[l].direction = direction
          <=> l = k
    <3>1. OneKind(q, direction)
      BY DataKindsOfHop
    <3> QED BY <3>1 DEF OneKind
  <2>2. \A i \in DOMAIN t : /\ t[i].kind.type = "Data" /\ t[i].kind.qos = q
                            /\ t[i].kind.direction = direction
                            <=> i = 1 + k
    BY <1>7, <1>8, <2>1
  <2>3. 1 + k \in DOMAIN t /\ t[1 + k].baseStation = b
    BY <1>7, <1>9
  <2>4. AllData(t, direction, q) = {1 + k}
    BY <2>2, <2>3 DEF AllData, DataOf
  <2> QED BY <2>2, <2>3, <2>4
<1>11. Cardinality(AllData(t, "Uplink", q)) = 1
  BY <1>10, FS_Singleton
<1>12. Cardinality(IncomingData(t, "UT", b, q)) = 1
  <2>1. \E k : IncomingData(t, "UT", b, q) = {k}
    BY <1>10 DEF IncomingData
  <2> QED BY <2>1, FS_Singleton
<1>13. OutgoingData(t, "UT", b, q) = AllData(t, "Uplink", q)
  BY <1>10 DEF OutgoingData
<1>14. 1 \in WithID(t, 0) /\ t[1].baseStation = b
  <2>1. 1 \in DOMAIN t /\ t[1].cid = 0 /\ t[1].baseStation = b
    BY <1>7 DEF RangingTo, HopSize
  <2> QED BY <1>1, <2>1, WithIDIs DEF t
<1> QED BY <1>2, <1>4, <1>5, <1>11, <1>12, <1>13, <1>14 DEF t

\* What a table says of a user, the user's table says of it.
LEMMA MutualHolds == PathInv => UserIsMutual
<1> SUFFICES ASSUME PathInv, NEW s \in Station, NEW i \in DOMAIN table[s], table[s][i].cid # 0
             PROVE  \E j \in DOMAIN table[User(s, i)] :
                      /\ table[User(s, i)][j] = table[s][i]
                      /\ User(User(s, i), j) = s
  BY DEF UserIsMutual
<1> DEFINE c == table[s][i]
<1>1. c \in Rows(s)
  BY DEF Rows, Range
<1>2. /\ c.baseStation \in AP \cup FRS /\ c.baseStation \in Station
      /\ c.subscriberStation \in Station \ AP
      /\ c.baseStation # c.subscriberStation
      /\ s \in {c.baseStation, c.subscriberStation}
      /\ c \in Rows(c.baseStation) /\ c \in Rows(c.subscriberStation)
  BY <1>1, HopEnds
<1>3. CASE s = c.baseStation
  <2>1. User(s, i) = c.subscriberStation
    BY <1>2, <1>3 DEF User
  <2>2. PICK j \in DOMAIN table[c.subscriberStation] : table[c.subscriberStation][j] = c
    BY <1>2, RowsAre DEF PathInv, IInv
  <2>3. User(c.subscriberStation, j) = c.baseStation
    BY <1>2, <2>2 DEF User
  <2> QED BY <1>3, <2>1, <2>2, <2>3
<1>4. CASE s = c.subscriberStation
  <2>1. User(s, i) = c.baseStation
    BY <1>2, <1>4 DEF User
  <2>2. PICK j \in DOMAIN table[c.baseStation] : table[c.baseStation][j] = c
    BY <1>2, RowsAre DEF PathInv, IInv
  <2>3. User(c.baseStation, j) = c.subscriberStation
    BY <1>2, <2>2 DEF User
  <2> QED BY <1>4, <2>1, <2>2, <2>3
<1> QED BY <1>2, <1>3, <1>4

---------------------------------------------------------------------------
(* The registry.                                                           *)

\* The recursion Select is defined by has a solution on every prefix.
SelectStep(t, S, f, n) ==
  IF n = 0 THEN <<>> ELSE IF n \in S THEN Append(f[n - 1], t[n]) ELSE f[n - 1]

\* By the least number for which there would be none.
LEMMA SelectExists ==
  ASSUME NEW t, NEW S, NEW n \in Nat
  PROVE  \E f : f = [m \in 0..n |-> SelectStep(t, S, f, m)]
<1> DEFINE Solved(m) == \E f : f = [l \in 0..m |-> SelectStep(t, S, f, l)]
           T == {m \in Nat : ~ Solved(m)}
<1> SUFFICES T = {}
  OBVIOUS
<1> SUFFICES ASSUME T # {} PROVE FALSE
  OBVIOUS
<1>1. PICK x \in T : \A y \in T : x <= y
  <2> HIDE DEF T
  <2>1. T \subseteq Nat
    BY DEF T
  <2> QED BY <2>1, LeastExists
<1>2. CASE x = 0
  <2> DEFINE f == [l \in 0..0 |-> <<>>]
  <2>1. f = [l \in 0..0 |-> SelectStep(t, S, f, l)]
    BY DEF SelectStep
  <2> QED BY <1>2, <2>1
<1>3. CASE x # 0
  <2>1. x \in Nat /\ x - 1 \in Nat /\ ~ (x <= x - 1)
    BY <1>3
  <2>2. Solved(x - 1)
    BY <1>1, <2>1
  <2>3. PICK f : f = [l \in 0..(x - 1) |-> SelectStep(t, S, f, l)]
    BY <2>2
  <2> DEFINE g == [l \in 0..x |-> IF l = x THEN SelectStep(t, S, f, x) ELSE f[l]]
  <2>4. \A l \in 0..x : l # x => l \in 0..(x - 1)
    BY <2>1
  <2>5. \A l \in 0..x : l # 0 => l - 1 \in 0..x /\ l - 1 # x /\ g[l - 1] = f[l - 1]
    BY <2>1
  <2>6. ASSUME NEW l \in 0..x PROVE g[l] = SelectStep(t, S, g, l)
    <3>1. SelectStep(t, S, g, l) = SelectStep(t, S, f, l)
      BY <2>5 DEF SelectStep
    <3>2. l # x => f[l] = SelectStep(t, S, f, l)
      BY <2>3, <2>4
    <3> QED BY <3>1, <3>2
  <2>7. g = [l \in 0..x |-> SelectStep(t, S, g, l)]
    BY <2>6
  <2> HIDE DEF g
  <2>8. Solved(x)
    BY <2>7
  <2> QED BY <2>8
<1> QED BY <1>2, <1>3

\* Select returns the elements at the given positions.
LEMMA SelectRange ==
  ASSUME NEW C, NEW t \in Seq(C), NEW S \in SUBSET (DOMAIN t)
  PROVE  /\ Select(t, S) \in Seq(C)
         /\ Range(Select(t, S)) = {t[i] : i \in S}
<1> DEFINE at == CHOOSE f : f = [m \in 0..Len(t) |->
                                   IF m = 0 THEN <<>>
                                   ELSE IF m \in S THEN Append(f[m - 1], t[m]) ELSE f[m - 1]]
<1>1. Len(t) \in Nat /\ DOMAIN t = 1..Len(t) /\ \A i \in 1..Len(t) : t[i] \in C
  BY LenProperties, ElementOfSeq
<1>2. Select(t, S) = at[Len(t)]
  BY Zenon DEF Select
<1>3. at = [m \in 0..Len(t) |->
              IF m = 0 THEN <<>>
              ELSE IF m \in S THEN Append(at[m - 1], t[m]) ELSE at[m - 1]]
  <2>1. \E f : f = [m \in 0..Len(t) |->
                      IF m = 0 THEN <<>>
                      ELSE IF m \in S THEN Append(f[m - 1], t[m]) ELSE f[m - 1]]
    <3>1. PICK f : f = [m \in 0..Len(t) |-> SelectStep(t, S, f, m)]
      BY <1>1, SelectExists
    <3>2. f = [m \in 0..Len(t) |->
                 IF m = 0 THEN <<>>
                 ELSE IF m \in S THEN Append(f[m - 1], t[m]) ELSE f[m - 1]]
      BY <3>1 DEF SelectStep
    <3> QED BY <3>2
  <2> QED BY <2>1
<1> HIDE DEF at
<1> DEFINE Good(m) == /\ at[m] \in Seq(C)
                      /\ Range(at[m]) = {t[i] : i \in S \cap 1..m}
           T == {m \in 0..Len(t) : ~ Good(m)}
<1>4. T = {}
  <2> SUFFICES ASSUME T # {} PROVE FALSE
    OBVIOUS
  <2>1. PICK x \in T : \A y \in T : x <= y
    <3> HIDE DEF T
    <3>1. T \subseteq Nat
      BY <1>1 DEF T
    <3> QED BY <3>1, LeastExists
  <2>2. CASE x = 0
    <3>1. at[0] = <<>>
      BY <1>1, <1>3
    <3>2. Range(<<>>) = {} /\ <<>> \in Seq(C)
      BY EmptySeq DEF Range
    <3>3. {t[i] : i \in S \cap 1..0} = {}
      OBVIOUS
    <3>4. Good(0)
      BY <3>1, <3>2, <3>3
    <3> QED BY <2>1, <2>2, <3>4
  <2>3. CASE x # 0
    <3>1. x \in 0..Len(t) /\ x \in 1..Len(t) /\ x - 1 \in 0..Len(t) /\ ~ (x <= x - 1)
      BY <1>1, <2>3
    <3>2. at[x - 1] \in Seq(C) /\ Range(at[x - 1]) = {t[i] : i \in S \cap 1..(x - 1)}
      BY <2>1, <3>1
    <3>3. at[x] = IF x \in S THEN Append(at[x - 1], t[x]) ELSE at[x - 1]
      BY <1>3, <2>3, <3>1
    <3>4. S \cap 1..x = IF x \in S THEN (S \cap 1..(x - 1)) \cup {x} ELSE S \cap 1..(x - 1)
      BY <1>1, <3>1
    <3>5. /\ Append(at[x - 1], t[x]) \in Seq(C)
          /\ Range(Append(at[x - 1], t[x])) = Range(at[x - 1]) \cup {t[x]}
      <4>1. t[x] \in C
        BY <1>1, <3>1
      <4> DEFINE s == at[x - 1]
                 a == Append(s, t[x])
      <4>2. s \in Seq(C)
        BY <3>2
      <4> HIDE DEF s
      <4>3. /\ a \in Seq(C) /\ Len(a) = Len(s) + 1
            /\ \A i \in 1..Len(s) : a[i] = s[i]
            /\ a[Len(s) + 1] = t[x]
        BY <4>1, <4>2, AppendProperties
      <4>4. DOMAIN a = 1..(Len(s) + 1) /\ DOMAIN s = 1..Len(s) /\ Len(s) \in Nat
        BY <4>2, <4>3, LenProperties
      <4> HIDE DEF a
      <4>5. Range(a) = Range(s) \cup {t[x]}
        BY <4>3, <4>4 DEF Range
      <4> QED BY <4>3, <4>5 DEF a, s
    <3>6. Range(at[x]) = {t[i] : i \in S \cap 1..x} /\ at[x] \in Seq(C)
      BY <3>2, <3>3, <3>4, <3>5
    <3> QED BY <3>6
  <2> QED BY <2>2, <2>3
<1>5. Good(Len(t))
  <2>1. Len(t) \in 0..Len(t)
    BY <1>1
  <2> QED BY <1>4, <2>1
<1>6. S \cap 1..Len(t) = S
  BY <1>1
<1> QED BY <1>2, <1>5, <1>6

\* What an access point holds for a station that is attached to it directly
\* is a connection of that station's own hop.
LEMMA ServedDirectly ==
  ASSUME NEW a \in AP, NEW u \in Station, NEW c \in Rows(a), NEW e \in Rows(u), PathInv,
         c.remoteStation = u, e.subscriberStation = u, e.baseStation = a
  PROVE  c.subscriberStation = u
<1>1. a \in Station /\ a \notin FRS
  BY StationAssumption
<1>2. c.cid # 0 /\ u \notin AP
  BY <1>1, HopEnds
<1> SUFFICES ASSUME c.subscriberStation # u PROVE FALSE
  OBVIOUS
<1>3. PICK d \in Rows(u) : d.subscriberStation = u /\ d.baseStation \in FRS
  BY <1>1, <1>2 DEF PathInv, Serves
<1> QED BY <1>1, <1>2, <1>3 DEF PathInv, Attached

\* Over a hop, the lower end's connections to or from the upper one are the
\* upper end's from or to the lower one.
LEMMA LeadingAgrees ==
  ASSUME NEW down \in Direction, NEW up \in Direction,
         NEW s \in Station, NEW d \in Station, NEW c \in Rows(s), PathInv, s # d, c.baseStation = d, c.cid # 0
  PROVE  /\ \A i \in LeadingTo(table[s], TypeOf(s), d, down, up) : table[s][i].cid # 0 =>
              \E j \in LeadingTo(table[d], TypeOf(d), s, up, down) : table[d][j] = table[s][i]
         /\ \A j \in LeadingTo(table[d], TypeOf(d), s, up, down) : table[d][j].cid # 0 =>
              \E i \in LeadingTo(table[s], TypeOf(s), d, down, up) : table[s][i] = table[d][j]
<1>1. /\ s \notin AP /\ d \in AP \cup FRS /\ c.subscriberStation = s
      /\ TypeOf(s) = IF s \in FRS THEN "FRS" ELSE "UT"
      /\ TypeOf(d) = IF d \in AP THEN "AP" ELSE "FRS"
      /\ s \notin FRS => s \in UT
      /\ d \in AP => d \notin FRS
  BY HopEnds, StationAssumption DEF TypeOf
<1>2. /\ \A i \in DOMAIN table[s] : table[s][i] \in Rows(s)
      /\ \A i \in DOMAIN table[d] : table[d][i] \in Rows(d)
      /\ \A e \in Rows(s) : \E i \in DOMAIN table[s] : table[s][i] = e
      /\ \A e \in Rows(d) : \E i \in DOMAIN table[d] : table[d][i] = e
  BY RowsAre DEF PathInv, IInv
<1>3. ASSUME NEW i \in LeadingTo(table[s], TypeOf(s), d, down, up), table[s][i].cid # 0
      PROVE  \E j \in LeadingTo(table[d], TypeOf(d), s, up, down) : table[d][j] = table[s][i]
  <2> DEFINE e == table[s][i]
  <2>1. /\ i \in DOMAIN table[s]
        /\ \/ e.baseStation = d /\ e.kind.direction \in {up, "Bidirectional"}
           \/ s \in FRS /\ e.subscriberStation = d /\ e.kind.direction \in {down, "Bidirectional"}
    BY <1>1, <1>3 DEF LeadingTo
  <2>2. e \in Rows(s)
    BY <1>2, <2>1
  <2> HIDE DEF e
  <2>3. /\ e.baseStation # e.subscriberStation /\ e.subscriberStation \notin AP
        /\ s \in {e.baseStation, e.subscriberStation}
        /\ e \in Rows(e.baseStation) /\ e \in Rows(e.subscriberStation)
    BY <1>3, <2>2, HopEnds DEF e
  <2>4. e \in Rows(d)
    BY <2>1, <2>3
  <2>5. PICK j \in DOMAIN table[d] : table[d][j] = e
    BY <1>2, <2>4
  <2>6. j \in LeadingTo(table[d], TypeOf(d), s, up, down)
    <3>1. CASE e.baseStation = d /\ e.kind.direction \in {up, "Bidirectional"}
      <4>1. e.subscriberStation = s
        BY <2>3, <3>1
      <4> QED BY <1>1, <2>5, <3>1, <4>1 DEF LeadingTo
    <3>2. CASE e.subscriberStation = d /\ e.kind.direction \in {down, "Bidirectional"}
      <4>1. e.baseStation = s /\ d \notin AP
        BY <2>3, <3>2
      <4> QED BY <1>1, <2>5, <3>2, <4>1 DEF LeadingTo
    <3> QED BY <2>1, <3>1, <3>2
  <2> QED BY <2>5, <2>6 DEF e
<1>4. ASSUME NEW j \in LeadingTo(table[d], TypeOf(d), s, up, down), table[d][j].cid # 0
      PROVE  \E i \in LeadingTo(table[s], TypeOf(s), d, down, up) : table[s][i] = table[d][j]
  <2> DEFINE e == table[d][j]
  <2>1. /\ j \in DOMAIN table[d]
        /\ \/ /\ d \in AP /\ s \in {e.remoteStation, e.subscriberStation}
              /\ e.kind.direction \in {up, "Bidirectional"}
           \/ d \in FRS /\ e.baseStation = s /\ e.kind.direction \in {down, "Bidirectional"}
           \/ d \in FRS /\ e.subscriberStation = s /\ e.kind.direction \in {up, "Bidirectional"}
    BY <1>1, <1>4 DEF LeadingTo
  <2>2. e \in Rows(d)
    BY <1>2, <2>1
  <2>3. d \in AP => (s \in {e.remoteStation, e.subscriberStation} => e.subscriberStation = s)
    BY <1>1, <2>2, ServedDirectly
  <2> HIDE DEF e
  <2>4. /\ e.baseStation # e.subscriberStation
        /\ e.baseStation \in AP \cup FRS
        /\ d \in {e.baseStation, e.subscriberStation}
        /\ e \in Rows(e.baseStation) /\ e \in Rows(e.subscriberStation)
    BY <1>4, <2>2, HopEnds DEF e
  <2>5. e \in Rows(s)
    BY <2>1, <2>3, <2>4
  <2>6. PICK i \in DOMAIN table[s] : table[s][i] = e
    BY <1>2, <2>5
  <2>7. i \in LeadingTo(table[s], TypeOf(s), d, down, up)
    <3>1. CASE e.subscriberStation = s /\ e.kind.direction \in {up, "Bidirectional"}
      <4>1. e.baseStation = d
        BY <2>4, <3>1
      <4> QED BY <1>1, <2>6, <3>1, <4>1 DEF LeadingTo
    <3>2. CASE e.baseStation = s /\ e.kind.direction \in {down, "Bidirectional"}
      <4>1. e.subscriberStation = d /\ s \in FRS
        BY <1>1, <2>4, <3>2
      <4> QED BY <1>1, <2>6, <3>2, <4>1 DEF LeadingTo
    <3> QED BY <2>1, <2>3, <3>1, <3>2
  <2> QED BY <2>6, <2>7 DEF e
<1> QED BY <1>3, <1>4

\* What one end of a hop sends on is what the other end receives on.
LEMMA OutgoingHolds == PathInv => OutgoingIsIncoming
<1> DEFINE cids(x, S) == {table[x][i].cid : i \in S} \ {0}
<1> SUFFICES ASSUME PathInv, NEW s \in Station, NEW d \in Station,
                    s # d, OfBase(table[s], d) \ WithID(table[s], 0) # {}
             PROVE  /\ cids(s, Outgoing(table[s], TypeOf(s), d))
                       = cids(d, Incoming(table[d], TypeOf(d), s))
                    /\ cids(d, Outgoing(table[d], TypeOf(d), s))
                       = cids(s, Incoming(table[s], TypeOf(s), d))
  BY DEF OutgoingIsIncoming
<1>1. PICK n \in OfBase(table[s], d) : n \notin WithID(table[s], 0)
  OBVIOUS
<1> DEFINE c == table[s][n]
<1>2. c \in Rows(s) /\ c.baseStation = d /\ c.cid # 0
  BY <1>1, WithIDIs DEF OfBase, Rows, Range
<1> HIDE DEF c
<1>3. ASSUME NEW down \in Direction, NEW up \in Direction
      PROVE  cids(s, LeadingTo(table[s], TypeOf(s), d, down, up))
             = cids(d, LeadingTo(table[d], TypeOf(d), s, up, down))
  <2> DEFINE L == LeadingTo(table[s], TypeOf(s), d, down, up)
             M == LeadingTo(table[d], TypeOf(d), s, up, down)
  <2>1. /\ \A i \in L : table[s][i].cid # 0 => \E j \in M : table[d][j] = table[s][i]
        /\ \A j \in M : table[d][j].cid # 0 => \E i \in L : table[s][i] = table[d][j]
    BY <1>2, LeadingAgrees
  <2> HIDE DEF L, M
  <2>2. cids(s, L) = cids(d, M)
    BY <2>1
  <2> QED BY <2>2 DEF L, M
<1> HIDE DEF cids
<1>4. "Downlink" \in Direction /\ "Uplink" \in Direction
  BY DEF Direction
<1> QED BY <1>3, <1>4 DEF Outgoing, Incoming

\* A row's user, by where the row leads.
LEMMA UserIs ==
  ASSUME NEW s \in Station, NEW i \in DOMAIN table[s], PathInv
  PROVE  /\ table[s][i] \in Rows(s)
         /\ table[s][i].baseStation = s => User(s, i) = table[s][i].subscriberStation
         /\ table[s][i].baseStation # s => /\ User(s, i) = table[s][i].baseStation
                                           /\ table[s][i].subscriberStation = s
         /\ User(s, i) # s /\ User(s, i) \in Station
<1> DEFINE c == table[s][i]
<1>1. c \in Rows(s)
  BY DEF Rows, Range
<1> HIDE DEF c
<1>2. /\ c.baseStation \in AP \cup FRS /\ c.baseStation \in Station
      /\ c.subscriberStation \in Station \ AP
      /\ c.baseStation # c.subscriberStation
      /\ s = c.baseStation \/ s = c.subscriberStation
  BY <1>1, HopEnds
<1>3. User(s, i) = IF s \in AP \/ (s \in FRS /\ c.baseStation = s)
                     THEN c.subscriberStation ELSE c.baseStation
  BY DEF User, c
<1> QED BY <1>1, <1>2, <1>3 DEF c

\* The connections of a user lead back to that user.
LEMMA RoundTripHolds == PathInv => ConnectionsRoundTrip
<1> SUFFICES ASSUME PathInv, NEW s \in Station, NEW u \in Users(s)
             PROVE  {c.cid : c \in Range(ConnectionsForUser(s, u))}
                    = CIDsOf(s, {i \in DOMAIN table[s] : User(s, i) = u})
  BY DEF ConnectionsRoundTrip
<1> DEFINE t == table[s]
           Out == Outgoing(t, TypeOf(s), u)
           In  == Incoming(t, TypeOf(s), u)
<1>1. t \in Seq(Connection) /\ Out \in SUBSET (DOMAIN t) /\ In \in SUBSET (DOMAIN t)
  BY RowsAre DEF PathInv, IInv, Outgoing, Incoming, LeadingTo
<1>2. Range(ConnectionsForUser(s, u)) = {t[i] : i \in Out \cup In}
  <2> HIDE DEF Out, In, t
  <2>1. /\ Select(t, Out) \in Seq(Connection) /\ Range(Select(t, Out)) = {t[i] : i \in Out}
        /\ Select(t, In) \in Seq(Connection) /\ Range(Select(t, In)) = {t[i] : i \in In}
    BY <1>1, SelectRange
  <2>2. Range(Select(t, Out) \o Select(t, In)) = {t[i] : i \in Out} \cup {t[i] : i \in In}
    BY <2>1, RangeOfConcat
  <2>3. ConnectionsForUser(s, u) = Select(t, Out) \o Select(t, In)
    BY DEF ConnectionsForUser, Out, In, t
  <2> QED BY <2>2, <2>3
<1>3. u \in Station /\ u # s
  BY UserIs DEF Users
<1>4. \A i \in DOMAIN t : /\ t[i].kind.direction \in Direction
                          /\ t[i] \in Rows(s)
  BY <1>1, UserIs, HopEnds DEF Connection, Kind
<1>5. ASSUME NEW i \in DOMAIN t
      PROVE  i \in Out \cup In <=> \/ s \in AP /\ u \in {t[i].remoteStation, t[i].subscriberStation}
                                   \/ s \notin AP /\ t[i].baseStation = u
                                   \/ s \in FRS /\ t[i].subscriberStation = u
  <2>1. t[i].kind.direction \in {"Downlink", "Uplink", "Bidirectional"}
    BY <1>4 DEF Direction
  <2>2. /\ TypeOf(s) = "AP" <=> s \in AP
        /\ TypeOf(s) = "FRS" <=> s \in FRS
        /\ TypeOf(s) \in {"UT", "FRS"} <=> s \notin AP
    BY StationAssumption DEF TypeOf
  <2> HIDE DEF t
  <2>3. /\ Out = LeadingTo(t, TypeOf(s), u, "Downlink", "Uplink")
        /\ In = LeadingTo(t, TypeOf(s), u, "Uplink", "Downlink")
    BY DEF Outgoing, Incoming
  <2> HIDE DEF Out, In
  <2> QED BY <2>1, <2>2, <2>3 DEF LeadingTo
<1>6. ASSUME NEW i \in DOMAIN t
      PROVE  i \in Out \cup In <=> User(s, i) = u
  <2> DEFINE c == t[i]
  <2>1. /\ c \in Rows(s)
        /\ c.baseStation = s => User(s, i) = c.subscriberStation
        /\ c.baseStation # s => User(s, i) = c.baseStation /\ c.subscriberStation = s
    BY UserIs
  <2>2. c.baseStation # c.subscriberStation /\ c.baseStation \in AP \cup FRS
        /\ c.subscriberStation \notin AP
    BY <2>1, HopEnds
  <2>3. CASE s \in AP
    \* u is the subscriber of some connection of s
    <3>1. PICK j \in DOMAIN t : User(s, j) = u
      BY DEF Users
    <3>2. t[j] \in Rows(s) /\ t[j].baseStation = s /\ t[j].subscriberStation = u
      <4>1. t[j] \in Rows(s) /\ t[j].subscriberStation # s
        BY <1>4, <2>3, HopEnds
      <4> QED BY <3>1, <4>1, UserIs
    <3>3. t[j] \in Rows(u)
      BY <1>3, <3>2, HopEnds
    <3>4. c.remoteStation = u => c.subscriberStation = u
      BY <1>3, <2>1, <2>3, <3>2, <3>3, ServedDirectly
    <3>5. c.baseStation = s
      BY <2>1, <2>2, <2>3
    <3> HIDE DEF Out, In, t
    <3>6. i \in Out \cup In <=> u \in {c.remoteStation, c.subscriberStation}
      BY <1>5, <2>3, StationAssumption
    <3> QED BY <2>1, <3>4, <3>5, <3>6
  <2>4. CASE s \notin AP
    <3> HIDE DEF Out, In, t
    <3>1. i \in Out \cup In <=> c.baseStation = u \/ (s \in FRS /\ c.subscriberStation = u)
      BY <1>5, <2>4
    <3> QED BY <1>3, <2>1, <2>2, <2>4, <3>1
  <2> QED BY <2>3, <2>4
<1>7. Out \cup In = {i \in DOMAIN t : User(s, i) = u}
  <2> HIDE DEF Out, In, t
  <2> QED BY <1>1, <1>6
<1>8. {c.cid : c \in {t[i] : i \in Out \cup In}} = CIDsOf(s, Out \cup In)
  <2> HIDE DEF Out, In
  <2> QED BY DEF CIDsOf
<1> HIDE DEF Out, In, t
<1>9. {c.cid : c \in Range(ConnectionsForUser(s, u))} = CIDsOf(s, Out \cup In)
  BY <1>2, <1>8
<1> QED BY <1>7, <1>9 DEF t

\* A user below has a basic connection.
LEMMA FilterHolds == PathInv => FilterDefined
<1> SUFFICES ASSUME PathInv, NEW s \in AP \cup FRS, NEW u \in Users(s),
                    OfSubscriber(table[s], u) # {}
             PROVE  Listening(s, u)
  BY DEF FilterDefined
<1>1. s \in Station
  BY StationAssumption
<1>2. u # s
  BY <1>1, UserIs DEF Users
<1>3. PICK i \in DOMAIN table[s] : table[s][i].subscriberStation = u
  BY DEF OfSubscriber
<1>4. table[s][i] \in Rows(s) /\ table[s][i].cid # 0
  BY <1>1, <1>2, <1>3, UserIs, HopEnds
<1>5. PICK b \in Rows(s) : b.kind = Basic /\ b.subscriberStation = u
  BY <1>1, <1>3, <1>4 DEF PathInv, HopsShared
<1> DEFINE S == {j \in DOMAIN table[s] : /\ table[s][j].subscriberStation = u
                                         /\ table[s][j].kind.type = "Basic"}
<1>6. S # {} /\ S \in SUBSET Nat
  <2>1. PICK j \in DOMAIN table[s] : table[s][j] = b
    BY <1>1, RowsAre DEF PathInv, IInv
  <2>2. DOMAIN table[s] \subseteq Nat
    BY <1>1, RowsAre DEF PathInv, IInv
  <2> QED BY <1>5, <2>1, <2>2 DEF Basic, KindOf
<1> HIDE DEF S
<1>7. FirstOf(table[s], S) # {}
  BY <1>6, FirstOfFinds
<1> QED BY <1>7 DEF Listening, BasicForStation, S

\* A user below is served in a data class or with signaling, never both.
LEMMA ClassHolds == PathInv => ClassOrSignaling
<1> SUFFICES ASSUME PathInv, NEW s \in AP \cup FRS
             PROVE  LET below == {u \in Users(s) : OfSubscriber(table[s], u) # {}} IN
                    /\ below = UNION {FilterReachable(s, below, q) : q \in QoSCategory}
                    /\ \A q \in DataQoS : FilterReachable(s, below, q)
                                            \cap FilterReachable(s, below, "Signaling") = {}
  BY DEF ClassOrSignaling
<1> DEFINE below == {u \in Users(s) : OfSubscriber(table[s], u) # {}}
           classes(u) == {table[s][i].kind.qos : i \in OfSubscriber(table[s], u)}
<1>1. \A i \in DOMAIN table[s] : table[s][i].kind.qos \in QoSCategory
  BY UserIs, HopEnds, StationAssumption DEF Connection, Kind
<1>2. /\ QoSCategory = DataQoS \cup {"Signaling"} /\ NoQoS \notin QoSCategory
      /\ "Signaling" \notin DataQoS
  BY DEF QoSCategory, DataQoS, NoQoS
<1>3. \A u \in below : classes(u) \subseteq QoSCategory /\ classes(u) # {}
  BY <1>1 DEF OfSubscriber
<1>4. ASSUME NEW q \in QoSCategory, NEW u
      PROVE  u \in FilterReachable(s, below, q)
             <=> u \in below /\ q \in classes(u) /\ (q = "Signaling" => classes(u) = {"Signaling"})
  <2> HIDE DEF below
  <2>1. q # NoQoS
    BY <1>2
  <2> QED BY <2>1 DEF FilterReachable, FilterQoSbased
<1> HIDE DEF below, classes
<1>5. ASSUME NEW u \in below
      PROVE  \E q \in QoSCategory : u \in FilterReachable(s, below, q)
  <2>1. CASE \E q \in classes(u) : q # "Signaling"
    BY <1>3, <1>4, <2>1
  <2>2. CASE \A q \in classes(u) : q = "Signaling"
    <3>1. classes(u) = {"Signaling"} /\ "Signaling" \in QoSCategory
      BY <1>2, <1>3, <2>2
    <3> QED BY <1>4, <3>1
  <2> QED BY <2>1, <2>2
<1>6. below = UNION {FilterReachable(s, below, q) : q \in QoSCategory}
  BY <1>4, <1>5
<1>7. ASSUME NEW q \in DataQoS
      PROVE  FilterReachable(s, below, q) \cap FilterReachable(s, below, "Signaling") = {}
  <2>1. q \in QoSCategory /\ "Signaling" \in QoSCategory /\ q # "Signaling"
    BY <1>2
  <2> QED BY <1>4, <2>1
<1> QED BY <1>6, <1>7 DEF below

\* A data connection has the one priority of its class.
LEMMA PriorityHolds == PathInv => PriorityOnce
<1> SUFFICES ASSUME PathInv, NEW s \in Station, NEW isDL \in BOOLEAN,
                    NEW i \in DataOf(table[s], IF isDL THEN "Downlink" ELSE "Uplink")
             PROVE  {q \in Priorities : table[s][i].cid \in ConnectionsForPriority(s, isDL, q)}
                    = PriorityForConnection(s, table[s][i].cid)
  BY DEF PriorityOnce
<1> DEFINE t   == table[s]
           qos == t[i].kind.qos
           dir == IF isDL THEN "Downlink" ELSE "Uplink"
<1>1. i \in DOMAIN t /\ i \in DataOf(t, dir)
  BY DEF DataOf
<1>2. qos \in Priorities
  BY <1>1, UserIs, HopEnds DEF Connection, Kind, Priorities
<1>3. \A j \in DOMAIN t : t[j].cid = t[i].cid => j = i
  BY <1>1 DEF PathInv, IInv, CIDsUnique
<1>4. PriorityForConnection(s, t[i].cid) = {qos}
  <2>1. WithID(t, t[i].cid) = {i}
    BY <1>1, <1>3, WithIDIs
  <2> QED BY <2>1 DEF PriorityForConnection
<1>5. ASSUME NEW q
      PROVE  t[i].cid \in ConnectionsForPriority(s, isDL, q) <=> q = qos
  <2>1. i \in AllData(t, dir, qos)
    BY <1>1 DEF AllData
  <2>2. \A d : AllData(t, d, q) \subseteq {j \in DOMAIN t : t[j].kind.qos = q}
    BY DEF AllData, DataOf
  <2>3. ConnectionsForPriority(s, isDL, q)
        = CIDsOf(s, AllData(t, "Downlink", q) \cup AllData(t, dir, q))
    BY DEF ConnectionsForPriority
  <2>4. ASSUME t[i].cid \in ConnectionsForPriority(s, isDL, q) PROVE q = qos
    <3>1. PICK j \in AllData(t, "Downlink", q) \cup AllData(t, dir, q) : t[j].cid = t[i].cid
      BY <2>3, <2>4 DEF CIDsOf
    <3>2. j \in DOMAIN t /\ t[j].kind.qos = q
      BY <2>2, <3>1
    <3> QED BY <1>3, <3>1, <3>2
  <2>5. ASSUME q = qos PROVE t[i].cid \in ConnectionsForPriority(s, isDL, q)
    <3> HIDE DEF dir
    <3>1. i \in AllData(t, dir, q)
      BY <2>1, <2>5
    <3> QED BY <2>3, <3>1 DEF CIDsOf
  <2> QED BY <2>4, <2>5
<1> HIDE DEF t, qos, dir
<1>6. {q \in Priorities : t[i].cid \in ConnectionsForPriority(s, isDL, q)} = {qos}
  BY <1>2, <1>5
<1> QED BY <1>4, <1>6 DEF t

\* The registry's lookups agree with the tables.
LEMMA RegistryHolds == PathInv => RegistryAgrees
BY OutgoingHolds, RoundTripHolds, FilterHolds, ClassHolds, PriorityHolds DEF RegistryAgrees

---------------------------------------------------------------------------
(* Up the ranging connections: the cell a station reports.                 *)

\* Every station on the way up has drawn some CID before those below it.
Climbs ==
  \A s \in Station \ AP : \A c \in Rows(s) :
    c.cid # 0 /\ c.subscriberStation = s =>
      \/ c.baseStation \in AP
      \/ \E e \in Rows(c.baseStation) :
           e.cid # 0 /\ e.subscriberStation = c.baseStation /\ e.cid < c.cid

\* An association that begins adds no numbered connection.
LEMMA AssociateToRows ==
  ASSUME NEW s \in FRS \cup UT, NEW d \in AP \cup FRS, TypeOK, AssociateTo(s, d)
  PROVE  \A x \in Station : /\ Rows(x) \subseteq Rows(x)'
                            /\ \A c \in Rows(x)' : c.cid # 0 => c \in Rows(x)
<1> DEFINE row == RangingTo(s, d)
<1>1. s \in Station /\ d \in Station /\ row.cid = 0
  BY StationAssumption DEF RangingTo
<1>2. row \in Connection
  BY <1>1 DEF RangingTo, Connection, Ranging, KindOf, Kind, ConnectionType, Direction,
              QoSCategory
<1> HIDE DEF row
<1>3. CASE UNCHANGED table
  BY <1>3 DEF Rows
<1>4. CASE table' = [table EXCEPT ![s] = Append(@, row)]
  <2>1. \A x \in Station : x # s => Rows(x)' = Rows(x)
    BY <1>4 DEF Rows, TypeOK
  <2>2. table'[s] = Append(table[s], row) /\ table[s] \in Seq(Connection)
    BY <1>1, <1>4 DEF TypeOK
  <2>3. /\ table'[s] \in Seq(Connection) /\ Len(table'[s]) = Len(table[s]) + 1
        /\ \A i \in 1..Len(table[s]) : table'[s][i] = table[s][i]
        /\ table'[s][Len(table[s]) + 1] = row
    BY <1>2, <2>2, AppendProperties
  <2>4. /\ DOMAIN table[s] = 1..Len(table[s]) /\ Len(table[s]) \in Nat
        /\ DOMAIN table'[s] = 1..(Len(table[s]) + 1)
    BY <2>2, <2>3, LenProperties
  <2>5. Rows(s)' = Rows(s) \cup {row}
    BY <2>3, <2>4 DEF Rows, Range
  <2> QED BY <1>1, <2>1, <2>5
<1> QED BY <1>3, <1>4 DEF AssociateTo, row

\* Every step of the system keeps the order of identifiers on the way up.
LEMMA ClimbsStep == PathInv /\ Climbs /\ [Next]_vars => Climbs'
<1> SUFFICES ASSUME PathInv, Climbs, [Next]_vars,
                    NEW s \in Station \ AP, NEW c \in Rows(s)',
                    c.cid # 0, c.subscriberStation = s
             PROVE  \/ c.baseStation \in AP
                    \/ \E e \in Rows(c.baseStation)' :
                         e.cid # 0 /\ e.subscriberStation = c.baseStation /\ e.cid < c.cid
  BY DEF Climbs
<1>1. ASSUME \A x \in Station : Rows(x) \subseteq Rows(x)', c \in Rows(s)
      PROVE  \/ c.baseStation \in AP
             \/ \E e \in Rows(c.baseStation)' :
                  e.cid # 0 /\ e.subscriberStation = c.baseStation /\ e.cid < c.cid
  <2>1. c.baseStation \in Station
    BY <1>1, HopEnds
  <2> QED BY <1>1, <2>1 DEF Climbs
<1>2. CASE UNCHANGED table
  BY <1>1, <1>2 DEF Rows
<1>3. ASSUME NEW x \in FRS \cup UT, NEW d \in AP \cup FRS, AssociateTo(x, d)
      PROVE  (\A y \in Station : Rows(y) \subseteq Rows(y)') /\ c \in Rows(s)
  BY <1>3, AssociateToRows DEF PathInv, IInv
<1>4. CASE Hop
  <2>1. IInv /\ CallBuilds /\ Attached /\ call.pc = "climb"
    BY <1>4, HopContext DEF PathInv
  <2>2. CASE c \in Rows(s)
    BY <1>1, <1>4, <2>1, <2>2, HopGrows
  <2>3. CASE c \in NewRows
    <3>1. c.baseStation = call.parent /\ c.cid >= First
      BY <1>4, <2>1, <2>3, HopNumbers DEF NewRows, HopRow
    <3>2. PICK p \in Station : p = call.parent
      BY <1>4, <2>1, HopContext
    <3>3. CASE p \notin AP
      <4>1. cell[p] = call.ask /\ call.ask # NoStation /\ First \in Nat
        BY <1>4, <2>1, <3>2, HopContext
      <4>2. PICK e \in Rows(p) : e.kind = Basic /\ e.subscriberStation = p
        BY <2>1, <3>3, <4>1 DEF Attached
      <4>3. e.cid # 0 /\ e.cid < First /\ e.cid \in Nat /\ c.cid \in Nat
        <5>1. e.cid # 0
          BY <2>1, <4>2 DEF IInv, RowsOK, Basic, KindOf
        <5>2. e \in Connection /\ c \in Connection
          BY <1>4, <2>1, <2>3, HopGrows, HopNumbers
        <5> QED BY <1>4, <2>1, <4>1, <5>1, <5>2, HopNumbers DEF Connection
      <4>4. e \in Rows(p)'
        BY <1>4, <2>1, HopGrows
      <4> QED BY <3>1, <3>2, <4>1, <4>2, <4>3, <4>4
    <3> QED BY <3>1, <3>2, <3>3
  <2> QED BY <1>4, <2>1, <2>2, <2>3, HopGrows
<1> QED BY <1>1, <1>2, <1>3, <1>4 DEF Next, vars, Construct, Climb

\* A station on the way up got identifiers before those below it: the way ends.
THEOREM ClimbsInvariance == Spec => []Climbs
<1>1. Init => Climbs
  BY StationAssumption DEF Init, Climbs, Rows, Range
<1> QED BY <1>1, ClimbsStep, PathInvariance, PTL DEF Spec

\* The recursion CellID is defined by has a solution at every depth.
Up(s) == {table[s][i].baseStation : i \in WithID(table[s], 0)}
UpStep(f, n) ==
  [s \in Station |-> IF s \in AP THEN {s}
                     ELSE IF n = 0 THEN {} ELSE UNION {f[n - 1][d] : d \in Up(s)}]

\* By the least number for which there would be none.
LEMMA UpExists ==
  ASSUME NEW n \in Nat
  PROVE  \E f : f = [m \in 0..n |-> UpStep(f, m)]
<1> DEFINE Solved(m) == \E f : f = [l \in 0..m |-> UpStep(f, l)]
           T == {m \in Nat : ~ Solved(m)}
<1> SUFFICES T = {}
  OBVIOUS
<1> SUFFICES ASSUME T # {} PROVE FALSE
  OBVIOUS
<1>1. PICK x \in T : \A y \in T : x <= y
  <2> HIDE DEF T
  <2>1. T \subseteq Nat
    BY DEF T
  <2> QED BY <2>1, LeastExists
<1>2. CASE x = 0
  <2> DEFINE f == [l \in 0..0 |-> [s \in Station |-> IF s \in AP THEN {s} ELSE {}]]
  <2>1. f = [l \in 0..0 |-> UpStep(f, l)]
    BY DEF UpStep
  <2> QED BY <1>2, <2>1
<1>3. CASE x # 0
  <2>1. x \in Nat /\ x - 1 \in Nat /\ ~ (x <= x - 1)
    BY <1>3
  <2>2. Solved(x - 1)
    BY <1>1, <2>1
  <2>3. PICK f : f = [l \in 0..(x - 1) |-> UpStep(f, l)]
    BY <2>2
  <2> DEFINE g == [l \in 0..x |-> IF l = x THEN UpStep(f, x) ELSE f[l]]
  <2>4. \A l \in 0..x : l # x => l \in 0..(x - 1)
    BY <2>1
  <2>5. \A l \in 0..x : l # 0 => l - 1 \in 0..x /\ l - 1 # x /\ g[l - 1] = f[l - 1]
    BY <2>1
  <2>6. ASSUME NEW l \in 0..x PROVE g[l] = UpStep(g, l)
    <3>1. UpStep(g, l) = UpStep(f, l)
      BY <2>5 DEF UpStep
    <3>2. l # x => f[l] = UpStep(f, l)
      BY <2>3, <2>4
    <3> QED BY <3>1, <3>2
  <2>7. g = [l \in 0..x |-> UpStep(g, l)]
    BY <2>6
  <2> HIDE DEF g
  <2>8. Solved(x)
    BY <2>7
  <2> QED BY <2>8
<1> QED BY <1>2, <1>3

\* The stations that have drawn a CID of their own no later than s has.
Own(s) == {c \in Rows(s) : c.cid # 0 /\ c.subscriberStation = s}
Earlier(s) ==
  {t \in Station \ AP : Own(t) # {} /\ \A c \in Own(s) : \E e \in Own(t) : e.cid <= c.cid}

\* A station in a cell leads up to one base station, of the same cell, and
\* unless that is an access point fewer stations have drawn before it.
LEMMA UpIsOne ==
  ASSUME NEW s \in Station \ AP, PathInv, Climbs, cell[s] # NoStation
  PROVE  /\ Earlier(s) # {}
         /\ \E b \in Station : /\ Up(s) = {b} /\ cell[b] = cell[s]
                               /\ b \notin AP =>
                                    Cardinality(Earlier(b)) < Cardinality(Earlier(s))
<1>1. IInv /\ Attached
  BY DEF PathInv
<1>2. PICK r \in Rows(s) : r.cid = 0
  BY <1>1 DEF Attached
<1>3. PICK c \in Rows(s) : c.kind = Basic /\ c.subscriberStation = s
  BY <1>1 DEF Attached
<1> DEFINE b == r.baseStation
<1>4. r.subscriberStation = s /\ b \in Station
  BY <1>2, HopEnds
<1>5. \A d \in Rows(s) : d.subscriberStation = s => d.baseStation = b
  BY <1>1, <1>4 DEF Attached
<1> HIDE DEF b
<1>6. Up(s) = {b}
  <2>1. \A i \in WithID(table[s], 0) : table[s][i].baseStation = b
    <3>1. \A i \in WithID(table[s], 0) : i \in DOMAIN table[s] /\ table[s][i].cid = 0
      BY WithIDIs
    <3>2. \A i \in DOMAIN table[s] : table[s][i] \in Rows(s)
      BY DEF Rows, Range
    <3> QED BY <1>5, <3>1, <3>2, HopEnds
  <2>2. \E i \in WithID(table[s], 0) : TRUE
    <3>1. PICK i \in DOMAIN table[s] : table[s][i] = r
      BY <1>1, RowsAre DEF IInv
    <3> QED BY <1>2, <3>1, WithIDIs
  <2> QED BY <2>1, <2>2 DEF Up
<1>7. c.cid # 0 /\ c.baseStation = b
  BY <1>1, <1>3, <1>5 DEF IInv, RowsOK, Basic, KindOf
<1>8. cell[b] = cell[s]
  BY <1>1, <1>7 DEF IInv, RowsOK
<1>9. \A t \in Station : \A d \in Own(t) : d.cid \in Nat /\ d \in Rows(t) /\ d.cid # 0
                                           /\ d.subscriberStation = t
  BY HopEnds DEF Own, Connection
<1>10. c \in Own(s) /\ s \in Earlier(s)
  <2>1. \A d \in Own(s) : d.cid <= d.cid
    BY <1>9
  <2> QED BY <1>3, <1>7, <2>1 DEF Own, Earlier
<1>11. ASSUME b \notin AP
       PROVE  Cardinality(Earlier(b)) < Cardinality(Earlier(s))
  <2>1. \A d \in Own(s) : \E e \in Own(b) : e.cid < d.cid
    <3> SUFFICES ASSUME NEW d \in Own(s) PROVE \E e \in Own(b) : e.cid < d.cid
      OBVIOUS
    <3>1. d \in Rows(s) /\ d.cid # 0 /\ d.subscriberStation = s /\ d.baseStation = b
      BY <1>5, <1>9
    <3> QED BY <1>11, <3>1 DEF Climbs, Own
  <2>2. Earlier(b) \subseteq Earlier(s)
    <3> SUFFICES ASSUME NEW t \in Earlier(b), NEW d \in Own(s)
                 PROVE  \E f \in Own(t) : f.cid <= d.cid
      BY DEF Earlier
    <3>1. PICK e \in Own(b) : e.cid < d.cid
      BY <2>1
    <3>2. t \in Station
      BY DEF Earlier
    <3>3. PICK f \in Own(t) : f.cid <= e.cid
      BY DEF Earlier
    <3>4. d.cid \in Nat /\ e.cid \in Nat /\ f.cid \in Nat
      BY <1>4, <1>9, <3>2
    <3>5. f.cid <= d.cid
      BY <3>1, <3>3, <3>4
    <3> QED BY <3>5
  <2>3. s \notin Earlier(b)
    <3> SUFFICES ASSUME s \in Earlier(b) PROVE FALSE
      OBVIOUS
    <3> DEFINE N == {d.cid : d \in Own(s)}
    <3>1. N \in SUBSET Nat /\ N # {}
      BY <1>9, <1>10
    <3> HIDE DEF N
    <3>2. PICK x \in N : \A y \in N : x <= y
      BY <3>1, LeastExists
    <3>3. PICK d \in Own(s) : d.cid = x
      BY DEF N
    <3>4. PICK e \in Own(b) : e.cid < d.cid
      BY <2>1
    <3>5. PICK f \in Own(s) : f.cid <= e.cid
      BY DEF Earlier
    <3>6. x <= f.cid
      BY <3>2 DEF N
    <3>7. d.cid \in Nat /\ e.cid \in Nat /\ f.cid \in Nat
      BY <1>4, <1>9
    <3> QED BY <3>3, <3>4, <3>5, <3>6, <3>7
  <2>4. IsFiniteSet(Earlier(s))
    <3>1. Earlier(s) \subseteq Station
      BY DEF Earlier
    <3> QED BY <3>1, FS_Subset, StationAssumption
  <2>5. /\ IsFiniteSet(Earlier(b))
        /\ Cardinality(Earlier(b)) <= Cardinality(Earlier(s))
        /\ Cardinality(Earlier(b)) = Cardinality(Earlier(s)) => Earlier(s) = Earlier(b)
    BY <2>2, <2>4, FS_Subset
  <2>6. Cardinality(Earlier(b)) \in Nat /\ Cardinality(Earlier(s)) \in Nat
    BY <2>4, <2>5, FS_CardinalityType
  <2>7. Earlier(s) # Earlier(b)
    BY <1>10, <2>3
  <2> QED BY <2>5, <2>6, <2>7
<1> QED BY <1>4, <1>6, <1>8, <1>10, <1>11

\* Following the ranging connections up from a station ends at its access point.
LEMMA CellIDHolds ==
  ASSUME NEW s \in Station, PathInv, Climbs, cell[s] # NoStation
  PROVE  CellID[s] = {cell[s]}
<1> DEFINE N  == Cardinality(Station)
           at == CHOOSE f : f = [n \in 0..N |->
                   [x \in Station |-> IF x \in AP THEN {x}
                                      ELSE IF n = 0 THEN {}
                                      ELSE UNION {f[n - 1][d] :
                                             d \in {table[x][i].baseStation :
                                                      i \in WithID(table[x], 0)}}]]
<1>1. N \in Nat
  BY StationAssumption, FS_CardinalityType
<1>2. CellID = at[N]
  BY DEF CellID
<1>3. at = [n \in 0..N |-> UpStep(at, n)]
  <2>2. \E f : f = [n \in 0..N |->
              [x \in Station |-> IF x \in AP THEN {x}
                                 ELSE IF n = 0 THEN {}
                                 ELSE UNION {f[n - 1][d] :
                                        d \in {table[x][i].baseStation :
                                                 i \in WithID(table[x], 0)}}]]
    <3> HIDE DEF N
    <3>1. PICK f : f = [n \in 0..N |-> UpStep(f, n)]
      BY <1>1, UpExists
    <3> QED BY <3>1 DEF UpStep, Up
  <2>3. at = [n \in 0..N |->
               [x \in Station |-> IF x \in AP THEN {x}
                                  ELSE IF n = 0 THEN {}
                                  ELSE UNION {at[n - 1][d] :
                                         d \in {table[x][i].baseStation :
                                                  i \in WithID(table[x], 0)}}]]
    BY <2>2
  <2> HIDE DEF at
  <2> QED BY <2>3 DEF UpStep, Up
<1> HIDE DEF at, N
<1> DEFINE Found(n) == \A x \in Station :
             /\ cell[x] # NoStation
             /\ x \in AP \/ Cardinality(Earlier(x)) <= n
             => at[n][x] = {cell[x]}
           T == {n \in 0..N : ~ Found(n)}
<1>4. \A x \in Station : IsFiniteSet(Earlier(x)) /\ Cardinality(Earlier(x)) \in Nat
                         /\ Cardinality(Earlier(x)) <= N
  <2>1. \A x \in Station : Earlier(x) \subseteq Station
    BY DEF Earlier
  <2> QED BY <2>1, FS_Subset, FS_CardinalityType, StationAssumption DEF N
<1>5. T = {}
  <2> SUFFICES ASSUME T # {} PROVE FALSE
    OBVIOUS
  <2>1. PICK n \in T : \A m \in T : n <= m
    <3> HIDE DEF T
    <3>1. T \subseteq Nat
      BY <1>1 DEF T
    <3> QED BY <3>1, LeastExists
  <2>2. n \in 0..N /\ n \in Nat
    BY <1>1
  <2>3. ASSUME NEW x \in Station, cell[x] # NoStation,
               x \in AP \/ Cardinality(Earlier(x)) <= n
        PROVE  at[n][x] = {cell[x]}
    <3>1. at[n][x] = IF x \in AP THEN {x}
                     ELSE IF n = 0 THEN {} ELSE UNION {at[n - 1][d] : d \in Up(x)}
      <4>1. at[n] = UpStep(at, n)
        BY <1>3, <2>2
      <4>2. UpStep(at, n)[x] = IF x \in AP THEN {x}
                     ELSE IF n = 0 THEN {} ELSE UNION {at[n - 1][d] : d \in Up(x)}
        BY DEF UpStep
      <4> QED BY <4>1, <4>2
    <3>2. CASE x \in AP
      BY <3>1, <3>2 DEF PathInv, IInv, CellOK
    <3>3. CASE x \notin AP
      <4>1. Earlier(x) # {}
        BY <2>3, <3>3, UpIsOne
      <4>2. PICK b \in Station : /\ Up(x) = {b} /\ cell[b] = cell[x]
                                 /\ b \notin AP =>
                                      Cardinality(Earlier(b)) < Cardinality(Earlier(x))
        BY <2>3, <3>3, UpIsOne
      <4>3. Cardinality(Earlier(x)) # 0
        BY <1>4, <4>1, FS_EmptySet
      <4>4. n # 0 /\ n - 1 \in 0..N /\ ~ (n <= n - 1)
        <5>1. Cardinality(Earlier(x)) \in Nat /\ Cardinality(Earlier(x)) <= n
          BY <1>4, <2>3, <3>3
        <5> QED BY <1>1, <2>2, <4>3, <5>1
      <4>5. Found(n - 1)
        BY <2>1, <4>4
      <4>6. b \in AP \/ Cardinality(Earlier(b)) <= n - 1
        BY <1>4, <2>2, <2>3, <3>3, <4>2
      <4>7. at[n - 1][b] = {cell[x]}
        BY <2>3, <4>2, <4>5, <4>6
      <4>8. UNION {at[n - 1][d] : d \in Up(x)} = {cell[x]}
        BY <4>2, <4>7
      <4> QED BY <3>1, <3>3, <4>4, <4>8
    <3> QED BY <3>2, <3>3
  <2>4. Found(n)
    BY <2>3
  <2> QED BY <2>4
<1>6. Found(N)
  <2>1. N \in 0..N
    BY <1>1
  <2> QED BY <1>5, <2>1
<1> QED BY <1>2, <1>4, <1>6

\* So getCellID finds the cell that a joined station is in.
LEMMA CellIDAgreesHolds == PathInv /\ Climbs => CellIDAgrees
<1> SUFFICES ASSUME PathInv, Climbs, NEW s \in Station, life[s] = "joined"
             PROVE  CellID[s] = {cell[s]}
  BY DEF CellIDAgrees
<1>1. s \in AP => cell[s] = s
  BY DEF PathInv, IInv, CellOK
<1>2. s \notin AP => cell[s] \in AP
  BY DEF PathInv, ServedOnce
<1>3. cell[s] # NoStation
  BY <1>1, <1>2, StationAssumption
<1> QED BY <1>3, CellIDHolds

\* No connection is lost, no station leaves its cell.
LEMMA NothingIsLost ==
  ASSUME PathInv, [Next]_vars
  PROVE  /\ \A s \in Station : Rows(s) \subseteq Rows(s)'
         /\ \A s \in Station : cell[s] # NoStation => cell'[s] = cell[s]
         /\ \A s \in Station : life[s] = "joined" => life'[s] = "joined"
<1>1. IInv /\ TypeOK /\ (call.pc = "climb" => life[call.remote] = "constructed")
  BY DEF PathInv, IInv, CallBuilds
<1>2. ASSUME NEW x \in Station, Construct(x)
      PROVE  UNCHANGED <<table, cell>> /\ \A s \in Station : life[s] = "joined" => life'[s] = "joined"
  BY <1>1, <1>2 DEF Construct, TypeOK
<1>3. ASSUME NEW x \in FRS \cup UT, NEW d \in AP \cup FRS, AssociateTo(x, d)
      PROVE  UNCHANGED <<life, cell>> /\ \A s \in Station : Rows(s) \subseteq Rows(s)'
  <2>1. UNCHANGED <<life, cell>>
    BY <1>3 DEF AssociateTo
  <2> QED BY <1>1, <1>3, <2>1, AssociateToRows
<1>4. CASE Climb
  BY <1>4 DEF Climb, Rows
<1>5. CASE Hop
  <2>1. \A s \in Station : life[s] = "joined" => life'[s] = "joined"
    BY <1>1, <1>5, HopRest, HopContext DEF TypeOK
  <2> QED BY <1>1, <1>5, <2>1, HopGrows, HopRest
<1>6. CASE UNCHANGED vars
  BY <1>6 DEF vars, Rows
<1> QED BY <1>2, <1>3, <1>4, <1>5, <1>6 DEF Next, Rows

---------------------------------------------------------------------------
(* The theorems.                                                           *)

\* Both ends of a hop hold the same connections in every reachable state, so
\* getAllCIForBS of the one is getAllCIForSS of the other.
THEOREM EndpointsAlwaysAgree == Spec => []EndpointsAgree
BY PathInvariance, EndpointsHold, PTL

\* What a relay's RSRelayMapper joins always has the same owner and kind.
THEOREM MappingsAlwaysFaithful == Spec => []MappingsFaithful
<1>1. PathInv => MappingsFaithful
  BY DEF PathInv
<1> QED BY <1>1, PathInvariance, PTL

\* Between calls findMapping finds exactly one mapping for whatever a relay
\* may have to forward.
THEOREM RelaysAlwaysForward == Spec => []RelayedPathComplete
BY PathInvariance, RelayedHolds, PTL

\* However many relays lie between, an access point and a joined terminal
\* have one connection per class and direction for each other.
THEOREM OnePerClass == Spec => []OneConnectionPerQoS
BY PathInvariance, OneHolds, PTL

\* When stations wait for their targets no question for a CID fails.
THEOREM OrderedNeverFails == Spec => []NeverFails
<1>1. PathInv => NeverFails
  BY DEF PathInv
<1> QED BY <1>1, PathInvariance, PTL

\* The cell a joined station finds over its ranging connections is the one
\* whose counter its CIDs came from.
THEOREM CellIDAlwaysAgrees == Spec => []CellIDAgrees
BY PathInvariance, ClimbsInvariance, CellIDAgreesHolds, PTL

\* Two stations that share a connection are each other's user of it.
THEOREM UsersMutual == Spec => []UserIsMutual
BY PathInvariance, MutualHolds, PTL

\* What a scheduler asks its registry has the same answer at both ends.
THEOREM RegistryAlwaysAgrees == Spec => []RegistryAgrees
BY PathInvariance, RegistryHolds, PTL
==========================================================================
