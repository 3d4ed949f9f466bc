--------------------------- MODULE FrameProofs ---------------------------
(***************************************************************************)
(* Frame for any number of subscribers and any lengths of the phases, as   *)
(* long as they fit into the frame: the stations, which nobody             *)
(* synchronises, stay aligned, and an uplink slot is used only by the      *)
(* station it was granted to.                                              *)
(*                                                                         *)
(* The invariant reads the simulator's queue as a set of events and gives  *)
(* every station three clocks, which the queue determines: P, the ticks to *)
(* its next frame, T, those to its next activation, and W, the stations    *)
(* whose frame is about to start.  The order of the queue matters only for *)
(* events of the same instant: Tie says which of them come first.          *)
(***************************************************************************)
EXTENDS Frame, FiniteSetTheorems, FunctionTheorems, TLAPS

\* When the phases begin, counted from the start of the frame, and their end.
Starts ==
  << 0, HeadLength,
     HeadLength + DlMapLength,
     HeadLength + DlMapLength + UlMapLength,
     HeadLength + DlMapLength + UlMapLength + DlDataLength,
     HeadLength + DlMapLength + UlMapLength + DlDataLength + TtgLength,
     HeadLength + DlMapLength + UlMapLength + DlDataLength + TtgLength + UlDataLength,
     HeadLength + DlMapLength + UlMapLength + DlDataLength + TtgLength + UlDataLength
       + BwReqLength,
     HeadLength + DlMapLength + UlMapLength + DlDataLength + TtgLength + UlDataLength
       + BwReqLength + RangingLength >>

\* The frame the documentation promises: its phases take time and fit into
\* it, and it starts without a delay (FrameBuilder.py, frameStartupDelay).
FrameFits ==
  /\ StartupDelay = 0
  /\ TtgLength > 0 /\ BwReqLength > 0 /\ RangingLength > 0
  /\ Starts[End] <= FrameDuration

---------------------------------------------------------------------------
(* The order of events of one instant.                                     *)

Rank(e) ==
  IF e.what = "periodic" THEN 1
  ELSE IF e.what \in {"timeout", "finished"} THEN 2
  ELSE IF e.what = "trigger" THEN 3 ELSE 4

\* x may stand before y.
Tie(x, y) ==
  x.left = y.left =>
    Rank(x) <= Rank(y) /\ ~(x.who = y.who /\ x.what = "timeout" /\ y.what = "finished")

\* A station has one timer of each of these kinds.
Other(x, y) ==
  ~(x.who = y.who /\ x.what = y.what /\ x.what \in {"periodic", "trigger", "timeout"})

Ordered(q) ==
  \A i, j \in DOMAIN q : i < j =>
    q[i].left <= q[j].left /\ Tie(q[i], q[j]) /\ Other(q[i], q[j])

---------------------------------------------------------------------------
(* What the events E say of stations whose activations are act.            *)

Has(E, s, w) == \E x \in E : x.who = s /\ x.what = w

OnAir   == {"txStart", "txStop"}
Reports == OnAir \cup {"finished"}   \* what collectors schedule
Sent    == {"framehead", "dlmap", "ulmap", "dldata", "uldata"}

\* x and y are of the same transmission.
SameBurst(x, y) == x.who = y.who /\ x.phase = y.phase /\ x.slot = y.slot

\* An event is due in the phase it belongs to, a transmission before its end.
InTime(x, E, act, P, T, W) ==
  /\ x.what = "periodic" => x.left = P[x.who]
  /\ x.what = "trigger"  => x.left = 0 /\ x.who \in W
  /\ x.what = "timeout"  => x.left = T[x.who] /\ act[x.who] # End
  /\ x.what \in Reports  =>
       /\ x.phase \in Sent /\ act[x.who] # End /\ Phases[act[x.who]] = x.phase
       /\ x.left <= T[x.who]
  /\ x.what \in OnAir => x.left < T[x.who] /\ Sends(x.who, x.phase)
  /\ x.what = "txStart" =>
       \E y \in E : y.what = "txStop" /\ SameBurst(x, y) /\ y.left > x.left

\* Every station has the timers it needs.
HasTimers(E, act, W) ==
  \A s \in Station :
    /\ Has(E, s, "periodic")
    /\ s \in W => Has(E, s, "trigger")
    /\ act[s] # End => Has(E, s, "timeout")

\* The stations' frames begin together.
Together(P, W) ==
  /\ \A s, t \in Station : P[s] = P[t] \/ {P[s], P[t]} = {0, FrameDuration}
  /\ (\E t \in Station : P[t] = 0) => \A s \in Station : P[s] = FrameDuration => s \in W

\* Where a station is in its frame.
InPhase(s, act, P, T, W) ==
  IF s \in W
    THEN P[s] = FrameDuration /\ act[s] \in {8, End} /\ (act[s] = 8 => T[s] = 0)
    ELSE /\ act[s] = End => P[s] + Starts[End] <= FrameDuration
         /\ act[s] # End => /\ T[s] + FrameDuration = Starts[act[s] + 1] + P[s]
                            /\ T[s] <= Length[act[s]]

Runs(E, act, P, T, W) ==
  /\ \A x \in E : InTime(x, E, act, P, T, W)
  /\ HasTimers(E, act, W)
  /\ Together(P, W)
  /\ \A s \in Station : InPhase(s, act, P, T, W)

Clocks == [Station -> 0..FrameDuration] \* P
Timers == [Station -> Nat]              \* T

\* What is on the air will be taken off it, and is in its phase everywhere.
AirOK(E, act, air) ==
  \A t \in air :
    /\ t.phase \in Sent /\ Sends(t.who, t.phase)
    /\ \E y \in E : y.what = "txStop" /\ SameBurst(t, y)
    /\ \A s \in Station : act[s] # End /\ Phases[act[s]] = t.phase

\* The UL map on its way is the one of this frame, and subscribers that hold
\* a map of this frame, and their transmissions, go by it.
GrantsOK(E, act, air, g, own, may) ==
  /\ \A x \in E : x.what \in OnAir /\ x.phase = "ulmap" => x.map = g
  /\ \A x \in E : x.what \in OnAir /\ x.phase = "uldata" => g[x.slot] = x.who
  /\ \A t \in air : t.phase = "uldata" => g[t.slot] = t.who
  /\ \A s \in SS : may[s] /\ act[s] \in 3..8 => own[s] = {k \in Slot : g[k] = s}

\* There are clocks that agree with the queue.
Running(q, act) ==
  \E P \in Clocks, T \in Timers, W \in SUBSET Station : Runs(Range(q), act, P, T, W)

FrameInv ==
  /\ TypeOK /\ ~fault
  /\ \A s \in SS : upper[s] + queued[s] <= MaxQueue
  /\ Ordered(queue)
  /\ Running(queue, active)
  /\ AirOK(Range(queue), active, onAir)
  /\ GrantsOK(Range(queue), active, onAir, grants, granted, available)

---------------------------------------------------------------------------
(* The event queue.                                                        *)

\* A sequence over S: its domain and members.
LEMMA SeqFacts ==
  ASSUME NEW S, NEW q \in Seq(S)
  PROVE  /\ Len(q) \in Nat /\ DOMAIN q = 1..Len(q)
         /\ \A i \in DOMAIN q : q[i] \in S
<1>1. Len(q) \in Nat /\ DOMAIN q = 1..Len(q) /\ q \in [1..Len(q) -> S]
  OBVIOUS
<1> QED BY <1>1

\* The places of the events that are kept are 1, 2, 3 and so on, each taken.
LEMMA PlacesAre ==
  ASSUME NEW all \in Seq(Event), NEW kept \in SUBSET DOMAIN all
  PROVE  /\ Cardinality(kept) \in Nat
         /\ \A k \in 1..Cardinality(kept) : \E i \in kept : Place(all, kept, i) = k
         /\ \A i \in kept : Place(all, kept, i) \in 1..Cardinality(kept)
         /\ \A i, j \in kept : Place(all, kept, i) < Place(all, kept, j) <=>
              i # j /\ Ahead(all, i, j)
         /\ \A i, j \in kept : i # j => Place(all, kept, i) # Place(all, kept, j)
<1> DEFINE n == Cardinality(kept)
           upto(i) == {j \in kept : Ahead(all, j, i)}
           place(i) == Cardinality(upto(i))
<1>1. DOMAIN all = 1..Len(all) /\ Len(all) \in Nat
      /\ \A i \in DOMAIN all : all[i] \in Event /\ all[i].left \in Nat /\ i \in Nat
  <2>1. Len(all) \in Nat /\ DOMAIN all = 1..Len(all) /\ \A i \in DOMAIN all : all[i] \in Event
    BY SeqFacts
  <2>2. \A x \in Event : x.left \in Nat
    BY DEF Event
  <2> QED BY <2>1, <2>2
<1>2. IsFiniteSet(kept) /\ n \in Nat
  <2>1. IsFiniteSet(DOMAIN all)
    BY <1>1, FS_Interval
  <2> QED BY <2>1, FS_Subset, FS_CardinalityType
<1>3. \A i \in kept : IsFiniteSet(upto(i)) /\ place(i) \in 1..n /\ i \in upto(i)
  <2> TAKE i \in kept
  <2>1. upto(i) \in SUBSET kept
    OBVIOUS
  <2>2. IsFiniteSet(upto(i)) /\ place(i) \in Nat /\ place(i) <= n
    BY <1>2, <2>1, FS_Subset, FS_CardinalityType
  <2>3. i \in upto(i)
    BY <1>1 DEF Ahead
  <2>4. place(i) # 0
    BY <2>2, <2>3, FS_EmptySet
  <2> QED BY <1>2, <2>2, <2>3, <2>4
<1>4. \A i, j \in kept : i # j /\ Ahead(all, i, j) => place(i) < place(j)
  <2> SUFFICES ASSUME NEW i \in kept, NEW j \in kept, i # j, Ahead(all, i, j)
               PROVE  place(i) < place(j)
    OBVIOUS
  <2>1. \A k \in kept : Ahead(all, k, i) => Ahead(all, k, j)
    BY <1>1 DEF Ahead
  <2>2. ~Ahead(all, j, i)
    BY <1>1 DEF Ahead
  <2>3. upto(i) \in SUBSET upto(j) /\ j \notin upto(i) /\ j \in upto(j)
    BY <1>3, <2>1, <2>2
  <2>4. IsFiniteSet(upto(j))
    BY <1>3
  <2>5. place(i) <= place(j) /\ place(i) # place(j)
    <3> HIDE DEF upto
    <3> QED BY <2>3, <2>4, FS_Subset
  <2>6. place(i) \in Nat /\ place(j) \in Nat
    <3> HIDE DEF place, upto
    <3> QED BY <1>2, <1>3
  <2> HIDE DEF place, upto
  <2> QED BY <2>5, <2>6
<1>5. \A i, j \in kept : i # j => Ahead(all, i, j) \/ Ahead(all, j, i)
  BY <1>1 DEF Ahead
<1> HIDE DEF place, upto
<1>6. \A i \in kept : place(i) \in Nat
  BY <1>2, <1>3
<1>7. \A i, j \in kept : i # j => place(i) # place(j)
  BY <1>6, <1>4, <1>5
<1>8. \A i, j \in kept : place(i) < place(j) <=> i # j /\ Ahead(all, i, j)
  BY <1>6, <1>4, <1>5
<1>9. \A k \in 1..n : \E i \in kept : place(i) = k
  <2> DEFINE f == [i \in kept |-> place(i)]
  <2>1. f \in Injection(kept, 1..n)
    BY <1>3, <1>7 DEF Injection, IsInjective
  <2>2. IsFiniteSet(1..n) /\ Cardinality(1..n) = n
    BY <1>2, FS_Interval
  <2>3. f \in Surjection(kept, 1..n)
    <3> HIDE DEF f
    <3> QED BY <2>1, <2>2, FS_Injection
  <2> QED BY <2>3 DEF Surjection
<1>10. \A i \in kept : Place(all, kept, i) = place(i)
  BY DEF Place, place, upto
<1> QED BY <1>2, <1>3, <1>7, <1>8, <1>9, <1>10

\* Scheduling events of new timers: a queue is permuted and stays in order.
LEMMA PutAllIs ==
  ASSUME NEW q \in Seq(Event), NEW es \in Seq(Event),
         \A i \in DOMAIN q, j \in DOMAIN es : ~SameTimer(es[j], q[i])
  PROVE  /\ q \o es \in Seq(Event) /\ PutAll(q, es) \in Seq(Event)
         /\ \E at \in [DOMAIN PutAll(q, es) -> DOMAIN (q \o es)] :
              /\ \A k \in DOMAIN PutAll(q, es) : PutAll(q, es)[k] = (q \o es)[at[k]]
              /\ \A i \in DOMAIN (q \o es) : \E k \in DOMAIN PutAll(q, es) : at[k] = i
              /\ \A k, l \in DOMAIN PutAll(q, es) :
                   k < l => at[k] # at[l] /\ Ahead(q \o es, at[k], at[l])
<1> DEFINE all  == q \o es
           kept == Kept(q, es)
           n == Cardinality(kept)
           spot(k) == CHOOSE i \in kept : Place(all, kept, i) = k
           at == [k \in 1..n |-> spot(k)]
           r == PutAll(q, es)
<1>1. all \in Seq(Event) /\ DOMAIN all = 1..(Len(q) + Len(es)) /\ Len(q) \in Nat /\ Len(es) \in Nat
  OBVIOUS
<1>2. kept = DOMAIN all
  <2>1. DOMAIN q = 1..Len(q)
    BY SeqFacts
  <2> QED BY <1>1, <2>1 DEF Kept
<1>3. r = [k \in 1..n |-> all[spot(k)]]
  BY DEF PutAll
<1> HIDE DEF all, kept
<1>4. /\ n \in Nat
      /\ \A k \in 1..n : \E i \in kept : Place(all, kept, i) = k
      /\ \A i \in kept : Place(all, kept, i) \in 1..n
      /\ \A i, j \in kept : Place(all, kept, i) < Place(all, kept, j) <=>
           i # j /\ Ahead(all, i, j)
      /\ \A i, j \in kept : i # j => Place(all, kept, i) # Place(all, kept, j)
  <2>1. kept \in SUBSET DOMAIN all
    BY <1>2
  <2> QED BY <1>1, <2>1, PlacesAre
<1>5. \A k \in 1..n : spot(k) \in kept /\ Place(all, kept, spot(k)) = k
  BY <1>4
<1> HIDE DEF n, spot, r
<1>6. at \in [1..n -> DOMAIN all]
  BY <1>2, <1>5
<1>7. \A k \in 1..n : at[k] = spot(k) /\ at[k] \in kept /\ Place(all, kept, at[k]) = k
  BY <1>5
<1> HIDE DEF at
<1>8. DOMAIN r = 1..n /\ \A k \in 1..n : r[k] = all[at[k]]
  BY <1>3, <1>7
<1>9. \A k \in 1..n : r[k] \in Event
  BY <1>1, <1>6, <1>8, SeqFacts
<1>10. r \in Seq(Event)
  <2>1. r = [k \in 1..n |-> r[k]]
    BY <1>3, <1>8
  <2>2. r \in [1..n -> Event]
    BY <1>9, <2>1
  <2> QED BY <1>4, <2>2
<1>11. \A i \in DOMAIN all : \E k \in 1..n : at[k] = i
  BY <1>2, <1>4, <1>7
<1>12. \A k, l \in 1..n : k < l => at[k] # at[l] /\ Ahead(all, at[k], at[l])
  BY <1>4, <1>7
<1> QED BY <1>1, <1>6, <1>8, <1>10, <1>11, <1>12 DEF all, r

\* Scheduling keeps the queue in order, whatever is put into it may stand
\* behind what is there, and no timer is set twice.
LEMMA PutOrdered ==
  ASSUME NEW q \in Seq(Event), NEW es \in Seq(Event), Ordered(q),
         \A i \in DOMAIN q, j \in DOMAIN es :
           ~SameTimer(es[j], q[i]) /\ Tie(q[i], es[j]) /\ Other(q[i], es[j]),
         \A i, j \in DOMAIN es : i < j => Tie(es[i], es[j]) /\ Other(es[i], es[j])
  PROVE  /\ PutAll(q, es) \in Seq(Event)
         /\ Ordered(PutAll(q, es))
         /\ Range(PutAll(q, es)) = Range(q) \cup Range(es)
<1> DEFINE all == q \o es
           r   == PutAll(q, es)
<1>1. all \in Seq(Event) /\ r \in Seq(Event)
  BY PutAllIs
<1>2. PICK at \in [DOMAIN r -> DOMAIN all] :
        /\ \A k \in DOMAIN r : r[k] = all[at[k]]
        /\ \A i \in DOMAIN all : \E k \in DOMAIN r : at[k] = i
        /\ \A k, l \in DOMAIN r : k < l => at[k] # at[l] /\ Ahead(all, at[k], at[l])
  BY PutAllIs
<1>3. /\ Len(q) \in Nat /\ Len(es) \in Nat
      /\ DOMAIN q = 1..Len(q) /\ DOMAIN es = 1..Len(es)
      /\ DOMAIN all = 1..(Len(q) + Len(es))
      /\ \A i \in DOMAIN q : all[i] = q[i] /\ i \in DOMAIN all
      /\ \A i \in DOMAIN es : all[Len(q) + i] = es[i] /\ Len(q) + i \in DOMAIN all
  BY SeqFacts
<1>4. \A i \in DOMAIN all : i \in Nat /\ (i \in DOMAIN q \/ (i - Len(q) \in DOMAIN es /\ all[i] = es[i - Len(q)]))
  BY <1>3
<1>5. \A i \in DOMAIN all : all[i] \in Event /\ all[i].left \in Nat
  <2>1. \A x \in Event : x.left \in Nat
    BY DEF Event
  <2> QED BY <1>1, <2>1, SeqFacts
<1>6. ASSUME NEW i \in DOMAIN all, NEW j \in DOMAIN all, i < j
      PROVE  Tie(all[i], all[j]) /\ Other(all[i], all[j])
  <2>1. CASE j \in DOMAIN q
    <3>1. i \in DOMAIN q
      BY <1>3, <1>4, <1>6, <2>1
    <3>2. Tie(q[i], q[j]) /\ Other(q[i], q[j])
      BY <1>6, <2>1, <3>1 DEF Ordered
    <3> QED BY <1>3, <2>1, <3>1, <3>2
  <2>2. CASE j \notin DOMAIN q /\ i \in DOMAIN q
    <3>1. j - Len(q) \in DOMAIN es /\ all[j] = es[j - Len(q)] /\ all[i] = q[i]
      BY <1>3, <1>4, <2>2
    <3> QED BY <2>2, <3>1
  <2>3. CASE j \notin DOMAIN q /\ i \notin DOMAIN q
    <3>1. /\ j - Len(q) \in DOMAIN es /\ all[j] = es[j - Len(q)]
          /\ i - Len(q) \in DOMAIN es /\ all[i] = es[i - Len(q)]
      BY <1>4, <2>3
    <3>2. i - Len(q) < j - Len(q)
      BY <1>3, <1>4, <1>6
    <3> QED BY <3>1, <3>2
  <2> QED BY <2>1, <2>2, <2>3
<1> HIDE DEF all, r
<1>7. Ordered(r)
  <2> SUFFICES ASSUME NEW k \in DOMAIN r, NEW l \in DOMAIN r, k < l
               PROVE  r[k].left <= r[l].left /\ Tie(r[k], r[l]) /\ Other(r[k], r[l])
    BY DEF Ordered
  <2>1. /\ at[k] \in DOMAIN all /\ at[l] \in DOMAIN all /\ r[k] = all[at[k]] /\ r[l] = all[at[l]]
        /\ at[k] # at[l] /\ Ahead(all, at[k], at[l])
    BY <1>2
  <2>2. all[at[k]].left \in Nat /\ all[at[l]].left \in Nat /\ at[k] \in Nat /\ at[l] \in Nat
    BY <1>4, <1>5, <2>1
  <2>3. r[k].left <= r[l].left
    BY <2>1, <2>2 DEF Ahead
  <2>4. CASE at[k] < at[l]
    BY <1>6, <2>1, <2>3, <2>4
  <2>5. CASE at[l] < at[k]
    <3>1. all[at[k]].left < all[at[l]].left
      BY <2>1, <2>2, <2>5 DEF Ahead
    <3>2. Tie(r[k], r[l])
      BY <2>1, <2>2, <3>1 DEF Tie
    <3>3. Other(r[l], r[k])
      BY <1>6, <2>1, <2>5
    <3>4. Other(r[k], r[l])
      BY <3>3 DEF Other
    <3> QED BY <2>3, <3>2, <3>4
  <2> QED BY <2>1, <2>2, <2>4, <2>5
<1>8. Range(r) = Range(q) \cup Range(es)
  <2>1. \A x : x \in Range(r) => x \in Range(q) \cup Range(es)
    BY <1>2, <1>3, <1>4 DEF Range
  <2>2. \A x : x \in Range(q) => x \in Range(r)
    BY <1>2, <1>3 DEF Range
  <2>3. \A x : x \in Range(es) => x \in Range(r)
    BY <1>2, <1>3 DEF Range
  <2> QED BY <2>1, <2>2, <2>3
<1> QED BY <1>1, <1>7, <1>8 DEF r

\* A finite set listed as a sequence: every member once, nothing else.
LEMMA SetToSeqIs ==
  ASSUME NEW S, IsFiniteSet(S)
  PROVE  /\ SetToSeq(S) \in Seq(S)
         /\ Range(SetToSeq(S)) = S
         /\ \A i, j \in DOMAIN SetToSeq(S) : i # j => SetToSeq(S)[i] # SetToSeq(S)[j]
<1> DEFINE n == Cardinality(S)
           f == SetToSeq(S)
<1>1. n \in Nat /\ \E g \in [1..n -> S] : IsInjective(g)
  <2>1. n \in Nat /\ \E g : g \in Bijection(1..n, S)
    BY FS_CardinalityType DEF ExistsBijection
  <2> QED BY <2>1 DEF Bijection, Injection, IsInjective
<1>2. f \in [1..n -> S] /\ IsInjective(f)
  BY <1>1 DEF SetToSeq
<1> HIDE DEF f
<1>3. f \in Injection(1..n, S)
  BY <1>2 DEF Injection, IsInjective
<1>4. IsFiniteSet(1..n) /\ Cardinality(1..n) = n
  BY <1>1, FS_Interval
<1>5. f \in Surjection(1..n, S)
  BY <1>3, <1>4, FS_Injection
<1>6. Range(f) = S
  BY <1>2, <1>5 DEF Surjection, Range
<1>7. f \in Seq(S)
  BY <1>1, <1>2
<1> QED BY <1>2, <1>6, <1>7 DEF f, IsInjective

---------------------------------------------------------------------------
(* Events, phases and their lengths.                                       *)

\* The fields of an event.
LEMMA EventFields ==
  ASSUME NEW x \in Event
  PROVE  /\ x.left \in Nat /\ x.who \in Station
         /\ x.what \in {"periodic", "trigger", "timeout", "finished", "txStart", "txStop"}
         /\ x.phase \in Range(Phases) \cup {"any"}
         /\ x.slot \in Slot \cup {0} /\ x.map \in Schedule
BY DEF Event

\* An event made of its fields has them.
LEMMA EventOfIs ==
  ASSUME NEW l \in Nat, NEW s \in Station,
         NEW w \in {"periodic", "trigger", "timeout", "finished", "txStart", "txStop"},
         NEW p \in Range(Phases) \cup {"any"}, NEW k \in Slot \cup {0}, NEW m \in Schedule
  PROVE  LET e == EventOf(l, s, w, p, k, m) IN
         /\ e \in Event
         /\ e.left = l /\ e.who = s /\ e.what = w /\ e.phase = p /\ e.slot = k /\ e.map = m
BY DEF EventOf, Event

\* An event made without a transmission has the fields it was given.
LEMMA PlainIs ==
  ASSUME NEW l \in Nat, NEW s \in Station,
         NEW w \in {"periodic", "trigger", "timeout", "finished", "txStart", "txStop"},
         NEW p \in Range(Phases) \cup {"any"}
  PROVE  LET e == Plain(l, s, w, p) IN
         /\ e \in Event
         /\ e.left = l /\ e.who = s /\ e.what = w /\ e.phase = p
<1>1. NoGrant \in Schedule
  BY DEF NoGrant, Schedule
<1> QED BY <1>1 DEF Plain, EventOf, Event

\* The phases by their number.
LEMMA PhasesAre ==
  /\ End = 9
  /\ Range(Phases) = {"framehead", "dlmap", "ulmap", "dldata", "ttg", "uldata", "bwReq", "ranging"}
  /\ \A n \in 1..8 :
       /\ Phases[n] \in Range(Phases)
       /\ Phases[n] = "framehead" <=> n = 1
       /\ Phases[n] = "dlmap" <=> n = 2
       /\ Phases[n] = "ulmap" <=> n = 3
       /\ Phases[n] = "dldata" <=> n = 4
       /\ Phases[n] = "uldata" <=> n = 6
       /\ Phases[n] \in Sent <=> n \in {1, 2, 3, 4, 6}
       /\ \A m \in 1..8 : Phases[m] = Phases[n] => m = n
<1>1. Len(Phases) = 8 /\ DOMAIN Phases = 1..8
  BY DEF Phases
<1>2. \A n \in 1..8 : n = 1 \/ n = 2 \/ n = 3 \/ n = 4 \/ n = 5 \/ n = 6 \/ n = 7 \/ n = 8
  OBVIOUS
<1>3. /\ Phases[1] = "framehead" /\ Phases[2] = "dlmap" /\ Phases[3] = "ulmap"
      /\ Phases[4] = "dldata" /\ Phases[5] = "ttg" /\ Phases[6] = "uldata"
      /\ Phases[7] = "bwReq" /\ Phases[8] = "ranging"
  BY DEF Phases
<1>4. Range(Phases) = {"framehead", "dlmap", "ulmap", "dldata", "ttg", "uldata", "bwReq", "ranging"}
  BY <1>1, <1>2, <1>3 DEF Range
<1> QED BY <1>1, <1>2, <1>3, <1>4 DEF End, Sent

\* Each phase takes time and begins where the one before ends.
LEMMA LengthsAre ==
  ASSUME FrameFits
  PROVE  /\ FrameDuration \in Nat /\ Starts[1] = 0 /\ Starts[9] <= FrameDuration
         /\ \A n \in 1..9 : Starts[n] \in Nat
         /\ \A n \in 1..8 : /\ Length[n] \in Nat /\ Length[n] > 0
                            /\ Starts[n + 1] = Starts[n] + Length[n]
         /\ \A m, n \in 1..9 : m < n => Starts[m] < Starts[n]
         /\ \A m, n \in 1..8 : m < n => Starts[m + 1] <= Starts[n]
         /\ Length[1] = HeadLength /\ Length[2] = DlMapLength /\ Length[3] = UlMapLength
         /\ Length[4] = DlDataLength /\ Length[6] = UlDataLength
<1>1. /\ HeadLength \in Nat /\ DlMapLength \in Nat /\ UlMapLength \in Nat /\ DlDataLength \in Nat
      /\ TtgLength \in Nat /\ UlDataLength \in Nat /\ BwReqLength \in Nat /\ RangingLength \in Nat
      /\ FrameDuration \in Nat /\ SymbolDuration \in Nat /\ Slots \in Nat /\ SlotLength \in Nat
  BY FrameAssumption
<1>2. /\ HeadLength > 0 /\ DlMapLength > 0 /\ UlMapLength > 0
      /\ TtgLength > 0 /\ BwReqLength > 0 /\ RangingLength > 0
  BY <1>1, FrameAssumption DEF FrameFits, Tick
<1>3. DlDataLength > 0 /\ UlDataLength > 0
  <2> DEFINE d == Slots * SlotLength
  <2>1. d \in Nat
    BY <1>1
  <2>2. d < DlDataLength /\ d < UlDataLength
    BY FrameAssumption
  <2> HIDE DEF d
  <2> QED BY <1>1, <2>1, <2>2
<1>4. Starts[9] <= FrameDuration
  BY PhasesAre DEF FrameFits
<1>5. \A n \in 1..8 : n = 1 \/ n = 2 \/ n = 3 \/ n = 4 \/ n = 5 \/ n = 6 \/ n = 7 \/ n = 8
  OBVIOUS
<1>6. /\ Starts[1] = 0
      /\ Starts[2] = Starts[1] + Length[1] /\ Starts[3] = Starts[2] + Length[2]
      /\ Starts[4] = Starts[3] + Length[3] /\ Starts[5] = Starts[4] + Length[4]
      /\ Starts[6] = Starts[5] + Length[5] /\ Starts[7] = Starts[6] + Length[6]
      /\ Starts[8] = Starts[7] + Length[7] /\ Starts[9] = Starts[8] + Length[8]
  BY <1>1 DEF Starts, Length
<1>7. /\ Length[1] = HeadLength /\ Length[2] = DlMapLength /\ Length[3] = UlMapLength
      /\ Length[4] = DlDataLength /\ Length[5] = TtgLength /\ Length[6] = UlDataLength
      /\ Length[7] = BwReqLength /\ Length[8] = RangingLength
  BY DEF Length
<1>8. \A n \in 1..8 : Length[n] \in Nat /\ Length[n] > 0
  BY <1>1, <1>2, <1>3, <1>5, <1>7
<1>9. \A n \in 1..8 : Starts[n + 1] = Starts[n] + Length[n]
  BY <1>5, <1>6
<1>10. /\ Starts[2] \in Nat /\ Starts[3] \in Nat /\ Starts[4] \in Nat /\ Starts[5] \in Nat
       /\ Starts[6] \in Nat /\ Starts[7] \in Nat /\ Starts[8] \in Nat /\ Starts[9] \in Nat
  BY <1>6, <1>8
<1>11. \A n \in 1..9 : n \in 1..8 \/ n = 9
  OBVIOUS
<1>12. \A n \in 1..9 : Starts[n] \in Nat
  BY <1>5, <1>6, <1>10, <1>11
<1>13. /\ Starts[1] < Starts[2] /\ Starts[2] < Starts[3] /\ Starts[3] < Starts[4]
       /\ Starts[4] < Starts[5] /\ Starts[5] < Starts[6] /\ Starts[6] < Starts[7]
       /\ Starts[7] < Starts[8] /\ Starts[8] < Starts[9]
  BY <1>6, <1>8, <1>12
<1>14. \A m, n \in 1..9 : m < n => Starts[m] < Starts[n]
  <2> SUFFICES ASSUME NEW m \in 1..9, NEW n \in 1..9, m < n PROVE Starts[m] < Starts[n]
    OBVIOUS
  <2>1. n = 1 \/ n = 2 \/ n = 3 \/ n = 4 \/ n = 5 \/ n = 6 \/ n = 7 \/ n = 8 \/ n = 9
    OBVIOUS
  <2>2. m = 1 \/ m = 2 \/ m = 3 \/ m = 4 \/ m = 5 \/ m = 6 \/ m = 7 \/ m = 8
    OBVIOUS
  <2>3. Starts[1] \in Nat
    BY <1>6
  <2> QED BY <1>10, <1>13, <2>1, <2>2, <2>3
<1>15. \A m, n \in 1..8 : m < n => Starts[m + 1] <= Starts[n]
  <2> SUFFICES ASSUME NEW m \in 1..8, NEW n \in 1..8, m < n PROVE Starts[m + 1] <= Starts[n]
    OBVIOUS
  <2>1. m + 1 = n \/ m + 1 < n
    OBVIOUS
  <2>2. m + 1 \in 1..9 /\ n \in 1..9
    OBVIOUS
  <2>3. Starts[m + 1] \in Nat /\ Starts[n] \in Nat
    BY <1>12, <2>2
  <2> QED BY <1>14, <2>1, <2>2, <2>3
<1> QED BY <1>1, <1>4, <1>6, <1>7, <1>8, <1>9, <1>12, <1>14, <1>15

---------------------------------------------------------------------------
(* Time passes: the clocks are read at the time of the next event.         *)

\* The event x, d ticks later.
In(x, d) == [x EXCEPT !.left = @ - d]

\* An event later is the same event with less time left.
LEMMA InIs ==
  ASSUME NEW x \in Event, NEW d \in Nat, d <= x.left
  PROVE  /\ In(x, d) \in Event /\ In(x, d).left = x.left - d
         /\ In(x, d).who = x.who /\ In(x, d).what = x.what /\ In(x, d).phase = x.phase
         /\ In(x, d).slot = x.slot /\ In(x, d).map = x.map
<1>1. x.left \in Nat
  BY DEF Event
<1>2. x.left - d \in Nat
  BY <1>1
<1> QED BY <1>2 DEF In, Event

\* The clocks go on by the time that passes until the next event; a frame that
\* is about to start does not let any pass.
LEMMA RunsLater ==
  ASSUME FrameFits, NEW E \in SUBSET Event, NEW act \in [Station -> 1..End],
         NEW P \in Clocks, NEW T \in Timers, NEW W \in SUBSET Station,
         NEW d \in Nat, \A x \in E : d <= x.left, Runs(E, act, P, T, W)
  PROVE  \E P2 \in Clocks, T2 \in Timers : Runs({In(x, d) : x \in E}, act, P2, T2, W)
<1> DEFINE L == {In(x, d) : x \in E}
           P2 == [s \in Station |-> P[s] - d]
           T2 == [s \in Station |-> IF act[s] # End THEN T[s] - d ELSE 0]
<1>1. /\ \A x \in E : InTime(x, E, act, P, T, W)
      /\ HasTimers(E, act, W) /\ Together(P, W)
      /\ \A s \in Station : InPhase(s, act, P, T, W)
  BY DEF Runs
<1>2. \A s \in Station : /\ P[s] \in 0..FrameDuration /\ P[s] \in Nat
                         /\ T[s] \in Nat /\ act[s] \in 1..9
  BY PhasesAre, LengthsAre DEF Clocks, Timers
<1>3. FrameDuration \in Nat /\ \A n \in 1..9 : Starts[n] \in Nat
  BY LengthsAre
<1>4. \A s \in Station : d <= P[s]
  <2> TAKE s \in Station
  <2>1. PICK x \in E : x.who = s /\ x.what = "periodic"
    BY <1>1 DEF HasTimers, Has
  <2> QED BY <1>1, <2>1 DEF InTime
<1>5. \A s \in Station : act[s] # End => d <= T[s]
  <2> SUFFICES ASSUME NEW s \in Station, act[s] # End PROVE d <= T[s]
    OBVIOUS
  <2>1. PICK x \in E : x.who = s /\ x.what = "timeout"
    BY <1>1 DEF HasTimers, Has
  <2> QED BY <1>1, <2>1 DEF InTime
<1>6. W # {} => d = 0
  <2> SUFFICES ASSUME NEW s \in W PROVE d = 0
    OBVIOUS
  <2>1. PICK x \in E : x.who = s /\ x.what = "trigger"
    BY <1>1 DEF HasTimers, Has
  <2>2. d <= 0
    BY <1>1, <2>1 DEF InTime
  <2> QED BY <2>2
<1>7. P2 \in Clocks
  BY <1>2, <1>3, <1>4 DEF Clocks
<1>8. T2 \in Timers
  BY <1>2, <1>5 DEF Timers
<1>9. \A s \in Station : P2[s] = P[s] - d /\ (act[s] # End => T2[s] = T[s] - d)
  OBVIOUS
<1> HIDE DEF P2, T2
<1>10. Together(P2, W)
  <2>1. CASE d = 0
    <3>1. \A s \in Station : P2[s] = P[s]
      BY <1>2, <1>9, <2>1
    <3> QED BY <1>1, <3>1 DEF Together
  <2>2. CASE d # 0
    <3>1. \A s \in Station : P[s] > 0
      BY <1>2, <1>4, <2>2
    <3>2. \A s, t \in Station : P[s] = P[t]
      BY <1>1, <3>1 DEF Together
    <3>3. \A s \in Station : P2[s] # FrameDuration
      BY <1>2, <1>3, <1>9, <2>2
    <3> QED BY <1>9, <3>2, <3>3 DEF Together
  <2> QED BY <2>1, <2>2
<1>11. \A s \in Station : InPhase(s, act, P2, T2, W)
  <2> TAKE s \in Station
  <2>1. CASE s \in W
    <3>1. d = 0
      BY <1>6, <2>1
    <3>2. P2[s] = P[s] /\ (act[s] # End => T2[s] = T[s])
      BY <1>2, <1>9, <3>1
    <3>3. act[s] = 8 => act[s] # End
      BY PhasesAre
    <3> QED BY <1>1, <2>1, <3>2, <3>3 DEF InPhase
  <2>2. CASE s \notin W /\ act[s] = End
    <3>1. P[s] + Starts[End] <= FrameDuration
      BY <1>1, <2>2 DEF InPhase
    <3>2. P2[s] + Starts[End] <= FrameDuration
      BY <1>2, <1>3, <1>4, <1>9, <3>1, PhasesAre
    <3> QED BY <2>2, <3>2 DEF InPhase
  <2>3. CASE s \notin W /\ act[s] # End
    <3>1. T[s] + FrameDuration = Starts[act[s] + 1] + P[s] /\ T[s] <= Length[act[s]]
      BY <1>1, <2>3 DEF InPhase
    <3>2. act[s] \in 1..8 /\ act[s] + 1 \in 1..9
      BY <1>2, <2>3, PhasesAre
    <3>3. Starts[act[s] + 1] \in Nat /\ Length[act[s]] \in Nat
      BY <3>2, LengthsAre
    <3>4. P2[s] = P[s] - d /\ T2[s] = T[s] - d
      BY <1>9, <2>3
    <3>5. T2[s] + FrameDuration = Starts[act[s] + 1] + P2[s] /\ T2[s] <= Length[act[s]]
      BY <1>2, <1>3, <3>1, <3>3, <3>4
    <3> QED BY <2>3, <3>5 DEF InPhase
  <2> QED BY <2>1, <2>2, <2>3
<1>12. \A x \in E : /\ x.left \in Nat /\ x.who \in Station
                    /\ In(x, d) \in Event /\ In(x, d).left = x.left - d
                    /\ In(x, d).who = x.who /\ In(x, d).what = x.what
                    /\ In(x, d).phase = x.phase
                    /\ In(x, d).slot = x.slot /\ In(x, d).map = x.map
  BY InIs, EventFields
<1>13. HasTimers(L, act, W)
  <2>1. \A s, w : Has(E, s, w) => Has(L, s, w)
    BY <1>12 DEF Has
  <2> QED BY <1>1, <2>1 DEF HasTimers
<1>14. \A z \in L : InTime(z, L, act, P2, T2, W)
  <2> SUFFICES ASSUME NEW x \in E, NEW z, z = In(x, d) PROVE InTime(z, L, act, P2, T2, W)
    OBVIOUS
  <2>1. /\ z.left = x.left - d /\ x.left \in Nat /\ x.who \in Station
        /\ z.who = x.who /\ z.what = x.what /\ z.phase = x.phase /\ z.slot = x.slot
    BY <1>12
  <2>2. InTime(x, E, act, P, T, W)
    BY <1>1
  <2>3. (\E y \in E : y.what = "txStop" /\ SameBurst(x, y) /\ y.left > x.left) =>
          (\E y \in L : y.what = "txStop" /\ SameBurst(z, y) /\ y.left > z.left)
    <3> SUFFICES ASSUME NEW y \in E, y.what = "txStop", SameBurst(x, y), y.left > x.left
                 PROVE  \E v \in L : v.what = "txStop" /\ SameBurst(z, v) /\ v.left > z.left
      OBVIOUS
    <3>1. In(y, d) \in L
      OBVIOUS
    <3>2. In(y, d).what = "txStop" /\ SameBurst(z, In(y, d))
      BY <1>12, <2>1 DEF SameBurst
    <3>3. In(y, d).left = y.left - d /\ y.left \in Nat
      BY <1>12
    <3>4. In(y, d).left > z.left
      BY <2>1, <3>3
    <3> QED BY <3>1, <3>2, <3>4
  <2> HIDE DEF L
  <2>4. CASE x.what = "periodic"
    BY <1>2, <1>9, <2>1, <2>2, <2>4 DEF InTime, Reports, OnAir
  <2>5. CASE x.what = "trigger"
    BY <1>6, <2>1, <2>2, <2>5 DEF InTime, Reports, OnAir
  <2>6. CASE x.what = "timeout"
    BY <1>2, <1>9, <2>1, <2>2, <2>6 DEF InTime, Reports, OnAir
  <2>7. CASE x.what \in Reports
    <3>1. /\ x.phase \in Sent /\ act[x.who] # End /\ Phases[act[x.who]] = x.phase
          /\ x.left <= T[x.who]
          /\ x.what \in OnAir => x.left < T[x.who] /\ Sends(x.who, x.phase)
          /\ x.what = "txStart" =>
               \E y \in E : y.what = "txStop" /\ SameBurst(x, y) /\ y.left > x.left
      BY <2>2, <2>7 DEF InTime
    <3>2. T2[x.who] = T[x.who] - d /\ T[x.who] \in Nat
      BY <1>2, <1>9, <2>1, <3>1
    <3>3. z.left <= T2[x.who] /\ (x.left < T[x.who] => z.left < T2[x.who])
      BY <2>1, <3>1, <3>2
    <3>4. x.what \notin {"periodic", "trigger", "timeout"}
      BY <2>7 DEF Reports, OnAir
    <3> QED BY <2>1, <2>3, <2>7, <3>1, <3>3, <3>4 DEF InTime
  <2>8. x.what \in {"periodic", "trigger", "timeout"} \cup Reports
    BY EventFields DEF Reports, OnAir
  <2> QED BY <2>4, <2>5, <2>6, <2>7, <2>8
<1> QED BY <1>7, <1>8, <1>10, <1>11, <1>13, <1>14 DEF Runs

\* h is the next event and L are the others, at the time of h.
Due(h, L, act, P, T, W) ==
  /\ h \in Event /\ h.left = 0 /\ L \in SUBSET Event
  /\ act \in [Station -> 1..End] /\ P \in Clocks /\ T \in Timers /\ W \in SUBSET Station
  /\ \A y \in L : Tie(h, y) /\ Other(h, y)
  /\ Runs(L \cup {h}, act, P, T, W)

\* The event that is executed, at its time.
Current == In(queue[1], queue[1].left)

\* There is a next event, and the others stay in order.
LEMMA NextEvent ==
  ASSUME FrameFits, FrameInv
  PROVE  /\ queue[1] \in Event /\ Len(queue) > 0
         /\ Current.who = queue[1].who /\ Current.what = queue[1].what
         /\ Current.phase = queue[1].phase /\ Current.slot = queue[1].slot /\ Current.map = queue[1].map
         /\ Later \in Seq(Event) /\ Ordered(Later)
         /\ \E P \in Clocks, T \in Timers, W \in SUBSET Station :
              Due(Current, Range(Later), active, P, T, W)
         /\ AirOK(Range(Later) \cup {Current}, active, onAir)
         /\ GrantsOK(Range(Later) \cup {Current}, active, onAir, grants, granted, available)
<1> DEFINE d == queue[1].left
           E == Range(queue)
           L == Range(Later)
<1>1. queue \in Seq(Event) /\ active \in [Station -> 1..End] /\ Ordered(queue)
  BY DEF FrameInv, TypeOK
<1>2. /\ Len(queue) \in Nat /\ DOMAIN queue = 1..Len(queue)
      /\ \A i \in 1..Len(queue) : queue[i] \in Event /\ queue[i].left \in Nat
  BY <1>1, SeqFacts, EventFields
<1>3. PICK P \in Clocks, T \in Timers, W \in SUBSET Station : Runs(E, active, P, T, W)
  BY DEF FrameInv, Running
<1>4. 1 \in 1..Len(queue)
  <2>1. BS \in Station
    BY DEF Station
  <2>2. PICK x \in E : x.who = BS
    BY <1>3, <2>1 DEF Runs, HasTimers, Has
  <2> QED BY <1>2, <2>2 DEF Range
<1>5. d \in Nat /\ \A i \in 1..Len(queue) : d <= queue[i].left
  <2>1. \A i \in 1..Len(queue) : i = 1 \/ 1 < i
    BY <1>2
  <2>2. \A i \in 1..Len(queue) : 1 < i => d <= queue[i].left
    BY <1>1, <1>2, <1>4 DEF Ordered
  <2> QED BY <1>2, <1>4, <2>1, <2>2
<1>6. E \in SUBSET Event /\ \A x \in E : x.left \in Nat /\ d <= x.left
  BY <1>2, <1>5 DEF Range
<1>7. \A x \in E : /\ In(x, d) \in Event /\ In(x, d).left = x.left - d
                   /\ In(x, d).who = x.who /\ In(x, d).what = x.what /\ In(x, d).phase = x.phase
                   /\ In(x, d).slot = x.slot /\ In(x, d).map = x.map
  BY <1>5, <1>6, InIs
<1>8. \A i \in 1..Len(queue) : queue[i] \in E
  BY <1>2 DEF Range
<1>9. DOMAIN Later = 1..Len(queue) - 1 /\ \A i \in 1..Len(queue) - 1 : Later[i] = In(queue[i + 1], d)
  BY DEF Later, In
<1>10. \A i \in 1..Len(queue) - 1 : i + 1 \in 1..Len(queue) /\ 1 < i + 1 /\ i \in Nat
  BY <1>2
<1>11. Later \in Seq(Event)
  <2>1. \A i \in 1..Len(queue) - 1 : Later[i] \in Event
    BY <1>7, <1>8, <1>9, <1>10
  <2>2. Len(queue) - 1 \in Nat
    BY <1>2, <1>4
  <2>3. Later = [i \in 1..Len(queue) - 1 |-> Later[i]]
    BY <1>9 DEF Later
  <2>4. Later \in [1..Len(queue) - 1 -> Event]
    <3> DEFINE f == Later
    <3>1. f = [i \in 1..Len(queue) - 1 |-> f[i]] /\ \A i \in 1..Len(queue) - 1 : f[i] \in Event
      BY <2>1, <2>3
    <3> HIDE DEF f
    <3>2. f \in [1..Len(queue) - 1 -> Event]
      BY <3>1
    <3> QED BY <3>2 DEF f
  <2> QED BY <2>2, <2>4
<1>12. \A x, y \in E : /\ x.left <= y.left => In(x, d).left <= In(y, d).left
                       /\ Tie(x, y) => Tie(In(x, d), In(y, d))
                       /\ Other(x, y) => Other(In(x, d), In(y, d))
  <2> SUFFICES ASSUME NEW x \in E, NEW y \in E
               PROVE  /\ x.left <= y.left => In(x, d).left <= In(y, d).left
                      /\ Tie(x, y) => Tie(In(x, d), In(y, d))
                      /\ Other(x, y) => Other(In(x, d), In(y, d))
    OBVIOUS
  <2>1. /\ x.left \in Nat /\ y.left \in Nat /\ d \in Nat /\ d <= x.left /\ d <= y.left
        /\ In(x, d).left = x.left - d /\ In(y, d).left = y.left - d
    BY <1>5, <1>6, <1>7
  <2>2. /\ x.left <= y.left => In(x, d).left <= In(y, d).left
        /\ In(x, d).left = In(y, d).left => x.left = y.left
    BY <2>1
  <2>3. Rank(In(x, d)) = Rank(x) /\ Rank(In(y, d)) = Rank(y)
    BY <1>7 DEF Rank
  <2> QED BY <1>7, <2>2, <2>3 DEF Tie, Other
<1>13. Ordered(Later)
  <2> SUFFICES ASSUME NEW i \in DOMAIN Later, NEW j \in DOMAIN Later, i < j
               PROVE  /\ Later[i].left <= Later[j].left
                      /\ Tie(Later[i], Later[j]) /\ Other(Later[i], Later[j])
    BY DEF Ordered
  <2>1. i + 1 \in 1..Len(queue) /\ j + 1 \in 1..Len(queue) /\ i + 1 < j + 1
    BY <1>9, <1>10
  <2>2. /\ queue[i + 1].left <= queue[j + 1].left
        /\ Tie(queue[i + 1], queue[j + 1]) /\ Other(queue[i + 1], queue[j + 1])
    BY <1>1, <1>2, <2>1 DEF Ordered
  <2>3. Later[i] = In(queue[i + 1], d) /\ Later[j] = In(queue[j + 1], d)
    BY <1>9
  <2> QED BY <1>8, <1>12, <2>1, <2>2, <2>3
<1>14. \A y \in L : \E i \in 1..Len(queue) - 1 : y = In(queue[i + 1], d)
  BY <1>9 DEF Range
<1>15. Current = In(queue[1], d) /\ queue[1] \in E
  BY <1>4, <1>8 DEF Current
<1>16. \A y \in L : Tie(Current, y) /\ Other(Current, y)
  <2> SUFFICES ASSUME NEW i \in 1..Len(queue) - 1
               PROVE  Tie(Current, In(queue[i + 1], d)) /\ Other(Current, In(queue[i + 1], d))
    BY <1>14
  <2>1. i + 1 \in 1..Len(queue) /\ 1 < i + 1
    BY <1>10
  <2>2. Tie(queue[1], queue[i + 1]) /\ Other(queue[1], queue[i + 1])
    BY <1>1, <1>2, <1>4, <2>1 DEF Ordered
  <2> QED BY <1>8, <1>12, <1>15, <2>1, <2>2
<1>17. L \cup {Current} = {In(x, d) : x \in E}
  <2>1. ASSUME NEW y \in L \cup {Current} PROVE y \in {In(x, d) : x \in E}
    BY <1>8, <1>10, <1>14, <1>15
  <2>2. ASSUME NEW x \in E PROVE In(x, d) \in L \cup {Current}
    <3>1. PICK i \in 1..Len(queue) : x = queue[i]
      BY <1>2 DEF Range
    <3>2. CASE i = 1
      BY <1>15, <3>1, <3>2
    <3>3. CASE i # 1
      <4>1. i - 1 \in 1..Len(queue) - 1 /\ i - 1 + 1 = i
        BY <1>2, <3>3
      <4>2. Later[i - 1] = In(x, d) /\ i - 1 \in DOMAIN Later
        BY <1>9, <3>1, <4>1
      <4> QED BY <4>2 DEF Range
    <3> QED BY <3>2, <3>3
  <2> QED BY <2>1, <2>2
<1>18. PICK P2 \in Clocks, T2 \in Timers : Runs({In(x, d) : x \in E}, active, P2, T2, W)
  BY <1>1, <1>3, <1>5, <1>6, RunsLater
<1> HIDE DEF E, L, d
<1>19. Due(Current, L, active, P2, T2, W)
  <2>1. Current \in Event /\ Current.left = 0
    <3>1. Current \in Event /\ Current.left = queue[1].left - d
      BY <1>7, <1>15
    <3> QED BY <1>2, <1>4, <3>1 DEF d
  <2>2. L \in SUBSET Event
    BY <1>7, <1>17
  <2> QED BY <1>1, <1>16, <1>17, <1>18, <2>1, <2>2 DEF Due
<1>20. AirOK({In(x, d) : x \in E}, active, onAir)
  <2>1. AirOK(E, active, onAir)
    BY DEF FrameInv, E
  <2>2. \A t \in onAir : (\E y \in E : y.what = "txStop" /\ SameBurst(t, y)) =>
                         \E y \in {In(x, d) : x \in E} : y.what = "txStop" /\ SameBurst(t, y)
    BY <1>7 DEF SameBurst
  <2> QED BY <2>1, <2>2 DEF AirOK
<1>21. GrantsOK({In(x, d) : x \in E}, active, onAir, grants, granted, available)
  <2>1. GrantsOK(E, active, onAir, grants, granted, available)
    BY DEF FrameInv, E
  <2> QED BY <1>7, <2>1 DEF GrantsOK
<1>22. Len(queue) > 0 /\ queue[1] \in Event
  BY <1>2, <1>4
<1> QED BY <1>7, <1>11, <1>13, <1>15, <1>17, <1>19, <1>20, <1>21, <1>22 DEF L

---------------------------------------------------------------------------
(* What holds when an event is due.                                        *)

\* The clocks and the events that are left, without the one that is due: what
\* is on its way and the timers of the stations it is no timer of.
LEMMA DueFacts ==
  ASSUME FrameFits, NEW h, NEW L, NEW act, NEW P, NEW T, NEW W, Due(h, L, act, P, T, W)
  PROVE  /\ h.who \in Station
         /\ \A s \in Station : /\ P[s] \in Nat /\ P[s] <= FrameDuration /\ T[s] \in Nat
                               /\ act[s] \in 1..9 /\ (act[s] # End => act[s] \in 1..8)
         /\ Together(P, W) /\ \A s \in Station : InPhase(s, act, P, T, W)
         /\ \A x \in L : InTime(x, L, act, P, T, W) /\ x.left \in Nat /\ x.who \in Station
         /\ InTime(h, L, act, P, T, W)
         /\ \A s \in Station :
              /\ Has(L, s, "periodic") \/ (h.what = "periodic" /\ h.who = s)
              /\ s \in W => Has(L, s, "trigger") \/ (h.what = "trigger" /\ h.who = s)
              /\ act[s] # End => Has(L, s, "timeout") \/ (h.what = "timeout" /\ h.who = s)
         /\ \A x \in L : x.left = 0 => Rank(h) <= Rank(x)
<1>1. /\ h \in Event /\ h.left = 0 /\ L \in SUBSET Event
      /\ act \in [Station -> 1..End] /\ P \in Clocks /\ T \in Timers /\ W \in SUBSET Station
      /\ \A y \in L : Tie(h, y) /\ Other(h, y)
      /\ \A x \in L \cup {h} : InTime(x, L \cup {h}, act, P, T, W)
      /\ HasTimers(L \cup {h}, act, W) /\ Together(P, W)
      /\ \A s \in Station : InPhase(s, act, P, T, W)
  BY DEF Due, Runs
<1>2. \A s \in Station : /\ P[s] \in Nat /\ P[s] <= FrameDuration /\ T[s] \in Nat
                         /\ act[s] \in 1..9 /\ (act[s] # End => act[s] \in 1..8)
  BY <1>1, PhasesAre, LengthsAre DEF Clocks, Timers
<1>3. \A x \in L \cup {h} : x.left \in Nat /\ x.who \in Station
  BY <1>1, EventFields
<1>4. ASSUME NEW x \in L \cup {h} PROVE InTime(x, L, act, P, T, W)
  <2>1. InTime(x, L \cup {h}, act, P, T, W)
    BY <1>1
  <2>2. x.what = "txStart" => \E y \in L : y.what = "txStop" /\ SameBurst(x, y) /\ y.left > x.left
    <3> SUFFICES ASSUME x.what = "txStart"
                 PROVE  \E y \in L : y.what = "txStop" /\ SameBurst(x, y) /\ y.left > x.left
      OBVIOUS
    <3>1. PICK y \in L \cup {h} : y.what = "txStop" /\ SameBurst(x, y) /\ y.left > x.left
      BY <2>1 DEF InTime
    <3>2. y # h
      BY <1>1, <1>3, <3>1
    <3> QED BY <3>1, <3>2
  <2> QED BY <2>1, <2>2 DEF InTime
<1>5. \A s \in Station :
        /\ Has(L, s, "periodic") \/ (h.what = "periodic" /\ h.who = s)
        /\ s \in W => Has(L, s, "trigger") \/ (h.what = "trigger" /\ h.who = s)
        /\ act[s] # End => Has(L, s, "timeout") \/ (h.what = "timeout" /\ h.who = s)
  BY <1>1 DEF HasTimers, Has
<1>6. \A x \in L : x.left = 0 => Rank(h) <= Rank(x)
  BY <1>1 DEF Tie
<1> QED BY <1>1, <1>2, <1>3, <1>4, <1>5, <1>6

\* A collector's report is due before its station's phase is over, and not
\* while the station waits for its frame.
LEMMA ReportFacts ==
  ASSUME FrameFits, NEW h, NEW L, NEW act, NEW P, NEW T, NEW W, Due(h, L, act, P, T, W),
         NEW x \in L \cup {h}, x.what \in Reports
  PROVE  /\ x.who \in Station /\ x.left \in Nat /\ x.phase \in Sent
         /\ act[x.who] \in {1, 2, 3, 4, 6} /\ Phases[act[x.who]] = x.phase
         /\ x.left <= T[x.who] /\ x.who \notin W
         /\ x.what \in OnAir => x.left < T[x.who] /\ Sends(x.who, x.phase)
<1>1. InTime(x, L, act, P, T, W) /\ x.left \in Nat /\ x.who \in Station
  <2>1. h \in Event
    BY DEF Due
  <2> QED BY <2>1, DueFacts, EventFields
<1>2. /\ x.phase \in Sent /\ act[x.who] # End /\ Phases[act[x.who]] = x.phase
      /\ x.left <= T[x.who]
      /\ x.what \in OnAir => x.left < T[x.who] /\ Sends(x.who, x.phase)
  BY <1>1 DEF InTime
<1>3. act[x.who] \in 1..8 /\ InPhase(x.who, act, P, T, W)
  BY <1>1, <1>2, DueFacts
<1>4. act[x.who] \in {1, 2, 3, 4, 6}
  BY <1>2, <1>3, PhasesAre
<1>5. x.who \notin W
  BY <1>3, <1>4, PhasesAre DEF InPhase
<1> QED BY <1>1, <1>2, <1>4, <1>5

\* When no station's frame or phase is about to begin, all are in the same one.
LEMMA AllAlike ==
  ASSUME FrameFits, NEW act \in [Station -> 1..End],
         NEW P \in Clocks, NEW T \in Timers, Together(P, {}),
         \A s \in Station : InPhase(s, act, P, T, {}) /\ P[s] > 0 /\ (act[s] # End => T[s] > 0)
  PROVE  \A s, t \in Station : act[s] = act[t]
<1>1. \A s \in Station : /\ P[s] \in Nat /\ P[s] <= FrameDuration /\ T[s] \in Nat
                         /\ act[s] \in 1..9 /\ (act[s] # End => act[s] \in 1..8)
  BY PhasesAre, LengthsAre DEF Clocks, Timers
<1>2. \A s, t \in Station : P[s] = P[t]
  BY DEF Together
<1>3. \A s \in Station :
        /\ act[s] = End => P[s] + Starts[9] <= FrameDuration
        /\ act[s] # End => /\ T[s] + FrameDuration = Starts[act[s] + 1] + P[s]
                           /\ T[s] <= Length[act[s]]
  BY PhasesAre DEF InPhase
<1>4. /\ FrameDuration \in Nat /\ Starts[9] \in Nat
      /\ \A n \in 1..8 : /\ Length[n] \in Nat /\ Starts[n] \in Nat /\ Starts[n + 1] \in Nat
                         /\ Starts[n + 1] = Starts[n] + Length[n]
                         /\ Starts[n + 1] <= Starts[9]
  <2>1. \A n \in 1..8 : n \in 1..9 /\ n + 1 \in 1..9 /\ (n + 1 = 9 \/ n + 1 < 9)
    OBVIOUS
  <2>2. /\ FrameDuration \in Nat
        /\ \A n \in 1..9 : Starts[n] \in Nat
        /\ \A n \in 1..8 : Length[n] \in Nat /\ Starts[n + 1] = Starts[n] + Length[n]
        /\ \A m, n \in 1..9 : m < n => Starts[m] < Starts[n]
    BY LengthsAre
  <2>3. 9 \in 1..9
    OBVIOUS
  <2>4. \A n \in 1..8 : Starts[n + 1] <= Starts[9]
    BY <2>1, <2>2, <2>3
  <2> QED BY <2>1, <2>2, <2>3, <2>4
<1>5. ASSUME NEW s \in Station, act[s] # End
      PROVE  /\ Starts[act[s]] + P[s] <= FrameDuration
             /\ FrameDuration < Starts[act[s] + 1] + P[s]
             /\ FrameDuration < Starts[9] + P[s]
  <2>1. act[s] \in 1..8 /\ T[s] > 0
    BY <1>1, <1>5
  <2>2. /\ T[s] + FrameDuration = Starts[act[s] + 1] + P[s] /\ T[s] <= Length[act[s]]
        /\ T[s] \in Nat /\ P[s] \in Nat
    BY <1>1, <1>3, <1>5
  <2>3. /\ Length[act[s]] \in Nat /\ Starts[act[s]] \in Nat /\ Starts[act[s] + 1] \in Nat
        /\ Starts[act[s] + 1] = Starts[act[s]] + Length[act[s]]
        /\ Starts[act[s] + 1] <= Starts[9]
    BY <1>4, <2>1
  <2> QED BY <1>4, <2>1, <2>2, <2>3
<1> SUFFICES ASSUME NEW s \in Station, NEW t \in Station PROVE ~(act[s] < act[t])
  BY <1>1
<1>6. SUFFICES ASSUME act[s] < act[t] PROVE FALSE
  OBVIOUS
<1>7. act[s] # End
  BY <1>1, <1>6, PhasesAre
<1>8. P[s] = P[t] /\ P[t] \in Nat
  BY <1>1, <1>2
<1>9. CASE act[t] = End
  BY <1>3, <1>4, <1>5, <1>7, <1>8, <1>9
<1>10. CASE act[t] # End
  <2>1. act[s] \in 1..8 /\ act[t] \in 1..8
    BY <1>1, <1>7, <1>10
  <2>2. Starts[act[s] + 1] <= Starts[act[t]]
    BY <1>6, <2>1, LengthsAre
  <2>3. Starts[act[s] + 1] \in Nat /\ Starts[act[t]] \in Nat
    BY <1>4, <2>1
  <2> QED BY <1>4, <1>5, <1>7, <1>8, <1>10, <2>2, <2>3
<1> QED BY <1>9, <1>10

---------------------------------------------------------------------------
(* TimingControl::periodically.                                            *)

\* When a frame is announced, its predecessor is over at every station: all
\* that is left of it is due now, and nothing is on its way.
LEMMA FrameOver ==
  ASSUME FrameFits, NEW h, NEW L, NEW act, NEW P, NEW T, NEW W, Due(h, L, act, P, T, W),
         h.what = "periodic"
  PROVE  /\ FrameDuration > 0 /\ P[h.who] = 0 /\ h.who \notin W
         /\ \A u \in Station : P[u] = 0 \/ (P[u] = FrameDuration /\ u \in W)
         /\ \A u \in Station : act[u] # End => T[u] = 0 /\ act[u] = 8
         /\ \A x \in L : x.what \notin Reports
<1> DEFINE s == h.who
<1>1. /\ s \in Station
      /\ \A u \in Station : /\ P[u] \in Nat /\ P[u] <= FrameDuration /\ T[u] \in Nat
                            /\ act[u] \in 1..9 /\ (act[u] # End => act[u] \in 1..8)
      /\ Together(P, W) /\ \A u \in Station : InPhase(u, act, P, T, W)
      /\ InTime(h, L, act, P, T, W)
  BY DueFacts
<1>2. h.left = 0
  BY DEF Due
<1>3. FrameDuration > 0 /\ FrameDuration \in Nat /\ Starts[9] <= FrameDuration /\ Starts[9] \in Nat
  <2>1. 1 \in 1..9 /\ 9 \in 1..9 /\ 1 < 9
    OBVIOUS
  <2>2. Starts[1] < Starts[9] /\ Starts[1] = 0 /\ Starts[9] \in Nat
    BY <2>1, LengthsAre
  <2> QED BY <2>2, LengthsAre
<1>4. P[s] = 0
  BY <1>1, <1>2 DEF InTime
<1>5. s \notin W
  BY <1>1, <1>3, <1>4 DEF InPhase
<1>6. \A u \in Station : P[u] = 0 \/ (P[u] = FrameDuration /\ u \in W)
  BY <1>1, <1>4 DEF Together
<1>7. ASSUME NEW u \in Station, act[u] # End PROVE T[u] = 0 /\ act[u] = 8
  <2>1. CASE u \in W
    BY <1>1, <1>7, <2>1 DEF InPhase
  <2>2. CASE u \notin W
    <3>1. T[u] + FrameDuration = Starts[act[u] + 1]
      <4>1. T[u] + FrameDuration = Starts[act[u] + 1] + P[u] /\ P[u] = 0
        BY <1>1, <1>6, <1>7, <2>2 DEF InPhase
      <4>2. act[u] + 1 \in 1..9
        BY <1>1, <1>7
      <4>3. Starts[act[u] + 1] \in Nat
        BY <4>2, LengthsAre
      <4> QED BY <4>1, <4>3
    <3>2. act[u] \in 1..8 /\ act[u] + 1 \in 1..9
      BY <1>1, <1>7
    <3>3. act[u] + 1 < 9 => Starts[act[u] + 1] < Starts[9]
      BY <3>2, LengthsAre
    <3>4. Starts[act[u] + 1] \in Nat
      BY <3>2, LengthsAre
    <3>5. ~(act[u] + 1 < 9)
      BY <1>1, <1>3, <3>1, <3>3, <3>4
    <3>6. act[u] = 8 /\ act[u] + 1 = 9
      BY <3>2, <3>5
    <3> QED BY <1>1, <1>3, <3>1, <3>6
  <2> QED BY <2>1, <2>2
<1>8. ASSUME NEW x \in L, x.what \in Reports PROVE FALSE
  <2>1. x.who \in Station /\ act[x.who] \in {1, 2, 3, 4, 6}
    BY <1>8, ReportFacts
  <2> QED BY <1>7, <2>1, PhasesAre
<1> QED BY <1>3, <1>4, <1>5, <1>6, <1>7, <1>8

\* The timer of a station's frames goes off: its clock is set again, and the
\* frame is about to start.
LEMMA AnnounceFrame ==
  ASSUME FrameFits, NEW h, NEW L, NEW act, NEW P, NEW T, NEW W, Due(h, L, act, P, T, W),
         h.what = "periodic",
         NEW tr \in Event, tr.left = 0, tr.who = h.who, tr.what = "trigger",
         NEW pe \in Event, pe.left = FrameDuration, pe.who = h.who, pe.what = "periodic"
  PROVE  /\ [P EXCEPT ![h.who] = FrameDuration] \in Clocks
         /\ Runs(L \cup {tr, pe}, act, [P EXCEPT ![h.who] = FrameDuration], T, W \cup {h.who})
         /\ \A x \in L : Tie(x, tr) /\ Tie(x, pe) /\ Other(x, tr) /\ Other(x, pe)
         /\ Tie(tr, pe) /\ Other(tr, pe)
<1> DEFINE s == h.who
           P2 == [P EXCEPT ![s] = FrameDuration]
           W2 == W \cup {s}
           E == L \cup {tr, pe}
<1>1. /\ s \in Station
      /\ \A u \in Station : /\ P[u] \in Nat /\ P[u] <= FrameDuration /\ T[u] \in Nat
                            /\ act[u] \in 1..9 /\ (act[u] # End => act[u] \in 1..8)
      /\ Together(P, W) /\ \A u \in Station : InPhase(u, act, P, T, W)
      /\ \A x \in L : InTime(x, L, act, P, T, W) /\ x.left \in Nat /\ x.who \in Station
      /\ \A u \in Station :
           /\ Has(L, u, "periodic") \/ u = s
           /\ u \in W => Has(L, u, "trigger")
           /\ act[u] # End => Has(L, u, "timeout")
  BY DueFacts
<1>2. /\ FrameDuration > 0 /\ P[s] = 0 /\ s \notin W
      /\ \A u \in Station : P[u] = 0 \/ (P[u] = FrameDuration /\ u \in W)
      /\ \A u \in Station : act[u] # End => T[u] = 0 /\ act[u] = 8
      /\ \A x \in L : x.what \notin Reports
  BY FrameOver
<1>3. /\ P \in Clocks /\ FrameDuration \in Nat /\ L \in SUBSET Event
      /\ \A y \in L : Tie(h, y) /\ Other(h, y)
  BY LengthsAre DEF Due
<1>4. P2 \in Clocks
  BY <1>1, <1>3 DEF Clocks
<1>5. \A u \in Station : P2[u] = IF u = s THEN FrameDuration ELSE P[u]
  BY <1>3 DEF Clocks
<1>6. ASSUME NEW x \in L PROVE x.what = "periodic" => x.who # s
  BY <1>3 DEF Other
<1>7. \A x \in L : x.what = "periodic" \/ x.left = 0
  <2> TAKE x \in L
  <2>1. x.what \in {"periodic", "trigger", "timeout"} \cup Reports
    BY <1>3, EventFields DEF Reports, OnAir
  <2>2. CASE x.what = "timeout"
    BY <1>1, <1>2, <2>2 DEF InTime
  <2>3. CASE x.what = "trigger"
    BY <1>1, <2>3 DEF InTime
  <2> QED BY <1>2, <2>1, <2>2, <2>3
<1> HIDE DEF P2
<1>8. ASSUME NEW x \in E PROVE InTime(x, E, act, P2, T, W2)
  <2>1. CASE x = tr
    BY <1>1, <2>1 DEF InTime, Reports, OnAir
  <2>2. CASE x = pe
    BY <1>1, <1>5, <2>2 DEF InTime, Reports, OnAir
  <2>3. CASE x \in L
    <3>1. InTime(x, L, act, P, T, W) /\ x.what \notin Reports /\ x.who \in Station
      BY <1>1, <1>2, <2>3
    <3>2. x.what = "periodic" => P2[x.who] = P[x.who]
      BY <1>5, <1>6, <2>3, <3>1
    <3> QED BY <3>1, <3>2 DEF InTime, Reports, OnAir
  <2> QED BY <2>1, <2>2, <2>3
<1>9. HasTimers(E, act, W2)
  <2>1. \A u, w : Has(L, u, w) => Has(E, u, w)
    BY DEF Has
  <2>2. Has(E, s, "periodic") /\ Has(E, s, "trigger")
    BY DEF Has
  <2> QED BY <1>1, <2>1, <2>2 DEF HasTimers
<1>10. Together(P2, W2)
  BY <1>1, <1>2, <1>3, <1>5 DEF Together
<1>11. ASSUME NEW u \in Station PROVE InPhase(u, act, P2, T, W2)
  <2>1. CASE u = s
    BY <1>1, <1>2, <1>5, <2>1, PhasesAre DEF InPhase
  <2>2. CASE u # s
    <3>1. P2[u] = P[u] /\ (u \in W2 <=> u \in W)
      BY <1>5, <2>2
    <3> QED BY <1>1, <3>1 DEF InPhase
  <2> QED BY <2>1, <2>2
<1>12. \A x \in L : Tie(x, tr) /\ Tie(x, pe) /\ Other(x, tr) /\ Other(x, pe)
  <2> TAKE x \in L
  <2>1. x.what \in {"periodic", "trigger", "timeout"}
    BY <1>2, <1>3, EventFields DEF Reports, OnAir
  <2>2. x.what = "trigger" => x.who # s
    BY <1>1, <1>2 DEF InTime
  <2>3. x.left = FrameDuration => x.what = "periodic"
    BY <1>2, <1>7
  <2> QED BY <1>6, <2>1, <2>2, <2>3 DEF Tie, Other, Rank
<1>13. Tie(tr, pe) /\ Other(tr, pe)
  BY <1>2 DEF Tie, Other
<1> QED BY <1>4, <1>8, <1>9, <1>10, <1>11, <1>12, <1>13 DEF Runs, P2

---------------------------------------------------------------------------
(* What a station schedules when its n-th activation begins.               *)

\* Reports of station s in its n-th phase, in the order they are scheduled.
StartsWell(es, s, n) ==
  /\ es \in Seq(Event)
  /\ \A x \in Range(es) :
       /\ x.who = s /\ x.what \in Reports
       /\ x.phase = Phases[n] /\ x.phase \in Sent /\ x.left <= Length[n]
       /\ x.what \in OnAir => x.left < Length[n] /\ Sends(s, Phases[n])
       /\ x.what = "finished" => x.left > 0 /\ (x.left = Length[n] \/ (s = BS /\ n \in 1..3))
       /\ x.what = "txStart" =>
            \E y \in Range(es) : y.what = "txStop" /\ SameBurst(x, y) /\ y.left > x.left
       /\ x.what \in OnAir /\ x.phase = "ulmap" => x.map = grants
       /\ x.what \in OnAir /\ x.phase = "uldata" => s \in SS /\ available[s] /\ x.slot \in granted[s]
  /\ \A i, j \in DOMAIN es : i < j => Tie(es[i], es[j])

\* Every slot of a data phase lies in it.
LEMMA SlotFits ==
  ASSUME NEW k \in Slot
  PROVE  /\ SlotOffset(k) \in Nat /\ SlotOffset(k) + SlotLength - Tick \in Nat
         /\ SlotOffset(k) < SlotOffset(k) + SlotLength - Tick
         /\ SlotOffset(k) + SlotLength - Tick < DlDataLength
         /\ SlotOffset(k) + SlotLength - Tick < UlDataLength
<1>1. /\ Slots \in Nat /\ SlotLength \in Nat /\ SlotLength > 1
      /\ DlDataLength \in Nat /\ UlDataLength \in Nat
  BY FrameAssumption DEF Tick
<1>2. k \in Nat /\ 1 <= k /\ k <= Slots
  BY <1>1 DEF Slot
<1> DEFINE o == (k - 1) * SlotLength
           m == Slots * SlotLength
           r == (Slots - k) * SlotLength
<1>3. o \in Nat /\ m \in Nat /\ r \in Nat
  <2>1. \A a, b \in Nat : a * b \in Nat
    OBVIOUS
  <2>2. k - 1 \in Nat /\ Slots - k \in Nat
    BY <1>1, <1>2
  <2> QED BY <1>1, <2>1, <2>2
<1>4. o + SlotLength + r = m
  BY <1>1, <1>2
<1>5. m < DlDataLength /\ m < UlDataLength
  BY FrameAssumption
<1>6. SlotOffset(k) = o
  BY DEF SlotOffset
<1> HIDE DEF o, m, r
<1> QED BY <1>1, <1>3, <1>4, <1>5, <1>6 DEF Tick

\* A broadcast: it ends within the phase, and not after its sender says so.
LEMMA BroadcastWell ==
  ASSUME FrameFits, TypeOK, NEW n \in 1..3, NEW finish \in Nat, NEW stop \in Nat,
         0 < stop, 0 < finish, stop < Length[n], finish <= Length[n]
  PROVE  StartsWell(Broadcast(BS, Phases[n], finish, stop), BS, n)
<1> DEFINE p == Phases[n]
           m == IF p = "ulmap" THEN grants ELSE NoGrant
           a == Plain(finish, BS, "finished", p)
           b == EventOf(0, BS, "txStart", p, 0, m)
           c == EventOf(stop, BS, "txStop", p, 0, m)
           es == Broadcast(BS, p, finish, stop)
<1>1. n \in 1..8 /\ p \in Range(Phases) /\ BS \in Station /\ Length[n] \in Nat
  BY PhasesAre, LengthsAre DEF Station
<1>2. p \in Sent /\ Sends(BS, p) /\ p # "uldata" /\ (p = "ulmap" => m = grants)
  <2>1. n = 1 \/ n = 2 \/ n = 3
    OBVIOUS
  <2>2. p \in {"framehead", "dlmap", "ulmap"}
    BY <2>1, PhasesAre
  <2> QED BY <2>2 DEF Sends, Sent
<1>3. m \in Schedule
  BY DEF TypeOK, NoGrant, Schedule
<1>4. es = <<a, b, c>>
  BY DEF Broadcast
<1>5. a \in Event /\ a.left = finish /\ a.who = BS /\ a.what = "finished" /\ a.phase = p
  BY <1>1, PlainIs
<1> HIDE DEF m, p
<1>6. /\ b \in Event /\ b.left = 0 /\ b.who = BS /\ b.what = "txStart" /\ b.phase = p
      /\ b.slot = 0 /\ b.map = m
  BY <1>1, <1>3, EventOfIs
<1>7. /\ c \in Event /\ c.left = stop /\ c.who = BS /\ c.what = "txStop" /\ c.phase = p
      /\ c.slot = 0 /\ c.map = m
  BY <1>1, <1>3, EventOfIs
<1> HIDE DEF a, b, c, es
<1>8. es \in Seq(Event) /\ Range(es) = {a, b, c}
      /\ DOMAIN es = 1..3 /\ es[1] = a /\ es[2] = b /\ es[3] = c
  <2>1. es \in Seq(Event) /\ DOMAIN es = 1..3 /\ es[1] = a /\ es[2] = b /\ es[3] = c
    BY <1>4, <1>5, <1>6, <1>7
  <2>2. \A i \in 1..3 : i = 1 \/ i = 2 \/ i = 3
    OBVIOUS
  <2>3. Range(es) = {a, b, c}
    BY <2>1, <2>2 DEF Range
  <2> QED BY <2>1, <2>3
<1>9. \A i, j \in DOMAIN es : i < j => Tie(es[i], es[j])
  <2>1. Tie(a, b) /\ Tie(a, c) /\ Tie(b, c)
    BY <1>5, <1>6, <1>7 DEF Tie, Rank
  <2>2. \A i, j \in 1..3 : i < j => (i = 1 /\ j = 2) \/ (i = 1 /\ j = 3) \/ (i = 2 /\ j = 3)
    OBVIOUS
  <2> QED BY <1>8, <2>1, <2>2
<1>10. /\ a.what \in Reports /\ a.what \notin OnAir /\ b.what \in Reports /\ c.what \in Reports
       /\ b.what # "finished" /\ c.what # "finished" /\ a.what # "txStart" /\ c.what # "txStart"
  BY <1>5, <1>6, <1>7 DEF Reports, OnAir
<1>11. c \in Range(es) /\ c.what = "txStop" /\ SameBurst(b, c) /\ c.left > b.left
  BY <1>6, <1>7, <1>8 DEF SameBurst
<1>12. 0 < Length[n] /\ 0 <= Length[n] /\ stop <= Length[n]
  BY <1>1
<1>13. ASSUME NEW x \in Range(es)
       PROVE  /\ x.who = BS /\ x.what \in Reports
              /\ x.phase = p /\ x.phase \in Sent /\ x.left <= Length[n]
              /\ x.what \in OnAir => x.left < Length[n] /\ Sends(BS, p)
              /\ x.what = "finished" => x.left > 0 /\ (x.left = Length[n] \/ (BS = BS /\ n \in 1..3))
              /\ x.what = "txStart" =>
                   \E y \in Range(es) : y.what = "txStop" /\ SameBurst(x, y) /\ y.left > x.left
              /\ x.what \in OnAir /\ x.phase = "ulmap" => x.map = grants
              /\ x.what \in OnAir /\ x.phase = "uldata" =>
                   BS \in SS /\ available[BS] /\ x.slot \in granted[BS]
  BY <1>2, <1>5, <1>6, <1>7, <1>8, <1>10, <1>11, <1>12
<1> QED BY <1>8, <1>9, <1>13 DEF StartsWell, es, p

\* What is sent in a data phase ends within it, and who sends in the uplink has
\* been granted the slot.
LEMMA TransmissionsWell ==
  ASSUME FrameFits, TypeOK, NEW n \in {4, 6}, NEW s \in Station, NEW ks \in SUBSET Slot,
         ks # {} => Sends(s, Phases[n]),
         ks # {} /\ n = 6 => s \in SS /\ available[s] /\ ks \subseteq granted[s]
  PROVE  /\ StartsWell(Transmissions(s, Phases[n], ks), s, n)
         /\ \A x \in Range(Transmissions(s, Phases[n], ks)) : x.what \in OnAir
<1> DEFINE p == Phases[n]
           on(k)  == EventOf(SlotOffset(k), s, "txStart", p, k, NoGrant)
           off(k) == EventOf(SlotOffset(k) + SlotLength - Tick, s, "txStop", p, k, NoGrant)
           A == {on(k) : k \in ks}
           B == {off(k) : k \in ks}
           es == Transmissions(s, p, ks)
<1>1. /\ n \in 1..8 /\ p \in Range(Phases) /\ Length[n] \in Nat /\ p \in Sent /\ p # "ulmap"
      /\ (p = "uldata" => n = 6)
  BY PhasesAre, LengthsAre
<1>2. Length[n] = DlDataLength \/ Length[n] = UlDataLength
  BY LengthsAre
<1>3. NoGrant \in Schedule
  BY DEF NoGrant, Schedule
<1>4. IsFiniteSet(ks)
  <2>1. IsFiniteSet(Slot)
    BY FrameAssumption, FS_Interval DEF Slot
  <2> QED BY <2>1, FS_Subset
<1>5. \A k \in ks : /\ k \in Slot /\ SlotOffset(k) \in Nat /\ SlotOffset(k) + SlotLength - Tick \in Nat
                    /\ SlotOffset(k) < SlotOffset(k) + SlotLength - Tick
                    /\ SlotOffset(k) + SlotLength - Tick < Length[n]
  BY <1>2, SlotFits
<1> HIDE DEF p
<1>6. \A k \in ks : /\ on(k) \in Event /\ on(k).left = SlotOffset(k) /\ on(k).who = s
                    /\ on(k).what = "txStart" /\ on(k).phase = p /\ on(k).slot = k
  BY <1>1, <1>3, <1>5, EventOfIs
<1>7. \A k \in ks : /\ off(k) \in Event /\ off(k).left = SlotOffset(k) + SlotLength - Tick
                    /\ off(k).who = s
                    /\ off(k).what = "txStop" /\ off(k).phase = p /\ off(k).slot = k
  BY <1>1, <1>3, <1>5, EventOfIs
<1>8. es = SetToSeq(A \cup B)
  BY DEF Transmissions
<1> HIDE DEF on, off, es
<1>9. IsFiniteSet(A \cup B)
  <2>1. IsFiniteSet(A)
    <3> DEFINE f == [k \in ks |-> on(k)]
    <3>1. f \in Surjection(ks, A)
      BY DEF Surjection
    <3> QED BY <1>4, <3>1, FS_Surjection
  <2>2. IsFiniteSet(B)
    <3> DEFINE f == [k \in ks |-> off(k)]
    <3>1. f \in Surjection(ks, B)
      BY DEF Surjection
    <3> QED BY <1>4, <3>1, FS_Surjection
  <2> QED BY <2>1, <2>2, FS_Union
<1>10. es \in Seq(A \cup B) /\ Range(es) = A \cup B
  BY <1>8, <1>9, SetToSeqIs
<1>11. es \in Seq(Event)
  <2>1. A \cup B \in SUBSET Event
    BY <1>6, <1>7
  <2>2. Len(es) \in Nat /\ es \in [1..Len(es) -> A \cup B]
    BY <1>10
  <2>3. es \in [1..Len(es) -> Event]
    <3> HIDE DEF A, B
    <3> QED BY <2>1, <2>2
  <2> QED BY <2>2, <2>3
<1>12. ASSUME NEW x \in Range(es)
       PROVE  /\ x.who = s /\ x.what \in OnAir /\ x.what # "finished"
              /\ x.phase = p /\ x.phase \in Sent /\ x.left <= Length[n]
              /\ x.what \in OnAir => x.left < Length[n] /\ Sends(s, p)
              /\ x.what = "txStart" =>
                   \E y \in Range(es) : y.what = "txStop" /\ SameBurst(x, y) /\ y.left > x.left
              /\ x.what \in OnAir /\ x.phase = "ulmap" => x.map = grants
              /\ x.what \in OnAir /\ x.phase = "uldata" =>
                   s \in SS /\ available[s] /\ x.slot \in granted[s]
  <2>1. PICK k \in ks : x = on(k) \/ x = off(k)
    BY <1>10, <1>12
  <2>2. ks # {} /\ Sends(s, p) /\ (p = "uldata" => s \in SS /\ available[s] /\ k \in granted[s])
    BY <1>1 DEF p
  <2>3. x.left \in Nat /\ x.left < Length[n] /\ x.left <= Length[n]
    BY <1>1, <1>5, <1>6, <1>7, <2>1
  <2>4. x.what = "txStart" =>
          \E y \in Range(es) : y.what = "txStop" /\ SameBurst(x, y) /\ y.left > x.left
    <3> SUFFICES ASSUME x.what = "txStart"
                 PROVE  \E y \in Range(es) : y.what = "txStop" /\ SameBurst(x, y) /\ y.left > x.left
      OBVIOUS
    <3>1. x = on(k)
      BY <1>7, <2>1
    <3>2. off(k) \in Range(es)
      BY <1>10
    <3>3. SameBurst(x, off(k))
      BY <1>6, <1>7, <3>1 DEF SameBurst
    <3>4. off(k).left > x.left
      BY <1>5, <1>6, <1>7, <3>1
    <3> QED BY <1>7, <3>2, <3>3, <3>4
  <2>5. /\ x.who = s /\ x.what \in OnAir /\ x.what # "finished" /\ x.phase = p /\ x.slot = k
    BY <1>6, <1>7, <2>1 DEF OnAir
  <2> QED BY <1>1, <2>2, <2>3, <2>4, <2>5
<1>13. \A i, j \in DOMAIN es : i < j => Tie(es[i], es[j])
  <2>1. \A i \in DOMAIN es : es[i] \in Range(es)
    BY DEF Range
  <2>2. \A i \in DOMAIN es : Rank(es[i]) = 4 /\ es[i].what # "timeout"
    BY <1>12, <2>1 DEF Rank, OnAir
  <2> QED BY <2>2 DEF Tie
<1>14. \A x \in Range(es) : x.what \in Reports
  BY <1>12 DEF Reports
<1> QED BY <1>11, <1>12, <1>13, <1>14 DEF StartsWell, es, p

\* The events a collector schedules when its phase begins.
LEMMA StartedWell ==
  ASSUME FrameFits, TypeOK, NEW n \in 1..8, NEW s \in Station
  PROVE  StartsWell(Started(s, Phases[n]), s, n)
<1> DEFINE p == Phases[n]
<1>1. /\ HeadLength \in Nat /\ DlMapLength \in Nat /\ UlMapLength \in Nat /\ SymbolDuration \in Nat
      /\ HeadLength > 2 /\ SymbolDuration > 1
      /\ SymbolDuration <= DlMapLength /\ SymbolDuration <= UlMapLength
      /\ BS \notin SS
  BY FrameAssumption DEF Tick
<1>2. n = 1 \/ n = 2 \/ n = 3 \/ n = 4 \/ n = 5 \/ n = 6 \/ n = 7 \/ n = 8
  OBVIOUS
<1>3. Started(s, p) = <<>> => StartsWell(Started(s, p), s, n)
  <2> SUFFICES ASSUME NEW e, e = <<>> PROVE StartsWell(e, s, n)
    OBVIOUS
  <2>1. e \in Seq(Event) /\ DOMAIN e = {}
    OBVIOUS
  <2>2. Range(e) = {}
    BY <2>1 DEF Range
  <2> QED BY <2>1, <2>2 DEF StartsWell
<1>4. CASE n \in 1..3 /\ s = BS
  <2>1. p \in {"framehead", "dlmap", "ulmap"} /\ Sends(s, p)
    BY <1>2, <1>4, PhasesAre DEF Sends
  <2>2. Started(s, p) = Announce(BS, p)
    BY <1>4, <2>1 DEF Started
  <2>3. CASE n = 1
    <3>1. p = "framehead" /\ Length[n] = HeadLength
      BY <2>3, PhasesAre, LengthsAre
    <3>2. Announce(BS, p) = Broadcast(BS, p, HeadLength - Tick, HeadLength - 2 * Tick)
      BY <3>1 DEF Announce
    <3>3. /\ HeadLength - Tick \in Nat /\ HeadLength - 2 * Tick \in Nat
          /\ 0 < HeadLength - Tick /\ 0 < HeadLength - 2 * Tick
          /\ HeadLength - 2 * Tick < Length[n] /\ HeadLength - Tick <= Length[n]
      BY <1>1, <3>1 DEF Tick
    <3> QED BY <1>4, <2>2, <3>2, <3>3, BroadcastWell
  <2>4. CASE n = 2
    <3>1. p = "dlmap" /\ Length[n] = DlMapLength
      BY <2>4, PhasesAre, LengthsAre
    <3>2. Announce(BS, p) = Broadcast(BS, p, SymbolDuration, SymbolDuration - Tick)
      BY <3>1 DEF Announce
    <3>3. /\ SymbolDuration - Tick \in Nat /\ 0 < SymbolDuration /\ 0 < SymbolDuration - Tick
          /\ SymbolDuration - Tick < Length[n] /\ SymbolDuration <= Length[n]
      BY <1>1, <3>1 DEF Tick
    <3> QED BY <1>1, <1>4, <2>2, <3>2, <3>3, BroadcastWell
  <2>5. CASE n = 3
    <3>1. p = "ulmap" /\ Length[n] = UlMapLength
      BY <2>5, PhasesAre, LengthsAre
    <3>2. Announce(BS, p) = Broadcast(BS, p, SymbolDuration - Tick, SymbolDuration - Tick)
      BY <3>1 DEF Announce
    <3>3. /\ SymbolDuration - Tick \in Nat /\ 0 < SymbolDuration - Tick
          /\ SymbolDuration - Tick < Length[n] /\ SymbolDuration - Tick <= Length[n]
      BY <1>1, <3>1 DEF Tick
    <3> QED BY <1>4, <2>2, <3>2, <3>3, BroadcastWell
  <2> QED BY <1>2, <1>4, <2>3, <2>4, <2>5
<1>5. CASE n \in 1..3 /\ s # BS
  <2>1. p \in {"framehead", "dlmap", "ulmap"} /\ ~Sends(s, p)
    BY <1>2, <1>5, PhasesAre DEF Sends
  <2>2. Started(s, p) = <<>>
    BY <2>1 DEF Started
  <2> QED BY <1>3, <2>2
<1>6. CASE n \in {5, 7, 8}
  <2>1. p \notin {"framehead", "dlmap", "ulmap", "dldata", "uldata"}
    BY <1>6, PhasesAre
  <2>2. Started(s, p) = <<>>
    BY <2>1 DEF Started
  <2> QED BY <1>3, <2>2
<1>7. CASE n \in {4, 6}
  <2> DEFINE ks == Sending(s, p)
             tx == Transmissions(s, p, ks)
             l  == Length[IF p = "dldata" THEN 4 ELSE 6]
             f  == Plain(l, s, "finished", p)
  <2>1. p \in {"dldata", "uldata"} /\ p \in Range(Phases) /\ (p = "dldata" => n = 4) /\ (p = "uldata" => n = 6)
    BY <1>7, PhasesAre
  <2>2. Started(s, p) = Append(tx, f)
    BY <2>1 DEF Started
  <2>3. l = Length[n] /\ l \in Nat /\ l > 0
    BY <1>7, <2>1, LengthsAre
  <2>4. /\ ks \in SUBSET Slot
        /\ ks # {} => Sends(s, p)
        /\ ks # {} /\ n = 6 => s \in SS /\ available[s] /\ ks \subseteq granted[s]
    <3>1. CASE p = "dldata"
      <4>1. n = 4
        BY <2>1, <3>1
      <4>2. CASE Sends(s, p)
        <5>1. ks = burst
          BY <3>1, <4>2 DEF Sending
        <5> QED BY <4>1, <4>2, <5>1 DEF TypeOK
      <4>3. CASE ~Sends(s, p)
        <5>1. ks = {}
          BY <3>1, <4>3 DEF Sending
        <5> QED BY <5>1
      <4> QED BY <4>2, <4>3
    <3>2. CASE p = "uldata"
      <4>1. CASE Sends(s, p) /\ available[s]
        <5>1. ks = Filled(s)
          BY <3>2, <4>1 DEF Sending
        <5>2. s \in SS
          BY <3>2, <4>1 DEF Sends, Station
        <5>3. ks \subseteq granted[s]
          BY <5>1 DEF Filled
        <5>4. granted[s] \in SUBSET Slot
          BY <5>2 DEF TypeOK
        <5> QED BY <4>1, <5>2, <5>3, <5>4
      <4>2. CASE ~(Sends(s, p) /\ available[s])
        <5>1. ks = {}
          BY <3>2, <4>2 DEF Sending
        <5> QED BY <5>1
      <4> QED BY <4>1, <4>2
    <3> QED BY <2>1, <3>1, <3>2
  <2> HIDE DEF ks
  <2>5. StartsWell(tx, s, n) /\ \A x \in Range(tx) : x.what \in OnAir
    BY <1>7, <2>4, TransmissionsWell
  <2>6. f \in Event /\ f.left = l /\ f.who = s /\ f.what = "finished" /\ f.phase = p
    BY <2>1, <2>3, PlainIs
  <2> HIDE DEF tx, f, l
  <2> DEFINE es == Append(tx, f)
  <2>7. /\ tx \in Seq(Event) /\ es \in Seq(Event) /\ Len(tx) \in Nat /\ DOMAIN tx = 1..Len(tx)
        /\ DOMAIN es = 1..(Len(tx) + 1) /\ es[Len(tx) + 1] = f
        /\ \A i \in 1..Len(tx) : es[i] = tx[i] /\ tx[i] \in Range(tx)
    <3>1. tx \in Seq(Event)
      BY <2>5 DEF StartsWell
    <3>2. Len(tx) \in Nat /\ DOMAIN tx = 1..Len(tx)
      BY <3>1, SeqFacts
    <3>3. es \in Seq(Event) /\ DOMAIN es = 1..(Len(tx) + 1) /\ es[Len(tx) + 1] = f
          /\ \A i \in 1..Len(tx) : es[i] = tx[i]
      BY <2>6, <3>1, <3>2
    <3> QED BY <3>1, <3>2, <3>3 DEF Range
  <2>8. Range(es) = Range(tx) \cup {f}
    <3>1. \A i \in DOMAIN es : i \in 1..Len(tx) \/ i = Len(tx) + 1
      BY <2>7
    <3>2. \A x \in Range(es) : x \in Range(tx) \cup {f}
      BY <2>7, <3>1 DEF Range
    <3>3. f \in Range(es)
      <4>1. Len(tx) + 1 \in DOMAIN es
        BY <2>7
      <4> QED BY <2>7, <4>1 DEF Range
    <3>4. \A i \in 1..Len(tx) : i \in DOMAIN es
      BY <2>7
    <3>5. \A x \in Range(tx) : x \in Range(es)
      BY <2>7, <3>4 DEF Range
    <3> QED BY <3>2, <3>3, <3>5
  <2> HIDE DEF es
  <2>9. \A i, j \in DOMAIN es : i < j => Tie(es[i], es[j])
    <3> SUFFICES ASSUME NEW i \in DOMAIN es, NEW j \in DOMAIN es, i < j PROVE Tie(es[i], es[j])
      OBVIOUS
    <3>1. i \in 1..Len(tx) /\ (j \in 1..Len(tx) \/ j = Len(tx) + 1)
      BY <2>7
    <3>2. CASE j \in 1..Len(tx)
      BY <2>5, <2>7, <3>1, <3>2 DEF StartsWell
    <3>3. CASE j = Len(tx) + 1
      <4>1. es[i] \in Range(tx) /\ es[i].what \in OnAir /\ es[i].left < Length[n]
        BY <2>5, <2>7, <3>1 DEF StartsWell
      <4>2. es[i] \in Event
        BY <2>7, SeqFacts
      <4>3. es[i].left # f.left
        BY <2>3, <2>6, <4>1, <4>2, EventFields
      <4> QED BY <2>7, <3>3, <4>3 DEF Tie
    <3> QED BY <3>1, <3>2, <3>3
  <2>10. p \in Sent
    BY <2>1 DEF Sent
  <2>11. StartsWell(es, s, n)
    <3>1. ASSUME NEW x \in Range(tx)
          PROVE  x.what = "txStart" =>
                   \E y \in Range(es) : y.what = "txStop" /\ SameBurst(x, y) /\ y.left > x.left
      BY <2>5, <2>8, <3>1 DEF StartsWell
    <3>2. f.what \in Reports /\ f.what \notin OnAir /\ f.left <= Length[n]
      BY <2>3, <2>6 DEF Reports, OnAir
    <3>3. StartsWell(tx, s, n)
      BY <2>5
    <3> QED BY <2>3, <2>6, <2>7, <2>8, <2>9, <2>10, <3>1, <3>2, <3>3 DEF StartsWell
  <2> QED BY <2>2, <2>11 DEF es
<1> QED BY <1>2, <1>4, <1>5, <1>6, <1>7

\* processOneActivation: what the collector schedules, then the timeout.
LEMMA PhaseEventsWell ==
  ASSUME FrameFits, TypeOK, NEW n \in 1..8, NEW s \in Station
  PROVE  /\ PhaseEvents(s, n) \in Seq(Event)
         /\ \E tm \in Event :
              /\ tm.left = Length[n] /\ tm.who = s /\ tm.what = "timeout"
              /\ Range(PhaseEvents(s, n)) = Range(Started(s, Phases[n])) \cup {tm}
         /\ \A i, j \in DOMAIN PhaseEvents(s, n) : i < j =>
              /\ Tie(PhaseEvents(s, n)[i], PhaseEvents(s, n)[j])
              /\ Other(PhaseEvents(s, n)[i], PhaseEvents(s, n)[j])
<1> DEFINE st == Started(s, Phases[n])
           tm == Plain(Length[n], s, "timeout", "any")
           es == PhaseEvents(s, n)
<1>1. StartsWell(st, s, n)
  BY StartedWell
<1>2. Length[n] \in Nat
  BY LengthsAre
<1>3. tm \in Event /\ tm.left = Length[n] /\ tm.who = s /\ tm.what = "timeout"
  BY <1>2, PlainIs
<1>4. es = st \o <<tm>>
  BY DEF PhaseEvents
<1> HIDE DEF st, tm, es
<1>5. st \in Seq(Event) /\ Len(st) \in Nat /\ DOMAIN st = 1..Len(st)
  <2>1. st \in Seq(Event)
    BY <1>1 DEF StartsWell
  <2> QED BY <2>1, SeqFacts
<1>6. /\ es \in Seq(Event) /\ DOMAIN es = 1..(Len(st) + 1)
      /\ \A i \in 1..Len(st) : es[i] = st[i]
      /\ es[Len(st) + 1] = tm
  BY <1>3, <1>4, <1>5
<1>7. \A i \in DOMAIN es : i \in 1..Len(st) \/ i = Len(st) + 1
  BY <1>5, <1>6
<1>8. \A i \in 1..Len(st) : i \in DOMAIN es /\ st[i] \in Range(st)
  BY <1>5, <1>6 DEF Range
<1>9. Range(es) = Range(st) \cup {tm}
  <2>1. \A x \in Range(es) : x \in Range(st) \cup {tm}
    BY <1>6, <1>7, <1>8 DEF Range
  <2>2. \A x \in Range(st) : x \in Range(es)
    BY <1>5, <1>6, <1>8 DEF Range
  <2>3. Len(st) + 1 \in DOMAIN es
    BY <1>5, <1>6
  <2>4. tm \in Range(es)
    BY <1>6, <2>3 DEF Range
  <2> QED BY <2>1, <2>2, <2>4
<1>10. ASSUME NEW i \in DOMAIN es, NEW j \in DOMAIN es, i < j
       PROVE  Tie(es[i], es[j]) /\ Other(es[i], es[j])
  <2>1. i \in 1..Len(st) /\ (j \in 1..Len(st) \/ j = Len(st) + 1)
    BY <1>5, <1>6, <1>10
  <2>2. /\ es[i] = st[i] /\ st[i].what \in Reports /\ st[i].left <= Length[n]
        /\ st[i].what \in OnAir => st[i].left < Length[n]
        /\ st[i].left \in Nat
    <3>1. st[i] \in Event /\ st[i] \in Range(st) /\ es[i] = st[i]
      BY <1>5, <1>6, <1>8, <2>1, SeqFacts
    <3> QED BY <1>1, <3>1, EventFields DEF StartsWell
  <2>3. Other(es[i], es[j])
    BY <2>2 DEF Other, Reports, OnAir
  <2>4. CASE j \in 1..Len(st)
    BY <1>1, <1>5, <1>6, <1>10, <2>1, <2>3, <2>4 DEF StartsWell
  <2>5. CASE j = Len(st) + 1
    <3>1. es[j] = tm
      BY <1>6, <2>5
    <3>2. CASE st[i].what \in OnAir
      <4>1. es[i].left # tm.left
        BY <1>2, <1>3, <2>2, <3>2
      <4> QED BY <2>3, <3>1, <4>1 DEF Tie
    <3>3. CASE st[i].what = "finished"
      <4>1. Rank(es[i]) = 2 /\ Rank(tm) = 2
        BY <1>3, <2>2, <3>3 DEF Rank
      <4> QED BY <1>3, <2>2, <2>3, <3>1, <3>3, <4>1 DEF Tie
    <3> QED BY <2>2, <3>2, <3>3 DEF Reports
  <2> QED BY <2>1, <2>4, <2>5
<1> QED BY <1>3, <1>6, <1>9, <1>10 DEF st, es

\* A station's next phase begins: its clock of activations is set, and what it
\* schedules may stand behind what the others have scheduled, as long as those
\* transmissions of others that are to come belong to that phase as well.
LEMMA ActivateRuns ==
  ASSUME FrameFits, TypeOK, NEW h, NEW L, NEW P, NEW T, NEW W, Due(h, L, active, P, T, W),
         NEW n \in 1..8, h.what \in {"trigger", "timeout"},
         h.what = "trigger" => \A u \in Station : P[u] = FrameDuration,
         \A x \in L : x.who = h.who => x.what \notin Reports \cup {"timeout"},
         \A x \in L : x.what \in OnAir => active[x.who] = n /\ x.left < Length[n],
         \A act2, T2 : act2[h.who] = n /\ T2[h.who] = Length[n] =>
           InPhase(h.who, act2, P, T2, IF h.what = "trigger" THEN W \ {h.who} ELSE W)
  PROVE  /\ [T EXCEPT ![h.who] = Length[n]] \in Timers
         /\ Runs(L \cup Range(PhaseEvents(h.who, n)), [active EXCEPT ![h.who] = n], P,
                 [T EXCEPT ![h.who] = Length[n]], IF h.what = "trigger" THEN W \ {h.who} ELSE W)
         /\ \A x \in L, y \in Range(PhaseEvents(h.who, n)) :
              ~SameTimer(y, x) /\ Tie(x, y) /\ Other(x, y)
<1> DEFINE s == h.who
           st == Started(s, Phases[n])
           N == Range(PhaseEvents(s, n))
           E == L \cup N
           act2 == [active EXCEPT ![s] = n]
           T2 == [T EXCEPT ![s] = Length[n]]
           W2 == IF h.what = "trigger" THEN W \ {s} ELSE W
<1>1. /\ s \in Station
      /\ \A u \in Station : /\ P[u] \in Nat /\ P[u] <= FrameDuration /\ T[u] \in Nat
                            /\ active[u] \in 1..9 /\ (active[u] # End => active[u] \in 1..8)
      /\ Together(P, W) /\ \A u \in Station : InPhase(u, active, P, T, W)
      /\ \A x \in L : InTime(x, L, active, P, T, W) /\ x.left \in Nat /\ x.who \in Station
      /\ \A u \in Station :
           /\ Has(L, u, "periodic")
           /\ u \in W => Has(L, u, "trigger") \/ (h.what = "trigger" /\ u = s)
           /\ active[u] # End => Has(L, u, "timeout") \/ u = s
  BY DueFacts
<1>2. PICK tm \in Event :
         /\ tm.left = Length[n] /\ tm.who = s /\ tm.what = "timeout"
         /\ N = Range(st) \cup {tm}
  BY <1>1, PhaseEventsWell
<1>3. StartsWell(st, s, n)
  BY <1>1, StartedWell
<1>4. /\ T \in Timers /\ active \in [Station -> 1..End] /\ L \in SUBSET Event
      /\ \A y \in L : Other(h, y)
  BY DEF Due
<1>5. Length[n] \in Nat /\ Length[n] > 0 /\ n # End /\ n \in 1..End
  BY LengthsAre, PhasesAre
<1>6. T2 \in Timers
  BY <1>1, <1>4, <1>5 DEF Timers
<1>7. \A u \in Station : /\ T2[u] = IF u = s THEN Length[n] ELSE T[u]
                         /\ act2[u] = IF u = s THEN n ELSE active[u]
  BY <1>4 DEF Timers
<1>8. \A x \in Range(st) : x \in Event /\ x \in E /\ x.left \in Nat
  <2>1. st \in Seq(Event)
    BY <1>3 DEF StartsWell
  <2>2. \A x \in Range(st) : x \in Event
    BY <2>1, SeqFacts DEF Range
  <2> QED BY <1>2, <2>2, EventFields
<1> HIDE DEF st, N, act2, T2
<1>9. \A x \in L : x.what = "trigger" => x.who \in W2
  BY <1>1, <1>4 DEF InTime, Other
<1>10. ASSUME NEW x \in E PROVE InTime(x, E, act2, P, T2, W2)
  <2>1. CASE x = tm
    BY <1>1, <1>2, <1>5, <1>7, <2>1 DEF InTime, Reports, OnAir
  <2>2. CASE x \in Range(st)
    <3>1. /\ x.who = s /\ x.what \in Reports
          /\ x.phase = Phases[n] /\ x.phase \in Sent /\ x.left <= Length[n]
          /\ x.what \in OnAir => x.left < Length[n] /\ Sends(s, Phases[n])
          /\ x.what = "txStart" =>
               \E y \in Range(st) : y.what = "txStop" /\ SameBurst(x, y) /\ y.left > x.left
      BY <1>3, <2>2 DEF StartsWell
    <3>2. x.what \notin {"periodic", "trigger", "timeout"}
      BY <3>1 DEF Reports, OnAir
    <3> QED BY <1>1, <1>5, <1>7, <1>8, <3>1, <3>2 DEF InTime
  <2>3. CASE x \in L
    <3>1. InTime(x, L, active, P, T, W) /\ x.who \in Station
      BY <1>1, <2>3
    <3>2. x.what = "timeout" \/ x.what \in Reports =>
             act2[x.who] = active[x.who] /\ T2[x.who] = T[x.who]
      BY <1>7, <2>3, <3>1
    <3>3. x.what \in OnAir => x.what \in Reports
      BY DEF Reports
    <3>4. x.what = "trigger" => x.who \in W2
      BY <1>9, <2>3
    <3> QED BY <3>1, <3>2, <3>3, <3>4 DEF InTime
  <2> QED BY <1>2, <2>1, <2>2, <2>3
<1>11. HasTimers(E, act2, W2)
  <2>1. \A u, w : Has(L, u, w) => Has(E, u, w)
    BY DEF Has
  <2>2. Has(E, s, "timeout")
    BY <1>2 DEF Has
  <2>3. \A u \in W2 : u \in W /\ ~(h.what = "trigger" /\ u = s)
    OBVIOUS
  <2> QED BY <1>1, <1>7, <2>1, <2>2, <2>3 DEF HasTimers
<1>12. Together(P, W2)
  <2>1. CASE h.what = "trigger"
    <3>1. FrameDuration > 0
      <4>1. 1 \in 1..9 /\ 9 \in 1..9 /\ 1 < 9
        OBVIOUS
      <4>2. Starts[1] < Starts[9] /\ Starts[1] = 0 /\ Starts[9] \in Nat /\ FrameDuration \in Nat
            /\ Starts[9] <= FrameDuration
        BY <4>1, LengthsAre
      <4> QED BY <4>2
    <3> QED BY <1>1, <2>1, <3>1 DEF Together
  <2>2. CASE h.what # "trigger"
    BY <1>1, <2>2
  <2> QED BY <2>1, <2>2
<1>13. \A u \in Station : InPhase(u, act2, P, T2, W2)
  <2> TAKE u \in Station
  <2>1. CASE u # s
    <3>1. act2[u] = active[u] /\ T2[u] = T[u] /\ (u \in W2 <=> u \in W)
      BY <1>7, <2>1
    <3> QED BY <1>1, <3>1 DEF InPhase
  <2>2. CASE u = s
    BY <1>7, <2>2
  <2> QED BY <2>1, <2>2
<1>14. ASSUME NEW x \in L, NEW y \in N
       PROVE  ~SameTimer(y, x) /\ Tie(x, y) /\ Other(x, y)
  <2>1. x.left \in Nat /\ x \in Event
        /\ x.what \in {"periodic", "trigger", "timeout", "finished", "txStart", "txStop"}
    BY <1>1, <1>4, EventFields
  <2>2. x.what = "trigger" => x.left = 0
    BY <1>1 DEF InTime
  <2>3. y.who = s
    BY <1>2, <1>3, <1>14 DEF StartsWell
  <2>4. ~SameTimer(y, x) /\ Other(x, y)
    <3>1. y = tm \/ y.what \in Reports
      BY <1>2, <1>3, <1>14 DEF StartsWell
    <3> QED BY <1>2, <2>3, <3>1 DEF SameTimer, Other, Reports, OnAir
  <2>5. CASE y = tm
    <3>1. x.what \in OnAir => x.left # y.left
      BY <1>2, <1>5, <2>1, <2>5
    <3>2. x.what = "trigger" => x.left # y.left
      BY <1>2, <1>5, <2>1, <2>2, <2>5
    <3>3. x.what \notin OnAir \cup {"trigger"} => Rank(x) <= 2
      BY <2>1 DEF Rank, OnAir
    <3>4. Rank(y) = 2 /\ y.what # "finished"
      BY <1>2, <2>5 DEF Rank
    <3> QED BY <2>4, <3>1, <3>2, <3>3, <3>4 DEF Tie
  <2>6. CASE y \in Range(st) /\ y.what \in OnAir
    <3>1. Rank(y) = 4 /\ y.what # "finished"
      BY <2>6 DEF Rank, OnAir
    <3>2. Rank(x) <= 4
      BY DEF Rank
    <3> QED BY <2>4, <3>1, <3>2 DEF Tie
  <2>7. CASE y \in Range(st) /\ y.what = "finished"
    <3>1. y.left > 0 /\ (y.left = Length[n] \/ (s = BS /\ n \in 1..3))
      BY <1>3, <2>7 DEF StartsWell
    <3>2. x.what = "trigger" => x.left # y.left
      BY <2>1, <2>2, <3>1
    <3>3. x.what \in OnAir => x.left # y.left
      <4> SUFFICES ASSUME x.what \in OnAir, x.left = y.left PROVE FALSE
        OBVIOUS
      <4>1. active[x.who] = n /\ x.left < Length[n]
        OBVIOUS
      <4>2. s = BS /\ n \in 1..3
        BY <1>5, <2>1, <3>1, <4>1
      <4>3. Sends(x.who, x.phase) /\ Phases[active[x.who]] = x.phase
        BY <1>1 DEF InTime, Reports
      <4>4. x.phase # "uldata"
        BY <4>1, <4>2, <4>3, PhasesAre
      <4>5. x.who = BS
        BY <4>3, <4>4 DEF Sends
      <4> QED BY <4>2, <4>5 DEF Reports
    <3>4. x.what \notin OnAir \cup {"trigger"} => Rank(x) <= 2
      BY <2>1 DEF Rank, OnAir
    <3>5. Rank(y) = 2
      BY <2>7 DEF Rank
    <3>6. ~(x.who = y.who /\ x.what = "timeout")
      BY <2>3
    <3> QED BY <2>4, <3>2, <3>3, <3>4, <3>5, <3>6 DEF Tie
  <2>8. y = tm \/ (y \in Range(st) /\ y.what \in Reports)
    BY <1>2, <1>3, <1>14 DEF StartsWell
  <2> QED BY <2>5, <2>6, <2>7, <2>8 DEF Reports
<1> QED BY <1>6, <1>10, <1>11, <1>12, <1>13, <1>14 DEF Runs, N, act2, T2

---------------------------------------------------------------------------
(* TimingControl::startProcessingActivations.                              *)

\* The frame of h's station begins: its last one is over, and the stations whose
\* frame has begun already are in its first phase, for no time yet.
Beginning(h, L, act, P, T, W) ==
  /\ act[h.who] = End
  /\ \A u \in Station : P[u] = FrameDuration
  /\ \A u \in Station : act[u] # End => act[u] = 1 /\ T[u] = Length[1]
  /\ \A x \in L : x.who = h.who => x.what \notin Reports \cup {"timeout"}
  /\ \A x \in L : x.what \in Reports => x.phase = "framehead"
  /\ \A x \in L : x.what \in OnAir => act[x.who] = 1 /\ x.left < Length[1]
  /\ \A act2, T2 : act2[h.who] = 1 /\ T2[h.who] = Length[1] =>
       InPhase(h.who, act2, P, T2, W \ {h.who})

\* When the start of a frame is due, everyone is ready for it.
LEMMA FrameBegins ==
  ASSUME FrameFits, NEW h, NEW L, NEW act, NEW P, NEW T, NEW W, Due(h, L, act, P, T, W),
         h.what = "trigger"
  PROVE  Beginning(h, L, act, P, T, W)
<1> DEFINE s == h.who
<1>1. /\ s \in Station
      /\ \A u \in Station : /\ P[u] \in Nat /\ P[u] <= FrameDuration /\ T[u] \in Nat
                            /\ act[u] \in 1..9 /\ (act[u] # End => act[u] \in 1..8)
      /\ Together(P, W) /\ \A u \in Station : InPhase(u, act, P, T, W)
      /\ \A x \in L : InTime(x, L, act, P, T, W) /\ x.left \in Nat /\ x.who \in Station
      /\ InTime(h, L, act, P, T, W)
      /\ \A u \in Station :
           /\ Has(L, u, "periodic")
           /\ act[u] # End => Has(L, u, "timeout")
      /\ \A x \in L : x.left = 0 => Rank(h) <= Rank(x)
  BY DueFacts
<1>2. /\ FrameDuration \in Nat /\ Starts[1] = 0 /\ Starts[9] > 0 /\ Starts[9] \in Nat
      /\ Length[1] \in Nat
  <2>1. 1 \in 1..9 /\ 9 \in 1..9 /\ 1 < 9 /\ 1 \in 1..8
    OBVIOUS
  <2>2. Starts[1] < Starts[9]
    BY <2>1, LengthsAre
  <2> QED BY <2>1, <2>2, LengthsAre
<1>3. Rank(h) = 3
  BY DEF Rank
<1>4. \A x \in L : x.what \in {"periodic", "timeout"} => x.left > 0
  <2> SUFFICES ASSUME NEW x \in L, x.what \in {"periodic", "timeout"}, x.left = 0 PROVE FALSE
    BY <1>1
  <2>1. Rank(x) <= 2
    BY DEF Rank
  <2> QED BY <1>1, <1>3, <2>1 DEF Rank
<1>5. \A u \in Station : P[u] > 0
  <2> TAKE u \in Station
  <2>1. PICK x \in L : x.who = u /\ x.what = "periodic"
    BY <1>1 DEF Has
  <2> QED BY <1>1, <1>4, <2>1 DEF InTime
<1>6. \A u \in Station : act[u] # End => T[u] > 0
  <2> SUFFICES ASSUME NEW u \in Station, act[u] # End PROVE T[u] > 0
    OBVIOUS
  <2>1. PICK x \in L : x.who = u /\ x.what = "timeout"
    BY <1>1 DEF Has
  <2> QED BY <1>1, <1>4, <2>1 DEF InTime
<1>7. s \in W
  BY <1>1 DEF InTime
<1>8. \A u \in Station : P[u] = FrameDuration
  <2>1. P[s] = FrameDuration
    BY <1>1, <1>7 DEF InPhase
  <2> QED BY <1>1, <1>5, <2>1 DEF Together
<1>9. \A u \in W : act[u] = End
  <2> SUFFICES ASSUME NEW u \in W, act[u] # End PROVE FALSE
    OBVIOUS
  <2>1. u \in Station
    BY DEF Due
  <2>2. T[u] = 0
    BY <1>1, <2>1, PhasesAre DEF InPhase
  <2> QED BY <1>6, <2>1, <2>2
<1>10. ASSUME NEW u \in Station, act[u] # End PROVE act[u] = 1 /\ T[u] = Length[1]
  <2>1. u \notin W /\ act[u] \in 1..8 /\ act[u] + 1 \in 1..9
    BY <1>1, <1>9, <1>10
  <2>2. /\ T[u] + FrameDuration = Starts[act[u] + 1] + FrameDuration /\ T[u] <= Length[act[u]]
    BY <1>1, <1>8, <1>10, <2>1 DEF InPhase
  <2>3. /\ Length[act[u]] \in Nat /\ Starts[act[u]] \in Nat /\ Starts[act[u] + 1] \in Nat
        /\ Starts[act[u] + 1] = Starts[act[u]] + Length[act[u]]
    BY <2>1, LengthsAre
  <2>4. T[u] = Starts[act[u] + 1] /\ Starts[act[u]] = 0
    BY <1>1, <1>2, <1>10, <2>2, <2>3
  <2>5. ~(1 < act[u])
    <3> SUFFICES ASSUME 1 < act[u] PROVE FALSE
      OBVIOUS
    <3>1. 1 \in 1..9 /\ act[u] \in 1..9
      BY <2>1
    <3>2. Starts[1] < Starts[act[u]]
      BY <3>1, LengthsAre
    <3> QED BY <1>2, <2>4, <3>2
  <2>6. act[u] = 1
    BY <2>1, <2>5
  <2> QED BY <1>2, <2>3, <2>4, <2>6
<1>11. act[s] = End
  BY <1>7, <1>9
<1>12. ASSUME NEW x \in L, x.what \in Reports
       PROVE  act[x.who] = 1 /\ x.phase = "framehead" /\ x.who # s
  <2>1. x.who \in Station /\ act[x.who] \in {1, 2, 3, 4, 6} /\ Phases[act[x.who]] = x.phase
    BY <1>12, ReportFacts
  <2>2. act[x.who] # End
    BY <2>1, PhasesAre
  <2>3. act[x.who] = 1
    BY <1>10, <2>1, <2>2
  <2> QED BY <1>11, <2>1, <2>2, <2>3, PhasesAre
<1>13. \A x \in L : x.what = "timeout" => x.who # s
  BY <1>1, <1>11 DEF InTime
<1>14. \A x \in L : x.what \in OnAir => act[x.who] = 1 /\ x.left < Length[1]
  <2> SUFFICES ASSUME NEW x \in L, x.what \in OnAir PROVE act[x.who] = 1 /\ x.left < Length[1]
    OBVIOUS
  <2>1. x.what \in Reports
    BY DEF Reports
  <2>2. act[x.who] = 1 /\ x.who \in Station /\ x.left < T[x.who]
    BY <1>12, <2>1, ReportFacts
  <2>3. act[x.who] # End
    BY <2>2, PhasesAre
  <2> QED BY <1>10, <2>2, <2>3
<1>15. ASSUME NEW act2, NEW T2, act2[s] = 1, T2[s] = Length[1]
       PROVE  InPhase(s, act2, P, T2, W \ {s})
  <2>1. Starts[1 + 1] = Starts[1] + Length[1]
    BY LengthsAre
  <2>2. 1 # End
    BY PhasesAre
  <2> QED BY <1>1, <1>2, <1>8, <1>15, <2>1, <2>2 DEF InPhase
<1> QED BY <1>8, <1>10, <1>11, <1>12, <1>13, <1>14, <1>15 DEF Beginning

---------------------------------------------------------------------------
(* TimingControl::onTimeout.                                               *)

\* The phase of h's station ends: what the station had to do in it is done, and
\* what others have still to send belongs to the phase that follows.
Ending(h, L, act, P, T, W) ==
  /\ act[h.who] \in 1..8 /\ T[h.who] = 0
  /\ \A x \in L : x.who = h.who => x.what \notin Reports \cup {"timeout"}
  /\ \A x \in L : x.what \in OnAir /\ act[h.who] < 8 =>
       act[x.who] = act[h.who] + 1 /\ x.left < Length[act[h.who] + 1]
  /\ \A act2, T2 :
       act[h.who] < 8 /\ act2[h.who] = act[h.who] + 1 /\ T2[h.who] = Length[act[h.who] + 1]
         => InPhase(h.who, act2, P, T2, W)
  /\ \A act2 : act[h.who] = 8 /\ act2[h.who] = End => InPhase(h.who, act2, P, T, W)

\* When the timeout of a phase is due, the phase is over.
LEMMA PhaseOver ==
  ASSUME FrameFits, NEW h, NEW L, NEW act, NEW P, NEW T, NEW W, Due(h, L, act, P, T, W),
         h.what = "timeout"
  PROVE  Ending(h, L, act, P, T, W)
<1> DEFINE s == h.who
           n == act[s]
<1>1. /\ s \in Station
      /\ \A u \in Station : /\ P[u] \in Nat /\ P[u] <= FrameDuration /\ T[u] \in Nat
                            /\ act[u] \in 1..9 /\ (act[u] # End => act[u] \in 1..8)
      /\ Together(P, W) /\ \A u \in Station : InPhase(u, act, P, T, W)
      /\ \A x \in L : InTime(x, L, act, P, T, W) /\ x.left \in Nat /\ x.who \in Station
      /\ InTime(h, L, act, P, T, W)
      /\ \A u \in Station : Has(L, u, "periodic")
      /\ \A x \in L : x.left = 0 => Rank(h) <= Rank(x)
  BY DueFacts
<1>2. h.left = 0 /\ (\A y \in L : Tie(h, y) /\ Other(h, y)) /\ T \in Timers /\ act \in [Station -> 1..End]
  BY DEF Due
<1>3. n \in 1..8 /\ T[s] = 0 /\ n # End
  BY <1>1, <1>2 DEF InTime
<1>4. Rank(h) = 2
  BY DEF Rank
<1>5. \A u \in Station : P[u] > 0
  <2> TAKE u \in Station
  <2>1. PICK x \in L : x.who = u /\ x.what = "periodic"
    BY <1>1 DEF Has
  <2>2. Rank(x) = 1
    BY <2>1 DEF Rank
  <2> QED BY <1>1, <1>4, <2>1, <2>2 DEF InTime
<1>6. /\ FrameDuration \in Nat /\ Starts[n] \in Nat /\ Starts[n + 1] \in Nat
      /\ Length[n] \in Nat /\ Starts[n + 1] = Starts[n] + Length[n]
      /\ (n < 8 => Length[n + 1] \in Nat /\ Starts[n + 2] \in Nat /\ Starts[n + 2] = Starts[n + 1] + Length[n + 1])
  <2>1. n \in 1..9 /\ n + 1 \in 1..9 /\ (n < 8 => n + 1 \in 1..8 /\ n + 2 \in 1..9 /\ n + 2 = n + 1 + 1)
    BY <1>3
  <2> QED BY <1>3, <2>1, LengthsAre
<1>7. s \notin W => FrameDuration = Starts[n + 1] + P[s]
  <2> SUFFICES ASSUME s \notin W PROVE FrameDuration = Starts[n + 1] + P[s]
    OBVIOUS
  <2>1. T[s] + FrameDuration = Starts[n + 1] + P[s]
    BY <1>1, <1>3 DEF InPhase
  <2> QED BY <1>3, <1>6, <2>1
<1>8. s \in W => n = 8 /\ P[s] = FrameDuration
  BY <1>1, <1>3 DEF InPhase
<1>9. ASSUME NEW x \in L, x.who = s PROVE x.what \notin Reports \cup {"timeout"}
  <2>1. x.what # "timeout"
    BY <1>2, <1>9 DEF Other
  <2>2. x.what \notin OnAir
    <3> SUFFICES ASSUME x.what \in OnAir PROVE FALSE
      OBVIOUS
    <3>1. x.left < T[s]
      BY <1>1, <1>9 DEF InTime
    <3> QED BY <1>1, <1>3, <3>1
  <2>3. x.what # "finished"
    <3> SUFFICES ASSUME x.what = "finished" PROVE FALSE
      OBVIOUS
    <3>1. x.left <= T[s]
      BY <1>1, <1>9 DEF InTime, Reports
    <3>2. x.left = 0
      BY <1>1, <1>3, <3>1
    <3> QED BY <1>2, <1>9, <3>2 DEF Tie
  <2> QED BY <2>1, <2>2, <2>3 DEF Reports
<1>10. ASSUME NEW x \in L, x.what \in OnAir, n < 8
       PROVE  act[x.who] = n + 1 /\ x.left < Length[n + 1]
  <2> DEFINE u == x.who
             m == act[u]
  <2>1. /\ u \in Station /\ x.left \in Nat /\ m \in {1, 2, 3, 4, 6} /\ x.left < T[u] /\ u \notin W
    <3>1. x.what \in Reports
      BY <1>10 DEF Reports
    <3> QED BY <1>10, <3>1, ReportFacts
  <2>2. m \in 1..8 /\ m # End /\ m + 1 \in 1..9
    BY <2>1, PhasesAre
  <2>3. /\ T[u] + FrameDuration = Starts[m + 1] + P[u] /\ T[u] <= Length[m]
        /\ T[u] \in Nat /\ P[u] \in Nat
    BY <1>1, <2>1, <2>2 DEF InPhase
  <2>4. /\ Length[m] \in Nat /\ Starts[m] \in Nat /\ Starts[m + 1] \in Nat
        /\ Starts[m + 1] = Starts[m] + Length[m]
    BY <2>2, LengthsAre
  <2>5. P[u] = P[s]
    BY <1>1, <1>5, <2>1 DEF Together
  <2>6. T[u] > 0
    BY <2>1, <2>3
  <2>7. s \notin W
    BY <1>8, <1>10
  <2>8. T[u] + Starts[n + 1] = Starts[m + 1]
    BY <1>1, <1>6, <1>7, <2>3, <2>4, <2>5, <2>7
  <2>9. Starts[m] <= Starts[n + 1] /\ Starts[n + 1] < Starts[m + 1]
    BY <1>6, <2>3, <2>4, <2>6, <2>8
  <2>10. ~(n + 1 < m)
    <3> SUFFICES ASSUME n + 1 < m PROVE FALSE
      OBVIOUS
    <3>1. n + 1 \in 1..9 /\ m \in 1..9
      BY <1>3, <2>2
    <3>2. Starts[n + 1] < Starts[m]
      BY <3>1, LengthsAre
    <3> QED BY <1>6, <2>4, <2>9, <3>2
  <2>11. ~(m < n + 1)
    <3> SUFFICES ASSUME m < n + 1 PROVE FALSE
      OBVIOUS
    <3>1. m = n \/ m < n
      BY <1>3, <2>2
    <3>2. m < n => Starts[m + 1] <= Starts[n]
      BY <1>3, <2>2, LengthsAre
    <3> QED BY <1>6, <2>4, <2>9, <3>1, <3>2
  <2>12. m = n + 1
    BY <1>3, <2>2, <2>10, <2>11
  <2>13. T[u] <= Length[n + 1] /\ Length[n + 1] \in Nat
    BY <2>3, <2>4, <2>12
  <2> QED BY <2>1, <2>3, <2>12, <2>13
<1>11. ASSUME NEW act2, NEW T2, n < 8, act2[s] = n + 1, T2[s] = Length[n + 1]
       PROVE  InPhase(s, act2, P, T2, W)
  <2>1. s \notin W /\ n + 1 # End /\ n + 1 + 1 = n + 2
    BY <1>3, <1>8, <1>11, PhasesAre
  <2>2. FrameDuration = Starts[n + 1] + P[s] /\ P[s] \in Nat
    BY <1>1, <1>7, <2>1
  <2>3. Starts[act2[s] + 1] = Starts[n + 2] /\ Length[act2[s]] = Length[n + 1]
    BY <1>11, <2>1
  <2>4. T2[s] + FrameDuration = Starts[act2[s] + 1] + P[s] /\ T2[s] <= Length[act2[s]]
    BY <1>6, <1>11, <2>2, <2>3
  <2> QED BY <1>11, <2>1, <2>4 DEF InPhase
<1>12. ASSUME NEW act2, n = 8, act2[s] = End PROVE InPhase(s, act2, P, T, W)
  <2>1. s \notin W => P[s] + Starts[End] <= FrameDuration
    BY <1>1, <1>6, <1>7, <1>12, PhasesAre
  <2> QED BY <1>8, <1>12, <2>1, PhasesAre DEF InPhase
<1> QED BY <1>3, <1>9, <1>10, <1>11, <1>12 DEF Ending

---------------------------------------------------------------------------
(* Reports and transmissions.                                              *)

\* The stations run on without a report.
LEMMA RunsWithout ==
  ASSUME FrameFits, NEW h, NEW L, NEW act, NEW P, NEW T, NEW W, Due(h, L, act, P, T, W),
         h.what \in Reports
  PROVE  Runs(L, act, P, T, W)
<1>1. h.what \notin {"periodic", "trigger", "timeout"}
  BY DEF Reports, OnAir
<1>2. W \in SUBSET Station
  BY DEF Due
<1>3. HasTimers(L, act, W)
  BY <1>1, <1>2, DueFacts DEF HasTimers
<1> QED BY <1>3, DueFacts DEF Runs

\* When a transmission starts or ends, every station is in its phase.
LEMMA PhaseOfAll ==
  ASSUME FrameFits, NEW h, NEW L, NEW act, NEW P, NEW T, NEW W, Due(h, L, act, P, T, W),
         h.what \in OnAir
  PROVE  \A u \in Station : act[u] # End /\ Phases[act[u]] = h.phase
<1>1. /\ h.who \in Station
      /\ \A u \in Station : P[u] \in Nat /\ T[u] \in Nat
      /\ Together(P, W) /\ \A u \in Station : InPhase(u, act, P, T, W)
      /\ \A x \in L : InTime(x, L, act, P, T, W) /\ x.left \in Nat
      /\ \A x \in L : x.left = 0 => Rank(h) <= Rank(x)
      /\ act \in [Station -> 1..End] /\ P \in Clocks /\ T \in Timers /\ W \in SUBSET Station
  <2>1. act \in [Station -> 1..End] /\ P \in Clocks /\ T \in Timers /\ W \in SUBSET Station
    BY DEF Due
  <2> QED BY <2>1, DueFacts
<1>2. Rank(h) = 4 /\ h.what \in Reports
  BY DEF Rank, OnAir, Reports
<1>3. \A x \in L : x.what \in {"periodic", "trigger", "timeout"} => x.left > 0
  <2> SUFFICES ASSUME NEW x \in L, x.what \in {"periodic", "trigger", "timeout"}, x.left = 0 PROVE FALSE
    BY <1>1
  <2>1. Rank(x) <= 3
    BY DEF Rank
  <2> QED BY <1>1, <1>2, <2>1 DEF Rank
<1>4. /\ HasTimers(L, act, W)
  BY <1>2, RunsWithout DEF Runs
<1>5. W = {}
  <2> SUFFICES ASSUME NEW u \in W PROVE FALSE
    OBVIOUS
  <2>1. PICK x \in L : x.who = u /\ x.what = "trigger"
    BY <1>1, <1>4 DEF HasTimers, Has
  <2>2. x.left = 0
    BY <1>1, <2>1 DEF InTime
  <2> QED BY <1>3, <2>1, <2>2
<1>6. \A u \in Station : P[u] > 0
  <2> TAKE u \in Station
  <2>1. PICK x \in L : x.who = u /\ x.what = "periodic"
    BY <1>4 DEF HasTimers, Has
  <2>2. x.left = P[u]
    BY <1>1, <2>1 DEF InTime
  <2> QED BY <1>3, <2>1, <2>2
<1>7. \A u \in Station : act[u] # End => T[u] > 0
  <2> SUFFICES ASSUME NEW u \in Station, act[u] # End PROVE T[u] > 0
    OBVIOUS
  <2>1. PICK x \in L : x.who = u /\ x.what = "timeout"
    BY <1>4 DEF HasTimers, Has
  <2>2. x.left = T[u]
    BY <1>1, <2>1 DEF InTime
  <2> QED BY <1>3, <2>1, <2>2
<1>8. \A u, t \in Station : act[u] = act[t]
  BY <1>1, <1>5, <1>6, <1>7, AllAlike
<1>9. act[h.who] \in {1, 2, 3, 4, 6} /\ Phases[act[h.who]] = h.phase
  BY <1>2, ReportFacts
<1> QED BY <1>1, <1>8, <1>9, PhasesAre

\* The air is free when a phase is over.
LEMMA AirFree ==
  ASSUME FrameFits, NEW h, NEW L, NEW act, NEW P, NEW T, NEW W, Due(h, L, act, P, T, W),
         NEW air, AirOK(L \cup {h}, act, air), h.what \in {"trigger", "timeout"}
  PROVE  air = {}
<1> SUFFICES ASSUME NEW t \in air PROVE FALSE
  OBVIOUS
<1>1. h.who \in Station
  BY DueFacts
<1>2. /\ t.phase \in Sent /\ act[h.who] # End /\ Phases[act[h.who]] = t.phase
      /\ \A u \in Station : act[u] # End /\ Phases[act[u]] = t.phase
  BY <1>1 DEF AirOK
<1>3. CASE h.what = "trigger"
  <2>1. Beginning(h, L, act, P, T, W)
    BY <1>3, FrameBegins
  <2>2. act[h.who] = End
    BY <2>1 DEF Beginning
  <2> QED BY <1>2, <2>2
<1>4. CASE h.what = "timeout"
  <2>1. act[h.who] \in 1..8
    BY <1>4, PhaseOver DEF Ending
  <2>2. act[h.who] \in {1, 2, 3, 4, 6}
    BY <1>2, <2>1, PhasesAre
  <2>3. PICK y \in L \cup {h} : y.what = "txStop" /\ SameBurst(t, y)
    BY DEF AirOK
  <2>4. y \in L /\ y.what \in OnAir /\ y.what \in Reports
    BY <1>4, <2>3 DEF OnAir, Reports
  <2>5. act[y.who] = act[h.who] + 1
    <3>1. act[h.who] < 8
      BY <2>2
    <3> QED BY <1>4, <2>4, <3>1, PhaseOver DEF Ending
  <2>6. y.who \in Station /\ act[y.who] \in {1, 2, 3, 4, 6}
    BY <2>4, ReportFacts
  <2>7. Phases[act[y.who]] = Phases[act[h.who]]
    BY <1>2, <2>6
  <2>8. act[y.who] = act[h.who]
    <3>1. act[y.who] \in 1..8 /\ act[h.who] \in 1..8
      BY <2>1, <2>6
    <3> QED BY <2>7, <3>1, PhasesAre
  <2> QED BY <2>1, <2>5, <2>8
<1> QED BY <1>3, <1>4

\* A subscriber sends no more than it has.
LEMMA SendingFits ==
  ASSUME TypeOK, NEW s \in SS, NEW n \in 1..8
  PROVE  Cardinality(Sending(s, Phases[n])) \in 0..queued[s]
<1> DEFINE G == granted[s]
           F == Filled(s)
           upto(k) == {j \in G : j <= k}
           place(k) == Cardinality(upto(k))
<1>1. queued[s] \in Nat /\ G \in SUBSET Slot /\ s # BS
  <2>1. MaxQueue \in Nat /\ s # BS
    BY FrameAssumption
  <2>2. queued[s] \in 0..MaxQueue /\ G \in SUBSET Slot
    BY DEF TypeOK
  <2> QED BY <2>1, <2>2
<1>2. IsFiniteSet(G) /\ \A k \in G : k \in Nat
  <2>1. IsFiniteSet(Slot)
    <3>1. Slots \in Nat /\ 1 \in Int
      BY FrameAssumption
    <3> QED BY <3>1, FS_Interval DEF Slot
  <2>2. \A k \in Slot : k \in Nat
    BY FrameAssumption DEF Slot
  <2> QED BY <1>1, <2>1, <2>2, FS_Subset
<1>3. Sending(s, Phases[n]) \in {{}, F}
  <2>1. ~(Phases[n] = "dldata" /\ Sends(s, Phases[n]))
    BY <1>1 DEF Sends
  <2> QED BY <2>1 DEF Sending
<1>4. Cardinality({}) = 0
  BY FS_EmptySet
<1>5. IsFiniteSet(F) /\ Cardinality(F) \in Nat /\ \A k \in F : k \in G
  <2>1. F \in SUBSET G
    BY DEF Filled
  <2> QED BY <1>2, <2>1, FS_Subset, FS_CardinalityType
<1>6. \A k \in G : IsFiniteSet(upto(k)) /\ k \in upto(k) /\ place(k) \in Nat /\ place(k) # 0
  <2> TAKE k \in G
  <2>1. upto(k) \in SUBSET G
    OBVIOUS
  <2>2. IsFiniteSet(upto(k)) /\ k \in upto(k)
    BY <1>2, <2>1, FS_Subset
  <2>3. place(k) \in Nat
    BY <2>2, FS_CardinalityType
  <2>4. place(k) # 0
    BY <2>2, FS_EmptySet
  <2> QED BY <2>2, <2>3, <2>4
<1>7. \A k \in F : place(k) <= queued[s]
  BY DEF Filled
<1>8. \A j, k \in G : j # k => place(j) # place(k)
  <2>1. ASSUME NEW j \in G, NEW k \in G, j < k PROVE place(j) # place(k)
    <3>1. upto(j) \in SUBSET upto(k) /\ k \in upto(k) /\ k \notin upto(j)
      BY <1>2, <2>1
    <3>2. upto(j) # upto(k)
      BY <3>1
    <3> HIDE DEF upto
    <3> QED BY <1>6, <3>1, <3>2, FS_Subset
  <2> HIDE DEF place
  <2> QED BY <1>2, <2>1
<1> HIDE DEF place, upto, F, G
<1>9. Cardinality(F) <= queued[s]
  <2> DEFINE f == [k \in F |-> place(k)]
  <2>1. \A k \in F : place(k) \in 1..queued[s]
    BY <1>1, <1>5, <1>6, <1>7
  <2>2. f \in Injection(F, 1..queued[s])
    BY <1>5, <1>8, <2>1 DEF Injection, IsInjective
  <2>3. IsFiniteSet(1..queued[s]) /\ Cardinality(1..queued[s]) = queued[s]
    BY <1>1, FS_Interval
  <2> HIDE DEF f
  <2> QED BY <2>2, <2>3, FS_Injection
<1> QED BY <1>1, <1>3, <1>4, <1>5, <1>9

---------------------------------------------------------------------------
(* Every step preserves the invariant.                                     *)

\* periodically keeps the invariant.
LEMMA PeriodicallyStep ==
  ASSUME FrameFits, FrameInv, queue[1].what = "periodic", Periodically(queue[1].who)
  PROVE  FrameInv'
<1> DEFINE s  == queue[1].who
           L  == Range(Later)
           tr == Plain(StartupDelay, s, "trigger", "any")
           pe == Plain(FrameDuration, s, "periodic", "any")
           es == <<tr, pe>>
<1>1. /\ Current.who = s /\ Current.what = "periodic" /\ s \in Station
      /\ Later \in Seq(Event) /\ Ordered(Later)
      /\ AirOK(L \cup {Current}, active, onAir)
      /\ GrantsOK(L \cup {Current}, active, onAir, grants, granted, available)
  BY NextEvent, EventFields
<1>2. PICK P \in Clocks, T \in Timers, W \in SUBSET Station : Due(Current, L, active, P, T, W)
  BY NextEvent
<1>3. StartupDelay = 0 /\ FrameDuration \in Nat
  BY LengthsAre DEF FrameFits
<1>4. /\ tr \in Event /\ tr.left = 0 /\ tr.who = s /\ tr.what = "trigger"
      /\ pe \in Event /\ pe.left = FrameDuration /\ pe.who = s /\ pe.what = "periodic"
  BY <1>1, <1>3, PlainIs
<1> HIDE DEF tr, pe, s
<1> DEFINE P2 == [P EXCEPT ![s] = FrameDuration]
           W2 == W \cup {s}
<1>5. /\ P2 \in Clocks
      /\ Runs(L \cup {tr, pe}, active, P2, T, W2)
      /\ \A x \in L : Tie(x, tr) /\ Tie(x, pe) /\ Other(x, tr) /\ Other(x, pe)
      /\ Tie(tr, pe) /\ Other(tr, pe)
  BY <1>1, <1>2, <1>4, AnnounceFrame
<1>6. /\ es \in Seq(Event) /\ DOMAIN es = 1..2 /\ es[1] = tr /\ es[2] = pe
      /\ Range(es) = {tr, pe}
  <2>1. es \in Seq(Event) /\ DOMAIN es = 1..2 /\ es[1] = tr /\ es[2] = pe
    BY <1>4
  <2>2. \A i \in 1..2 : i = 1 \/ i = 2
    OBVIOUS
  <2> QED BY <2>1, <2>2 DEF Range
<1>7. queue' = PutAll(Later, es)
  BY DEF Periodically, tr, pe, s
<1> HIDE DEF es
<1>8. queue' \in Seq(Event) /\ Ordered(queue') /\ Range(queue') = L \cup {tr, pe}
  <2>1. \A j \in DOMAIN es : j = 1 \/ j = 2
    BY <1>6
  <2>2. \A i \in DOMAIN Later : Later[i] \in L
    BY DEF Range
  <2>3. \A i \in DOMAIN Later, j \in DOMAIN es :
          ~SameTimer(es[j], Later[i]) /\ Tie(Later[i], es[j]) /\ Other(Later[i], es[j])
    BY <1>4, <1>5, <1>6, <2>1, <2>2 DEF SameTimer
  <2>4. \A i, j \in DOMAIN es : i < j => Tie(es[i], es[j]) /\ Other(es[i], es[j])
    <3>1. \A i, j \in DOMAIN es : i < j => i = 1 /\ j = 2
      BY <1>6
    <3> QED BY <1>5, <1>6, <3>1
  <2>5. Range(PutAll(Later, es)) = L \cup Range(es)
    BY <1>1, <1>6, <2>3, <2>4, PutOrdered
  <2> QED BY <1>1, <1>6, <1>7, <2>3, <2>4, <2>5, PutOrdered
<1>9. /\ active' = active /\ joined' = joined /\ upper' = upper /\ queued' = queued
      /\ downlink' = downlink /\ burst' = burst /\ grants' = grants /\ granted' = granted
      /\ available' = available /\ onAir' = onAir /\ fault' = fault
  BY DEF Periodically
<1>10. W2 \in SUBSET Station
  BY <1>1
<1>11. Running(queue', active')
  <2>1. Runs(Range(queue'), active', P2, T, W2)
    BY <1>5, <1>8, <1>9
  <2> HIDE DEF P2, W2
  <2> QED BY <1>5, <1>10, <2>1 DEF Running
<1>12. AirOK(Range(queue'), active', onAir')
  <2>1. \A y \in L \cup {Current} : y.what = "txStop" => y \in Range(queue')
    BY <1>1, <1>8
  <2> QED BY <1>1, <1>9, <2>1 DEF AirOK
<1>13. GrantsOK(Range(queue'), active', onAir', grants', granted', available')
  <2>1. \A y \in Range(queue') : y.what \in OnAir => y \in L \cup {Current}
    BY <1>4, <1>8 DEF OnAir
  <2> QED BY <1>1, <1>9, <2>1 DEF GrantsOK
<1>14. TypeOK' /\ ~fault' /\ \A u \in SS : upper'[u] + queued'[u] <= MaxQueue
  BY <1>8, <1>9 DEF FrameInv, TypeOK
<1> QED BY <1>8, <1>11, <1>12, <1>13, <1>14 DEF FrameInv

\* A station that is in phase p may report its end.
LEMMA MayFinishNow ==
  ASSUME FrameFits, NEW h, NEW P, NEW T, NEW W, Due(h, Range(Later), active, P, T, W),
         h.what \in Reports, NEW u \in Station, active[u] # End
  PROVE  MayFinish(u, Phases[active[u]], Later)
<1>1. h.what # "timeout"
  BY DEF Reports, OnAir
<1>2. Has(Range(Later), u, "timeout")
  BY <1>1, DueFacts
<1>3. PICK x \in Range(Later) : x.who = u /\ x.what = "timeout"
  BY <1>2 DEF Has
<1>4. PICK i \in DOMAIN Later : Later[i] = x
  BY DEF Range
<1> QED BY <1>3, <1>4 DEF MayFinish

\* finishedPhase keeps the invariant, and its assertions hold.
LEMMA FinishedStep ==
  ASSUME FrameFits, FrameInv, queue[1].what = "finished",
         FinishedPhase(queue[1].who, queue[1].phase)
  PROVE  FrameInv'
<1> DEFINE s == queue[1].who
           L == Range(Later)
<1>1. /\ Current.who = s /\ Current.what = "finished" /\ s \in Station /\ Current.phase = queue[1].phase
      /\ Later \in Seq(Event) /\ Ordered(Later)
      /\ AirOK(L \cup {Current}, active, onAir)
      /\ GrantsOK(L \cup {Current}, active, onAir, grants, granted, available)
  BY NextEvent, EventFields
<1>2. PICK P \in Clocks, T \in Timers, W \in SUBSET Station : Due(Current, L, active, P, T, W)
  BY NextEvent
<1>3. Current.what \in Reports
  BY <1>1 DEF Reports
<1>4. /\ queue' = Later
      /\ active' = active /\ joined' = joined /\ upper' = upper /\ queued' = queued
      /\ downlink' = downlink /\ burst' = burst /\ grants' = grants /\ granted' = granted
      /\ available' = available /\ onAir' = onAir
  BY DEF FinishedPhase
<1>5. fault' = FALSE
  <2>1. active[s] \in {1, 2, 3, 4, 6} /\ Phases[active[s]] = queue[1].phase
    BY <1>1, <1>2, <1>3, ReportFacts
  <2>2. active[s] # End
    BY <2>1, PhasesAre
  <2>3. MayFinish(s, queue[1].phase, Later)
    BY <1>1, <1>2, <1>3, <2>1, <2>2, MayFinishNow
  <2>4. fault' = ~MayFinish(s, queue[1].phase, Later)
    BY DEF FinishedPhase
  <2> QED BY <2>3, <2>4
<1>6. Running(queue', active')
  <2>1. Runs(Range(queue'), active', P, T, W)
    BY <1>2, <1>3, <1>4, RunsWithout
  <2> QED BY <2>1 DEF Running
<1>7. AirOK(Range(queue'), active', onAir')
  <2>1. \A y \in L \cup {Current} : y.what = "txStop" => y \in Range(queue')
    BY <1>1, <1>4
  <2> QED BY <1>1, <1>4, <2>1 DEF AirOK
<1>8. GrantsOK(Range(queue'), active', onAir', grants', granted', available')
  BY <1>1, <1>4 DEF GrantsOK
<1>9. TypeOK' /\ \A u \in SS : upper'[u] + queued'[u] <= MaxQueue
  BY <1>1, <1>4, <1>5 DEF FrameInv, TypeOK
<1> QED BY <1>1, <1>4, <1>5, <1>6, <1>7, <1>8, <1>9 DEF FrameInv

\* A transmission that starts is in its phase at every station.
LEMMA StartTransmissionStep ==
  ASSUME FrameFits, FrameInv, queue[1].what = "txStart", StartTransmission(queue[1])
  PROVE  FrameInv'
<1> DEFINE e == queue[1]
           L == Range(Later)
           b == [who |-> e.who, phase |-> e.phase, slot |-> e.slot]
<1>1. /\ e \in Event /\ Current.what = "txStart"
      /\ Current.who = e.who /\ Current.phase = e.phase /\ Current.slot = e.slot
      /\ Later \in Seq(Event) /\ Ordered(Later)
      /\ AirOK(L \cup {Current}, active, onAir)
      /\ GrantsOK(L \cup {Current}, active, onAir, grants, granted, available)
  BY NextEvent
<1>2. PICK P \in Clocks, T \in Timers, W \in SUBSET Station : Due(Current, L, active, P, T, W)
  BY NextEvent
<1>3. Current.what \in Reports /\ Current.what \in OnAir
  BY <1>1 DEF Reports, OnAir
<1>4. /\ queue' = Later /\ onAir' = onAir \cup {b}
      /\ active' = active /\ joined' = joined /\ upper' = upper /\ queued' = queued
      /\ downlink' = downlink /\ burst' = burst /\ grants' = grants /\ granted' = granted
      /\ available' = available /\ fault' = fault
  BY DEF StartTransmission
<1>5. b.who = Current.who /\ b.phase = Current.phase /\ b.slot = Current.slot
  BY <1>1
<1>6. /\ e.who \in Station /\ e.slot \in Slot \cup {0}
      /\ b.phase \in Sent /\ Sends(b.who, b.phase)
      /\ \E y \in L : y.what = "txStop" /\ SameBurst(b, y)
      /\ \A u \in Station : active[u] # End /\ Phases[active[u]] = b.phase
  <2>1. e.who \in Station /\ e.slot \in Slot \cup {0}
    BY <1>1, EventFields
  <2>2. b.phase \in Sent /\ Sends(b.who, b.phase)
    BY <1>2, <1>3, <1>5, ReportFacts
  <2>3. InTime(Current, L, active, P, T, W)
    BY <1>2, DueFacts
  <2>4. \E y \in L : y.what = "txStop" /\ SameBurst(Current, y)
    BY <1>1, <2>3 DEF InTime
  <2>5. \E y \in L : y.what = "txStop" /\ SameBurst(b, y)
    BY <1>5, <2>4 DEF SameBurst
  <2> QED BY <1>2, <1>3, <1>5, <2>1, <2>2, <2>5, PhaseOfAll
<1> HIDE DEF b
<1>7. Running(queue', active')
  <2>1. Runs(Range(queue'), active', P, T, W)
    BY <1>2, <1>3, <1>4, RunsWithout
  <2> QED BY <2>1 DEF Running
<1>8. AirOK(Range(queue'), active', onAir')
  <2>1. \A y \in L \cup {Current} : y.what = "txStop" => y \in Range(queue')
    BY <1>1, <1>4
  <2> QED BY <1>1, <1>4, <1>6, <2>1 DEF AirOK
<1>9. GrantsOK(Range(queue'), active', onAir', grants', granted', available')
  <2>1. b.phase = "uldata" => grants[b.slot] = b.who
    BY <1>1, <1>3, <1>5 DEF GrantsOK
  <2> QED BY <1>1, <1>4, <2>1 DEF GrantsOK
<1>10. b \in [who : Station, phase : Range(Phases), slot : Slot \cup {0}]
  <2>1. e.phase \in Range(Phases)
    BY <1>1, <1>5, <1>6, PhasesAre DEF Sent
  <2> QED BY <1>6, <2>1 DEF b
<1>11. TypeOK' /\ ~fault' /\ \A u \in SS : upper'[u] + queued'[u] <= MaxQueue
  BY <1>1, <1>4, <1>10 DEF FrameInv, TypeOK
<1> QED BY <1>1, <1>4, <1>7, <1>8, <1>9, <1>11 DEF FrameInv

\* A transmission ends, and a broadcast is received by whoever hears it.
LEMMA StopTransmissionStep ==
  ASSUME FrameFits, FrameInv, queue[1].what = "txStop", StopTransmission(queue[1])
  PROVE  FrameInv'
<1> DEFINE e == queue[1]
           L == Range(Later)
           b == [who |-> e.who, phase |-> e.phase, slot |-> e.slot]
<1>1. /\ e \in Event /\ Current.what = "txStop" /\ Current.map = e.map
      /\ Current.who = e.who /\ Current.phase = e.phase /\ Current.slot = e.slot
      /\ Later \in Seq(Event) /\ Ordered(Later)
      /\ AirOK(L \cup {Current}, active, onAir)
      /\ GrantsOK(L \cup {Current}, active, onAir, grants, granted, available)
  BY NextEvent
<1>2. PICK P \in Clocks, T \in Timers, W \in SUBSET Station : Due(Current, L, active, P, T, W)
  BY NextEvent
<1>3. Current.what \in Reports /\ Current.what \in OnAir
  BY <1>1 DEF Reports, OnAir
<1>4. /\ queue' = Later /\ onAir' = onAir \ {b}
      /\ active' = active /\ joined' = joined /\ upper' = upper /\ queued' = queued
      /\ downlink' = downlink /\ burst' = burst /\ grants' = grants
  BY DEF StopTransmission
<1>5. \A u \in Station : active[u] # End /\ Phases[active[u]] = e.phase
  BY <1>1, <1>2, <1>3, PhaseOfAll
<1>6. e.phase \in Sent
  BY <1>1, <1>2, <1>3, ReportFacts
<1>7. e.phase = "ulmap" => e.map = grants
  BY <1>1, <1>3 DEF GrantsOK
<1>8. \A u \in SS : MayFinish(u, e.phase, Later)
  <2> TAKE u \in SS
  <2>1. u \in Station
    BY DEF Station
  <2> QED BY <1>2, <1>3, <1>5, <2>1, MayFinishNow
<1>9. \/ /\ e.phase \in {"framehead", "dlmap", "ulmap"}
         /\ \E rs \in SUBSET Listeners(e.phase) :
              /\ fault' = \E u \in rs :
                   MayFinish(u, e.phase, Later) => e.phase # "framehead" /\ u \notin joined
              /\ IF e.phase = "ulmap" THEN ReceiveULMap(rs, e.map)
                                      ELSE UNCHANGED <<granted, available>>
      \/ /\ e.phase \in {"dldata", "uldata"}
         /\ UNCHANGED <<granted, available, fault>>
  BY DEF StopTransmission
<1>10. /\ fault' = FALSE
       /\ granted' \in [SS -> SUBSET Slot] /\ available' \in [SS -> BOOLEAN]
       /\ \A u \in SS : available'[u] /\ active[u] \in 3..8 =>
            granted'[u] = {k \in Slot : grants[k] = u}
  <2>1. /\ ~fault /\ fault \in BOOLEAN
        /\ granted \in [SS -> SUBSET Slot] /\ available \in [SS -> BOOLEAN] /\ joined \subseteq SS
        /\ \A u \in SS : available[u] /\ active[u] \in 3..8 =>
             granted[u] = {k \in Slot : grants[k] = u}
    BY <1>1 DEF FrameInv, TypeOK, GrantsOK
  <2>2. CASE e.phase \in {"dldata", "uldata"}
    <3>1. granted' = granted /\ available' = available /\ fault' = fault
      BY <1>9, <2>2
    <3> QED BY <2>1, <3>1
  <2>3. CASE e.phase \in {"framehead", "dlmap", "ulmap"}
    <3>1. PICK rs \in SUBSET Listeners(e.phase) :
            /\ fault' = \E u \in rs :
                 MayFinish(u, e.phase, Later) => e.phase # "framehead" /\ u \notin joined
            /\ IF e.phase = "ulmap" THEN ReceiveULMap(rs, e.map)
                                    ELSE UNCHANGED <<granted, available>>
      BY <1>9, <2>3
    <3>2. rs \in SUBSET SS /\ (e.phase # "framehead" => rs \subseteq joined)
      BY <2>1 DEF Listeners
    <3>3. ~ \E u \in rs : MayFinish(u, e.phase, Later) => e.phase # "framehead" /\ u \notin joined
      BY <1>8, <3>2
    <3>4. fault' = FALSE
      BY <3>1, <3>3
    <3>5. CASE e.phase = "ulmap"
      <4> DEFINE mine(u) == {k \in Slot : e.map[k] = u}
      <4>1. /\ granted' = [u \in SS |-> IF u \in rs THEN mine(u) ELSE granted[u]]
            /\ available' = [u \in SS |-> IF u \in rs THEN mine(u) # {} ELSE available[u]]
        BY <3>1, <3>5 DEF ReceiveULMap
      <4>2. granted' \in [SS -> SUBSET Slot] /\ available' \in [SS -> BOOLEAN]
        BY <2>1, <4>1
      <4>3. \A u \in SS : available'[u] /\ active[u] \in 3..8 =>
              granted'[u] = {k \in Slot : grants[k] = u}
        BY <1>7, <2>1, <3>5, <4>1
      <4> QED BY <3>4, <4>2, <4>3
    <3>6. CASE e.phase # "ulmap"
      <4>1. granted' = granted /\ available' = available
        BY <3>1, <3>6
      <4> QED BY <2>1, <3>4, <4>1
    <3> QED BY <3>5, <3>6
  <2> QED BY <1>6, <2>2, <2>3 DEF Sent
<1>11. Running(queue', active')
  <2>1. Runs(Range(queue'), active', P, T, W)
    BY <1>2, <1>3, <1>4, RunsWithout
  <2> QED BY <2>1 DEF Running
<1>12. AirOK(Range(queue'), active', onAir')
  <2>1. ASSUME NEW t \in onAir, t # b
        PROVE  \E y \in L : y.what = "txStop" /\ SameBurst(t, y)
    <3>1. PICK y \in L \cup {Current} : y.what = "txStop" /\ SameBurst(t, y)
      BY <1>1, <2>1 DEF AirOK
    <3>2. t \in [who : Station, phase : Range(Phases), slot : Slot \cup {0}]
      BY DEF FrameInv, TypeOK
    <3>3. t = [who |-> t.who, phase |-> t.phase, slot |-> t.slot]
      BY <3>2
    <3>4. ~SameBurst(t, Current)
      BY <1>1, <2>1, <3>3 DEF SameBurst
    <3> QED BY <3>1, <3>4
  <2> HIDE DEF b
  <2> QED BY <1>1, <1>4, <2>1 DEF AirOK
<1>13. GrantsOK(Range(queue'), active', onAir', grants', granted', available')
  BY <1>1, <1>4, <1>10 DEF GrantsOK
<1>14. TypeOK' /\ ~fault' /\ \A u \in SS : upper'[u] + queued'[u] <= MaxQueue
  <2> HIDE DEF b
  <2> QED BY <1>1, <1>4, <1>10 DEF FrameInv, TypeOK
<1> QED BY <1>1, <1>4, <1>11, <1>12, <1>13, <1>14 DEF FrameInv

\* Station s has begun its n-th activation, L being the events before it.
Activated(s, n, L) ==
  /\ queue' \in Seq(Event) /\ Ordered(queue')
  /\ Range(queue') = L \cup Range(PhaseEvents(s, n))
  /\ Running(queue', active')
  /\ active' \in [Station -> 1..End]
  /\ \A u \in Station : active'[u] = IF u = s THEN n ELSE active[u]
  /\ available' \in [SS -> BOOLEAN]
  /\ \A u \in SS : available'[u] <=> available[u] /\ ~(u = s /\ n = 3)
  /\ \A y \in Range(PhaseEvents(s, n)) : y.what \in OnAir =>
       /\ y.who = s /\ y.phase = Phases[n]
       /\ y.phase = "ulmap" => y.map = grants
       /\ y.phase = "uldata" => s \in SS /\ available[s] /\ y.slot \in granted[s]

\* The queue, the clocks and the subscribers' maps after an activation.
LEMMA ActivateStep ==
  ASSUME FrameFits, FrameInv, NEW P, NEW T, NEW W, NEW L, L = Range(Later),
         Due(Current, L, active, P, T, W), NEW n \in 1..8, NEW s, s = Current.who,
         Current.what \in {"trigger", "timeout"},
         Current.what = "trigger" => \A u \in Station : P[u] = FrameDuration,
         \A x \in L : x.who = s => x.what \notin Reports \cup {"timeout"},
         \A x \in L : x.what \in OnAir => active[x.who] = n /\ x.left < Length[n],
         \A act2, T2 : act2[s] = n /\ T2[s] = Length[n] =>
           InPhase(s, act2, P, T2, IF Current.what = "trigger" THEN W \ {s} ELSE W),
         Activate(s, n, Later)
  PROVE  Activated(s, n, L)
<1> DEFINE es == PhaseEvents(s, n)
           act2 == [active EXCEPT ![s] = n]
           T2 == [T EXCEPT ![s] = Length[n]]
           W2 == IF Current.what = "trigger" THEN W \ {s} ELSE W
<1>1. /\ TypeOK /\ Later \in Seq(Event) /\ Ordered(Later) /\ s \in Station
      /\ active \in [Station -> 1..End] /\ available \in [SS -> BOOLEAN]
      /\ P \in Clocks /\ W \in SUBSET Station
  <2>1. Later \in Seq(Event) /\ Ordered(Later)
    BY NextEvent
  <2>2. s \in Station
    BY DueFacts
  <2>3. P \in Clocks /\ W \in SUBSET Station
    BY DEF Due
  <2> QED BY <2>1, <2>2, <2>3 DEF FrameInv, TypeOK
<1>2. /\ T2 \in Timers
      /\ Runs(L \cup Range(es), act2, P, T2, W2)
      /\ \A x \in L, y \in Range(es) : ~SameTimer(y, x) /\ Tie(x, y) /\ Other(x, y)
  BY <1>1, ActivateRuns
<1>3. /\ es \in Seq(Event)
      /\ \A i, j \in DOMAIN es : i < j => Tie(es[i], es[j]) /\ Other(es[i], es[j])
  BY <1>1, PhaseEventsWell
<1>4. \A i \in DOMAIN Later, j \in DOMAIN es :
        ~SameTimer(es[j], Later[i]) /\ Tie(Later[i], es[j]) /\ Other(Later[i], es[j])
  BY <1>2 DEF Range
<1>5. queue' = PutAll(Later, es) /\ active' = act2 /\ ForgetMap(s, Phases[n])
  BY DEF Activate
<1> HIDE DEF es
<1>6. /\ queue' \in Seq(Event) /\ Ordered(queue')
      /\ Range(queue') = L \cup Range(es)
  BY <1>1, <1>3, <1>4, <1>5, PutOrdered
<1>7. Running(queue', active')
  <2>1. W2 \in SUBSET Station
    BY <1>1
  <2>2. Runs(Range(queue'), active', P, T2, W2)
    BY <1>2, <1>5, <1>6
  <2> HIDE DEF T2, W2
  <2> QED BY <1>1, <1>2, <2>1, <2>2 DEF Running
<1>8. /\ active' \in [Station -> 1..End]
      /\ \A u \in Station : active'[u] = IF u = s THEN n ELSE active[u]
  BY <1>1, <1>5, PhasesAre
<1>9. /\ available' \in [SS -> BOOLEAN]
      /\ \A u \in SS : available'[u] <=> available[u] /\ ~(u = s /\ n = 3)
  <2>1. Phases[n] = "ulmap" <=> n = 3
    BY PhasesAre
  <2>2. available' = IF n = 3 /\ s \in SS THEN [available EXCEPT ![s] = FALSE] ELSE available
    BY <1>5, <2>1 DEF ForgetMap
  <2>3. CASE n = 3 /\ s \in SS
    <3>1. available' = [available EXCEPT ![s] = FALSE]
      BY <2>2, <2>3
    <3> QED BY <1>1, <2>3, <3>1
  <2>4. CASE ~(n = 3 /\ s \in SS)
    <3>1. available' = available
      BY <2>2, <2>4
    <3> QED BY <1>1, <2>4, <3>1
  <2> QED BY <2>3, <2>4
<1>10. ASSUME NEW y \in Range(es), y.what \in OnAir
       PROVE  /\ y.who = s /\ y.phase = Phases[n]
              /\ y.phase = "ulmap" => y.map = grants
              /\ y.phase = "uldata" => s \in SS /\ available[s] /\ y.slot \in granted[s]
  <2>1. PICK tm \in Event :
          /\ tm.left = Length[n] /\ tm.who = s /\ tm.what = "timeout"
          /\ Range(PhaseEvents(s, n)) = Range(Started(s, Phases[n])) \cup {tm}
    <3>1. TypeOK /\ s \in Station
      BY <1>1
    <3> QED BY <3>1, PhaseEventsWell
  <2>2. y \in Range(Started(s, Phases[n]))
    BY <1>10, <2>1 DEF OnAir, es
  <2>3. StartsWell(Started(s, Phases[n]), s, n)
    BY <1>1, StartedWell
  <2> QED BY <1>10, <2>2, <2>3 DEF StartsWell
<1> QED BY <1>6, <1>7, <1>8, <1>9, <1>10 DEF es, Activated

\* startProcessingActivations keeps the invariant, and finds the frame before
\* finished.
LEMMA StartProcessingActivationsStep ==
  ASSUME FrameFits, FrameInv, queue[1].what = "trigger",
         StartProcessingActivations(queue[1].who)
  PROVE  FrameInv' /\ active[queue[1].who] = End
<1> DEFINE s == queue[1].who
           L == Range(Later)
           es == PhaseEvents(s, 1)
<1>1. /\ Current.who = s /\ Current.what = "trigger" /\ s \in Station
      /\ AirOK(L \cup {Current}, active, onAir)
  BY NextEvent, EventFields
<1>2. PICK P \in Clocks, T \in Timers, W \in SUBSET Station : Due(Current, L, active, P, T, W)
  BY NextEvent
<1>3. /\ active[s] = End /\ \A u \in Station : P[u] = FrameDuration
      /\ \A u \in Station : active[u] # End => active[u] = 1
      /\ \A x \in L : x.who = s => x.what \notin Reports \cup {"timeout"}
      /\ \A x \in L : x.what \in Reports => x.phase = "framehead"
      /\ \A x \in L : x.what \in OnAir => active[x.who] = 1 /\ x.left < Length[1]
      /\ \A act2, T2 : act2[s] = 1 /\ T2[s] = Length[1] => InPhase(s, act2, P, T2, W \ {s})
  <2>1. Beginning(Current, L, active, P, T, W)
    BY <1>1, <1>2, FrameBegins
  <2> DEFINE w == Current.who
  <2>2. w = s
    BY <1>1
  <2> HIDE DEF s, L
  <2> QED BY <2>1, <2>2 DEF Beginning
<1>4. onAir = {}
  BY <1>1, <1>2, AirFree
<1>5. Activate(s, 1, Later) /\ (StartFrameBS \/ (s # BS /\ StartFrameSS(s)))
  BY DEF StartProcessingActivations
<1>6. /\ queue' \in Seq(Event) /\ Ordered(queue')
      /\ Range(queue') = L \cup Range(es)
      /\ Running(queue', active')
      /\ active' \in [Station -> 1..End]
      /\ \A u \in Station : active'[u] = IF u = s THEN 1 ELSE active[u]
      /\ available' \in [SS -> BOOLEAN]
      /\ \A y \in Range(es) : y.what \in OnAir => y.phase = Phases[1]
  <2>1. 1 \in 1..8
    OBVIOUS
  <2>2. \A act2, T2 : act2[s] = 1 /\ T2[s] = Length[1] =>
          InPhase(s, act2, P, T2, IF Current.what = "trigger" THEN W \ {s} ELSE W)
    BY <1>1, <1>3
  <2>3. Current.what \in {"trigger", "timeout"} /\ s = Current.who /\ L = Range(Later)
    BY <1>1
  <2>4. \A x \in L : x.what \in OnAir => active[x.who] = 1 /\ x.left < Length[1]
    BY <1>3
  <2> HIDE DEF s, L
  <2>5. Activated(s, 1, L)
    BY <1>2, <1>3, <1>5, <2>1, <2>2, <2>3, <2>4, ActivateStep
  <2> QED BY <2>5 DEF Activated
<1>7. onAir' = onAir /\ joined' = joined /\ granted' = granted /\ fault' = fault
  BY <1>5 DEF StartFrameBS, StartFrameSS
<1>8. \E cs : Collect(cs)
  BY <1>5 DEF StartFrameBS, StartFrameSS
<1>9. /\ upper' \in [SS -> 0..MaxQueue] /\ queued' \in [SS -> 0..MaxQueue]
      /\ \A u \in SS : upper'[u] + queued'[u] <= MaxQueue
  <2>1. PICK cs : Collect(cs)
    BY <1>8
  <2>2. /\ MaxQueue \in Nat
        /\ upper \in [SS -> 0..MaxQueue] /\ queued \in [SS -> 0..MaxQueue]
        /\ \A u \in SS : upper[u] + queued[u] <= MaxQueue
    BY FrameAssumption DEF FrameInv, TypeOK
  <2>3. /\ queued' = [u \in SS |-> IF u \in cs THEN queued[u] + upper[u] ELSE queued[u]]
        /\ upper'  = [u \in SS |-> IF u \in cs THEN 0 ELSE upper[u]]
    BY <2>1 DEF Collect
  <2>4. \A u \in SS : queued[u] + upper[u] \in 0..MaxQueue
    BY <2>2
  <2> QED BY <2>2, <2>3, <2>4
<1>10. downlink' \in 0..MaxDownlink /\ burst' \subseteq Slot /\ grants' \in Schedule
  <2>1. downlink \in 0..MaxDownlink /\ burst \subseteq Slot /\ grants \in Schedule
    BY DEF FrameInv, TypeOK
  <2>2. CASE StartFrameBS
    <3>1. grants' \in Schedule
      BY <2>2 DEF StartFrameBS, Granting
    <3> DEFINE n == IF downlink < Slots THEN downlink ELSE Slots
    <3>2. burst' = 1..n /\ downlink' = downlink - n
      BY <2>2 DEF StartFrameBS
    <3>3. MaxDownlink \in Nat /\ Slots \in Nat
      BY FrameAssumption
    <3>4. n \in Nat /\ n <= downlink /\ n <= Slots
      BY <2>1, <3>3
    <3> HIDE DEF n
    <3> QED BY <2>1, <3>1, <3>2, <3>3, <3>4 DEF Slot
  <2>3. CASE StartFrameSS(s)
    BY <2>1, <2>3 DEF StartFrameSS
  <2> QED BY <1>5, <2>2, <2>3
<1>11. AirOK(Range(queue'), active', onAir')
  BY <1>4, <1>7 DEF AirOK
<1>12. GrantsOK(Range(queue'), active', onAir', grants', granted', available')
  <2>1. \A x \in Range(queue') : x.what \in OnAir => x.phase = "framehead"
    <3>1. Phases[1] = "framehead"
      BY DEF Phases
    <3> QED BY <1>3, <1>6, <3>1 DEF Reports
  <2>2. \A u \in SS : active'[u] \notin 3..8
    <3> TAKE u \in SS
    <3>1. u \in Station
      BY DEF Station
    <3> QED BY <1>3, <1>6, <3>1, PhasesAre
  <2> QED BY <1>4, <1>7, <2>1, <2>2 DEF GrantsOK
<1>13. TypeOK' /\ ~fault'
  BY <1>4, <1>6, <1>7, <1>9, <1>10 DEF FrameInv, TypeOK
<1> QED BY <1>3, <1>6, <1>9, <1>11, <1>12, <1>13 DEF FrameInv

\* onTimeout keeps the invariant, and never goes back to the first activation.
LEMMA OnTimeoutStep ==
  ASSUME FrameFits, FrameInv, queue[1].what = "timeout", OnTimeout(queue[1].who)
  PROVE  FrameInv' /\ active'[queue[1].who] # 1
<1> DEFINE s == queue[1].who
           L == Range(Later)
           n == active[s] + 1
<1>1. /\ Current.who = s /\ Current.what = "timeout" /\ s \in Station
      /\ Later \in Seq(Event) /\ Ordered(Later)
      /\ AirOK(L \cup {Current}, active, onAir)
      /\ GrantsOK(L \cup {Current}, active, onAir, grants, granted, available)
  BY NextEvent, EventFields
<1>2. PICK P \in Clocks, T \in Timers, W \in SUBSET Station : Due(Current, L, active, P, T, W)
  BY NextEvent
<1>3. /\ active[s] \in 1..8 /\ T[s] = 0
      /\ \A x \in L : x.who = s => x.what \notin Reports \cup {"timeout"}
      /\ \A x \in L : x.what \in OnAir /\ active[s] < 8 =>
           active[x.who] = n /\ x.left < Length[n]
      /\ \A act2, T2 : active[s] < 8 /\ act2[s] = n /\ T2[s] = Length[n] => InPhase(s, act2, P, T2, W)
      /\ \A act2 : active[s] = 8 /\ act2[s] = End => InPhase(s, act2, P, T, W)
  <2>1. Ending(Current, L, active, P, T, W)
    BY <1>1, <1>2, PhaseOver
  <2> DEFINE w == Current.who
  <2>2. w = s
    BY <1>1
  <2> HIDE DEF s, L
  <2> QED BY <2>1, <2>2 DEF Ending
<1>4. onAir = {}
  BY <1>1, <1>2, AirFree
<1>5. /\ \/ n < End /\ Activate(s, n, Later)
         \/ /\ n = End
            /\ active' = [active EXCEPT ![s] = End]
            /\ queue' = Later
            /\ UNCHANGED available
      /\ queued' = IF n < End /\ s \in SS
                     THEN [queued EXCEPT ![s] = @ - Cardinality(Sending(s, Phases[n]))]
                     ELSE queued
      /\ burst' = IF n < End /\ s = BS THEN burst \ Sending(s, Phases[n]) ELSE burst
      /\ UNCHANGED <<joined, upper, downlink, grants, granted, onAir, fault>>
  BY DEF OnTimeout
<1>6. /\ joined' = joined /\ upper' = upper /\ downlink' = downlink /\ grants' = grants
      /\ granted' = granted /\ onAir' = onAir /\ fault' = fault
  BY <1>5
<1>7. n \in 2..9 /\ End = 9 /\ (n < End => n \in 1..8)
  BY <1>3, PhasesAre
<1>8. /\ TypeOK /\ ~fault /\ \A u \in SS : upper[u] + queued[u] <= MaxQueue
  BY DEF FrameInv
<1>9. AirOK(Range(queue'), active', onAir')
  BY <1>4, <1>6 DEF AirOK
<1>10. queued' \in [SS -> 0..MaxQueue] /\ \A u \in SS : upper'[u] + queued'[u] <= MaxQueue
  <2>1. /\ MaxQueue \in Nat /\ upper \in [SS -> 0..MaxQueue] /\ queued \in [SS -> 0..MaxQueue]
    BY <1>8, FrameAssumption DEF TypeOK
  <2>2. CASE n < End /\ s \in SS
    <3> DEFINE c == Cardinality(Sending(s, Phases[n]))
    <3>1. c \in 0..queued[s]
      BY <1>7, <1>8, <2>2, SendingFits
    <3>2. queued' = [queued EXCEPT ![s] = queued[s] - c]
      BY <1>5, <2>2
    <3> HIDE DEF c, s, n
    <3>3. queued[s] \in 0..MaxQueue /\ s \in SS
      BY <2>1, <2>2
    <3>4. queued[s] - c \in 0..MaxQueue /\ queued[s] - c <= queued[s]
      BY <2>1, <3>1, <3>3
    <3>5. queued' \in [SS -> 0..MaxQueue]
      BY <2>1, <3>2, <3>4
    <3>6. \A u \in SS : queued'[u] <= queued[u]
      BY <2>1, <3>2, <3>3, <3>4
    <3>7. \A u \in SS : upper'[u] \in Nat /\ queued'[u] \in Nat /\ queued[u] \in Nat
      BY <1>6, <2>1, <3>5
    <3> QED BY <1>6, <1>8, <2>1, <3>5, <3>6, <3>7
  <2>3. CASE ~(n < End /\ s \in SS)
    <3>1. queued' = queued
      BY <1>5, <2>3
    <3> QED BY <1>6, <1>8, <2>1, <3>1
  <2> QED BY <2>2, <2>3
<1>11. burst' \subseteq Slot
  BY <1>5, <1>8 DEF TypeOK
<1>12. CASE n < End
  <2>1. Activate(s, n, Later) /\ n \in 1..8 /\ active[s] < 8
    <3>1. n \in 1..8 /\ active[s] < 8 /\ n # End
      BY <1>3, <1>7, <1>12
    <3>2. Activate(s, n, Later)
      <4> HIDE DEF n, s
      <4> QED BY <1>5, <3>1
    <3> QED BY <3>1, <3>2
  <2>2. Activated(s, n, L)
    <3>1. /\ Current.what \in {"trigger", "timeout"} /\ Current.what # "trigger"
          /\ s = Current.who /\ L = Range(Later)
      BY <1>1
    <3>2. \A x \in L : x.what \in OnAir => active[x.who] = n /\ x.left < Length[n]
      BY <1>3, <2>1
    <3>3. \A act2, T2 : act2[s] = n /\ T2[s] = Length[n] =>
            InPhase(s, act2, P, T2, IF Current.what = "trigger" THEN W \ {s} ELSE W)
      BY <1>3, <2>1, <3>1
    <3> HIDE DEF s, L, n
    <3> QED BY <1>2, <1>3, <2>1, <3>1, <3>2, <3>3, ActivateStep
  <2> HIDE DEF L, s, n
  <2>3. /\ queue' \in Seq(Event) /\ Ordered(queue')
        /\ Range(queue') = L \cup Range(PhaseEvents(s, n))
        /\ Running(queue', active')
        /\ active' \in [Station -> 1..End]
        /\ \A u \in Station : active'[u] = IF u = s THEN n ELSE active[u]
        /\ available' \in [SS -> BOOLEAN]
        /\ \A u \in SS : available'[u] <=> available[u] /\ ~(u = s /\ n = 3)
        /\ \A y \in Range(PhaseEvents(s, n)) : y.what \in OnAir =>
             /\ y.who = s /\ y.phase = Phases[n]
             /\ y.phase = "ulmap" => y.map = grants
             /\ y.phase = "uldata" => s \in SS /\ available[s] /\ y.slot \in granted[s]
    BY <2>2 DEF Activated
  <2>4. /\ \A x \in L : x.what \in OnAir /\ x.phase = "ulmap" => x.map = grants
        /\ \A x \in L : x.what \in OnAir /\ x.phase = "uldata" => grants[x.slot] = x.who
        /\ \A u \in SS : available[u] /\ active[u] \in 3..8 => granted[u] = {k \in Slot : grants[k] = u}
    BY <1>1 DEF GrantsOK
  <2>5. \A y \in Range(PhaseEvents(s, n)) : y.what \in OnAir /\ y.phase = "uldata" =>
          grants[y.slot] = y.who
    <3> SUFFICES ASSUME NEW y \in Range(PhaseEvents(s, n)), y.what \in OnAir, y.phase = "uldata"
                 PROVE  grants[y.slot] = y.who
      OBVIOUS
    <3>1. /\ y.who = s /\ Phases[n] = "uldata" /\ s \in SS /\ available[s] /\ y.slot \in granted[s]
      BY <2>3
    <3>2. n = 6
      BY <2>1, <3>1, PhasesAre
    <3>3. active[s] \in 3..8
      BY <1>3, <3>2 DEF n
    <3> QED BY <2>4, <3>1, <3>3
  <2>6. \A u \in SS : available'[u] /\ active'[u] \in 3..8 => granted[u] = {k \in Slot : grants[k] = u}
    <3> SUFFICES ASSUME NEW u \in SS, available'[u], active'[u] \in 3..8
                 PROVE  granted[u] = {k \in Slot : grants[k] = u}
      OBVIOUS
    <3>1. u \in Station /\ available[u] /\ ~(u = s /\ n = 3)
      BY <2>3 DEF Station
    <3>2. active[u] \in 3..8
      <4>1. CASE u = s
        <5>1. n \in 3..8 /\ n # 3
          BY <2>3, <3>1, <4>1
        <5> QED BY <1>3, <4>1, <5>1 DEF n
      <4>2. CASE u # s
        BY <2>3, <3>1, <4>2
      <4> QED BY <4>1, <4>2
    <3> QED BY <2>4, <3>1, <3>2
  <2>7. GrantsOK(Range(queue'), active', onAir', grants', granted', available')
    BY <1>4, <1>6, <2>3, <2>4, <2>5, <2>6 DEF GrantsOK
  <2>8. TypeOK' /\ ~fault'
    BY <1>4, <1>6, <1>8, <1>10, <1>11, <2>3 DEF TypeOK
  <2>9. active'[s] # 1
    BY <1>1, <1>7, <2>3
  <2> QED BY <1>9, <1>10, <2>3, <2>7, <2>8, <2>9 DEF FrameInv, s
<1>13. CASE n = End
  <2>1. /\ active' = [active EXCEPT ![s] = End] /\ queue' = Later /\ available' = available
    <3>1. ~(n < End)
      BY <1>7, <1>13
    <3> HIDE DEF n, s
    <3> QED BY <1>5, <3>1
  <2>2. active[s] = 8 /\ active[s] # End
    BY <1>3, <1>7, <1>13
  <2>3. /\ active \in [Station -> 1..End] /\ active' \in [Station -> 1..End]
        /\ \A u \in Station : active'[u] = IF u = s THEN End ELSE active[u]
    BY <1>1, <1>7, <1>8, <2>1 DEF TypeOK
  <2>4. Runs(L, active', P, T, W)
    <3>1. /\ \A x \in L : InTime(x, L, active, P, T, W) /\ x.who \in Station
          /\ Together(P, W) /\ \A u \in Station : InPhase(u, active, P, T, W)
          /\ \A u \in Station : /\ Has(L, u, "periodic")
                                /\ u \in W => Has(L, u, "trigger")
                                /\ active[u] # End => Has(L, u, "timeout") \/ u = s
      BY <1>1, <1>2, DueFacts
    <3>2. ASSUME NEW x \in L PROVE InTime(x, L, active', P, T, W)
      <4>1. InTime(x, L, active, P, T, W)
        BY <3>1
      <4>2. x.what = "timeout" \/ x.what \in Reports => active'[x.who] = active[x.who]
        BY <1>3, <2>3, <3>1
      <4>3. x.what \in OnAir => x.what \in Reports
        BY DEF Reports
      <4> QED BY <4>1, <4>2, <4>3 DEF InTime
    <3>3. HasTimers(L, active', W)
      BY <2>3, <3>1 DEF HasTimers
    <3>4. ASSUME NEW u \in Station PROVE InPhase(u, active', P, T, W)
      <4>1. CASE u = s
        <5>1. active'[s] = End
          BY <1>1, <2>3
        <5> QED BY <1>3, <2>2, <4>1, <5>1
      <4>2. CASE u # s
        <5>1. active'[u] = active[u]
          BY <2>3, <4>2
        <5> QED BY <3>1, <5>1 DEF InPhase
      <4> QED BY <4>1, <4>2
    <3> QED BY <3>1, <3>2, <3>3, <3>4 DEF Runs
  <2>5. Running(queue', active')
    <3>1. P \in Clocks /\ T \in Timers /\ W \in SUBSET Station /\ Runs(Range(queue'), active', P, T, W)
      BY <1>2, <2>1, <2>4
    <3> QED BY <3>1 DEF Running
  <2>6. GrantsOK(Range(queue'), active', onAir', grants', granted', available')
    <3>1. \A u \in SS : active'[u] \in 3..8 => active[u] \in 3..8
      <4> TAKE u \in SS
      <4>1. u \in Station
        BY DEF Station
      <4> QED BY <1>7, <2>3, <4>1
    <3> QED BY <1>1, <1>4, <1>6, <2>1, <3>1 DEF GrantsOK
  <2>7. TypeOK' /\ ~fault'
    BY <1>1, <1>4, <1>6, <1>8, <1>10, <1>11, <2>1, <2>3 DEF TypeOK
  <2>8. active'[s] # 1
    BY <1>1, <1>7, <2>3
  <2> QED BY <1>1, <1>9, <1>10, <2>1, <2>5, <2>6, <2>7, <2>8 DEF FrameInv
<1> QED BY <1>7, <1>12, <1>13

\* What the simulator's next event does to the invariant, and to the numbers of
\* the activations: the first one begins only where no other is going on.
LEMMA DispatchStep ==
  ASSUME FrameFits, FrameInv, Dispatch
  PROVE  FrameInv' /\ \A s \in Station : active'[s] = 1 /\ active[s] # 1 => active[s] = End
<1> DEFINE e == queue[1]
           Fresh == \A s \in Station : active'[s] = 1 /\ active[s] # 1 => active[s] = End
<1>1. active \in [Station -> 1..End] /\ e.who \in Station
  <2>1. e \in Event
    BY NextEvent
  <2> QED BY <2>1, EventFields DEF FrameInv, TypeOK
<1>2. CASE e.what = "periodic" /\ Periodically(e.who)
  <2>1. active' = active
    BY <1>2 DEF Periodically
  <2> QED BY <1>2, <2>1, PeriodicallyStep
<1>3. CASE e.what = "trigger" /\ StartProcessingActivations(e.who)
  <2>1. FrameInv' /\ active[e.who] = End
    BY <1>3, StartProcessingActivationsStep
  <2>2. active' = [active EXCEPT ![e.who] = 1]
    BY <1>3 DEF StartProcessingActivations, Activate
  <2> HIDE DEF e
  <2>3. Fresh
    BY <1>1, <2>1, <2>2
  <2> QED BY <2>1, <2>3
<1>4. CASE e.what = "timeout" /\ OnTimeout(e.who)
  <2>1. FrameInv' /\ active'[e.who] # 1
    BY <1>4, OnTimeoutStep
  <2>2. \E n : active' = [active EXCEPT ![e.who] = n]
    BY <1>4 DEF OnTimeout, Activate
  <2> HIDE DEF e
  <2>3. Fresh
    BY <1>1, <2>1, <2>2
  <2> QED BY <2>1, <2>3
<1>5. CASE e.what = "finished" /\ FinishedPhase(e.who, e.phase)
  <2>1. active' = active
    BY <1>5 DEF FinishedPhase
  <2> QED BY <1>5, <2>1, FinishedStep
<1>6. CASE e.what = "txStart" /\ StartTransmission(e)
  <2>1. active' = active
    BY <1>6 DEF StartTransmission
  <2> QED BY <1>6, <2>1, StartTransmissionStep
<1>7. CASE e.what = "txStop" /\ StopTransmission(e)
  <2>1. active' = active
    BY <1>7 DEF StopTransmission
  <2> QED BY <1>7, <2>1, StopTransmissionStep
<1> QED BY <1>2, <1>3, <1>4, <1>5, <1>6, <1>7 DEF Dispatch

\* Packets that arrive and subscribers that join do not touch the frame.
LEMMA OutsideStep ==
  ASSUME FrameInv, Arrive \/ (\E s \in SS : Join(s)) \/ UNCHANGED vars
  PROVE  FrameInv' /\ active' = active
<1>1. /\ queue' = queue /\ active' = active /\ queued' = queued /\ burst' = burst
      /\ grants' = grants /\ granted' = granted /\ available' = available
      /\ onAir' = onAir /\ fault' = fault
  BY DEF Arrive, Join, vars
<1>2. /\ TypeOK /\ \A s \in SS : upper[s] + queued[s] <= MaxQueue
      /\ MaxQueue \in Nat /\ MaxDownlink \in Nat
  BY FrameAssumption DEF FrameInv
<1>3. /\ joined' \subseteq SS /\ downlink' \in 0..MaxDownlink
      /\ upper' \in [SS -> 0..MaxQueue]
      /\ \A s \in SS : upper'[s] + queued[s] <= MaxQueue
  <2>1. /\ joined \subseteq SS /\ downlink \in 0..MaxDownlink
        /\ upper \in [SS -> 0..MaxQueue] /\ queued \in [SS -> 0..MaxQueue]
    BY <1>2 DEF TypeOK
  <2>2. CASE Arrive
    <3>1. joined' = joined
      BY <2>2 DEF Arrive
    <3>2. CASE \E s \in joined :
                 /\ upper[s] + queued[s] < MaxQueue
                 /\ upper' = [upper EXCEPT ![s] = @ + 1]
                 /\ UNCHANGED downlink
      <4>1. PICK s \in joined :
              /\ upper[s] + queued[s] < MaxQueue
              /\ upper' = [upper EXCEPT ![s] = @ + 1]
              /\ UNCHANGED downlink
        BY <3>2
      <4>2. s \in SS /\ upper[s] \in 0..MaxQueue /\ queued[s] \in 0..MaxQueue
        BY <2>1
      <4>3. upper[s] + 1 \in 0..MaxQueue /\ upper[s] + 1 + queued[s] <= MaxQueue
        BY <1>2, <4>1, <4>2
      <4> QED BY <1>2, <2>1, <3>1, <4>1, <4>2, <4>3
    <3>3. CASE joined # {} /\ downlink < MaxDownlink /\ downlink' = downlink + 1 /\ UNCHANGED upper
      BY <1>2, <2>1, <3>1, <3>3
    <3> QED BY <2>2, <3>2, <3>3 DEF Arrive
  <2>3. CASE \E s \in SS : Join(s)
    BY <1>2, <2>1, <2>3 DEF Join
  <2>4. CASE UNCHANGED vars
    BY <1>2, <2>1, <2>4 DEF vars
  <2> QED BY <2>2, <2>3, <2>4
<1>4. TypeOK'
  BY <1>1, <1>2, <1>3 DEF TypeOK
<1> QED BY <1>1, <1>3, <1>4 DEF FrameInv

\* The simulation starts with every station's first frame to come.
LEMMA InitFrame ==
  ASSUME FrameFits, Init
  PROVE  FrameInv
<1> DEFINE n == Cardinality(Station)
           P == [s \in Station |-> 0]
<1>1. IsFiniteSet(Station) /\ n \in Nat
  <2>1. IsFiniteSet(SS)
    BY FrameAssumption
  <2>2. IsFiniteSet(SS \cup {BS})
    BY <2>1, FS_AddElement
  <2>3. SS \cup {BS} = Station
    BY DEF Station
  <2> QED BY <2>2, <2>3, FS_CardinalityType
<1>2. PICK order \in SetToSeqs(Station) :
        queue = [i \in DOMAIN order |-> Plain(0, order[i], "periodic", "any")]
  BY DEF Init
<1>3. /\ order \in [1..n -> Station]
      /\ \A i, j \in 1..n : i # j => order[i] # order[j]
  BY <1>2 DEF SetToSeqs
<1>4. \A s \in Station : \E i \in 1..n : order[i] = s
  <2>1. order \in Injection(1..n, Station)
    BY <1>3 DEF Injection, IsInjective
  <2>2. IsFiniteSet(1..n) /\ Cardinality(1..n) = n
    BY <1>1, FS_Interval
  <2>3. order \in Surjection(1..n, Station)
    BY <1>1, <2>1, <2>2, FS_Injection
  <2> QED BY <2>3 DEF Surjection
<1>5. DOMAIN queue = 1..n /\ \A i \in 1..n :
        /\ queue[i] \in Event /\ queue[i].left = 0 /\ queue[i].who = order[i]
        /\ queue[i].what = "periodic"
  <2>1. DOMAIN queue = 1..n /\ \A i \in 1..n : queue[i] = Plain(0, order[i], "periodic", "any")
    BY <1>2, <1>3
  <2>2. \A i \in 1..n : order[i] \in Station
    BY <1>3
  <2>3. \A s \in Station : LET e == Plain(0, s, "periodic", "any") IN
          e \in Event /\ e.left = 0 /\ e.who = s /\ e.what = "periodic"
    BY PlainIs
  <2> DEFINE e(s) == Plain(0, s, "periodic", "any")
  <2>4. \A s \in Station : e(s) \in Event /\ e(s).left = 0 /\ e(s).who = s /\ e(s).what = "periodic"
    BY <2>3
  <2>5. DOMAIN queue = 1..n /\ \A i \in 1..n : queue[i] = e(order[i])
    BY <2>1
  <2> HIDE DEF e, n
  <2> QED BY <2>2, <2>4, <2>5
<1>6. queue \in Seq(Event)
  <2>1. queue = [i \in 1..n |-> queue[i]]
    BY <1>2, <1>3
  <2>2. queue \in [1..n -> Event]
    BY <1>5, <2>1
  <2> QED BY <1>1, <2>2
<1>7. \A x \in Range(queue) : x.left = 0 /\ x.what = "periodic" /\ x.who \in Station
  BY <1>3, <1>5 DEF Range
<1>8. Ordered(queue)
  BY <1>1, <1>3, <1>5 DEF Ordered, Tie, Other, Rank
<1>9. /\ active = [s \in Station |-> End] /\ onAir = {} /\ fault = FALSE
      /\ joined = {} /\ upper = [s \in SS |-> 0] /\ queued = [s \in SS |-> 0]
      /\ downlink = 0 /\ burst = {} /\ grants = NoGrant
      /\ granted = [s \in SS |-> {}] /\ available = [s \in SS |-> FALSE]
  BY DEF Init
<1>10. TypeOK
  <2>1. NoGrant \in Schedule
    BY DEF NoGrant, Schedule
  <2>2. MaxQueue \in Nat /\ MaxDownlink \in Nat /\ End \in 1..End
    BY FrameAssumption, PhasesAre
  <2>3. queue \in Seq(Event)
    BY <1>6
  <2>4. active \in [Station -> 1..End] /\ joined \subseteq SS
    BY <1>9, <2>2
  <2>5. upper \in [SS -> 0..MaxQueue] /\ queued \in [SS -> 0..MaxQueue]
    BY <1>9, <2>2
  <2>6. downlink \in 0..MaxDownlink
    BY <1>9, <2>2
  <2>7. burst \subseteq Slot /\ grants \in Schedule
    BY <1>9, <2>1
  <2>8. granted \in [SS -> SUBSET Slot] /\ available \in [SS -> BOOLEAN]
    BY <1>9
  <2>9. onAir \subseteq [who : Station, phase : Range(Phases), slot : Slot \cup {0}]
    BY <1>9
  <2>10. fault \in BOOLEAN
    BY <1>9
  <2> QED BY <2>3, <2>4, <2>5, <2>6, <2>7, <2>8, <2>9, <2>10 DEF TypeOK
<1>11. Running(queue, active)
  <2>1. FrameDuration \in Nat /\ Starts[9] <= FrameDuration /\ Starts[9] \in Nat
    <3>1. 9 \in 1..9
      OBVIOUS
    <3> QED BY <3>1, LengthsAre
  <2>2. P \in Clocks /\ P \in Timers /\ {} \in SUBSET Station
    BY <2>1 DEF Clocks, Timers
  <2>3. \A s \in Station : P[s] = 0 /\ active[s] = End
    BY <1>9
  <2> HIDE DEF P
  <2>4. \A x \in Range(queue) : InTime(x, Range(queue), active, P, P, {})
    BY <1>7, <2>3 DEF InTime, Reports, OnAir
  <2>5. HasTimers(Range(queue), active, {})
    <3>1. \A s \in Station : Has(Range(queue), s, "periodic")
      <4> TAKE s \in Station
      <4>1. PICK i \in 1..n : order[i] = s
        BY <1>4
      <4>2. queue[i] \in Range(queue)
        BY <1>5 DEF Range
      <4> QED BY <1>5, <4>1, <4>2 DEF Has
    <3> QED BY <2>3, <3>1 DEF HasTimers
  <2>6. FrameDuration # 0
    <3>1. 1 \in 1..9 /\ 9 \in 1..9 /\ 1 < 9
      OBVIOUS
    <3>2. Starts[1] < Starts[9] /\ Starts[1] = 0
      BY <3>1, LengthsAre
    <3> QED BY <2>1, <3>2
  <2>7. Together(P, {})
    BY <2>3, <2>6 DEF Together
  <2>8. \A s \in Station : InPhase(s, active, P, P, {})
    BY <2>1, <2>3, PhasesAre DEF InPhase
  <2>9. Runs(Range(queue), active, P, P, {})
    BY <2>4, <2>5, <2>7, <2>8 DEF Runs
  <2> QED BY <2>2, <2>9 DEF Running
<1>12. AirOK(Range(queue), active, onAir)
  BY <1>9 DEF AirOK
<1>13. GrantsOK(Range(queue), active, onAir, grants, granted, available)
  BY <1>7, <1>9 DEF GrantsOK, OnAir
<1>14. ~fault /\ \A s \in SS : upper[s] + queued[s] <= MaxQueue
  BY <1>9, FrameAssumption
<1> QED BY <1>8, <1>10, <1>11, <1>12, <1>13, <1>14 DEF FrameInv

---------------------------------------------------------------------------
(* What holds of the frame.                                                *)

\* Whatever comes next - an event of the simulator, a packet from above, a
\* subscriber that associates - the invariant is kept.
THEOREM FrameInvariance ==
  ASSUME FrameFits
  PROVE  Spec => []FrameInv
<1>1. Init => FrameInv
  BY InitFrame
<1>2. FrameInv /\ [Next]_vars => FrameInv'
  BY DispatchStep, OutsideStep DEF Next
<1> QED BY <1>1, <1>2, PTL DEF Spec

\* Every variable has its type: no queue of a station outgrows its bound.
THEOREM FrameTyped ==
  ASSUME FrameFits
  PROVE  Spec => []TypeOK
<1>1. FrameInv => TypeOK
  BY DEF FrameInv
<1> QED BY <1>1, FrameInvariance, PTL

\* finishedPhase's assertions hold: a collector reports while its phase is
\* the active one, and no map reaches a subscriber without a base station.
THEOREM ReportsAlwaysInTime ==
  ASSUME FrameFits
  PROVE  Spec => []ReportsInTime
<1>1. FrameInv => ReportsInTime
  BY DEF FrameInv, ReportsInTime
<1> QED BY <1>1, FrameInvariance, PTL

\* Once the events of an instant are done no frame is about to start, and the
\* clock to a station's next frame, the same for all, tells its phase.
LEMMA InstantOver ==
  ASSUME FrameFits, FrameInv, queue[1].left > 0
  PROVE  \A s \in SS : active[s] = active[BS]
<1> DEFINE E == Range(queue)
<1>1. queue \in Seq(Event) /\ active \in [Station -> 1..End] /\ Ordered(queue)
  BY DEF FrameInv, TypeOK
<1>2. PICK P \in Clocks, T \in Timers, W \in SUBSET Station : Runs(E, active, P, T, W)
  BY DEF FrameInv, Running
<1>3. /\ Len(queue) \in Nat /\ DOMAIN queue = 1..Len(queue)
      /\ \A i \in DOMAIN queue : queue[i] \in Event
  BY <1>1, SeqFacts
<1>4. \A x \in E : x.left \in Nat /\ x.left > 0
  <2> SUFFICES ASSUME NEW i \in DOMAIN queue
               PROVE  queue[i].left \in Nat /\ queue[i].left > 0
    BY DEF Range
  <2>1. queue[i] \in Event /\ queue[1] \in Event /\ 1 \in DOMAIN queue /\ i \in Nat /\ 1 <= i
    BY <1>3
  <2>2. queue[i].left \in Nat /\ queue[1].left \in Nat
    BY <2>1, EventFields
  <2>3. i # 1 => queue[1].left <= queue[i].left
    BY <1>1, <2>1 DEF Ordered
  <2> QED BY <2>2, <2>3
<1>5. W = {}
  <2> SUFFICES ASSUME NEW s \in W PROVE FALSE
    OBVIOUS
  <2>1. PICK x \in E : x.who = s /\ x.what = "trigger"
    BY <1>2 DEF Runs, HasTimers, Has
  <2>2. x.left = 0
    BY <1>2, <2>1 DEF Runs, InTime
  <2> QED BY <1>4, <2>2
<1>6. \A s \in Station : P[s] > 0
  <2> TAKE s \in Station
  <2>1. PICK x \in E : x.who = s /\ x.what = "periodic"
    BY <1>2 DEF Runs, HasTimers, Has
  <2>2. x.left = P[s]
    BY <1>2, <2>1 DEF Runs, InTime
  <2> QED BY <1>4, <2>2
<1>7. \A s \in Station : active[s] # End => T[s] > 0
  <2> SUFFICES ASSUME NEW s \in Station, active[s] # End PROVE T[s] > 0
    OBVIOUS
  <2>1. PICK x \in E : x.who = s /\ x.what = "timeout"
    BY <1>2 DEF Runs, HasTimers, Has
  <2>2. x.left = T[s]
    BY <1>2, <2>1 DEF Runs, InTime
  <2> QED BY <1>4, <2>2
<1>8. Together(P, {}) /\ \A s \in Station : InPhase(s, active, P, T, {})
  BY <1>2, <1>5 DEF Runs
<1>9. \A s, t \in Station : active[s] = active[t]
  BY <1>1, <1>6, <1>7, <1>8, AllAlike
<1> QED BY <1>9 DEF Station

\* The stations, each driven by its own timers, are in the same phase
\* whenever time passes, in whatever order they were created.
THEOREM FramesAlwaysAligned ==
  ASSUME FrameFits
  PROVE  Spec => []FramesAligned
<1>1. FrameInv => FramesAligned
  BY InstantOver DEF FramesAligned
<1> QED BY <1>1, FrameInvariance, PTL

\* A transmission lies in its phase at every station, to the tick.
THEOREM AlwaysSentInPhase ==
  ASSUME FrameFits
  PROVE  Spec => []SentInPhase
<1>1. FrameInv => SentInPhase
  BY DEF FrameInv, AirOK, SentInPhase
<1> QED BY <1>1, FrameInvariance, PTL

\* The two directions never share the air.
THEOREM AlwaysHalfDuplex ==
  ASSUME FrameFits
  PROVE  Spec => []HalfDuplex
<1>1. FrameInv => HalfDuplex
  <2> SUFFICES ASSUME FrameInv, NEW t \in onAir, NEW u \in onAir
               PROVE  t.who = BS <=> u.who = BS
    BY DEF HalfDuplex
  <2>1. BS \in Station
    BY DEF Station
  <2>2. /\ Sends(t.who, t.phase) /\ Phases[active[BS]] = t.phase
        /\ Sends(u.who, u.phase) /\ Phases[active[BS]] = u.phase
    BY <2>1 DEF FrameInv, AirOK
  <2> QED BY <2>2 DEF Sends
<1> QED BY <1>1, FrameInvariance, PTL

\* Who sends in an uplink slot was granted it in this frame, whatever maps
\* were missed, so that no two subscribers collide.
THEOREM GrantsAlwaysHonoured ==
  ASSUME FrameFits
  PROVE  Spec => []GrantHonoured
<1>1. FrameInv => GrantHonoured
  BY DEF FrameInv, GrantsOK, GrantHonoured
<1> QED BY <1>1, FrameInvariance, PTL

\* A frame is over before the next one starts.
THEOREM FramesComplete ==
  ASSUME FrameFits
  PROVE  Spec => FrameCompletes
<1>1. FrameInv /\ [Next]_vars =>
        [\A s \in Station : active'[s] = 1 /\ active[s] # 1 => active[s] = End]_vars
  <2> SUFFICES ASSUME FrameInv, [Next]_vars
               PROVE  \A s \in Station : active'[s] = 1 /\ active[s] # 1 => active[s] = End
    OBVIOUS
  <2>1. CASE Dispatch
    BY <2>1, DispatchStep
  <2>2. CASE Arrive \/ (\E s \in SS : Join(s)) \/ UNCHANGED vars
    BY <2>2, OutsideStep
  <2> QED BY <2>1, <2>2 DEF Next
<1> QED BY <1>1, FrameInvariance, PTL DEF Spec, FrameCompletes
==========================================================================
