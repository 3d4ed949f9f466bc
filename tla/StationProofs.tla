-------------------------- MODULE StationProofs --------------------------
(***************************************************************************)
(* What a station goes by, for any stations, frames, packets and units:    *)
(* the measurements of Measurement, the answers of BypassQueue and the     *)
(* estimates of InterferenceCache.                                         *)
(***************************************************************************)
EXTENDS Measurement, BypassQueue, InterferenceCache, TLAPS

---------------------------------------------------------------------------
(* Measurement.  A terminal has one time stamp for all the stations it     *)
(* hears, so that a fresh stamp says something of its base station's entry *)
(* only because nothing else was written for it since it associated.       *)

\* Nothing was written in a later frame.
NotAhead == \A x, s \in Station : entry[x][s] <= frameNow

\* A terminal that could hear a frame head of this frame has written lately.
HeardLately ==
  \A s \in UT, b \in heads :
    base[s] \in {NoStation, b} => stamp[s] + MaxAge >= frameNow

\* Only its base station's cache has got values of a terminal since.
OnlyOfBase ==
  \A s \in UT, x \in Station :
    base[s] # NoStation /\ x # base[s] => entry[x][s] <= since[s]

MeasurementInv ==
  MeasurementTypeOK /\ NotAhead /\ HeardLately /\ OnlyOfBase /\ StampIsLastEntry /\ BestIsBest

\* Nobody has measured anything.
LEMMA MeasurementStart == MeasureInit => MeasurementInv
<1> SUFFICES ASSUME MeasureInit PROVE MeasurementInv
  OBVIOUS
<1> USE MeasurementAssumption DEF MeasureInit
<1>1. MeasurementTypeOK
  <2>1. base \in [Mobile -> Base \cup {NoStation}]
    BY DEF Mobile, Base
  <2>2. best \in [Mobile -> {NoBest}]
    OBVIOUS
  <2>3. stamp \in [Station -> -MaxAge..MaxFrame] /\ entry \in [Station -> [Station -> -MaxAge..MaxFrame]]
    BY DEF Never
  <2> QED BY <2>1, <2>2, <2>3 DEF MeasurementTypeOK
<1>2. NotAhead /\ HeardLately
  BY DEF NotAhead, HeardLately, Never
<1>3. OnlyOfBase
  BY DEF OnlyOfBase, Never, Mobile, Station, Base
<1>4. StampIsLastEntry
  BY DEF StampIsLastEntry, Never
<1>5. BestIsBest
  BY DEF BestIsBest, NoBest
<1> QED BY <1>1, <1>2, <1>3, <1>4, <1>5 DEF MeasurementInv

\* A write at R in x's cache, with the stamps, by stations that hear x.
LEMMA WriteKeeps ==
  ASSUME NEW x \in Station, NEW R \in SUBSET Station,
         MeasurementInv, entry' = Written(x, R), stamp' = Stamped(R),
         UNCHANGED <<frameNow, base, since>>,
         \A s \in R \cap UT : base[s] \in {NoStation, x}
  PROVE  /\ entry' \in [Station -> [Station -> -MaxAge..MaxFrame]]
         /\ stamp' \in [Station -> -MaxAge..MaxFrame]
         /\ NotAhead' /\ OnlyOfBase' /\ StampIsLastEntry'
         /\ \A s \in Station : stamp'[s] >= stamp[s] /\ (s \in R => stamp'[s] = frameNow)
<1> USE MeasurementAssumption DEF MeasurementInv
<1>1. frameNow \in 1..MaxFrame /\ stamp \in [Station -> -MaxAge..MaxFrame]
      /\ entry \in [Station -> [Station -> -MaxAge..MaxFrame]]
  BY DEF MeasurementTypeOK
<1>2. frameNow \in -MaxAge..MaxFrame /\ frameNow \in Int
  BY <1>1
<1>3. \A y, s \in Station : entry'[y][s] = IF y = x /\ s \in R THEN frameNow ELSE entry[y][s]
  BY <1>1 DEF Written
<1>4. \A s \in Station : stamp'[s] = IF s \in R THEN frameNow ELSE stamp[s]
  BY DEF Stamped
<1>5. entry' \in [Station -> [Station -> -MaxAge..MaxFrame]]
  BY <1>1, <1>2 DEF Written
<1>6. stamp' \in [Station -> -MaxAge..MaxFrame]
  BY <1>1, <1>2 DEF Stamped
<1>7. \A y, s \in Station : entry[y][s] \in Int
  BY <1>1
<1>8. \A s \in Station : stamp[s] \in Int /\ stamp[s] <= frameNow
  BY <1>1, <1>7 DEF StampIsLastEntry, NotAhead
<1>9. NotAhead'
  BY <1>2, <1>3 DEF NotAhead
<1>10. OnlyOfBase'
  BY <1>3 DEF OnlyOfBase, Station
<1>11. StampIsLastEntry'
  <2> SUFFICES ASSUME NEW s \in Station
               PROVE  /\ \E y \in Station : stamp'[s] = entry'[y][s]
                      /\ \A y \in Station : stamp'[s] >= entry'[y][s]
    BY DEF StampIsLastEntry
  <2>1. CASE s \in R
    BY <2>1, <1>2, <1>3, <1>4, <1>7 DEF NotAhead
  <2>2. CASE s \notin R
    BY <2>2, <1>3, <1>4 DEF StampIsLastEntry
  <2> QED BY <2>1, <2>2
<1> QED BY <1>2, <1>4, <1>5, <1>6, <1>8, <1>9, <1>10, <1>11

\* A strategy that is given what a station decoded still knows the best.
LEMMA PutKeepsBest ==
  ASSUME NEW b \in Base, NEW v \in [Mobile \ DOMAIN FixedTo -> Level],
         NEW S \in SUBSET Mobile,
         MeasurementInv, best' = StoreMeasurement(b, v, S),
         measured' = [s \in Mobile |-> IF s \in S /\ Chooses(s)
                     THEN measured[s] \cup {[station |-> b, value |-> v[s], first |->
                                 \A h \in measured[s] : h.value # v[s]]}
                     ELSE measured[s]]
  PROVE  /\ \A s \in Mobile : best'[s] = NoBest \/ best'[s] \in
              [initialized : {TRUE}, station : Base, value : Level]
         /\ measured' \in [Mobile -> SUBSET [station : Base, value : Level, first : BOOLEAN]]
         /\ BestIsBest'
<1> DEFINE Kind == [initialized : {TRUE}, station : Base, value : Level]
           Given == [station : Base, value : Level, first : BOOLEAN]
           first(s) == \A h \in measured[s] : h.value # v[s]
           new(s) == [station |-> b, value |-> v[s], first |-> first(s)]
           took(s) == [initialized |-> TRUE, station |-> b, value |-> v[s]]
<1> USE MeasurementAssumption DEF MeasurementInv
<1>1. \A s \in Mobile : best[s] = NoBest \/ best[s] \in Kind
  BY DEF MeasurementTypeOK
<1>2. \A s \in Mobile : measured[s] \subseteq Given
  BY DEF MeasurementTypeOK
<1>3. SUFFICES ASSUME NEW s \in Mobile
      PROVE  /\ best'[s] = NoBest \/ best'[s] \in Kind
             /\ measured'[s] \subseteq Given
             /\ best'[s].initialized <=> measured'[s] # {}
             /\ \A h \in measured'[s] : ~Better(h.value, best'[s].value)
             /\ measured'[s] # {} =>
                  [station |-> best'[s].station, value |-> best'[s].value, first |-> TRUE]
                    \in measured'[s]
  <2>1. measured' \in [Mobile -> SUBSET Given] <=> \A s \in Mobile : measured'[s] \in SUBSET Given
    OBVIOUS
  <2> QED BY <1>3, <2>1 DEF BestIsBest
<1>4. CASE ~(s \in S /\ Chooses(s))
  <2>1. best'[s] = best[s] /\ measured'[s] = measured[s]
    BY <1>4 DEF StoreMeasurement
  <2> QED BY <1>1, <1>2, <2>1 DEF BestIsBest
<1>5. CASE s \in S /\ Chooses(s)
  <2>1. v[s] \in Level /\ v[s] \in Nat
    BY <1>5 DEF Chooses
  <2>2. best'[s] = PutBest(best[s], b, v[s]) /\ measured'[s] = measured[s] \cup {new(s)}
    BY <1>5 DEF StoreMeasurement
  <2>3. new(s) \in Given /\ took(s) \in Kind /\ new(s).value = v[s]
        /\ took(s).value = v[s] /\ took(s).station = b /\ took(s).initialized = TRUE
    BY <2>1
  <2>4. best[s].initialized <=> measured[s] # {}
    BY DEF BestIsBest
  <2>5. \A h \in measured[s] : h.value \in Nat
    BY <1>2
  <2>6. CASE measured[s] = {}
    <3>1. best'[s] = took(s)
      BY <2>2, <2>4, <2>6 DEF PutBest
    <3>2. measured'[s] = {new(s)} /\ new(s) = [station |-> b, value |-> v[s], first |-> TRUE]
      BY <2>2, <2>6
    <3>3. ~Better(v[s], v[s])
      BY <2>1 DEF Better
    <3> HIDE DEF new, took, first
    <3> QED BY <3>1, <3>2, <3>3, <2>3
  <2>7. CASE measured[s] # {} /\ Better(v[s], best[s].value)
    <3>1. best'[s] = took(s)
      BY <2>2, <2>7 DEF PutBest
    <3>2. best[s].value \in Nat
      <4>1. CASE best[s] = NoBest
        BY <4>1 DEF NoBest
      <4>2. CASE best[s] \in Kind
        BY <4>2
      <4> QED BY <1>1, <4>1, <4>2
    <3>3. \A h \in measured[s] : ~Better(h.value, v[s]) /\ h.value # v[s]
      <4> TAKE h \in measured[s]
      <4>1. h.value \in Nat /\ ~Better(h.value, best[s].value)
        BY <2>5 DEF BestIsBest
      <4> QED BY <2>1, <2>7, <3>2, <4>1 DEF Better
    <3>4. new(s) = [station |-> b, value |-> v[s], first |-> TRUE]
      BY <3>3
    <3>5. ~Better(v[s], v[s])
      BY <2>1 DEF Better
    <3> HIDE DEF new, took, first
    <3> QED BY <1>2, <3>1, <3>3, <3>4, <3>5, <2>2, <2>3
  <2>8. CASE measured[s] # {} /\ ~Better(v[s], best[s].value)
    <3>1. best'[s] = best[s]
      BY <2>2, <2>4, <2>8 DEF PutBest
    <3> HIDE DEF new, took, first
    <3> QED BY <1>1, <1>2, <3>1, <2>2, <2>3, <2>4, <2>8 DEF BestIsBest
  <2> QED BY <2>6, <2>7, <2>8
<1> QED BY <1>4, <1>5

\* A frame head: those that can hear it have written lately, or do so now.
LEMMA FrameHeadStep ==
  ASSUME NEW b \in Base, NEW v \in [Mobile \ DOMAIN FixedTo -> Level],
         NEW lost \in SUBSET (Mobile \ DOMAIN FixedTo),
         MeasurementInv, FrameHead(b, v, lost)
  PROVE  MeasurementInv'
<1> DEFINE passes  == {s \in Station : HeadPasses(b, s)}
           written == {s \in passes : Stale(s)}
<1> USE MeasurementAssumption
<1>1. b \in Station /\ written \in SUBSET Station /\ passes \ lost \in SUBSET Mobile
      /\ \A s \in written \cap UT : base[s] \in {NoStation, b}
  BY DEF Station, Base, HeadPasses
<1>2. /\ entry' = Written(b, written) /\ stamp' = Stamped(written)
      /\ best' = StoreMeasurement(b, v, passes \ lost)
      /\ UNCHANGED <<frameNow, base, since>> /\ heads' = heads \cup {b}
  BY DEF FrameHead
<1>3. measured' = [s \in Mobile |-> IF s \in passes \ lost /\ Chooses(s)
                     THEN measured[s] \cup {[station |-> b, value |-> v[s], first |->
                                 \A h \in measured[s] : h.value # v[s]]}
                     ELSE measured[s]]
  BY DEF FrameHead
<1>4. /\ \A s \in Mobile : best'[s] = NoBest \/ best'[s] \in
              [initialized : {TRUE}, station : Base, value : Level]
      /\ measured' \in [Mobile -> SUBSET [station : Base, value : Level, first : BOOLEAN]]
      /\ BestIsBest'
  BY <1>1, <1>2, <1>3, PutKeepsBest
<1>5. /\ entry' \in [Station -> [Station -> -MaxAge..MaxFrame]]
      /\ stamp' \in [Station -> -MaxAge..MaxFrame]
      /\ NotAhead' /\ OnlyOfBase' /\ StampIsLastEntry'
      /\ \A s \in Station : stamp'[s] >= stamp[s] /\ (s \in written => stamp'[s] = frameNow)
  BY <1>1, <1>2, WriteKeeps
<1>6. MeasurementTypeOK'
  BY <1>2, <1>4, <1>5 DEF MeasurementInv, MeasurementTypeOK
<1>7. HeardLately'
  <2> SUFFICES ASSUME NEW s \in UT, NEW x \in heads', base'[s] \in {NoStation, x}
               PROVE  stamp'[s] + MaxAge >= frameNow'
    BY DEF HeardLately
  <2>1. s \in Station /\ s \in Mobile /\ frameNow' = frameNow /\ frameNow \in Int
        /\ stamp[s] \in Int /\ stamp'[s] \in Int /\ stamp'[s] >= stamp[s] /\ base' = base
    BY <1>2, <1>5 DEF Station, Mobile, MeasurementInv, MeasurementTypeOK
  <2>2. CASE x \in heads
    BY <2>1, <2>2 DEF MeasurementInv, HeardLately
  <2>3. CASE x = b /\ s \in written
    BY <2>1, <2>3, <1>5
  <2>4. CASE x = b /\ s \notin written
    <3>1. s # b
      BY DEF Base
    <3>2. s \in passes
      BY <2>1, <2>4, <3>1 DEF HeadPasses
    <3>3. ~Stale(s)
      BY <2>4, <3>2
    <3> QED BY <2>1, <3>3 DEF Stale
  <2> QED BY <1>2, <2>2, <2>3, <2>4
<1> QED BY <1>4, <1>5, <1>6, <1>7 DEF MeasurementInv

\* Data moves the stamp only forward.
LEMMA UnicastStep ==
  ASSUME NEW x \in Station, NEW s \in Station, MeasurementInv, Unicast(x, s)
  PROVE  MeasurementInv'
<1> USE MeasurementAssumption
<1>1. {s} \in SUBSET Station /\ UNCHANGED <<frameNow, heads, base, since, best, measured>>
      /\ entry' = Written(x, {s}) /\ stamp' = Stamped({s})
  BY DEF Unicast
<1>2. \A t \in {s} \cap UT : base[t] \in {NoStation, x}
  <2>1. CASE s \in UT /\ x \in Mobile /\ base[x] = s
    BY <2>1 DEF MeasurementInv, MeasurementTypeOK, Station
  <2> QED BY <2>1 DEF Unicast, UnicastPasses
<1>3. /\ entry' \in [Station -> [Station -> -MaxAge..MaxFrame]]
      /\ stamp' \in [Station -> -MaxAge..MaxFrame]
      /\ NotAhead' /\ OnlyOfBase' /\ StampIsLastEntry'
      /\ \A t \in Station : stamp'[t] >= stamp[t] /\ (t \in {s} => stamp'[t] = frameNow)
  BY <1>1, <1>2, WriteKeeps
<1>4. MeasurementTypeOK' /\ BestIsBest'
  BY <1>1, <1>3 DEF MeasurementInv, MeasurementTypeOK, BestIsBest
<1>5. HeardLately'
  <2> SUFFICES ASSUME NEW t \in UT, NEW b \in heads', base'[t] \in {NoStation, b}
               PROVE  stamp'[t] + MaxAge >= frameNow'
    BY DEF HeardLately
  <2>1. t \in Station /\ frameNow \in Int /\ stamp[t] \in Int /\ stamp'[t] \in Int
        /\ stamp'[t] >= stamp[t]
    BY <1>3 DEF Station, MeasurementInv, MeasurementTypeOK
  <2> QED BY <1>1, <2>1 DEF MeasurementInv, HeardLately
<1> QED BY <1>3, <1>4, <1>5 DEF MeasurementInv

\* When a terminal associates, what it wrote before is not in its future.
LEMMA AssociateNowStep ==
  ASSUME NEW s \in Mobile, MeasurementInv, AssociateNow(s)
  PROVE  MeasurementInv'
<1> USE MeasurementAssumption DEF MeasurementInv
<1>1. /\ base[s] = NoStation /\ best[s].initialized
      /\ base' = [base EXCEPT ![s] = best[s].station]
      /\ since' = [since EXCEPT ![s] = frameNow]
      /\ UNCHANGED <<frameNow, heads, stamp, entry, best, measured>>
  BY DEF AssociateNow
<1>2. best[s].station \in Base
  <2>1. best[s] # NoBest
    BY <1>1 DEF NoBest
  <2>2. best[s] \in [initialized : {TRUE}, station : Base, value : Level]
    BY <2>1 DEF MeasurementTypeOK
  <2> QED BY <2>2
<1>3. MeasurementTypeOK'
  <2>1. base' \in [Mobile -> Base \cup {NoStation}]
    BY <1>1, <1>2 DEF MeasurementTypeOK
  <2>2. since' \in [Mobile -> 0..MaxFrame]
    BY <1>1 DEF MeasurementTypeOK
  <2> QED BY <1>1, <2>1, <2>2 DEF MeasurementTypeOK
<1>4. NotAhead' /\ StampIsLastEntry' /\ BestIsBest'
  BY <1>1 DEF NotAhead, StampIsLastEntry, BestIsBest
<1>5. HeardLately'
  BY <1>1 DEF HeardLately, MeasurementTypeOK, Mobile
<1>6. OnlyOfBase'
  BY <1>1 DEF OnlyOfBase, NotAhead, MeasurementTypeOK, Mobile, Station
<1> QED BY <1>3, <1>4, <1>5, <1>6

\* In a new frame no head has been sent.
LEMMA MeasureNextFrameStep ==
  ASSUME MeasurementInv, MeasureNextFrame
  PROVE  MeasurementInv'
<1> USE MeasurementAssumption DEF MeasurementInv, MeasureNextFrame
<1>1. MeasurementTypeOK'
  <2>1. frameNow' \in 1..MaxFrame /\ heads' \subseteq Base
    BY DEF MeasurementTypeOK
  <2> QED BY <2>1 DEF MeasurementTypeOK
<1>2. NotAhead'
  BY DEF NotAhead, MeasurementTypeOK
<1>3. HeardLately' /\ OnlyOfBase' /\ StampIsLastEntry' /\ BestIsBest'
  BY DEF HeardLately, OnlyOfBase, StampIsLastEntry, BestIsBest
<1> QED BY <1>1, <1>2, <1>3

\* Fresh: a stamp later than the association is that of the base's own entry.
LEMMA FreshHolds == MeasurementInv => MeasurementSafe
<1> SUFFICES ASSUME MeasurementInv, NEW s \in UT,
                    heads = Base, base[s] # NoStation, frameNow > since[s] + MaxAge
             PROVE  TxSINRAt(base[s], s) + MaxAge >= frameNow
  BY DEF MeasurementInv, MeasurementSafe, EntryFresh
<1> USE MeasurementAssumption DEF MeasurementInv
<1>1. s \in Station /\ s \in Mobile /\ base[s] \in heads /\ frameNow \in Int
      /\ since[s] \in Int /\ stamp[s] \in Int
  BY DEF MeasurementTypeOK, Station, Mobile
<1>2. stamp[s] + MaxAge >= frameNow
  BY <1>1 DEF HeardLately
<1>3. PICK x \in Station : stamp[s] = entry[x][s]
  BY <1>1 DEF StampIsLastEntry
<1>4. x = base[s]
  BY <1>1, <1>2, <1>3 DEF OnlyOfBase
<1> QED BY <1>2, <1>3, <1>4 DEF TxSINRAt

\* The schedulers of the base stations of terminals work with fresh values,
\* and an association strategy knows the best base station (PhyUser::onData,
\* FrameHeadCollector::doOnData, AssociationControl), for any stations.
THEOREM AlwaysMeasured == MeasureSpec => []MeasurementSafe
<1>1. MeasureInit => MeasurementInv
  BY MeasurementStart
<1>2. MeasurementInv /\ [MeasureNext]_measureVars => MeasurementInv'
  <2> SUFFICES ASSUME MeasurementInv, [MeasureNext]_measureVars
               PROVE  MeasurementInv'
    OBVIOUS
  <2>1. CASE UNCHANGED measureVars
    BY <2>1 DEF measureVars, MeasurementInv, MeasurementTypeOK, NotAhead, HeardLately,
       OnlyOfBase, StampIsLastEntry, BestIsBest
  <2>2. ASSUME NEW b \in Base, NEW v \in [Mobile \ DOMAIN FixedTo -> Level],
               NEW lost \in SUBSET (Mobile \ DOMAIN FixedTo), FrameHead(b, v, lost)
        PROVE  MeasurementInv'
    BY <2>2, FrameHeadStep
  <2>3. ASSUME NEW x \in Station, NEW s \in Station, Unicast(x, s) PROVE MeasurementInv'
    BY <2>3, UnicastStep
  <2>4. ASSUME NEW s \in Mobile, AssociateNow(s) PROVE MeasurementInv'
    BY <2>4, AssociateNowStep
  <2>5. CASE MeasureNextFrame
    BY <2>5, MeasureNextFrameStep
  <2> QED BY <2>1, <2>2, <2>3, <2>4, <2>5 DEF MeasureNext
<1> QED BY <1>1, <1>2, FreshHolds, PTL DEF MeasureSpec

---------------------------------------------------------------------------
(* BypassQueue, for builds whose FilterQueued returns FALSE, as its         *)
(* declaration as a checker that accepts nothing means it to.               *)

\* The packet of c is the next one of its unit.
AtHead(c) == above[UnitOf[c]] # << >> /\ Head(above[UnitOf[c]]).cid = c

BypassTypes ==
  /\ failed = FALSE
  /\ above \in [Unit -> Seq(PDU)]
  /\ checker \in Checker \cup {None}
  /\ toWake \subseteq Backlog /\ (checker = None => toWake = {})
  /\ current \in PDU \cup {None}
  /\ known \subseteq QueueCID
  /\ announced \in [QueueCID -> Size \cup {0}]
  /\ taken \in Seq([asked : QueueCID, pdu : PDU, announced : Size \cup {0}])
  /\ arrived \in 0..MaxArrivals

\* Every unit holds packets of its connections, in the order they came.
InOrder ==
  \A u \in Unit : \A i \in DOMAIN above[u] :
    /\ UnitOf[above[u][i].cid] = u /\ above[u][i].id <= arrived
    /\ \A j \in DOMAIN above[u] : i < j => above[u][i].id < above[u][j].id

\* p came before whatever waits for its connection.
BeforeAll(p) ==
  /\ p.id <= arrived
  /\ \A u \in Unit : \A i \in DOMAIN above[u] : above[u][i].cid = p.cid => p.id < above[u][i].id

\* Only a query for a packet keeps one, of its connection.
KeptIsAsked ==
  current # None =>
    /\ checker # None /\ checker.kind = "AcceptCID" /\ current.cid = checker.arg
    /\ BeforeAll(current)

\* Only active connections are asked for, and until the packet is kept the
\* unit that has it is still to be woken up.
AskedIsKnown ==
  checker # None /\ checker.kind = "AcceptCID" =>
    checker.arg \in known /\ (current = None => UnitOf[checker.arg] \in toWake)

\* A connection taken for active has its packet at the head of its unit.
KnownAtHead ==
  \A c \in known : AtHead(c) \/ (current # None /\ current.cid = c)

\* What was announced is the length of that packet, until it is kept.
AnnouncedRight ==
  \A c \in QueueCID :
    \/ announced[c] = 0
    \/ /\ current = None \/ current.cid # c
       /\ AtHead(c) /\ Head(above[UnitOf[c]]).size = announced[c]
    \/ current # None /\ current.cid = c /\ current.size = announced[c]

\* The answer so far: only what is offered, and all of what has been.
NotedRight ==
  checker # None /\ checker.kind # "AcceptCID" =>
    /\ \A x \in found : \E u \in Backlog : x \in Noted(checker, Head(above[u]))
    /\ \A u \in Backlog \ toWake : Noted(checker, Head(above[u])) \subseteq found

\* What was taken is older than what waits or is kept.
TakenFirst ==
  \A i \in DOMAIN taken :
    /\ BeforeAll(taken[i].pdu)
    /\ current # None /\ current.cid = taken[i].pdu.cid => taken[i].pdu.id < current.id

BypassInv ==
  /\ BypassTypes /\ NeverFails
  /\ InOrder /\ KeptIsAsked /\ AskedIsKnown /\ KnownAtHead /\ AnnouncedRight /\ NotedRight
  /\ TakenFirst /\ DeliversWhatWasAsked

\* The members of a sequence over S are in S.
LEMMA MembersIn ==
  ASSUME NEW S, NEW s \in Seq(S)
  PROVE  \A i \in DOMAIN s : s[i] \in S
<1>1. DOMAIN s = 1..Len(s) /\ s \in [1..Len(s) -> S]
  OBVIOUS
<1> QED BY <1>1

\* A sequence that is not empty begins with its head.
LEMMA HeadFirst ==
  ASSUME NEW S, NEW s \in Seq(S), s # << >>
  PROVE  /\ Head(s) = s[1] /\ 1 \in DOMAIN s /\ Head(s) \in S
         /\ Tail(s) \in Seq(S)
         /\ \A i \in DOMAIN Tail(s) : i + 1 \in DOMAIN s /\ Tail(s)[i] = s[i + 1] /\ i \in Nat \ {0}
<1>1. Len(s) \in Nat /\ Len(s) > 0 /\ DOMAIN s = 1..Len(s)
  OBVIOUS
<1> QED BY <1>1

\* What is appended comes last.
LEMMA AppendLast ==
  ASSUME NEW S, NEW s \in Seq(S), NEW e \in S
  PROVE  /\ Append(s, e) \in Seq(S) /\ Append(s, e) # << >>
         /\ s # << >> => Head(Append(s, e)) = Head(s)
         /\ s = << >> => Head(Append(s, e)) = e
         /\ \A i \in DOMAIN Append(s, e) :
              \/ i \in DOMAIN s /\ Append(s, e)[i] = s[i]
              \/ i \notin DOMAIN s /\ Append(s, e)[i] = e /\ \A j \in DOMAIN Append(s, e) : j <= i
         /\ \A i \in DOMAIN s : i \in DOMAIN Append(s, e)
         /\ DOMAIN s \subseteq Nat /\ DOMAIN Append(s, e) \subseteq Nat
<1>1. Len(s) \in Nat /\ DOMAIN s = 1..Len(s) /\ DOMAIN Append(s, e) = 1..(Len(s) + 1)
  OBVIOUS
<1>2. Append(s, e) \in Seq(S) /\ Append(s, e) # << >>
  <2>1. Append(s, e) \in Seq(S)
    OBVIOUS
  <2>2. Len(Append(s, e)) = Len(s) + 1
    OBVIOUS
  <2> QED BY <1>1, <2>1, <2>2
<1>3. Head(Append(s, e)) = Append(s, e)[1]
  BY <1>2, <1>1
<1>4. s # << >> => Head(s) = s[1] /\ Len(s) >= 1
  OBVIOUS
<1>5. \A i \in 1..(Len(s) + 1) : Append(s, e)[i] = IF i = Len(s) + 1 THEN e ELSE s[i]
  OBVIOUS
<1>6. s = << >> => Len(s) = 0
  OBVIOUS
<1>7. (s # << >> => Head(Append(s, e)) = Head(s)) /\ (s = << >> => Head(Append(s, e)) = e)
  BY <1>1, <1>3, <1>4, <1>5, <1>6
<1> QED BY <1>1, <1>2, <1>5, <1>7

\* No packets, no query.
LEMMA BypassStart == BypassInit => BypassInv
<1> SUFFICES ASSUME BypassInit PROVE BypassInv
  OBVIOUS
<1> USE BypassAssumption, NoneAssumption DEF BypassInit
<1>1. BypassTypes /\ NeverFails
  BY DEF BypassTypes, NeverFails
<1>2. InOrder
  BY DEF InOrder
<1>3. KeptIsAsked /\ AskedIsKnown /\ KnownAtHead /\ AnnouncedRight /\ NotedRight
  BY DEF KeptIsAsked, AskedIsKnown, KnownAtHead, AnnouncedRight, NotedRight
<1>4. TakenFirst /\ DeliversWhatWasAsked
  BY DEF TakenFirst, DeliversWhatWasAsked
<1> QED BY <1>1, <1>2, <1>3, <1>4 DEF BypassInv

\* Whatever waits, and whatever was taken, is a packet.
LEMMA PacketsTyped ==
  ASSUME BypassTypes
  PROVE  /\ \A u \in Unit : \A i \in DOMAIN above[u] :
              above[u][i] \in PDU /\ above[u][i].id \in Nat
         /\ \A i \in DOMAIN taken :
              taken[i] \in [asked : QueueCID, pdu : PDU, announced : Size \cup {0}]
              /\ taken[i].pdu \in PDU /\ taken[i].pdu.id \in Nat
<1>1. \A p \in PDU : p.id \in Nat
  BY DEF PDU
<1>2. ASSUME NEW u \in Unit PROVE \A i \in DOMAIN above[u] : above[u][i] \in PDU
  <2>1. above[u] \in Seq(PDU)
    BY DEF BypassTypes
  <2> QED BY <2>1, MembersIn
<1>3. taken \in Seq([asked : QueueCID, pdu : PDU, announced : Size \cup {0}])
  BY DEF BypassTypes
<1>4. \A i \in DOMAIN taken :
        taken[i] \in [asked : QueueCID, pdu : PDU, announced : Size \cup {0}]
  BY <1>3, MembersIn
<1>5. \A i \in DOMAIN taken : taken[i].pdu \in PDU
  BY <1>4
<1> QED BY <1>1, <1>2, <1>4, <1>5

\* A unit woken up offers the packet at its head.
LEMMA HeadsAre ==
  ASSUME BypassTypes, NEW u \in Backlog
  PROVE  u \in Unit /\ above[u] \in Seq(PDU) /\ above[u] # << >>
         /\ Head(above[u]) \in PDU /\ Head(above[u]) = above[u][1] /\ 1 \in DOMAIN above[u]
<1>1. u \in Unit /\ above[u] \in Seq(PDU) /\ above[u] # << >>
  BY DEF BypassTypes, Backlog
<1> QED BY <1>1, HeadFirst

\* A packet that arrives changes no head but that of an empty unit, which is
\* woken up when a query runs.
LEMMA ArriveStep ==
  ASSUME NEW c \in QueueCID, NEW size \in Size, BypassInv, Arrive(c, size)
  PROVE  BypassInv'
<1> DEFINE u == UnitOf[c]
           e == [id |-> arrived + 1, cid |-> c, size |-> size]
<1> USE BypassAssumption, NoneAssumption
<1>1. BypassTypes /\ NeverFails
  BY DEF BypassInv
<1>2. /\ arrived < MaxArrivals /\ arrived' = arrived + 1
      /\ above' = [above EXCEPT ![u] = Append(@, e)]
      /\ toWake' = IF checker = None THEN toWake ELSE toWake \cup {u}
      /\ UNCHANGED <<checker, found, current, failed, known, announced, taken>>
  BY DEF Arrive
<1>3. u \in Unit /\ above[u] \in Seq(PDU) /\ arrived \in Nat /\ arrived + 1 \in 1..MaxArrivals
  BY <1>1, <1>2 DEF BypassTypes
<1>4. e \in PDU /\ e.id = arrived + 1 /\ e.cid = c
  BY <1>3 DEF PDU
<1>5. above' \in [Unit -> Seq(PDU)] /\ above'[u] = Append(above[u], e)
      /\ \A v \in Unit \ {u} : above'[v] = above[v]
  <2>1. Append(above[u], e) \in Seq(PDU)
    BY <1>3, <1>4, AppendLast
  <2> HIDE DEF e, u
  <2> QED BY <1>1, <1>2, <1>3, <2>1 DEF BypassTypes
<1> HIDE DEF e, u
<1>6. /\ above'[u] # << >>
      /\ above[u] # << >> => Head(above'[u]) = Head(above[u])
      /\ \A i \in DOMAIN above'[u] :
              \/ i \in DOMAIN above[u] /\ above'[u][i] = above[u][i]
              \/ i \notin DOMAIN above[u] /\ above'[u][i] = e /\ \A j \in DOMAIN above'[u] : j <= i
      /\ DOMAIN above[u] \subseteq Nat /\ DOMAIN above'[u] \subseteq Nat
  BY SMTT(30), <1>3, <1>4, <1>5, AppendLast
<1>7. Backlog' = Backlog \cup {u} /\ \A v \in Backlog : above'[v] # << >> /\ Head(above'[v]) = Head(above[v])
  BY <1>3, <1>5, <1>6 DEF Backlog
<1>8. BypassTypes' /\ NeverFails'
  BY <1>1, <1>2, <1>3, <1>5, <1>7 DEF BypassTypes, NeverFails
<1>9. \A v \in Unit : \A i \in DOMAIN above[v] : above[v][i] \in PDU /\ above[v][i].id \in Nat
  BY <1>1, PacketsTyped
<1>10. InOrder'
  <2> SUFFICES ASSUME NEW v \in Unit, NEW i \in DOMAIN above'[v]
               PROVE  /\ UnitOf[above'[v][i].cid] = v /\ above'[v][i].id <= arrived'
                      /\ \A j \in DOMAIN above'[v] : i < j => above'[v][i].id < above'[v][j].id
    BY DEF InOrder
  <2>1. CASE v # u
    <3>1. \A k \in DOMAIN above[v] : above[v][k].id <= arrived + 1
      BY <1>3, <1>9 DEF BypassInv, InOrder
    <3> QED BY <2>1, <3>1, <1>2, <1>5 DEF BypassInv, InOrder
  <2>2. CASE v = u
    <3>1. \A k \in DOMAIN above[u] : above[u][k].id < arrived + 1 /\ UnitOf[above[u][k].cid] = u
      BY <1>3, <1>9 DEF BypassInv, InOrder
    <3>2. UnitOf[e.cid] = u /\ e.id <= arrived'
      BY <1>2, <1>3, <1>4 DEF u
    <3>3. CASE i \in DOMAIN above[u]
      BY SMTT(30), <2>2, <3>1, <3>3, <1>2, <1>3, <1>4, <1>6, <1>9 DEF BypassInv, InOrder
    <3>4. CASE i \notin DOMAIN above[u]
      BY <2>2, <3>2, <3>4, <1>6
    <3> QED BY <3>3, <3>4
  <2> QED BY <2>1, <2>2
<1>11. \A p \in PDU : BeforeAll(p) => BeforeAll(p)'
  <2> SUFFICES ASSUME NEW p \in PDU, BeforeAll(p) PROVE BeforeAll(p)'
    OBVIOUS
  <2>1. p.id \in Nat /\ p.id <= arrived /\ p.id < arrived + 1
    BY <1>3 DEF BeforeAll, PDU
  <2>2. \A i \in DOMAIN above'[u] : above'[u][i].cid = p.cid => p.id < above'[u][i].id
    BY <1>3, <1>4, <1>6, <2>1 DEF BeforeAll
  <2>3. \A v \in Unit : \A i \in DOMAIN above'[v] : above'[v][i].cid = p.cid => p.id < above'[v][i].id
    BY <1>5, <2>2 DEF BeforeAll
  <2>4. p.id <= arrived'
    BY <1>2, <1>3, <2>1
  <2> QED BY <2>3, <2>4 DEF BeforeAll
<1>12. \A d \in QueueCID : AtHead(d) =>
         AtHead(d)' /\ Head(above'[UnitOf[d]]).size = Head(above[UnitOf[d]]).size
  BY <1>7 DEF AtHead, Backlog
<1>13. KeptIsAsked'
  BY <1>2, <1>1, <1>11 DEF BypassInv, BypassTypes, KeptIsAsked
<1>14. AskedIsKnown' /\ KnownAtHead' /\ AnnouncedRight'
  <2>1. AskedIsKnown'
    BY <1>2 DEF BypassInv, AskedIsKnown
  <2>2. KnownAtHead'
    BY <1>1, <1>2, <1>12 DEF BypassInv, BypassTypes, KnownAtHead
  <2>3. AnnouncedRight'
    BY <1>2, <1>12 DEF BypassInv, AnnouncedRight
  <2> QED BY <2>1, <2>2, <2>3
<1>15. NotedRight'
  <2> SUFFICES ASSUME checker # None, checker.kind # "AcceptCID"
               PROVE  /\ \A x \in found : \E v \in Backlog' : x \in Noted(checker, Head(above[v]))'
                      /\ \A v \in Backlog' \ toWake' : Noted(checker, Head(above[v]))' \subseteq found
    BY <1>2 DEF NotedRight
  <2>1. \A v \in Backlog : Noted(checker, Head(above[v]))' = Noted(checker, Head(above[v]))
    BY <1>2, <1>7 DEF Noted, Asked
  <2>2. Backlog' \ toWake' \subseteq Backlog \ toWake
    BY <1>2, <1>7
  <2> QED BY <1>7, <2>1, <2>2 DEF BypassInv, NotedRight
<1>16. TakenFirst' /\ DeliversWhatWasAsked'
  <2>1. \A i \in DOMAIN taken : taken[i].pdu \in PDU
    BY <1>1, PacketsTyped
  <2>2. TakenFirst'
    BY <1>2, <1>11, <2>1 DEF BypassInv, TakenFirst
  <2>3. DeliversWhatWasAsked'
    BY <1>2 DEF BypassInv, DeliversWhatWasAsked
  <2> QED BY <2>2, <2>3
<1> QED BY <1>8, <1>10, <1>13, <1>14, <1>15, <1>16 DEF BypassInv

\* A query starts with every unit that has a packet still to be woken up.
LEMMA QueryStep ==
  ASSUME NEW check \in Checker, BypassInv, Query(check)
  PROVE  BypassInv'
<1> USE BypassAssumption, NoneAssumption DEF BypassInv
<1>1. /\ checker = None /\ (check.kind = "AcceptCID" => check.arg \in known)
      /\ checker' = check /\ found' = {} /\ toWake' = Backlog
      /\ UNCHANGED <<above, current, failed, known, announced, taken, arrived>>
  BY DEF Query
<1>2. current = None /\ Backlog' = Backlog
  BY <1>1 DEF KeptIsAsked, Backlog
<1>3. BypassTypes' /\ NeverFails'
  BY <1>1, <1>2 DEF BypassTypes, NeverFails
<1>4. InOrder' /\ TakenFirst' /\ DeliversWhatWasAsked'
  BY <1>1 DEF InOrder, TakenFirst, BeforeAll, DeliversWhatWasAsked
<1>5. KeptIsAsked' /\ KnownAtHead' /\ AnnouncedRight'
  BY <1>1, <1>2 DEF KeptIsAsked, KnownAtHead, AnnouncedRight, AtHead
<1>6. AskedIsKnown'
  <2> SUFFICES ASSUME check.kind = "AcceptCID"
               PROVE  check.arg \in known /\ UnitOf[check.arg] \in Backlog
    BY <1>1 DEF AskedIsKnown
  <2>1. check.arg \in known /\ AtHead(check.arg)
    BY <1>1, <1>2 DEF KnownAtHead
  <2> QED BY <2>1 DEF AtHead, Backlog, BypassTypes
<1>7. NotedRight'
  BY <1>1, <1>2 DEF NotedRight
<1> QED BY <1>3, <1>4, <1>5, <1>6, <1>7

\* A packet is refused once it has been noted, and never the one asked for.
LEMMA RefuseStep ==
  ASSUME NEW u \in Unit, BypassInv, Refuse(u)
  PROVE  BypassInv'
<1> USE BypassAssumption, NoneAssumption DEF BypassInv
<1>1. /\ u \in toWake /\ FALSE \in Accepts(checker, Head(above[u]))
      /\ found' = found \cup Noted(checker, Head(above[u])) /\ toWake' = toWake \ {u}
      /\ UNCHANGED <<above, checker, current, failed, known, announced, taken, arrived>>
  BY DEF Refuse, Note
<1>2. Backlog' = Backlog /\ u \in Backlog
  BY <1>1 DEF Backlog, BypassTypes
<1>3. BypassTypes' /\ NeverFails'
  BY <1>1, <1>2 DEF BypassTypes, NeverFails
<1>4. InOrder' /\ TakenFirst' /\ DeliversWhatWasAsked'
  BY <1>1 DEF InOrder, TakenFirst, BeforeAll, DeliversWhatWasAsked
<1>5. KeptIsAsked' /\ KnownAtHead' /\ AnnouncedRight'
  BY <1>1 DEF KeptIsAsked, KnownAtHead, AnnouncedRight, AtHead, BeforeAll
<1>6. AskedIsKnown'
  <2> SUFFICES ASSUME checker # None, checker.kind = "AcceptCID", current = None,
                      UnitOf[checker.arg] = u
               PROVE  FALSE
    BY <1>1 DEF AskedIsKnown
  <2>1. checker.arg \in known
    BY DEF AskedIsKnown
  <2>2. AtHead(checker.arg)
    BY <2>1 DEF KnownAtHead
  <2>3. AcceptCID(checker, Head(above[u])) = TRUE
    BY <2>2 DEF AtHead, AcceptCID
  <2> QED BY <1>1, <2>3 DEF Accepts
<1>7. NotedRight'
  <2> SUFFICES ASSUME checker # None, checker.kind # "AcceptCID"
               PROVE  /\ \A x \in found' : \E v \in Backlog : x \in Noted(checker, Head(above[v]))
                      /\ \A v \in Backlog \ toWake' : Noted(checker, Head(above[v])) \subseteq found'
    BY <1>1, <1>2 DEF NotedRight, Noted, Asked
  <2> QED BY <1>1, <1>2 DEF NotedRight
<1> QED BY <1>3, <1>4, <1>5, <1>6, <1>7

\* The one packet that is asked for is kept.
LEMMA PutStep ==
  ASSUME FilterReturn = {FALSE}, NEW u \in Unit, BypassInv, Put(u)
  PROVE  BypassInv'
<1> DEFINE p == Head(above[u])
<1> USE BypassAssumption, NoneAssumption DEF BypassInv
<1>1. u \in toWake /\ TRUE \in Accepts(checker, p)
  BY DEF Put

<1>2. BypassTypes /\ u \in Backlog /\ checker # None
  BY <1>1 DEF BypassTypes
<1>3. checker.kind = "AcceptCID" /\ AcceptCID(checker, p) /\ FALSE \notin Accepts(checker, p)
  BY <1>1 DEF Accepts, AcceptCID
<1>4. current = None /\ p.cid = checker.arg /\ checker.arg \in known
  BY <1>2, <1>3 DEF AcceptCID, AskedIsKnown
<1>5. /\ current' = p /\ above' = [above EXCEPT ![u] = Tail(@)]
      /\ toWake' = Rest(u)
      /\ UNCHANGED <<checker, failed, known, announced, taken, arrived>>
  BY <1>3, <1>4 DEF Put
<1>6. above[u] \in Seq(PDU) /\ above[u] # << >> /\ p \in PDU /\ p = above[u][1] /\ 1 \in DOMAIN above[u]
  BY <1>2, HeadsAre
<1> HIDE DEF p
<1>7. /\ Tail(above[u]) \in Seq(PDU)
      /\ \A i \in DOMAIN Tail(above[u]) :
           i + 1 \in DOMAIN above[u] /\ Tail(above[u])[i] = above[u][i + 1] /\ i \in Nat \ {0}
  BY <1>6, HeadFirst
<1>8. above' \in [Unit -> Seq(PDU)] /\ above'[u] = Tail(above[u])
      /\ \A v \in Unit \ {u} : above'[v] = above[v]
  BY <1>2, <1>5, <1>7 DEF BypassTypes
<1>9. UnitOf[checker.arg] = u /\ checker.arg \in QueueCID /\ p.id <= arrived
  BY <1>2, <1>4, <1>6 DEF InOrder, BypassTypes
<1>10. toWake' \subseteq Backlog' /\ checker' # None
  <2> SUFFICES ASSUME NEW v \in toWake' PROVE v \in Unit /\ above'[v] # << >>
    BY <1>2, <1>5 DEF Backlog
  <2>1. v \in toWake /\ v \in Unit /\ above[v] # << >>
    BY <1>2, <1>5 DEF Rest, BypassTypes, Backlog
  <2>2. CASE v # u
    BY <2>1, <2>2, <1>8
  <2>3. CASE v = u
    BY <2>1, <2>3, <1>5, <1>8 DEF Rest
  <2> QED BY <2>2, <2>3, <2>1
<1>11. BypassTypes' /\ NeverFails'
  BY <1>2, <1>5, <1>6, <1>8, <1>10 DEF BypassTypes, NeverFails
<1>12. \A v \in Unit : \A i \in DOMAIN above'[v] : \E k \in DOMAIN above[v] :
          /\ above'[v][i] = above[v][k]
          /\ v = u => k = i + 1 /\ i \in Nat \ {0}
          /\ v # u => k = i
  BY <1>7, <1>8
<1>13. InOrder'
  <2> SUFFICES ASSUME NEW v \in Unit, NEW i \in DOMAIN above'[v]
               PROVE  /\ UnitOf[above'[v][i].cid] = v /\ above'[v][i].id <= arrived
                      /\ \A j \in DOMAIN above'[v] : i < j => above'[v][i].id < above'[v][j].id
    BY <1>5 DEF InOrder
  <2>1. CASE v # u
    BY <2>1, <1>8 DEF InOrder
  <2>2. CASE v = u
    <3>1. i + 1 \in DOMAIN above[u] /\ above'[u][i] = above[u][i + 1] /\ i \in Nat
      BY <2>2, <1>7, <1>8
    <3>2. UnitOf[above'[u][i].cid] = u /\ above'[u][i].id <= arrived
      BY <3>1 DEF InOrder
    <3>3. ASSUME NEW j \in DOMAIN above'[u], i < j PROVE above'[u][i].id < above'[u][j].id
      <4>1. j + 1 \in DOMAIN above[u] /\ above'[u][j] = above[u][j + 1] /\ j \in Nat
        BY <1>7, <1>8
      <4>2. i + 1 < j + 1
        BY <3>1, <4>1, <3>3
      <4> QED BY <3>1, <4>1, <4>2 DEF InOrder
    <3> QED BY <2>2, <3>2, <3>3
  <2> QED BY <2>1, <2>2
<1>14. \A q \in PDU : BeforeAll(q) => BeforeAll(q)'
  <2> SUFFICES ASSUME NEW q \in PDU, BeforeAll(q) PROVE BeforeAll(q)'
    OBVIOUS
  <2> QED BY <1>5, <1>12 DEF BeforeAll
<1>15. ASSUME NEW v \in Unit, NEW i \in DOMAIN above'[v], above'[v][i].cid = p.cid
       PROVE  p.id < above'[v][i].id
  <2>1. PICK k \in DOMAIN above[v] :
          /\ above'[v][i] = above[v][k]
          /\ v = u => k = i + 1 /\ i \in Nat \ {0}
    BY <1>12
  <2>2. v = u
    BY <2>1, <1>4, <1>9, <1>15 DEF InOrder
  <2>3. k \in DOMAIN above[u] /\ 1 < k
    BY <2>1, <2>2
  <2> QED BY <2>1, <2>2, <2>3, <1>6 DEF InOrder
<1>16. KeptIsAsked'
  <2>1. BeforeAll(current)'
    BY <1>5, <1>9, <1>15 DEF BeforeAll
  <2> QED BY <2>1, <1>2, <1>3, <1>4, <1>5 DEF KeptIsAsked
<1>17. current' # None
  BY <1>5, <1>6
<1>18. \A c \in QueueCID \ {checker.arg} : AtHead(c) =>
          AtHead(c)' /\ Head(above'[UnitOf[c]]) = Head(above[UnitOf[c]])
  <2> SUFFICES ASSUME NEW c \in QueueCID \ {checker.arg}, AtHead(c)
               PROVE  AtHead(c)' /\ Head(above'[UnitOf[c]]) = Head(above[UnitOf[c]])
    OBVIOUS
  <2>1. UnitOf[c] # u
    BY <1>4 DEF AtHead, p
  <2> QED BY <2>1, <1>8 DEF AtHead
<1>19. AskedIsKnown' /\ KnownAtHead'
  <2>1. AskedIsKnown'
    BY <1>4, <1>5, <1>17 DEF AskedIsKnown
  <2>2. ASSUME NEW c \in known PROVE AtHead(c)' \/ (current' # None /\ current'.cid = c)
    <3>1. CASE c = checker.arg
      BY <3>1, <1>4, <1>5, <1>17
    <3>2. CASE c # checker.arg
      BY <3>2, <1>2, <1>4, <1>18 DEF KnownAtHead, BypassTypes
    <3> QED BY <3>1, <3>2
  <2> QED BY <2>1, <2>2, <1>5 DEF KnownAtHead
<1>20. AnnouncedRight'
  <2> SUFFICES ASSUME NEW c \in QueueCID, announced[c] # 0
               PROVE  \/ /\ current' = None \/ current'.cid # c
                         /\ AtHead(c)' /\ Head(above'[UnitOf[c]]).size = announced[c]
                      \/ current' # None /\ current'.cid = c /\ current'.size = announced[c]
    BY <1>5 DEF AnnouncedRight
  <2>1. AtHead(c) /\ Head(above[UnitOf[c]]).size = announced[c]
    BY <1>4 DEF AnnouncedRight
  <2>2. CASE c = checker.arg
    BY <2>1, <2>2, <1>4, <1>5, <1>9, <1>17 DEF p
  <2>3. CASE c # checker.arg
    BY <2>1, <2>3, <1>4, <1>5, <1>18
  <2> QED BY <2>2, <2>3
<1>21. NotedRight'
  BY <1>3, <1>5 DEF NotedRight
<1>22. TakenFirst' /\ DeliversWhatWasAsked'
  <2>1. ASSUME NEW i \in DOMAIN taken
        PROVE  /\ BeforeAll(taken[i].pdu)'
               /\ current' # None /\ current'.cid = taken[i].pdu.cid => taken[i].pdu.id < current'.id
    <3>1. taken[i].pdu \in PDU /\ BeforeAll(taken[i].pdu)
      BY <1>2, PacketsTyped DEF TakenFirst
    <3>2. p.cid = taken[i].pdu.cid => taken[i].pdu.id < p.id
      BY <3>1, <1>2, <1>6 DEF BeforeAll, Backlog
    <3>3. BeforeAll(taken[i].pdu)'
      BY <3>1, <1>5, <1>12 DEF BeforeAll
    <3> QED BY <3>2, <3>3, <1>5
  <2>2. TakenFirst'
    BY <2>1, <1>5 DEF TakenFirst
  <2>3. DeliversWhatWasAsked'
    BY <1>5 DEF DeliversWhatWasAsked
  <2> QED BY <2>2, <2>3
<1> QED BY <1>11, <1>13, <1>16, <1>19, <1>20, <1>21, <1>22

\* The packet kept is returned, and nothing is left behind.
LEMMA ReturnHeadStep ==
  ASSUME BypassInv, ReturnHead
  PROVE  BypassInv'
<1> USE BypassAssumption, NoneAssumption DEF BypassInv
<1>1. checker # None /\ toWake = {} /\ checker.kind = "AcceptCID"
  BY DEF ReturnHead, Answered
<1>2. current # None /\ current \in PDU /\ current.cid = checker.arg /\ BeforeAll(current)
      /\ checker.arg \in known /\ checker.arg \in QueueCID
  BY <1>1 DEF AskedIsKnown, KeptIsAsked, BypassTypes
<1> DEFINE a == checker.arg
           new == [asked |-> a, pdu |-> current, announced |-> announced[a]]
<1>3. /\ checker' = None /\ known' = known \ {a} /\ announced' = [announced EXCEPT ![a] = 0]
      /\ taken' = Append(taken, new) /\ current' = None
      /\ UNCHANGED <<above, found, toWake, arrived, failed>>
  BY <1>2 DEF ReturnHead, Cleared
<1>4. new \in [asked : QueueCID, pdu : PDU, announced : Size \cup {0}]
      /\ new.asked = a /\ new.pdu = current /\ new.announced = announced[a]
  BY <1>2 DEF BypassTypes

<1>5. announced[a] \in {0, current.size}
  BY <1>2 DEF AnnouncedRight
<1>6. \A i \in DOMAIN taken : taken[i].pdu \in PDU /\ taken[i].pdu.id \in Nat
  BY PacketsTyped
<1> HIDE DEF new
<1>7. taken \in Seq([asked : QueueCID, pdu : PDU, announced : Size \cup {0}])
  BY DEF BypassTypes
<1>8. taken' \in Seq([asked : QueueCID, pdu : PDU, announced : Size \cup {0}])
      /\ DOMAIN taken' \subseteq Nat
      /\ \A i \in DOMAIN taken' :
           \/ i \in DOMAIN taken /\ taken'[i] = taken[i]
           \/ i \notin DOMAIN taken /\ taken'[i] = new /\ \A j \in DOMAIN taken' : j <= i
  BY <1>3, <1>4, <1>7, AppendLast
<1>9. BypassTypes' /\ NeverFails'
  <2>1. known' \subseteq QueueCID /\ announced' \in [QueueCID -> Size \cup {0}]
    BY <1>3 DEF BypassTypes
  <2>2. Backlog' = Backlog
    BY <1>3 DEF Backlog
  <2> QED BY <1>3, <1>8, <1>1, <2>1, <2>2 DEF BypassTypes, NeverFails
<1>10. InOrder' /\ KeptIsAsked' /\ AskedIsKnown' /\ NotedRight'
  BY <1>3 DEF InOrder, KeptIsAsked, AskedIsKnown, NotedRight
<1>11. KnownAtHead' /\ AnnouncedRight'
  <2>1. KnownAtHead'
    BY <1>2, <1>3 DEF KnownAtHead, AtHead, a
  <2>2. ASSUME NEW c \in QueueCID
        PROVE  announced'[c] = 0 \/ (AtHead(c) /\ Head(above[UnitOf[c]]).size = announced'[c])
    BY <1>2, <1>3 DEF AnnouncedRight, BypassTypes, a
  <2> QED BY <1>3, <2>1, <2>2 DEF AnnouncedRight, AtHead
<1>12. TakenFirst'
  <2>1. ASSUME NEW i \in DOMAIN taken' PROVE BeforeAll(taken'[i].pdu)
    <3>1. CASE i \in DOMAIN taken
      BY <3>1, <1>8 DEF TakenFirst
    <3>2. CASE i \notin DOMAIN taken
      BY <3>2, <1>2, <1>4, <1>8
    <3> QED BY <3>1, <3>2
  <2>2. \A i \in DOMAIN taken' :
          /\ taken'[i].pdu.id <= arrived'
          /\ \A u \in Unit : \A k \in DOMAIN above'[u] :
               above'[u][k].cid = taken'[i].pdu.cid => taken'[i].pdu.id < above'[u][k].id
    BY <2>1, <1>3 DEF BeforeAll
  <2> QED BY <2>2, <1>3 DEF TakenFirst, BeforeAll
<1>13. DeliversWhatWasAsked'
  <2> SUFFICES ASSUME NEW i \in DOMAIN taken'
               PROVE  /\ taken'[i].pdu.cid = taken'[i].asked
                      /\ taken'[i].announced \in {0, taken'[i].pdu.size}
                      /\ \A j \in 1..(i - 1) :
                           taken'[j].pdu.cid = taken'[i].pdu.cid => taken'[j].pdu.id < taken'[i].pdu.id
    BY DEF DeliversWhatWasAsked
  <2>1. \A j \in 1..(i - 1) : j \in DOMAIN taken /\ taken'[j] = taken[j]
    <3>1. DOMAIN taken = 1..Len(taken) /\ Len(taken) \in Nat
      BY <1>7
    <3>2. DOMAIN taken' = 1..(Len(taken) + 1)
      BY <1>3, <1>4, <1>7
    <3>3. \A j \in 1..Len(taken) : taken'[j] = taken[j]
      BY <1>3, <1>4, <1>7
    <3> QED BY <3>1, <3>2, <3>3
  <2>2. CASE i \in DOMAIN taken
    BY <2>1, <2>2, <1>8 DEF DeliversWhatWasAsked
  <2>3. CASE i \notin DOMAIN taken
    <3>1. taken'[i].pdu = current /\ taken'[i].asked = a /\ taken'[i].announced = announced[a]
      BY <2>3, <1>4, <1>8
    <3>2. current.cid = a
      BY <1>2 DEF a
    <3> QED BY <3>1, <3>2, <2>1, <1>2, <1>5 DEF TakenFirst
  <2> QED BY <2>2, <2>3
<1> QED BY <1>9, <1>10, <1>11, <1>12, <1>13

\* Every other answer names what is at the heads.
LEMMA ReturnStep ==
  ASSUME BypassInv, Return
  PROVE  BypassInv' /\ found = UNION {Noted(checker, p) : p \in Heads}
<1> USE BypassAssumption, NoneAssumption DEF BypassInv
<1>1. checker # None /\ checker \in Checker /\ toWake = {} /\ checker.kind # "AcceptCID"
  BY DEF Return, Answered, BypassTypes
<1>2. /\ checker' = None
      /\ known' = IF checker.kind \in {"HeadOfLinePDUBits", "ListUsers"} THEN known ELSE Told(checker)
      /\ announced' =
           IF checker.kind # "HeadOfLinePDUBits" THEN announced
           ELSE [announced EXCEPT ![checker.arg] =
                   IF found = {} THEN 0 ELSE CHOOSE n \in Size : n \in found]
      /\ UNCHANGED <<above, found, toWake, current, failed, taken, arrived>>
  BY DEF Return
<1>3. current = None
  BY <1>1 DEF KeptIsAsked
<1>4. ASSUME NEW u \in Backlog
      PROVE  /\ Head(above[u]) \in PDU
             /\ Head(above[u]).cid \in QueueCID /\ AtHead(Head(above[u]).cid)
             /\ Head(above[UnitOf[Head(above[u]).cid]]) = Head(above[u])
  <2>1. u \in Unit /\ above[u] # << >> /\ Head(above[u]) \in PDU /\ Head(above[u]) = above[u][1]
        /\ 1 \in DOMAIN above[u]
    BY HeadsAre
  <2>2. UnitOf[Head(above[u]).cid] = u
    BY <2>1 DEF InOrder
  <2> QED BY <2>1, <2>2 DEF AtHead, PDU
<1>5. found = UNION {Noted(checker, p) : p \in Heads}
  BY <1>1 DEF NotedRight, Heads, Backlog
<1>6. known' \subseteq QueueCID /\ \A c \in known' : AtHead(c)
  <2>1. CASE checker.kind \in {"HeadOfLinePDUBits", "ListUsers"}
    BY <2>1, <1>2, <1>3 DEF KnownAtHead, BypassTypes
  <2>2. CASE checker.kind \notin {"HeadOfLinePDUBits", "ListUsers"}
    <3>1. \A c \in found : AtHead(c)
      <4> TAKE c \in found
      <4>1. PICK u \in Backlog : c \in Noted(checker, Head(above[u]))
        BY <1>1 DEF NotedRight
      <4>2. c = Head(above[u]).cid
        BY <4>1, <2>2 DEF Noted
      <4> QED BY <4>2, <1>4
    <3> QED BY <2>2, <3>1, <1>2, <1>3 DEF KnownAtHead, BypassTypes, Told
  <2> QED BY <2>1, <2>2
<1>7. announced' \in [QueueCID -> Size \cup {0}] /\
      \A c \in QueueCID : announced'[c] = 0 \/ (AtHead(c) /\ Head(above[UnitOf[c]]).size = announced'[c])
  <2>1. CASE checker.kind # "HeadOfLinePDUBits"
    BY <2>1, <1>2, <1>3 DEF AnnouncedRight, BypassTypes
  <2>2. CASE checker.kind = "HeadOfLinePDUBits"
    <3>1. checker.arg \in QueueCID
      BY <2>2, <1>1 DEF Checker
    <3>2. \A x \in found : x \in Size /\ AtHead(checker.arg) /\ Head(above[UnitOf[checker.arg]]).size = x
      <4> TAKE x \in found
      <4>1. PICK u \in Backlog : x \in Noted(checker, Head(above[u]))
        BY <1>1 DEF NotedRight
      <4>2. x = Head(above[u]).size /\ Head(above[u]).cid = checker.arg
        BY <4>1, <2>2 DEF Noted, Asked
      <4> QED BY <4>2, <1>4 DEF PDU
    <3> DEFINE n == IF found = {} THEN 0 ELSE CHOOSE n \in Size : n \in found
    <3>3. n = 0 \/ n \in found
      BY <3>2
    <3>4. announced' = [announced EXCEPT ![checker.arg] = n]
      BY <2>2, <1>2
    <3> HIDE DEF n
    <3>5. n \in Size \cup {0} /\ announced \in [QueueCID -> Size \cup {0}]
      BY <3>2, <3>3 DEF BypassTypes
    <3> QED BY <3>1, <3>2, <3>3, <3>4, <3>5, <1>3 DEF AnnouncedRight
  <2> QED BY <2>1, <2>2
<1>8. BypassTypes' /\ NeverFails'
  <2>1. Backlog' = Backlog
    BY <1>2 DEF Backlog
  <2> QED BY <1>1, <1>2, <1>6, <1>7, <2>1 DEF BypassTypes, NeverFails
<1>9. InOrder' /\ KeptIsAsked' /\ AskedIsKnown' /\ NotedRight' /\ TakenFirst' /\ DeliversWhatWasAsked'
  BY <1>2, <1>3 DEF InOrder, KeptIsAsked, AskedIsKnown, NotedRight, TakenFirst, BeforeAll,
     DeliversWhatWasAsked
<1>10. KnownAtHead' /\ AnnouncedRight'
  BY <1>2, <1>3, <1>6, <1>7 DEF KnownAtHead, AnnouncedRight, AtHead
<1> QED BY <1>5, <1>8, <1>9, <1>10

\* Every step of the queue, the units and the strategy.
LEMMA BypassStep ==
  ASSUME FilterReturn = {FALSE}, BypassInv, [BypassNext]_bypassVars
  PROVE  BypassInv' /\
         (checker # None /\ checker' = None /\ checker.kind # "AcceptCID" =>
            found = UNION {Noted(checker, p) : p \in Heads})
<1>1. CASE UNCHANGED bypassVars
  BY <1>1 DEF bypassVars, BypassInv, BypassTypes, NeverFails, InOrder, KeptIsAsked, AskedIsKnown,
     KnownAtHead, AnnouncedRight, NotedRight, TakenFirst, DeliversWhatWasAsked, AtHead, BeforeAll,
     Backlog, Noted, Asked
<1>2. ASSUME NEW c \in QueueCID, NEW size \in Size, Arrive(c, size)
      PROVE  BypassInv' /\ checker' = checker
  BY <1>2, ArriveStep DEF Arrive
<1>3. ASSUME NEW check \in Checker, Query(check) PROVE BypassInv' /\ checker = None
  BY <1>3, QueryStep DEF Query
<1>4. ASSUME NEW u \in Unit, Refuse(u) PROVE BypassInv' /\ checker' = checker
  BY <1>4, RefuseStep DEF Refuse
<1>5. ASSUME NEW u \in Unit, Put(u) PROVE BypassInv' /\ checker' = checker
  BY <1>5, PutStep DEF Put
<1>6. CASE ReturnHead
  BY <1>6, ReturnHeadStep DEF ReturnHead
<1>7. CASE Return
  BY <1>7, ReturnStep
<1> QED BY <1>1, <1>2, <1>3, <1>4, <1>5, <1>6, <1>7 DEF BypassNext, bypassVars

\* The inductive invariant implies what the runs check.
LEMMA BypassHolds == BypassInv => BypassSafe
<1> SUFFICES ASSUME BypassInv PROVE BypassSafe
  OBVIOUS
<1>1. \A u \in Unit : \A i \in DOMAIN above[u] : above[u][i] \in PDU
  BY PacketsTyped DEF BypassInv
<1>2. BypassTypeOK
  BY <1>1 DEF BypassInv, BypassTypes, BypassTypeOK, NeverFails
<1>3. NothingLingers
  BY DEF BypassInv, KeptIsAsked, NothingLingers
<1> QED BY <1>2, <1>3 DEF BypassInv, BypassSafe

\* A scheduler without packets of its own is served as by a queue
\* (BypassQueue::getHeadOfLinePDU and its checkers), for any connections,
\* units, packets and order of wakeups, in builds whose FilterQueued refuses.
THEOREM AlwaysServed == ASSUME FilterReturn = {FALSE} PROVE BypassSpec => []BypassSafe
<1>1. BypassInit => BypassInv
  BY BypassStart
<1>2. BypassInv /\ [BypassNext]_bypassVars => BypassInv'
  BY BypassStep
<1> QED BY <1>1, <1>2, BypassHolds, PTL DEF BypassSpec

\* An answer names exactly what is at the heads of the units when it is given
\* (the checkers' results), also when packets arrived in between.
THEOREM AnswersAlwaysTrue == ASSUME FilterReturn = {FALSE} PROVE BypassSpec => AnswersTrue
<1>1. BypassInit => BypassInv
  BY BypassStart
<1>2. BypassInv /\ [BypassNext]_bypassVars => BypassInv'
  BY BypassStep
<1>3. BypassInv /\ [BypassNext]_bypassVars =>
        [checker # None /\ checker' = None /\ checker.kind # "AcceptCID" /\ current = None =>
           found = UNION {Noted(checker, p) : p \in Heads}]_bypassVars
  BY BypassStep
<1> QED BY <1>1, <1>2, <1>3, PTL DEF BypassSpec, AnswersTrue

---------------------------------------------------------------------------
(* InterferenceCache.  A rounded smoothing is a weighted mean with an      *)
(* error.  The error of a store is made up for by the part of the errors   *)
(* before that the store forgets, so that values stay near what was        *)
(* stored, and squares near the squares of the values.                     *)

\* Products keep the order.
LEMMA TimesMonotone ==
  ASSUME NEW a \in Int, NEW b \in Int, NEW c \in Nat, a <= b
  PROVE  c * a <= c * b
OBVIOUS

\* Products of natural numbers are natural numbers.
LEMMA TimesNat ==
  ASSUME NEW a \in Nat, NEW b \in Nat
  PROVE  a * b \in Nat
OBVIOUS

\* A positive factor can be left out.
LEMMA Cancel ==
  ASSUME NEW a \in Int, NEW b \in Int, NEW c \in Nat \ {0}, c * a <= c * b
  PROVE  a <= b
<1> SUFFICES ASSUME b + 1 <= a PROVE FALSE
  OBVIOUS
<1>1. c * (b + 1) <= c * a
  BY TimesMonotone
<1>2. c * (b + 1) = c * b + c
  OBVIOUS
<1>3. c * a \in Int /\ c * b \in Int
  OBVIOUS
<1> QED BY <1>1, <1>2, <1>3

\* A smoothed value is within its error of the weighted mean.
LEMMA SmoothedIs ==
  ASSUME NEW x \in Nat, NEW v \in Nat, NEW a \in 0..Scale, NEW r \in Nat,
         NEW y \in Smoothed(x, v, a, r)
  PROVE  /\ y \in Nat
         /\ Scale * (y - r) <= (Scale - a) * x + a * v
         /\ (Scale - a) * x + a * v <= Scale * (y + r)
BY DEF Smoothed, Rounded

\* The weights the cache is configured with.
Weight == {AlphaLocal, AlphaRemote}

\* A smoothed value is not further below w than x and v may be.
LEMMA SmoothedAbove ==
  ASSUME NEW x \in Nat, NEW v \in Nat, NEW w \in Nat, NEW a \in Weight,
         NEW y \in Smoothed(x, v, a, Round), w <= v, w - Drift <= x
  PROVE  w - Drift <= y
<1> USE CacheAssumption, ErrorAssumption
<1> DEFINE b == Scale - a
           e == w - Drift
<1>1. a \in Nat /\ a \in 0..Scale /\ b \in Nat /\ Scale = b + a /\ e \in Int
  BY DEF Weight
<1>2. y \in Nat /\ b * x + a * v <= Scale * (y + Round)
  BY <1>1, SmoothedIs
<1>3. e <= x /\ w = e + Drift
  OBVIOUS
<1>4. Scale * Round <= a * Drift
  BY DEF Weight
<1> HIDE DEF b, e
<1>5. b * e <= b * x /\ a * (e + Drift) <= a * v
  BY <1>1, <1>3, TimesMonotone
<1>6. a * (e + Drift) = a * e + a * Drift /\ b * e + a * e = Scale * e
  BY <1>1
<1>7. Scale * (e + Round) = Scale * e + Scale * Round
  BY <1>1
<1>8. /\ b * e \in Int /\ b * x \in Int /\ a * v \in Int /\ a * e \in Int /\ a * Drift \in Int
      /\ Scale * e \in Int /\ Scale * Round \in Int /\ Scale * (y + Round) \in Int
  BY <1>1, <1>2
<1>9. Scale * (e + Round) <= Scale * (y + Round)
  BY <1>2, <1>4, <1>5, <1>6, <1>7, <1>8
<1>10. e + Round <= y + Round
  BY <1>1, <1>2, <1>9, Cancel
<1> QED BY <1>1, <1>2, <1>10 DEF e

\* Nor further above.
LEMMA SmoothedBelow ==
  ASSUME NEW x \in Nat, NEW v \in Nat, NEW w \in Nat, NEW a \in Weight,
         NEW y \in Smoothed(x, v, a, Round), v <= w, x <= w + Drift
  PROVE  y <= w + Drift
<1> USE CacheAssumption, ErrorAssumption
<1> DEFINE b == Scale - a
           e == w + Drift
<1>1. a \in Nat /\ a \in 0..Scale /\ b \in Nat /\ Scale = b + a /\ e \in Int
  BY DEF Weight
<1>2. y \in Nat /\ Scale * (y - Round) <= b * x + a * v
  BY <1>1, SmoothedIs
<1>3. x <= e /\ w = e - Drift
  OBVIOUS
<1>4. Scale * Round <= a * Drift
  BY DEF Weight
<1> HIDE DEF b, e
<1>5. b * x <= b * e /\ a * v <= a * (e - Drift)
  BY <1>1, <1>3, TimesMonotone
<1>6. a * (e - Drift) = a * e - a * Drift /\ b * e + a * e = Scale * e
  BY <1>1
<1>7. Scale * (e - Round) = Scale * e - Scale * Round
  BY <1>1
<1>8. /\ b * e \in Int /\ b * x \in Int /\ a * v \in Int /\ a * e \in Int /\ a * Drift \in Int
      /\ Scale * e \in Int /\ Scale * Round \in Int /\ Scale * (y - Round) \in Int
  BY <1>1, <1>2
<1>9. Scale * (y - Round) <= Scale * (e - Round)
  BY <1>2, <1>4, <1>5, <1>6, <1>7, <1>8
<1>10. y - Round <= e - Round
  BY <1>1, <1>2, <1>9, Cancel
<1> QED BY <1>1, <1>2, <1>10 DEF e

\* The square of a weighted mean is not above the mean of the squares.
LEMMA MeanOfSquares ==
  ASSUME NEW a \in Nat, NEW b \in Nat, NEW x \in Int, NEW w \in Int, NEW p \in Int, x * x <= p
  PROVE  (b * x + a * w) * (b * x + a * w) <= (b * p + a * w * w) * (a + b)
<1>1. (b * p + a * w * w) * (a + b) - (b * x + a * w) * (b * x + a * w)
        = b * b * (p - x * x) + a * b * (p - x * x) + a * b * ((x - w) * (x - w))
  OBVIOUS
<1> DEFINE y == p - x * x
           z == (x - w) * (x - w)
<1>2. y \in Nat /\ z \in Nat
  OBVIOUS
<1>3. b * b \in Nat /\ a * b \in Nat
  OBVIOUS
<1>4. (b * p + a * w * w) * (a + b) \in Int /\ (b * x + a * w) * (b * x + a * w) \in Int
  OBVIOUS
<1> HIDE DEF y, z
<1>5. b * b * y \in Nat /\ a * b * y \in Nat /\ a * b * z \in Nat
  BY <1>2, <1>3, TimesNat
<1> QED BY <1>1, <1>4, <1>5 DEF y, z

\* The square of what is at most c above w.
LEMMA SquareAbove ==
  ASSUME NEW n \in Nat, NEW w \in Nat, NEW c \in Nat, n <= w + c
  PROVE  n * n <= w * w + 2 * c * w + c * c
<1>1. n * n <= n * (w + c) /\ (w + c) * n <= (w + c) * (w + c)
  BY TimesMonotone
<1>2. n * (w + c) = (w + c) * n /\ (w + c) * (w + c) = w * w + 2 * c * w + c * c
  OBVIOUS
<1>3. n * n \in Int /\ n * (w + c) \in Int /\ (w + c) * (w + c) \in Int
  OBVIOUS
<1> QED BY <1>1, <1>2, <1>3

\* The smoothed square s of a value and its smoothed value x.
Together(s, x) == x * x <= s + Deficit

\* Smoothing both alike keeps them together, when u bounds the values.
LEMMA SmoothedTogether ==
  ASSUME NEW s \in Nat, NEW x \in Nat, NEW v \in Nat, NEW a \in Weight, NEW u \in Value,
         NEW y \in Smoothed(x, v, a, Round), NEW t \in Smoothed(s, v * v, a, RoundSquare),
         v <= u, x <= u + Drift, Together(s, x)
  PROVE  Together(t, y)
<1> USE CacheAssumption, ErrorAssumption
<1> DEFINE b == Scale - a
           w == b * x + a * v
           T == u + Drift
           R == Scale * Round
           p == s + Deficit
           K == RoundSquare + Round * Round + 2 * Round * T
<1>1. a \in Nat /\ a \in 0..Scale /\ b \in Nat /\ Scale = b + a /\ T \in Nat /\ R \in Nat /\ p \in Nat
      /\ Scale \in Nat \ {0} /\ v * v \in Nat /\ u \in Nat
  BY TimesNat DEF Weight
<1>2. y \in Nat /\ Scale * (y - Round) <= w
  BY <1>1, SmoothedIs
<1>3. t \in Nat /\ b * s + a * (v * v) <= Scale * (t + RoundSquare)
  BY <1>1, SmoothedIs
<1>4. Scale * K <= a * Deficit
  BY DEF Weight
<1>5. x * x <= p
  BY DEF Together
<1>6. v <= T /\ x <= T
  BY <1>1
<1>7. w \in Nat
  BY <1>1, TimesNat
<1>8. w <= Scale * T
  <2> HIDE DEF T, b
  <2>1. b * x <= b * T /\ a * v <= a * T
    BY <1>1, <1>6, TimesMonotone
  <2>2. b * T + a * T = Scale * T
    BY <1>1
  <2>3. b * x \in Int /\ a * v \in Int /\ b * T \in Int /\ a * T \in Int
    BY <1>1
  <2> QED BY <2>1, <2>2, <2>3
<1>9. Scale * y <= w + R /\ Scale * y \in Nat
  BY <1>1, <1>2, TimesNat
<1>10. K \in Nat
  BY <1>1, TimesNat
<1>11. w * w <= (b * p + a * v * v) * Scale
  BY <1>1, <1>5, MeanOfSquares
<1> HIDE DEF T
<1>12. Scale * y * (Scale * y) <= w * w + 2 * R * w + R * R
  <2> HIDE DEF w, R
  <2> QED BY <1>1, <1>7, <1>9, SquareAbove
<1>13. 2 * R * w <= Scale * (Scale * (2 * Round * T))
  <2>1. 2 * R \in Nat
    BY <1>1
  <2>2. 2 * R * w <= 2 * R * (Scale * T)
    <3> HIDE DEF R, w
    <3> QED BY <1>1, <1>7, <1>8, <2>1, TimesMonotone
  <2>3. 2 * R * (Scale * T) = Scale * (Scale * (2 * Round * T))
    BY <1>1
  <2> QED BY <2>2, <2>3
<1>14. R * R = Scale * (Scale * (Round * Round))
  BY <1>1
<1> HIDE DEF w, R
<1>15. (b * p + a * v * v) * Scale
         = Scale * (b * s + a * (v * v)) + Scale * (b * Deficit)
  <2> HIDE DEF b
  <2> QED BY <1>1 DEF p
<1>16. Scale * (b * s + a * (v * v)) <= Scale * (Scale * t + Scale * RoundSquare)
  <2>1. Scale * (t + RoundSquare) = Scale * t + Scale * RoundSquare
    BY <1>3
  <2>2. b * s + a * (v * v) \in Int /\ Scale * t + Scale * RoundSquare \in Int
    BY <1>1, <1>3
  <2> HIDE DEF b
  <2> QED BY <1>1, <1>3, <2>1, <2>2, TimesMonotone
<1>17. Scale * (Scale * t + Scale * RoundSquare) + Scale * (Scale * (Round * Round))
         + Scale * (Scale * (2 * Round * T)) = Scale * (Scale * t) + Scale * (Scale * K)
  BY <1>1, <1>3
<1>18. Scale * (Scale * K) <= Scale * (a * Deficit)
  <2>1. Scale * K \in Int /\ a * Deficit \in Int
    BY <1>1, <1>10
  <2> HIDE DEF K
  <2> QED BY <1>1, <1>4, <2>1, TimesMonotone
<1>19. Scale * (a * Deficit) + Scale * (b * Deficit) + Scale * (Scale * t)
         = Scale * (Scale * (t + Deficit))
  <2> HIDE DEF b
  <2>1. Scale * (a * Deficit) + Scale * (b * Deficit) = Scale * ((a + b) * Deficit)
    BY <1>1
  <2>2. (a + b) * Deficit = Scale * Deficit
    BY <1>1
  <2>3. Scale * (Scale * (t + Deficit)) = Scale * (Scale * t) + Scale * (Scale * Deficit)
    BY <1>3
  <2> QED BY <2>1, <2>2, <2>3, <1>1, <1>3
<1>20. Scale * y * (Scale * y) = Scale * (Scale * (y * y))
  BY <1>1, <1>2
<1> HIDE DEF K, b, p
<1>21. /\ w * w \in Int /\ 2 * R * w \in Int /\ R * R \in Int /\ (b * p + a * v * v) * Scale \in Int
       /\ Scale * (b * s + a * (v * v)) \in Int /\ Scale * (b * Deficit) \in Int
       /\ Scale * (a * Deficit) \in Int /\ Scale * (Scale * t) \in Int
       /\ Scale * (Scale * K) \in Int /\ Scale * (Scale * t + Scale * RoundSquare) \in Int
       /\ Scale * (Scale * (Round * Round)) \in Int /\ Scale * (Scale * (2 * Round * T)) \in Int
       /\ Scale * (Scale * (y * y)) \in Int /\ Scale * (Scale * (t + Deficit)) \in Int
  BY <1>1, <1>2, <1>3, <1>7, <1>10
<1>22. Scale * (Scale * (y * y)) <= Scale * (Scale * (t + Deficit))
  BY <1>11, <1>12, <1>13, <1>14, <1>15, <1>16, <1>17, <1>18, <1>19, <1>20, <1>21
<1>23. Scale * (y * y) <= Scale * (t + Deficit)
  <2>1. Scale * (y * y) \in Int /\ Scale * (t + Deficit) \in Int
    BY <1>1, <1>2, <1>3
  <2> QED BY <1>1, <1>22, <2>1, Cancel
<1>24. y * y <= t + Deficit
  <2>1. y * y \in Int /\ t + Deficit \in Int
    BY <1>1, <1>2, <1>3
  <2> QED BY <1>1, <1>23, <2>1, Cancel
<1> QED BY <1>24 DEF Together

\* Near the values of S.
Near(x, S) == (\E v \in S : v - Drift <= x) /\ (\E v \in S : x <= v + Drift)

\* A smoothed value is near the values it was made of.
LEMMA SmoothedNear ==
  ASSUME NEW S \in SUBSET Nat, NEW x \in Nat, NEW v \in Nat, NEW a \in Weight,
         NEW y \in Smoothed(x, v, a, Round), Near(x, S)
  PROVE  Near(y, S \cup {v})
<1> USE CacheAssumption, ErrorAssumption
<1>1. \E w \in S \cup {v} : w - Drift <= y
  <2>1. PICK w \in S : w - Drift <= x
    BY DEF Near
  <2>2. CASE w <= v
    BY <2>1, <2>2, SmoothedAbove
  <2>3. CASE v <= w
    <3>1. v - Drift <= x
      BY <2>1, <2>3
    <3> QED BY <3>1, SmoothedAbove
  <2> QED BY <2>1, <2>2, <2>3
<1>2. \E w \in S \cup {v} : y <= w + Drift
  <2>1. PICK w \in S : x <= w + Drift
    BY DEF Near
  <2>2. CASE v <= w
    BY <2>1, <2>2, SmoothedBelow
  <2>3. CASE w <= v
    <3>1. x <= v + Drift
      BY <2>1, <2>3
    <3> QED BY <3>1, SmoothedBelow
  <2> QED BY <2>1, <2>2, <2>3
<1> QED BY <1>1, <1>2 DEF Near

\* A map of the cache that got the values h.
Smooths(map, h) ==
  /\ DOMAIN map \subseteq Key
  /\ \A k \in Key : k \in DOMAIN map <=> h[k] # {}
  /\ \A k \in DOMAIN map : map[k] \in Nat /\ Near(map[k], h[k])

\* The map of the squares next to that of the values.
InStep(squares, map) ==
  /\ DOMAIN squares = DOMAIN map
  /\ \A k \in DOMAIN map : squares[k] \in Nat /\ Together(squares[k], map[k])

\* What a store makes of a map: one key gets a value, the others keep theirs.
Takes(new, map, key, x) ==
  /\ DOMAIN new = DOMAIN map \cup {key}
  /\ \A k \in DOMAIN new \ {key} : k \in DOMAIN map /\ new[k] = map[k]
  /\ new[key] = x

LEMMA StoredIsMap ==
  ASSUME NEW map, NEW key, NEW v \in Nat, NEW a, NEW first \in Nat, NEW r,
         NEW new \in Stored(map, key, v, a, first, r)
  PROVE  /\ Takes(new, map, key, new[key])
         /\ key \in DOMAIN map => new[key] \in Smoothed(map[key], v, a, r)
         /\ key \notin DOMAIN map =>
              new[key] \in Nat /\ v - first <= new[key] /\ new[key] <= v + first
<1> DEFINE results == IF key \in DOMAIN map THEN Smoothed(map[key], v, a, r)
                      ELSE ((v - first)..(v + first)) \cap Nat
<1>1. PICK x \in results :
        new = [k \in DOMAIN map \cup {key} |-> IF k = key THEN x ELSE map[k]]
  BY DEF Stored
<1>2. new[key] = x /\ Takes(new, map, key, new[key])
  <2> HIDE DEF results
  <2> QED BY <1>1 DEF Takes
<1>3. key \in DOMAIN map => x \in Smoothed(map[key], v, a, r)
  OBVIOUS
<1>4. key \notin DOMAIN map => x \in (v - first)..(v + first) /\ x \in Nat
  OBVIOUS
<1> HIDE DEF results
<1>5. v - first \in Int /\ v + first \in Int
  OBVIOUS
<1>6. key \notin DOMAIN map => x \in Nat /\ v - first <= x /\ x <= v + first
  BY <1>4, <1>5
<1> QED BY <1>2, <1>3, <1>6

\* A store moves one key, of which it notes the value.
LEMMA StoredSmooths ==
  ASSUME NEW map, NEW h \in [Key -> SUBSET Value], NEW key \in Key, NEW v \in Value,
         NEW a \in Weight, Smooths(map, h), NEW new \in Stored(map, key, v, a, 0, Round)
  PROVE  Smooths(new, [h EXCEPT ![key] = @ \cup {v}])
<1> DEFINE hh  == [h EXCEPT ![key] = @ \cup {v}]
<1> USE CacheAssumption, ErrorAssumption
<1>0. /\ Takes(new, map, key, new[key])
      /\ key \in DOMAIN map => new[key] \in Smoothed(map[key], v, a, Round)
      /\ key \notin DOMAIN map => new[key] \in Nat /\ v - 0 <= new[key] /\ new[key] <= v + 0
  <2>1. v \in Nat /\ 0 \in Nat
    OBVIOUS
  <2> QED BY <2>1, StoredIsMap
<1>1. DOMAIN new = DOMAIN map \cup {key} /\ DOMAIN map \subseteq Key
  BY <1>0 DEF Smooths, Takes
<1>2. \A k \in DOMAIN new \ {key} : k \in DOMAIN map /\ new[k] = map[k] /\ hh[k] = h[k]
  <2>1. \A k \in DOMAIN new \ {key} : k \in DOMAIN map /\ new[k] = map[k]
    BY <1>0 DEF Takes
  <2> QED BY <1>1, <2>1
<1>3. hh[key] = h[key] \cup {v} /\ \A k \in Key \ {key} : hh[k] = h[k]
  OBVIOUS
<1>4. new[key] \in Nat /\ Near(new[key], hh[key])
  <2>1. CASE key \in DOMAIN map
    <3>1. new[key] \in Smoothed(map[key], v, a, Round)
      BY <2>1, <1>0
    <3>2. map[key] \in Nat /\ Near(map[key], h[key]) /\ h[key] \in SUBSET Nat /\ v \in Nat
      BY <2>1 DEF Smooths
    <3>3. a \in 0..Scale
      BY DEF Weight
    <3> QED BY <3>1, <3>2, <3>3, <1>3, SmoothedIs, SmoothedNear
  <2>2. CASE key \notin DOMAIN map
    <3>1. new[key] = v /\ v \in Nat
      BY <2>2, <1>0
    <3> QED BY <3>1, <1>3 DEF Near
  <2> QED BY <2>1, <2>2
<1> HIDE DEF hh
<1> QED BY <1>1, <1>2, <1>3, <1>4 DEF Smooths, hh

\* A store with the same weight keeps the squares in step.
LEMMA StoredInStep ==
  ASSUME NEW map, NEW squares, NEW h \in [Key -> SUBSET Value], NEW key \in Key, NEW v \in Value,
         NEW a \in Weight, Smooths(map, h), InStep(squares, map),
         NEW new \in Stored(map, key, v, a, 0, Round),
         NEW sq \in Stored(squares, key, v * v, a, RoundSquare, RoundSquare)
  PROVE  InStep(sq, new)
<1> USE CacheAssumption, ErrorAssumption
<1>1. v \in Nat /\ v * v \in Nat /\ a \in 0..Scale
  BY TimesNat DEF Weight
<1>1a. /\ Takes(new, map, key, new[key])
       /\ key \in DOMAIN map => new[key] \in Smoothed(map[key], v, a, Round)
       /\ key \notin DOMAIN map => new[key] \in Nat /\ v - 0 <= new[key] /\ new[key] <= v + 0
  <2>1. 0 \in Nat
    OBVIOUS
  <2> QED BY <1>1, <2>1, StoredIsMap
<1>1b. /\ Takes(sq, squares, key, sq[key])
       /\ key \in DOMAIN squares => sq[key] \in Smoothed(squares[key], v * v, a, RoundSquare)
       /\ key \notin DOMAIN squares =>
            sq[key] \in Nat /\ v * v - RoundSquare <= sq[key] /\ sq[key] <= v * v + RoundSquare
  <2> DEFINE vv == v * v
  <2>1. vv \in Nat /\ sq \in Stored(squares, key, vv, a, RoundSquare, RoundSquare)
    BY <1>1
  <2> HIDE DEF vv
  <2>2. /\ Takes(sq, squares, key, sq[key])
        /\ key \in DOMAIN squares => sq[key] \in Smoothed(squares[key], vv, a, RoundSquare)
        /\ key \notin DOMAIN squares =>
             sq[key] \in Nat /\ vv - RoundSquare <= sq[key] /\ sq[key] <= vv + RoundSquare
    BY <2>1, StoredIsMap
  <2> QED BY <2>2 DEF vv
<1>2. DOMAIN squares = DOMAIN map /\ DOMAIN new = DOMAIN map \cup {key} /\ DOMAIN sq = DOMAIN new
  BY <1>1a, <1>1b DEF InStep, Takes
<1>3. \A k \in DOMAIN new \ {key} : new[k] = map[k] /\ k \in DOMAIN map
  BY <1>1a DEF Takes
<1>4. \A k \in DOMAIN new \ {key} : sq[k] = squares[k]
  BY <1>1b, <1>2 DEF Takes
<1>5. sq[key] \in Nat /\ Together(sq[key], new[key])
  <2>1. CASE key \in DOMAIN map
    <3>1. new[key] \in Smoothed(map[key], v, a, Round)
      BY <1>1a, <2>1
    <3>2. sq[key] \in Smoothed(squares[key], v * v, a, RoundSquare)
      BY <1>1b, <1>2, <2>1
    <3>3. map[key] \in Nat /\ squares[key] \in Nat /\ Together(squares[key], map[key])
      BY <2>1 DEF Smooths, InStep
    <3>4. PICK w \in h[key] : map[key] <= w + Drift
      BY <2>1 DEF Smooths, Near
    <3>5. w \in Value /\ w \in Nat
      OBVIOUS
    <3>6. PICK u \in Value : v <= u /\ map[key] <= u + Drift
      <4>1. CASE v <= w
        BY <4>1, <3>4, <3>5
      <4>2. CASE w <= v
        BY <4>2, <1>1, <3>3, <3>4, <3>5
      <4> QED BY <1>1, <3>5, <4>1, <4>2
    <3> QED BY <1>1, <3>1, <3>2, <3>3, <3>6, SmoothedIs, SmoothedTogether
  <2>2. CASE key \notin DOMAIN map
    <3>1. new[key] = v
      <4> DEFINE x == new[key]
      <4>1. x \in Nat /\ v - 0 <= x /\ x <= v + 0
        BY <1>1a, <2>2
      <4> HIDE DEF x
      <4>2. \A m, n \in Nat : m - 0 <= n /\ n <= m + 0 => n = m
        OBVIOUS
      <4>3. x = v
        BY <1>1, <4>1, <4>2
      <4> QED BY <4>3 DEF x
    <3>2. sq[key] \in Nat /\ v * v - RoundSquare <= sq[key]
      BY <1>1b, <1>2, <2>2
    <3>3. RoundSquare <= Deficit
      <4> DEFINE K == RoundSquare + Round * Round + 2 * Round * (v + Drift)
      <4>1. Scale * K <= a * Deficit
        BY DEF Weight
      <4>2. a * Deficit <= Scale * Deficit
        <5>1. Deficit * a <= Deficit * Scale
          BY <1>1, TimesMonotone
        <5> QED BY <1>1, <5>1
      <4>3. K \in Nat /\ RoundSquare <= K
        <5>1. Round * Round \in Nat /\ 2 * Round * (v + Drift) \in Nat
          BY <1>1, TimesNat
        <5> QED BY <5>1
      <4>4. K <= Deficit
        <5> HIDE DEF K
        <5>1. Scale * K <= Scale * Deficit
          BY <1>1, <4>1, <4>2, <4>3
        <5> QED BY <4>3, <5>1, Cancel
      <4> QED BY <4>3, <4>4
    <3> QED BY <1>1, <3>1, <3>2, <3>3 DEF Together
  <2> QED BY <2>1, <2>2
<1> QED BY <1>2, <1>3, <1>4, <1>5 DEF InStep

CacheInv ==
  /\ average = [q \in Quantity |-> average[q]] /\ squareExp = [q \in Quantity |-> squareExp[q]]
  /\ heard \in [Measure -> [Key -> SUBSET Value]]
  /\ stores \in 0..MaxStores
  /\ \A q \in Quantity : Smooths(average[q], heard[q]) /\ InStep(squareExp[q], average[q])
  /\ Smooths(pathloss, heard["pathloss"])

\* The cache is empty.
LEMMA CacheStart == CacheInit => CacheInv
<1> SUFFICES ASSUME CacheInit PROVE CacheInv
  OBVIOUS
<1> USE CacheAssumption DEF CacheInit
<1>1. heard \in [Measure -> [Key -> SUBSET Value]] /\ stores \in 0..MaxStores
  OBVIOUS
<1>2. DOMAIN << >> = {}
  OBVIOUS
<1>3. \A m \in Measure : Smooths(<< >>, heard[m])
  BY <1>2 DEF Smooths
<1>4. InStep(<< >>, << >>)
  BY <1>2 DEF InStep
<1> QED BY <1>1, <1>3, <1>4 DEF CacheInv, Measure

\* A store of carrier or interference.
LEMMA StorePowerStep ==
  ASSUME NEW q \in Quantity, NEW key \in Key, NEW v \in Value, NEW origin \in Origin,
         CacheInv, StorePower(q, key, v, origin)
  PROVE  CacheInv'
<1> DEFINE a == Alpha(origin)
           hh == [heard[q] EXCEPT ![key] = @ \cup {v}]
<1> USE CacheAssumption
<1>1. a \in Weight /\ q \in Measure
  BY DEF Alpha, Weight, Measure
<1>2. /\ stores < MaxStores /\ stores' = stores + 1 /\ pathloss' = pathloss
      /\ heard' = [heard EXCEPT ![q][key] = @ \cup {v}]
  BY DEF StorePower, Hear
<1>3. PICK new \in Stored(average[q], key, v, a, 0, Round) : average' = [average EXCEPT ![q] = new]
  BY DEF StorePower
<1>4. PICK sq \in Stored(squareExp[q], key, v * v, a, RoundSquare, RoundSquare) :
        squareExp' = [squareExp EXCEPT ![q] = sq]
  BY DEF StorePower, SquareAlpha
<1> HIDE DEF a
<1>5. heard[q] \in [Key -> SUBSET Value] /\ hh \in [Key -> SUBSET Value]
  BY <1>1 DEF CacheInv
<1>6. heard' = [heard EXCEPT ![q] = hh]
  BY <1>2
<1> HIDE DEF hh
<1>7. heard' \in [Measure -> [Key -> SUBSET Value]] /\ heard'[q] = hh
      /\ \A m \in Measure \ {q} : heard'[m] = heard[m]
  BY <1>1, <1>5, <1>6 DEF CacheInv
<1>8. /\ average' = [r \in Quantity |-> IF r = q THEN new ELSE average[r]]
      /\ squareExp' = [r \in Quantity |-> IF r = q THEN sq ELSE squareExp[r]]
  <2>1. average = [r \in Quantity |-> average[r]] /\ squareExp = [r \in Quantity |-> squareExp[r]]
    BY DEF CacheInv
  <2>2. DOMAIN average = Quantity /\ DOMAIN squareExp = Quantity
    BY <2>1
  <2> QED BY <1>3, <1>4, <2>2
<1>9. Smooths(average'[q], heard'[q]) /\ InStep(squareExp'[q], average'[q])
  <2>1. Smooths(average[q], heard[q]) /\ InStep(squareExp[q], average[q])
    BY DEF CacheInv
  <2>2. Smooths(new, hh)
    BY <2>1, <1>1, <1>3, <1>5, StoredSmooths DEF hh
  <2>3. InStep(sq, new)
    BY <2>1, <1>1, <1>3, <1>4, <1>5, StoredInStep
  <2> QED BY <2>2, <2>3, <1>7, <1>8
<1>10. ASSUME NEW r \in Quantity \ {q}
      PROVE  Smooths(average'[r], heard'[r]) /\ InStep(squareExp'[r], average'[r])
  BY <1>7, <1>8 DEF CacheInv, Measure
<1>11. Smooths(pathloss', heard'["pathloss"])
  BY <1>2, <1>7 DEF CacheInv, Measure, Quantity
<1>12. stores' \in 0..MaxStores
  BY <1>2 DEF CacheInv
<1>13. average' = [r \in Quantity |-> average'[r]] /\ squareExp' = [r \in Quantity |-> squareExp'[r]]
  BY <1>8
<1> QED BY <1>7, <1>9, <1>10, <1>11, <1>12, <1>13 DEF CacheInv

\* A store of a pathloss, of which no square is kept.
LEMMA StorePathlossStep ==
  ASSUME NEW key \in Key, NEW v \in Value, NEW origin \in Origin,
         CacheInv, StorePathloss(key, v, origin)
  PROVE  CacheInv'
<1> DEFINE a == Alpha(origin)
           hh == [heard["pathloss"] EXCEPT ![key] = @ \cup {v}]
<1> USE CacheAssumption
<1>1. a \in Weight /\ "pathloss" \in Measure
  BY DEF Alpha, Weight, Measure
<1>2. /\ stores < MaxStores /\ stores' = stores + 1
      /\ heard' = [heard EXCEPT !["pathloss"][key] = @ \cup {v}]
      /\ pathloss' \in Stored(pathloss, key, v, a, 0, Round) /\ UNCHANGED <<average, squareExp>>
  BY DEF StorePathloss, Hear
<1> HIDE DEF a
<1>3. heard["pathloss"] \in [Key -> SUBSET Value] /\ hh \in [Key -> SUBSET Value]
  BY <1>1 DEF CacheInv
<1>4. heard' = [heard EXCEPT !["pathloss"] = hh]
  BY <1>2
<1> HIDE DEF hh
<1>5. heard' \in [Measure -> [Key -> SUBSET Value]] /\ heard'["pathloss"] = hh
      /\ \A m \in Quantity : heard'[m] = heard[m]
  BY <1>1, <1>3, <1>4 DEF CacheInv, Measure, Quantity
<1>6. Smooths(pathloss', heard'["pathloss"])
  BY <1>1, <1>2, <1>3, <1>5, StoredSmooths DEF hh, CacheInv
<1>7. stores' \in 0..MaxStores
  BY <1>2 DEF CacheInv
<1> QED BY <1>2, <1>5, <1>6, <1>7 DEF CacheInv

\* What is in step and near is what the runs check.
LEMMA CacheHolds == CacheInv => CacheSafe
<1> SUFFICES ASSUME CacheInv PROVE CacheSafe
  OBVIOUS
<1>1. CacheTypeOK
  BY DEF CacheInv, CacheTypeOK, Smooths, InStep
<1>2. DeficitBounded
  <2> SUFFICES ASSUME NEW q \in Quantity, NEW key \in DOMAIN average[q]
               PROVE  key \in DOMAIN squareExp[q] /\ Variance(q, key) >= -Deficit
    BY DEF DeficitBounded
  <2> DEFINE s == squareExp[q][key]
             x == average[q][key]
  <2>1. key \in DOMAIN squareExp[q] /\ s \in Nat /\ x \in Nat /\ Together(s, x)
    BY DEF CacheInv, Smooths, InStep
  <2>2. Variance(q, key) = s - x * x
    BY <2>1 DEF Variance
  <2>3. x * x \in Nat /\ Deficit \in Nat
    BY <2>1, TimesNat, ErrorAssumption
  <2> HIDE DEF s, x
  <2> QED BY <2>1, <2>2, <2>3 DEF Together
<1>3. AverageNearHeard
  <2>1. ASSUME NEW map, NEW h, NEW key \in Key, Smooths(map, h)
        PROVE  Plausible(Averaged(map, key), h[key])
    BY <2>1 DEF Smooths, Near, Plausible, Averaged
  <2> QED BY <2>1 DEF CacheInv, AverageNearHeard
<1> QED BY <1>1, <1>2, <1>3 DEF CacheSafe

\* What the interference cache answers stays near what was stored and the
\* square of a deviation is never further below zero than the rounding of one
\* store explains (InterferenceCache::storeCarrier, getAveragedCarrier,
\* getCarrierDeviation and their likes), for any weights, values and rounding
\* errors and after any number of stores.
THEOREM CacheAlwaysSafe == CacheSpec => []CacheSafe
<1>1. CacheInit => CacheInv
  BY CacheStart
<1>2. CacheInv /\ [CacheNext]_cacheVars => CacheInv'
  <2> SUFFICES ASSUME CacheInv, [CacheNext]_cacheVars PROVE CacheInv'
    OBVIOUS
  <2>1. CASE UNCHANGED cacheVars
    BY <2>1 DEF cacheVars, CacheInv
  <2>2. ASSUME NEW key \in Key, NEW v \in Value, NEW origin \in Origin, NEW q \in Quantity,
               StorePower(q, key, v, origin)
        PROVE  CacheInv'
    BY <2>2, StorePowerStep
  <2>3. ASSUME NEW key \in Key, NEW v \in Value, NEW origin \in Origin,
               StorePathloss(key, v, origin)
        PROVE  CacheInv'
    BY <2>3, StorePathlossStep
  <2> QED BY <2>1, <2>2, <2>3 DEF CacheNext
<1> QED BY <1>1, <1>2, CacheHolds, PTL DEF CacheSpec
==========================================================================
