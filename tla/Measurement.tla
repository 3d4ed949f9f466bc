--------------------------- MODULE Measurement ---------------------------
(***************************************************************************)
(* What stations learn about the channel, and what they do with it.        *)
(* PhyUser::onData filters what the radio received, writes what it         *)
(* measured into the interference cache of the station that sent it, and   *)
(* passes it up; the FrameHeadCollector reports every frame head that      *)
(* could be decoded to the AssociationControl, whose strategy remembers    *)
(* the best base station heard until the station associates with it.       *)
(*                                                                         *)
(* The senders' caches are not asked for by the receivers' clock: a frame  *)
(* head is written only when the receiver wrote nothing for MaxAge, and    *)
(* each receiver has one time stamp for all the stations it hears.         *)
(***************************************************************************)
EXTENDS Naturals, Integers, FiniteSets

CONSTANTS
  AP, FRS, UT,  \* the stations by type
  FixedTo,      \* AssociationControl.Fixed: some stations' base stations
  Strategy,     \* of the others: "BestPathloss", "BestRxPower", "BestSINR"
  Level,        \* values a measurement can have
  MaxAge,       \* maxAgeCacheEntry, in frames
  MaxFrame,     \* bound: frames looked at
  NoStation     \* no base station yet

Station == AP \cup FRS \cup UT
Base    == AP \cup FRS          \* they send frame heads
Mobile  == FRS \cup UT          \* they associate

ASSUME MeasurementAssumption ==
  /\ UT \cap Base = {} \* a station has one type
  /\ MaxAge \in Nat \ {0} /\ MaxFrame \in Nat \ {0} /\ Level \subseteq Nat
  /\ FixedTo \in [FRS -> AP] /\ NoStation \notin Station
  /\ Strategy \in {"BestPathloss", "BestRxPower", "BestSINR"}

VARIABLES
  frameNow,    \* the frame
  heads,  \* base stations whose frame head of this frame has been sent
  base,   \* of every mobile station: baseStation_ of its ranging connection
  since,  \* the frame in which it associated
  stamp,  \* cacheEntryTimeStamp of every receiver
  entry,  \* per sender and receiver: when the sender's cache last got a value
  best,   \* the strategy of every mobile: DecideBest
  measured   \* all it was given, as <<station, value>> (history)

measureVars == <<frameNow, heads, base, since, stamp, entry, best, measured>>

Never == -MaxAge \* earlier than any frame
NoBest == [initialized |-> FALSE, station |-> NoStation, value |-> 0]

\* Fixed::doOnCSRCreated associates at once; the others are not associated.
MeasureInit ==
  /\ frameNow = 1
  /\ heads = {}
  /\ base = [s \in Mobile |-> IF s \in DOMAIN FixedTo THEN FixedTo[s] ELSE NoStation]
  /\ since = [s \in Mobile |-> 0]
  /\ stamp = [s \in Station |-> -MaxAge]
  /\ entry = [x \in Station |-> [s \in Station |-> Never]]
  /\ best = [s \in Mobile |-> NoBest]
  /\ measured = [s \in Mobile |-> {}]

---------------------------------------------------------------------------
(* PhyUser::filter                                                         *)

\* Mutation of HeadPasses: frame heads are received from every base station.
HeadPassesAny(b, s) == s # b /\ s \in Mobile

\* A frame head of b passes at s: not b's own, at any station but an access
\* point that has no base station yet or belongs to b.
HeadPasses(b, s) == s # b /\ s \in Mobile /\ base[s] \in {NoStation, b}

\* A unicast passes at its destination when the connection is registered
\* there; both ends of a hop register its connections (see Association).
UnicastPasses(x, s) == (s \in Mobile /\ base[s] = x) \/ (x \in Mobile /\ base[x] = s)

---------------------------------------------------------------------------
(* PhyUser::onData and FrameHeadCollector                                  *)

\* Nothing was written on account of what s received, for too long.
Stale(s) == stamp[s] + MaxAge < frameNow

\* Mutation of Stamped: what was measured of data leaves no time stamp.
StampedNot(R) == stamp

Stamped(R) == [s \in Station |-> IF s \in R THEN frameNow ELSE stamp[s]]

\* Carrier, pathloss and interference are written together, under the name of
\* the receiver, in the cache of the sender.
Written(x, R) == [entry EXCEPT ![x] = [s \in Station |-> IF s \in R THEN frameNow ELSE @[s]]]

Better(v, w) == IF Strategy = "BestPathloss" THEN v < w ELSE v > w

\* Mutations of PutBest: as good as the best is better; initialized_ is not set.
PutTies(d, b, v) ==
  IF ~d.initialized \/ ~Better(d.value, v)
    THEN [initialized |-> TRUE, station |-> b, value |-> v] ELSE d

PutUnmarked(d, b, v) ==
  IF ~d.initialized \/ Better(v, d.value)
    THEN [d EXCEPT !.station = b, !.value = v] ELSE d

\* BestPathloss, BestRxPower, BestSINR::doPut
PutBest(d, b, v) ==
  IF ~d.initialized \/ Better(v, d.value)
    THEN [initialized |-> TRUE, station |-> b, value |-> v] ELSE d

\* Fixed::doStoreMeasurement does nothing.
Chooses(s) == s \notin DOMAIN FixedTo

\* FrameHeadCollector::doOnData of the stations S that received b's frame head
StoreMeasurement(b, v, S) ==
  [s \in Mobile |-> IF s \in S /\ Chooses(s) THEN PutBest(best[s], b, v[s]) ELSE best[s]]

\* estimateTxSINRAt: what a base station's registry says of the channel to a
\* user comes from its own cache; here, when it was written.
TxSINRAt(b, u) == entry[b][u]

\* b sends its frame head; v[s] is what station s measures of it, and "lost"
\* are the stations that cannot decode it.
FrameHead(b, v, lost) ==
  LET passes  == {s \in Station : HeadPasses(b, s)}
      decoded == passes \ lost
      written == {s \in passes : Stale(s)}
  IN  /\ b \notin heads
      /\ heads' = heads \cup {b}
      /\ entry' = Written(b, written)
      /\ stamp' = Stamped(written)
      /\ best' = StoreMeasurement(b, v, decoded)
      /\ measured' = [s \in Mobile |-> IF s \in decoded /\ Chooses(s)
                     THEN measured[s] \cup {[station |-> b, value |-> v[s], first |->
                                 \A h \in measured[s] : h.value # v[s]]}
                     ELSE measured[s]]
      /\ UNCHANGED <<frameNow, base, since>>

\* x sends data to s; measureInterference_ is set for all data.
Unicast(x, s) ==
  /\ UnicastPasses(x, s)
  /\ entry' = Written(x, {s})
  /\ stamp' = Stamped({s})
  /\ UNCHANGED <<frameNow, heads, base, since, best, measured>>

\* BestAtGivenTime::associateNow, at the station's decision time: it asserts
\* that the strategy is initialised, so that without a frame head decoded
\* before the simulation ends, which the model leaves out.
AssociateNow(s) ==
  /\ Chooses(s) /\ base[s] = NoStation
  /\ best[s].initialized
  /\ base' = [base EXCEPT ![s] = best[s].station]
  /\ since' = [since EXCEPT ![s] = frameNow]
  /\ UNCHANGED <<frameNow, heads, stamp, entry, best, measured>>

MeasureNextFrame ==
  /\ heads = Base /\ frameNow < MaxFrame
  /\ frameNow' = frameNow + 1
  /\ heads' = {}
  /\ UNCHANGED <<base, since, stamp, entry, best, measured>>

MeasureNext ==
  \/ \E b \in Base, v \in [Mobile \ DOMAIN FixedTo -> Level],
        lost \in SUBSET (Mobile \ DOMAIN FixedTo) : FrameHead(b, v, lost)
  \/ \E x, s \in Station : Unicast(x, s)
  \/ \E s \in Mobile : AssociateNow(s)
  \/ MeasureNextFrame

MeasureSpec == MeasureInit /\ [][MeasureNext]_measureVars

---------------------------------------------------------------------------
\* Every variable has its type.
MeasurementTypeOK ==
  /\ frameNow \in 1..MaxFrame
  /\ heads \subseteq Base
  /\ base \in [Mobile -> Base \cup {NoStation}]
  /\ since \in [Mobile -> 0..MaxFrame]
  /\ stamp \in [Station -> -MaxAge..MaxFrame]
  /\ entry \in [Station -> [Station -> -MaxAge..MaxFrame]]
  /\ \A s \in Mobile : best[s] = NoBest \/ best[s] \in
       [initialized : {TRUE}, station : Base, value : Level]
  /\ measured \in [Mobile -> SUBSET [station : Base, value : Level, first : BOOLEAN]]

\* The scheduler of a terminal's base station never works with values older
\* than MaxAge: data or, for want of data, frame heads renew its entry of the
\* terminal, once the frames before the association have been forgotten.
\* (Of a relay this cannot be said: what its subscribers send it moves the
\* same time stamp and writes nothing for the base station above.)
EntryFresh ==
  \A s \in UT : heads = Base /\ base[s] # NoStation /\ frameNow > since[s] + MaxAge
    => TxSINRAt(base[s], s) + MaxAge >= frameNow

\* "point in time when last C/I measurement was written to interference
\* cache", the comment of cacheEntryTimeStamp: by this receiver, to any cache.
StampIsLastEntry ==
  \A s \in Station : /\ \E x \in Station : stamp[s] = entry[x][s]
                     /\ \A x \in Station : stamp[s] >= entry[x][s]

\* A strategy knows the best value that was decoded and the station that sent
\* it first, whatever was lost, in any order, before and after the decision.
BestIsBest ==
  \A s \in Mobile :
    /\ best[s].initialized <=> measured[s] # {}
    /\ \A h \in measured[s] : ~Better(h.value, best[s].value)
    /\ measured[s] # {} =>
         [station |-> best[s].station, value |-> best[s].value, first |-> TRUE] \in measured[s]

\* What schedulers and the association strategy go by is fresh and the best.
MeasurementSafe == MeasurementTypeOK /\ EntryFresh /\ StampIsLastEntry /\ BestIsBest
==========================================================================
