---------------------------- MODULE PhyAccess ----------------------------
(***************************************************************************)
(* From a schedule to the air: DLCallback and ULCallback turn the          *)
(* compounds of a scheduling map into access functors, deliverNow hands    *)
(* them to the PhyUser at the start of the phase, and the functors put     *)
(* events into the event scheduler that start and stop transmissions,      *)
(* switch the station's reception off and on, and set the base station's   *)
(* receive patterns for the uplink.                                        *)
(*                                                                         *)
(* A base station BS and its subscribers share one subchannel, in which    *)
(* the base station may form several beams: the spatial layers of a time   *)
(* slot.  A frame is a downlink phase and an uplink phase of Slots slots   *)
(* each, without a gap between them.  One tick is one nanosecond, the      *)
(* accuracy factor: what is on the air at tick t is so during [t, t+1).    *)
(***************************************************************************)
EXTENDS Naturals, Sequences, SequencesExt

CONSTANTS
  BS, Subscriber, \* the stations
  Slots,          \* numberOfTimeSlots
  Layers,         \* maxBeams, the spatial layers of a slot
  SlotLength,     \* slotLength_, in ticks
  Burst,          \* <<startTime, endTime, pduDuration>> of a compound, in its slot
  Everyone,       \* the invalid user: a broadcast
  Beamforming,    \* beamforming of the base station
  NoPattern,
  MaxBursts,      \* bound: compounds of the two maps of a frame
  MaxFrames       \* bound: frames

Transceiver == {BS} \cup Subscriber

ASSUME AccessAssumption ==
  /\ BS \notin Subscriber /\ Everyone \notin Transceiver
  /\ Slots \in Nat \ {0} /\ Layers \in Nat \ {0} /\ SlotLength \in Nat \ {0}
  /\ Burst \subseteq (0..SlotLength) \X (0..SlotLength) \X (0..SlotLength)
  /\ \A b \in Burst : 1 < b[3] /\ b[1] + b[3] <= b[2] \* ULCallback asserts endTime > startTime
  /\ Beamforming \in BOOLEAN
  /\ MaxBursts \in Nat /\ MaxFrames \in Nat

VARIABLES
  now,         \* the time of the event scheduler
  frame,       \* the number of the current frame
  stage,       \* what is left to do: map the frame, deliver DL, deliver UL
  scheduledDL, \* DLCallback::scheduledPDUs of BS
  scheduledUL, \* ULCallback::scheduledPDUs of BS
  granted,     \* per subscriber, the grants of the uplink map it has not used yet
  agenda,      \* the events of the event scheduler, in the order scheduled
  onAir,       \* the transmissions on the air
  listening,   \* whether reception is enabled
  pattern      \* the receive patterns of BS

accessVars == <<now, frame, stage, scheduledDL, scheduledUL, granted, agenda, onAir, listening, pattern>>

Accuracy    == 1
PhaseLength == Slots * SlotLength
DLStart     == 2 * PhaseLength * frame
ULStart     == DLStart + PhaseLength

\* A SchedulingCompound; its user is the station at the other end.
Compound ==
  [slot : 0..(Slots - 1), layer : 0..(Layers - 1), burst : Burst,
   user : Transceiver \cup {Everyone}, pattern : BOOLEAN]

\* The order in which the callbacks read a map: slot by slot, in a slot beam by
\* beam, in a beam one compound after another.  Nothing orders the compounds of
\* two beams in time.
Before(c, d) ==
  \/ c.slot < d.slot
  \/ c.slot = d.slot /\ c.layer < d.layer
  \/ c.slot = d.slot /\ c.layer = d.layer /\ c.burst[2] <= d.burst[1]

\* A SchedulingMap of the base station for the given users: when it forms beams
\* its strategy adds a pattern to whatever has one destination.
Map(users) ==
  {map \in BoundedSeq({c \in Compound : /\ c.user \in users
                                       /\ c.pattern = (Beamforming /\ c.user # Everyone)},
                      MaxBursts) :
     \A i, j \in DOMAIN map : i < j => Before(map[i], map[j])}

DownlinkMap == Map(Subscriber \cup {Everyone})

\* A subscriber sends in one beam of a slot: its pattern can only be told by
\* the station it is for.
UplinkMap ==
  {map \in Map(Subscriber) :
     \A i, j \in DOMAIN map :
       map[i].user = map[j].user /\ map[i].slot = map[j].slot => map[i].layer = map[j].layer}

\* Mutation of SlotOffset: slots are taken for one.
SlotOffsetNone(c) == 0

SlotOffset(c) == c.slot * SlotLength

StartTime(c) == c.burst[1] + SlotOffset(c)

\* Mutations of DLStop and ULStop: the accuracy factor is added.
DLStopLate(c) == StartTime(c) + c.burst[3] + Accuracy
ULStopLate(c) == c.burst[2] + SlotOffset(c) + Accuracy

DLStop(c) == StartTime(c) + c.burst[3] - Accuracy
ULStop(c) == c.burst[2] + SlotOffset(c) - Accuracy

\* The functor DLCallback::processPacket creates.
DLFunctor(c) ==
  [kind |-> IF Beamforming /\ c.pattern THEN "beam"
            ELSE IF c.user # Everyone THEN "unicast" ELSE "broadcast",
   from |-> BS, to |-> c.user, start |-> StartTime(c), stop |-> DLStop(c),
   slot |-> c.slot, layer |-> c.layer]

\* ULCallback::processPacket in station s: a compound with a pattern sets the
\* base station's receive pattern for its user, one without is sent to its user.
ULFunctor(c, s) ==
  [kind |-> IF c.pattern THEN "pattern" ELSE "unicast",
   from |-> s, to |-> c.user, start |-> StartTime(c), stop |-> ULStop(c),
   slot |-> c.slot, layer |-> c.layer]

GrantsOf(ul, s) ==
  FlattenSeq([i \in DOMAIN ul |-> IF ul[i].user = s THEN <<ul[i]>> ELSE << >>])

\* The schedulers of the base station map a frame.  Their callbacks make
\* functors of the downlink map and, with beams, of the uplink map; the uplink
\* map goes to the subscribers.
CallBack ==
  /\ stage = "map" /\ now = DLStart
  /\ stage' = "downlink"
  /\ \E dl \in DownlinkMap, ul \in UplinkMap :
       /\ Len(dl) + Len(ul) <= MaxBursts
       /\ scheduledDL' = scheduledDL \o [i \in DOMAIN dl |-> DLFunctor(dl[i])]
       /\ scheduledUL' =
            IF Beamforming THEN scheduledUL \o [i \in DOMAIN ul |-> ULFunctor(ul[i], BS)]
            ELSE scheduledUL
       /\ granted' = [s \in Subscriber |-> GrantsOf(ul, s)]
  /\ UNCHANGED <<now, frame, agenda, onAir, listening, pattern>>

\* Mutation of Delivered: the times stay those of the map.
DeliveredAsMapped(f) == f

\* deliverNow moves a functor to the present ...
Delivered(f) == [f EXCEPT !.start = @ + now, !.stop = @ + now]

\* Mutation of EventsOf: a pattern is set at its end.
EventsOfEnd(f) ==
  IF f.kind = "pattern" THEN <<[at |-> f.stop, do |-> "set", f |-> f]>>
  ELSE <<[at |-> f.start, do |-> "start", f |-> f], [at |-> f.stop, do |-> "stop", f |-> f]>>

\* ... and operator() of the functor schedules its events.
EventsOf(f) ==
  IF f.kind = "pattern" THEN <<[at |-> f.start, do |-> "set", f |-> f]>>
  ELSE <<[at |-> f.start, do |-> "start", f |-> f], [at |-> f.stop, do |-> "stop", f |-> f]>>

EventsOfAll(queue) ==
  FlattenSeq([i \in DOMAIN queue |-> EventsOf(Delivered(queue[i]))])

\* DLCallback::deliverNow
DeliverDL ==
  /\ stage = "downlink" /\ now = DLStart
  /\ stage' = "uplink"
  /\ agenda' = agenda \o EventsOfAll(scheduledDL)
  /\ scheduledDL' = << >>
  /\ UNCHANGED <<now, frame, scheduledUL, granted, onAir, listening, pattern>>

\* ULCallback::deliverNow of the base station
DeliverUL ==
  /\ stage = "uplink" /\ now = ULStart
  /\ scheduledUL # << >>
  /\ agenda' = agenda \o EventsOfAll(scheduledUL)
  /\ scheduledUL' = << >>
  /\ UNCHANGED <<now, frame, stage, scheduledDL, granted, onAir, listening, pattern>>

\* The bursts into which the slave's strategy may put what waits for grant c:
\* from its start on, as far as it takes.
Filling(c) == {b \in Burst : b[1] = c.burst[1] /\ b[2] <= c.burst[2]}

\* The slave's compound for the base station.
Answer(c, b) ==
  [slot |-> c.slot, layer |-> c.layer, burst |-> b, user |-> BS, pattern |-> FALSE]

\* callBack of a slave: what it sends in the grants it uses, in the map's order.
SlaveFunctors(s, used) ==
  FlattenSeq([i \in DOMAIN granted[s] |->
    IF granted[s][i] \in DOMAIN used
    THEN <<ULFunctor(Answer(granted[s][i], used[granted[s][i]]), s)>> ELSE << >>])

\* deliverSchedule of a subscriber with grants: it schedules what waits, for all
\* of them or for some (none, when nothing waits or the map was missed), and
\* delivers at once.  Base station and subscribers come in any order.
DeliverSchedule(s) ==
  /\ stage = "uplink" /\ now = ULStart
  /\ granted[s] # << >>
  /\ \E grants \in SUBSET Range(granted[s]) :
       \E used \in [grants -> Burst] :
         /\ \A c \in grants : used[c] \in Filling(c)
         /\ agenda' = agenda \o EventsOfAll(SlaveFunctors(s, used))
  /\ granted' = [granted EXCEPT ![s] = << >>]
  /\ UNCHANGED <<now, frame, stage, scheduledDL, scheduledUL, onAir, listening, pattern>>

\* The next event: the earliest, of several the one scheduled first.
IsNext(i) ==
  /\ agenda[i].at = now
  /\ \A j \in 1..(i - 1) : agenda[j].at # now

Due(do, i) == IsNext(i) /\ agenda[i].do = do /\ agenda' = RemoveAt(agenda, i)

\* StartTransmission, StartBeamformingTransmission, StartBroadcastTransmission
StartTransmission(i) ==
  /\ Due("start", i)
  /\ onAir' = onAir \cup {agenda[i].f}
  /\ listening' = [listening EXCEPT ![agenda[i].f.from] = FALSE]
  /\ UNCHANGED <<now, frame, stage, scheduledDL, scheduledUL, granted, pattern>>

\* Mutation of Reception: forgotten.
ReceptionStaysOff(s) == listening

Reception(s) == [listening EXCEPT ![s] = TRUE]

StopTransmission(i) ==
  /\ Due("stop", i)
  /\ onAir' = onAir \ {agenda[i].f}
  /\ listening' = Reception(agenda[i].f.from)
  /\ UNCHANGED <<now, frame, stage, scheduledDL, scheduledUL, granted, pattern>>

\* SetPattern; nothing ever removes a pattern.
SetPattern(i) ==
  /\ Due("set", i)
  /\ pattern' = [pattern EXCEPT ![agenda[i].f.to] = agenda[i].f.start]
  /\ UNCHANGED <<now, frame, stage, scheduledDL, scheduledUL, granted, onAir, listening>>

\* Whatever is due has been done.
Settled ==
  /\ \A i \in DOMAIN agenda : agenda[i].at # now
  /\ stage = "uplink"
  /\ now = ULStart => scheduledUL = << >> /\ \A s \in Subscriber : granted[s] = << >>

AccessNextFrame ==
  /\ Settled
  /\ now + 1 = ULStart + PhaseLength
  /\ frame < MaxFrames
  /\ frame' = frame + 1
  /\ now' = now + 1
  /\ stage' = "map"
  /\ UNCHANGED <<scheduledDL, scheduledUL, granted, agenda, onAir, listening, pattern>>

AccessTick ==
  /\ Settled
  /\ now + 1 < ULStart + PhaseLength
  /\ now' = now + 1
  /\ UNCHANGED <<frame, stage, scheduledDL, scheduledUL, granted, agenda, onAir, listening, pattern>>

AccessInit ==
  /\ now = 0 /\ frame = 0 /\ stage = "map"
  /\ scheduledDL = << >>
  /\ scheduledUL = << >>
  /\ granted = [s \in Subscriber |-> << >>]
  /\ agenda = << >>
  /\ onAir = {}
  /\ listening = [s \in Transceiver |-> TRUE]
  /\ pattern = [s \in Subscriber |-> NoPattern]

AccessNext ==
  \/ CallBack
  \/ DeliverDL
  \/ DeliverUL
  \/ \E s \in Subscriber : DeliverSchedule(s)
  \/ \E i \in DOMAIN agenda : StartTransmission(i) \/ StopTransmission(i) \/ SetPattern(i)
  \/ AccessTick
  \/ AccessNextFrame

AccessSpec == AccessInit /\ [][AccessNext]_accessVars

---------------------------------------------------------------------------
Functor ==
  [kind : {"broadcast", "unicast", "beam", "pattern"}, from : Transceiver,
   to : Transceiver \cup {Everyone}, start : Nat, stop : Nat,
   slot : 0..(Slots - 1), layer : 0..(Layers - 1)]

\* Every variable has its type, and no event lies in the past: the event
\* scheduler refuses those.
AccessTypeOK ==
  /\ now \in Nat /\ frame \in 0..MaxFrames
  /\ stage \in {"map", "downlink", "uplink"}
  /\ \A q \in {scheduledDL, scheduledUL} : \A i \in DOMAIN q : q[i] \in Functor
  /\ \A s \in Subscriber : \A i \in DOMAIN granted[s] : granted[s][i] \in Compound
  /\ \A i \in DOMAIN agenda :
       agenda[i].do \in {"start", "stop", "set"} /\ agenda[i].f \in Functor
       /\ agenda[i].at >= now
  /\ onAir \subseteq Functor
  /\ listening \in [Transceiver -> BOOLEAN]
  /\ DOMAIN pattern = Subscriber

Sends(s) == \E f \in onAir : f.from = s

\* No burst leaves its station deaf.  Nor does the end of one burst switch on
\* reception during another of the same station: for subscribers, and for a base
\* station with one beam.  With several it does, at the end of the first of the
\* bursts side by side.
ListensUnlessSending ==
  \A s \in Transceiver :
    /\ ~Sends(s) => listening[s]
    /\ Sends(s) /\ (s = BS => Layers = 1) => ~listening[s]

Audience(f) == IF f.to = Everyone THEN Transceiver \ {f.from} ELSE {f.to}

\* Throughout a transmission those it is for listen: the last downlink burst
\* ends before the first uplink burst starts, whoever sends them.
DestinationListens ==
  Settled => \A f \in onAir : \A s \in Audience(f) : listening[s]

\* What is on the air together is in one slot, in different beams and in one
\* direction: all of it from the base station, or from subscribers that send one
\* burst each.  So a base station that listens while it sends hears nobody, and
\* a beam carries one transmission at a time.
BeamsApart ==
  Settled =>
    \A f, g \in onAir :
      f # g => /\ f.slot = g.slot /\ f.layer # g.layer
               /\ f.from = BS <=> g.from = BS
               /\ f.from = g.from => f.from = BS

\* While a subscriber sends to a base station that forms beams, the receive
\* pattern set for it is the one of this very burst, although patterns are
\* never removed.
PatternInPlace ==
  Settled /\ Beamforming =>
    \A f \in onAir : f.to = BS => pattern[f.from] = f.start

\* A frame leaves nothing behind: when the next one is mapped no event is
\* pending, nothing waits in a callback and everyone listens.
FrameLeavesNothing ==
  stage = "map" =>
    /\ agenda = << >> /\ onAir = {}
    /\ scheduledDL = << >> /\ scheduledUL = << >>
    /\ \A s \in Subscriber : granted[s] = << >>
    /\ \A s \in Transceiver : listening[s]

\* What a frame's callbacks put on the air is heard by those it is for, and
\* the frame ends as it began.
AccessSafe ==
  /\ AccessTypeOK
  /\ ListensUnlessSending
  /\ DestinationListens
  /\ BeamsApart
  /\ PatternInPlace
  /\ FrameLeavesNothing
==========================================================================
