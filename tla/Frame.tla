------------------------------ MODULE Frame ------------------------------
(***************************************************************************)
(* The TDD frame of one cell: the frame::TimingControl of the base station *)
(* and of its subscribers, the compound collectors it activates one after  *)
(* another, and the way an uplink grant travels: the base station's master *)
(* scheduler grants slots at the start of a frame, the UL map announces    *)
(* them, and a subscriber's slave scheduler sends in them later in the     *)
(* same frame.                                                             *)
(*                                                                         *)
(* Nobody synchronises the stations during a run.  Each is driven by its   *)
(* own timers, all of them events of one simulator queue that is ordered   *)
(* by time and, at equal times, by who was scheduled first.  Time is       *)
(* counted in ticks; one tick is also the computational accuracy factor by *)
(* which the code shortens what must end within a phase.                   *)
(***************************************************************************)
EXTENDS Naturals, Sequences, FiniteSets, SequencesExt

CONSTANTS
  BS, SS,             \* the base station and the set of subscriber stations
  NoStation,          \* stands for "no station"
  HeadLength, DlMapLength, UlMapLength, DlDataLength,      \* durations of the
  TtgLength, UlDataLength, BwReqLength, RangingLength,     \* activations
  FrameDuration, StartupDelay, SymbolDuration,
  Slots, SlotLength,  \* numberOfTimeSlots and slotDuration of a data phase
  Lossy,              \* TRUE: a broadcast may be missed by some subscribers
  MaxQueue,           \* bound: uplink packets waiting at a subscriber
  MaxDownlink         \* bound: downlink packets waiting at the base station

Station  == {BS} \cup SS
Slot     == 1..Slots
Tick     == 1         \* Utilities::getComputationalAccuracyFactor
Schedule == [Slot -> SS \cup {NoStation}]

ASSUME FrameAssumption ==
  /\ BS \notin SS /\ NoStation \notin Station /\ IsFiniteSet(SS)
  /\ \A n \in {HeadLength, DlMapLength, UlMapLength, DlDataLength, TtgLength,
               UlDataLength, BwReqLength, RangingLength, FrameDuration,
               StartupDelay, SymbolDuration, Slots, SlotLength,
               MaxQueue, MaxDownlink} : n \in Nat
  /\ HeadLength > 2 * Tick /\ SymbolDuration > Tick /\ SlotLength > Tick
  /\ SymbolDuration <= DlMapLength /\ SymbolDuration <= UlMapLength
  /\ Slots * SlotLength < DlDataLength /\ Slots * SlotLength < UlDataLength
  /\ Lossy \in BOOLEAN

\* The activations that take time, in order.
Phases == <<"framehead", "dlmap", "ulmap", "dldata", "ttg", "uldata", "bwReq", "ranging">>
Length == <<HeadLength, DlMapLength, UlMapLength, DlDataLength,
            TtgLength, UlDataLength, BwReqLength, RangingLength>>
Pauses == {5, 7, 8}
End    == Len(Phases) + 1      \* activations_.end()

Event == [left  : Nat,         \* ticks from now
          who   : Station,
          what  : {"periodic", "trigger", "timeout", "finished", "txStart", "txStop"},
          phase : Range(Phases) \cup {"any"},
          slot  : Slot \cup {0},       \* of a data transmission
          map   : Schedule]            \* carried by an UL map

VARIABLES
  queue,     \* the simulator's events, the next one first
  active,    \* per station: the position of activeCC_
  joined,    \* the subscribers that know their base station
  upper,     \* per subscriber: packets waiting above its scheduler
  queued,    \* per subscriber: packets in its scheduler's queue
  downlink,  \* packets for subscribers at the base station
  burst,     \* the slots of the DL schedule that wait for their phase
  grants,    \* the UL master's strategyResult_: whose slot is it
  granted,   \* per subscriber: its slots in the UL map it holds
  available, \* per subscriber: ulResourcesAvailable_
  onAir,     \* the transmissions in progress
  fault      \* an assertion has failed

vars == <<queue, active, joined, upper, queued, downlink, burst, grants,
          granted, available, onAir, fault>>

NoGrant == [k \in Slot |-> NoStation]
EventOf(left, s, what, phase, k, m) ==
  [left |-> left, who |-> s, what |-> what, phase |-> phase, slot |-> k, map |-> m]
Plain(left, s, what, phase) == EventOf(left, s, what, phase, 0, NoGrant)

---------------------------------------------------------------------------
(* The event queue.                                                        *)

\* The events left once the next one is taken, counted from its time.
Later == [i \in 1..Len(queue) - 1 |->
            [queue[i + 1] EXCEPT !.left = @ - queue[1].left]]

\* A timer that is set again is moved.
SameTimer(e, x) ==
  /\ e.what \in {"timeout", "finished"}
  /\ x.what = e.what /\ x.who = e.who /\ x.phase = e.phase

\* Which of q and then es are left, and which of those comes first: es is put
\* behind the events of the same time.
Kept(q, es) ==
  {i \in 1..(Len(q) + Len(es)) : i <= Len(q) => \A j \in DOMAIN es : ~SameTimer(es[j], q[i])}

Ahead(all, j, i) == all[j].left < all[i].left \/ (all[j].left = all[i].left /\ j <= i)

Place(all, kept, i) == Cardinality({j \in kept : Ahead(all, j, i)})

\* Scheduling the events es in their order
PutAll(q, es) ==
  LET all  == q \o es
      kept == Kept(q, es)
  IN  [k \in 1..Cardinality(kept) |-> all[CHOOSE i \in kept : Place(all, kept, i) = k]]

---------------------------------------------------------------------------
(* What a collector does when its phase is started.                        *)

\* Mutation of Sends: a subscriber has the base station's modes.
SendsAlike(s, p) == p \in {"framehead", "dlmap", "ulmap", "dldata"}

\* The mode an activation has in the station's configuration.
Sends(s, p) == IF s = BS THEN p \in {"framehead", "dlmap", "ulmap", "dldata"}
                         ELSE p = "uldata"

\* FrameHeadCollector, DLMapCollector and ULMapCollector::doStart in mode
\* Sending: their own timeout, and the broadcast the PhyUser schedules.
Broadcast(s, p, finish, stop) ==
  << Plain(finish, s, "finished", p),
     EventOf(0, s, "txStart", p, 0, IF p = "ulmap" THEN grants ELSE NoGrant),
     EventOf(stop, s, "txStop", p, 0, IF p = "ulmap" THEN grants ELSE NoGrant) >>

Announce(s, p) ==
  CASE p = "framehead" -> Broadcast(s, p, HeadLength - Tick, HeadLength - 2 * Tick)
    [] p = "dlmap"     -> Broadcast(s, p, SymbolDuration, SymbolDuration - Tick)
    [] p = "ulmap"     -> Broadcast(s, p, SymbolDuration - Tick, SymbolDuration - Tick)

\* Mutation of SlotOffset: the offset of the slot is added twice.
SlotOffsetTwice(k) == 2 * (k - 1) * SlotLength

\* When slot k of a data phase begins, counted from the phase's start.
SlotOffset(k) == (k - 1) * SlotLength

\* deliverNow: the transmissions in the set ks of slots, at different times.
Transmissions(s, p, ks) ==
  SetToSeq({EventOf(SlotOffset(k), s, "txStart", p, k, NoGrant) : k \in ks}
           \cup {EventOf(SlotOffset(k) + SlotLength - Tick, s, "txStop", p, k, NoGrant) : k \in ks})

\* The slave strategy fills the granted slots in order from the queue.
Filled(s) == {k \in granted[s] : Cardinality({j \in granted[s] : j <= k}) <= queued[s]}

\* The slots a data phase that starts now will be sent in.
Sending(s, p) ==
  CASE p = "dldata" /\ Sends(s, p)                  -> burst
    [] p = "uldata" /\ Sends(s, p) /\ available[s]  -> Filled(s)
    [] OTHER                                        -> {}

\* The events a collector schedules in doStart.
Started(s, p) ==
  CASE p \in {"framehead", "dlmap", "ulmap"} /\ Sends(s, p) -> Announce(s, p)
    [] p \in {"dldata", "uldata"} ->
         Append(Transmissions(s, p, Sending(s, p)),
                Plain(Length[IF p = "dldata" THEN 4 ELSE 6], s, "finished", p))
    [] OTHER -> <<>>

\* Mutation of PhaseEvents: the timing control sets its timeout first.
TimeoutFirst(s, n) ==
  << Plain(Length[n], s, "timeout", "any") >> \o Started(s, Phases[n])

\* processOneActivation: the collector is started, then the timeout is set.
PhaseEvents(s, n) ==
  Started(s, Phases[n]) \o << Plain(Length[n], s, "timeout", "any") >>

\* Mutation of ForgetMap: nothing is reset.
KeepMap(s, p) == UNCHANGED available

\* ULMapCollector::doStart: the last map's grants are over, in either mode.
ForgetMap(s, p) ==
  available' = IF p = "ulmap" /\ s \in SS THEN [available EXCEPT ![s] = FALSE]
                                          ELSE available

\* The n-th activation of station s begins; q is the event queue without it.
Activate(s, n, q) ==
  /\ active' = [active EXCEPT ![s] = n]
  /\ queue' = PutAll(q, PhaseEvents(s, n))
  /\ ForgetMap(s, Phases[n])

---------------------------------------------------------------------------
(* The events.                                                             *)

\* Mutation of Periodically: the activations are processed at once.
PeriodicallyStart(s) ==
  /\ Activate(s, 1, Append(Later, Plain(FrameDuration, s, "periodic", "any")))
  /\ UNCHANGED <<joined, upper, queued, downlink, burst, grants, granted, onAir, fault>>

\* TimingControl::periodically only schedules the start of the activations.
Periodically(s) ==
  /\ queue' = PutAll(Later, << Plain(StartupDelay, s, "trigger", "any"),
                               Plain(FrameDuration, s, "periodic", "any") >>)
  /\ UNCHANGED <<active, joined, upper, queued, downlink, burst, grants, granted,
                 available, onAir, fault>>

\* Mutations of Collect: the scheduler does not accept during its collection;
\* the packets it took stay above it too.
CollectNothing(cs) == UNCHANGED <<upper, queued>>
CollectTwice(cs) ==
  /\ queued' = [s \in SS |-> IF s \in cs THEN queued[s] + upper[s] ELSE queued[s]]
  /\ UNCHANGED upper

\* Scheduler::startScheduling in subscribers cs: while it runs the scheduler
\* accepts, and the packets that waited above it come down.
Collect(cs) ==
  /\ queued' = [s \in SS |-> IF s \in cs THEN queued[s] + upper[s] ELSE queued[s]]
  /\ upper'  = [s \in SS |-> IF s \in cs THEN 0 ELSE upper[s]]

\* The schedules the master's strategy may find for the queues b: no slot is
\* wasted while a packet waits, no one gets a second slot before everyone
\* who has packets got one.
Granting(b) ==
  {g \in Schedule :
     LET n(s) == Cardinality({k \in Slot : g[k] = s})
     IN  /\ \A s \in SS : n(s) <= (IF s \in joined THEN b[s] ELSE 0)
         /\ \A s, t \in joined : n(s) > 1 => n(t) > 0 \/ b[t] = 0
         /\ (\E k \in Slot : g[k] = NoStation) => \A s \in joined : n(s) = b[s]}

\* The base station's frame starts: the DL schedule is made from what waits,
\* and the UL master grants slots for the subscribers' queues, which the
\* QueueManager shows it with or without a collection made for it.
StartFrameBS ==
  /\ \E cs \in {{}, joined} : Collect(cs)
  /\ \E g \in Granting(queued') : grants' = g
  /\ LET n == IF downlink < Slots THEN downlink ELSE Slots
     IN  burst' = 1..n /\ downlink' = downlink - n
  /\ UNCHANGED <<joined, granted, onAir, fault>>

\* A subscriber's frame starts: the slave scheduler collects.
StartFrameSS(s) ==
  /\ Collect({s})
  /\ UNCHANGED <<joined, downlink, burst, grants, granted, onAir, fault>>

\* TimingControl::startProcessingActivations: the collections, then the
\* first phase, whatever became of the frame before.
StartProcessingActivations(s) ==
  /\ Activate(s, 1, Later)
  /\ \/ s = BS /\ StartFrameBS
     \/ s # BS /\ StartFrameSS(s)

\* TimingControl::onTimeout: the next activation, if there is one.
OnTimeout(s) ==
  LET n == active[s] + 1
  IN  /\ \/ n < End /\ Activate(s, n, Later)
         \/ /\ n = End
            /\ active' = [active EXCEPT ![s] = End]
            /\ queue' = Later
            /\ UNCHANGED available
      /\ queued' = IF n < End /\ s \in SS
                     THEN [queued EXCEPT ![s] = @ - Cardinality(Sending(s, Phases[n]))]
                     ELSE queued
      /\ burst' = IF n < End /\ s = BS THEN burst \ Sending(s, Phases[n]) ELSE burst
      /\ UNCHANGED <<joined, upper, downlink, grants, granted, onAir, fault>>

\* What finishedPhase asserts of a collector's report, with q the events to
\* come: its activation is the current one and the timeout is set.
MayFinish(s, p, q) ==
  /\ active[s] # End
  /\ Phases[active[s]] = p
  /\ \E i \in DOMAIN q : q[i].who = s /\ q[i].what = "timeout"

\* Mutation of FinishedPhase: the next phase follows at once.
FinishedSubsequent(s, p) ==
  OnTimeout(s)

\* A collector's own timeout: it reports to the timing control.
FinishedPhase(s, p) ==
  /\ queue' = Later
  /\ fault' = ~MayFinish(s, p, Later)
  /\ UNCHANGED <<active, joined, upper, queued, downlink, burst, grants, granted,
                 available, onAir>>

\* StartTransmission
StartTransmission(e) ==
  /\ queue' = Later
  /\ onAir' = onAir \cup {[who |-> e.who, phase |-> e.phase, slot |-> e.slot]}
  /\ UNCHANGED <<active, joined, upper, queued, downlink, burst, grants, granted,
                 available, fault>>

\* PhyUser::filter for broadcasts: one that has no base station yet takes
\* nothing but frame heads.
Listeners(p) == IF p = "framehead" THEN SS ELSE joined

\* The subscribers rs receive the UL map m.
ReceiveULMap(rs, m) ==
  LET mine(s) == {k \in Slot : m[k] = s}
  IN  /\ granted'   = [s \in SS |-> IF s \in rs THEN mine(s) ELSE granted[s]]
      /\ available' = [s \in SS |-> IF s \in rs THEN mine(s) # {} ELSE available[s]]

\* StopTransmission.  A broadcast is then received, and each collector that
\* gets it reports the end of its phase; the map collectors look up their base
\* station, which must be known.
StopTransmission(e) ==
  /\ queue' = Later
  /\ onAir' = onAir \ {[who |-> e.who, phase |-> e.phase, slot |-> e.slot]}
  /\ \/ /\ e.phase \in {"framehead", "dlmap", "ulmap"}
        /\ \E rs \in SUBSET Listeners(e.phase) :
             /\ Lossy \/ rs = Listeners(e.phase)
             /\ fault' = \E s \in rs :
                  MayFinish(s, e.phase, Later) =>
                    e.phase # "framehead" /\ s \notin joined
             /\ IF e.phase = "ulmap" THEN ReceiveULMap(rs, e.map)
                                     ELSE UNCHANGED <<granted, available>>
     \/ /\ e.phase \in {"dldata", "uldata"}
        /\ UNCHANGED <<granted, available, fault>>
  /\ UNCHANGED <<active, joined, upper, queued, downlink, burst, grants>>

---------------------------------------------------------------------------
\* What TimingControl::onFUNCreated compares with the frame's duration.  Only
\* the pauses are summed up: Start is action number 0, and the test
\* "action && (action == Start || ...)" passes over it.
SumDuration == MapThenSumSet(LAMBDA n : Length[n], Pauses)

\* Every station's frame builder is started when its node is created, in any
\* order, before the first event.
Init ==
  /\ SumDuration <= FrameDuration
  /\ \E order \in SetToSeqs(Station) :
       queue = [i \in DOMAIN order |-> Plain(0, order[i], "periodic", "any")]
  /\ active    = [s \in Station |-> End]
  /\ joined    = {}
  /\ upper     = [s \in SS |-> 0]
  /\ queued    = [s \in SS |-> 0]
  /\ downlink  = 0
  /\ burst     = {}
  /\ grants    = NoGrant
  /\ granted   = [s \in SS |-> {}]
  /\ available = [s \in SS |-> FALSE]
  /\ onAir     = {}
  /\ fault     = FALSE

\* The simulator executes its next event.
Dispatch ==
  /\ ~fault
  /\ LET e == queue[1]
     IN  \/ e.what = "periodic" /\ Periodically(e.who)
         \/ e.what = "trigger"  /\ StartProcessingActivations(e.who)
         \/ e.what = "timeout"  /\ OnTimeout(e.who)
         \/ e.what = "finished" /\ FinishedPhase(e.who, e.phase)
         \/ e.what = "txStart"  /\ StartTransmission(e)
         \/ e.what = "txStop"   /\ StopTransmission(e)

\* A packet from the upper layers of a subscriber or of the base station.
Arrive ==
  /\ ~fault
  /\ \/ \E s \in joined :
          /\ upper[s] + queued[s] < MaxQueue
          /\ upper' = [upper EXCEPT ![s] = @ + 1]
          /\ UNCHANGED downlink
     \/ /\ joined # {} /\ downlink < MaxDownlink
        /\ downlink' = downlink + 1
        /\ UNCHANGED upper
  /\ UNCHANGED <<queue, active, joined, queued, burst, grants, granted, available,
                 onAir, fault>>

\* associateTo of a subscriber, at any time.
Join(s) ==
  /\ ~fault
  /\ s \notin joined
  /\ joined' = joined \cup {s}
  /\ UNCHANGED <<queue, active, upper, queued, downlink, burst, grants, granted,
                 available, onAir, fault>>

Next == Dispatch \/ Arrive \/ \E s \in SS : Join(s)

Spec == Init /\ [][Next]_vars

\* The simulator goes on.  There is always a next event, so that this is weak
\* fairness of Dispatch, said without the ENABLED that TLC is slow to evaluate.
FairSpec == Spec /\ []<><<Dispatch>>_vars

---------------------------------------------------------------------------
\* Every variable has its type.
TypeOK ==
  /\ queue \in Seq(Event)
  /\ active \in [Station -> 1..End]
  /\ joined \subseteq SS
  /\ upper \in [SS -> 0..MaxQueue] /\ queued \in [SS -> 0..MaxQueue]
  /\ downlink \in 0..MaxDownlink
  /\ burst \subseteq Slot
  /\ grants \in Schedule
  /\ granted \in [SS -> SUBSET Slot]
  /\ available \in [SS -> BOOLEAN]
  /\ onAir \subseteq [who : Station, phase : Range(Phases), slot : Slot \cup {0}]
  /\ fault \in BOOLEAN

\* TimingControl::finishedPhase's assertions: a collector reports the end of
\* its phase while it is the active one and the timeout is set, whether the
\* report comes from its own timeout or from a broadcast that was received;
\* and no map reaches a collector that does not know its base station.
ReportsInTime == ~fault

\* Once the events of an instant are done, all stations are in the same
\* phase, whoever was created first and whatever each of them missed.
FramesAligned ==
  queue[1].left > 0 => \A s \in SS : active[s] = active[BS]

\* A transmission lies in its phase at every station, to the tick: nobody
\* still sends, or already listens, in the phase before or after.
SentInPhase ==
  \A t \in onAir, s \in Station : active[s] # End /\ Phases[active[s]] = t.phase

\* The two directions never share the air.
HalfDuplex == \A t, u \in onAir : t.who = BS <=> u.who = BS

\* Who sends in an uplink slot is the one the base station granted it to in
\* this frame, so no two collide, whatever maps were missed.
GrantHonoured ==
  \A t \in onAir : t.phase = "uldata" => grants[t.slot] = t.who

\* A frame's phases are all run before the next frame's first one starts:
\* startProcessingActivations never has to warn of an unfinished frame.
FrameCompletes ==
  [][\A s \in Station : active'[s] = 1 /\ active[s] # 1 => active[s] = End]_vars

\* When no broadcast is missed, a subscriber with a full queue gets to send.
UplinkServed ==
  \A s \in SS : upper[s] + queued[s] = MaxQueue ~> upper[s] + queued[s] < MaxQueue
==========================================================================
