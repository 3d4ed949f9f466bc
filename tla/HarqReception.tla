-------------------------- MODULE HarqReception --------------------------
(***************************************************************************)
(* Reception in frame::DataCollector.  What was received goes to the HARQ  *)
(* of the other direction's transmit scheduler and is decoded one          *)
(* nanosecond later, by one event for everything that arrived meanwhile:   *)
(* the slots of several subchannels end at the same time, in any order     *)
(* with the event of an earlier instant.  What was decoded goes up the     *)
(* stack; for what was not, the HARQ asks its peer to transmit again, and  *)
(* gives up after MaxTries transmissions.                                  *)
(***************************************************************************)
EXTENDS Naturals, FiniteSets

CONSTANTS
  PDU,      \* what is received, one PDU per time slot
  Slotted,  \* those that carry their schedulingTimeSlot
  MaxTries, \* transmissions of a PDU by the HARQ process
  None,     \* a pointer to no event
  Fired     \* a pointer to an event that has fired

ASSUME HarqAssumption ==
  /\ Slotted \subseteq PDU /\ IsFiniteSet(PDU)
  /\ MaxTries \in Nat \ {0}
  /\ None \notin Nat /\ Fired \notin Nat /\ Fired # None

VARIABLES
  status,    \* of every PDU: "sent", "received", "delivered" or "lost"
  tries,     \* how often it has been transmitted
  age,       \* ticks since it was last received
  event,     \* deliverReceivedEvent: ticks until it fires, or None
  delivered  \* how often the deliverer's acceptor got it

harqVars == <<status, tries, age, event, delivered>>

Delay  == 1 \* Utilities::getComputationalAccuracyFactor()
Buffer == {p \in Slotted : status[p] = "received"} \* in the HARQ

HarqInit ==
  /\ status = [p \in PDU |-> "sent"]
  /\ tries = [p \in PDU |-> 1]
  /\ age = [p \in PDU |-> 0]
  /\ event = None
  /\ delivered = [p \in PDU |-> 0]

\* Mutation of Armed: every slot starts the delay again.
ArmedAgain(e) == Delay

\* The event that is there is kept, otherwise one is scheduled.
Armed(e) == IF e = None THEN Delay ELSE e

\* doOnData of a PDU that is not subject to HARQ
OnData(p) ==
  /\ p \notin Slotted /\ status[p] = "sent"
  /\ status' = [status EXCEPT ![p] = "delivered"]
  /\ delivered' = [delivered EXCEPT ![p] = @ + 1]
  /\ UNCHANGED <<tries, age, event>>

\* doOnData of a slot: onTimeSlotReceived puts it into the HARQ.
OnTimeSlot(p) ==
  /\ p \in Slotted /\ status[p] = "sent"
  /\ status' = [status EXCEPT ![p] = "received"]
  /\ age' = [age EXCEPT ![p] = 0]
  /\ event' = Armed(event)
  /\ UNCHANGED <<tries, delivered>>

\* What becomes of slot p when ok were decoded.
Decoded(p, ok) ==
  IF p \in ok THEN "delivered" ELSE IF tries[p] < MaxTries THEN "sent" ELSE "lost"

\* Mutation of Reset: the event is not forgotten.
ResetNot(e) == Fired

\* deliverReceived forgets the event that has fired.
Reset(e) == None

\* Mutation of Taken: decode() leaves what it decoded in the buffer.
TakenAndKept(ok) ==
  [p \in PDU |-> IF p \in Buffer \ ok THEN Decoded(p, ok) ELSE status[p]]

\* decode() takes everything out of the buffer.
Taken(ok) == [p \in PDU |-> IF p \in Buffer THEN Decoded(p, ok) ELSE status[p]]

\* Mutation of Retried: one transmission too many is counted.
RetriedAlways(ok) ==
  [p \in PDU |-> IF p \in Buffer \ ok THEN tries[p] + 1 ELSE tries[p]]

\* The HARQ process of a slot that was not decoded starts over.
Retried(ok) ==
  [p \in PDU |-> IF p \in Buffer \ ok /\ tries[p] < MaxTries THEN tries[p] + 1 ELSE tries[p]]

\* deliverReceived; which slots can be decoded is up to the channel.
DeliverReceived ==
  /\ event = 0
  /\ event' = Reset(event)
  /\ \E ok \in SUBSET Buffer :
       /\ status' = Taken(ok)
       /\ tries' = Retried(ok)
       /\ delivered' = [p \in PDU |-> IF p \in ok THEN delivered[p] + 1 ELSE delivered[p]]
  /\ UNCHANGED age

\* A nanosecond passes; the event scheduler skips none that has events.
HarqTick ==
  /\ event \in 1..Delay
  /\ event' = event - 1
  /\ age' = [p \in PDU |-> IF p \in Buffer THEN age[p] + 1 ELSE age[p]]
  /\ UNCHANGED <<status, tries, delivered>>

HarqNext ==
  \/ \E p \in PDU : OnData(p) \/ OnTimeSlot(p)
  \/ DeliverReceived
  \/ HarqTick

\* The event scheduler gets to every event.
HarqFairness == WF_harqVars(DeliverReceived) /\ WF_harqVars(HarqTick)

HarqSpec == HarqInit /\ [][HarqNext]_harqVars /\ HarqFairness

---------------------------------------------------------------------------
\* Every variable has its type.
HarqTypeOK ==
  /\ status \in [PDU -> {"sent", "received", "delivered", "lost"}]
  /\ tries \in [PDU -> 1..MaxTries]
  /\ age \in [PDU -> 0..Delay]
  /\ event \in (0..Delay) \cup {None}
  /\ delivered \in [PDU -> Nat]

\* An event is pending exactly as long as something waits to be decoded: no
\* slot is left behind by an event that fired, and decode() never runs on
\* nothing.
PendingIffBuffered == (event # None) <=> (Buffer # {})

\* A slot that arrives while an event is pending never postpones it: whatever
\* was received first is decoded in time.
DecodedInTime ==
  \A p \in Buffer : event \in 0..(Delay - age[p])

\* The unit above gets a PDU once, however often it was transmitted, and
\* never one that the HARQ gave up.
DeliveredOnce ==
  \A p \in PDU : delivered[p] = IF status[p] = "delivered" THEN 1 ELSE 0

\* Deferring the decoding by an event loses, delays and repeats nothing.
HarqSafe == HarqTypeOK /\ PendingIffBuffered /\ DecodedInTime /\ DeliveredOnce

\* Every slot received is eventually decoded, successfully or not.
EverySlotDecoded ==
  \A p \in Slotted : status[p] = "received" ~> status[p] # "received"
==========================================================================
