------------------------ MODULE SlotInterference ------------------------
(***************************************************************************)
(* How an access point measures the interference of other cells per time   *)
(* slot (the end of PhyUser::filter).  It overhears the unicasts that are  *)
(* for somebody else and sums their power; a slot's sum is written to its  *)
(* own interference cache when the first transmission of another slot      *)
(* arrives, which may be in a later frame.  Only what an ULCallback or a   *)
(* beamforming DLCallback sends carries its slot; all else has slot -1.    *)
(***************************************************************************)
EXTENDS Integers, Sequences, FiniteSets, FiniteSetsExt

CONSTANTS
  UplinkSlots,     \* time slots of the uplink phase
  Cell,      \* other cells: each sends at most one burst per slot
  Power,     \* with what power its bursts are received, linear
  MaxFramesHeard   \* bound: frames looked at

ASSUME SlotAssumption ==
  /\ UplinkSlots \in Nat \ {0} /\ MaxFramesHeard \in Nat \ {0} /\ IsFiniteSet(Cell)
  /\ Power \in [Cell -> Nat]

VARIABLES
  frameNumber, slot,           \* where the clock is
  sent,                  \* cells that have sent in this slot
  lastInterferenceSlot,
  interferenceForSlot,
  stored,                \* what was written, in order: its slot and its sum
  counted,               \* what is in interferenceForSlot: frame, slot and cell (history)
  storedFrom,            \* the same for each element of stored (history)
  overheard              \* all that should be measured (history)

slotVars == <<frameNumber, slot, sent, lastInterferenceSlot, interferenceForSlot, stored,
          counted, storedFrom, overheard>>

NoSlot == -1
Silence == 0 \* -200 dBm

SlotInit ==
  /\ frameNumber = 1 /\ slot = 0 /\ sent = {}
  /\ lastInterferenceSlot = NoSlot
  /\ interferenceForSlot = Silence
  /\ stored = <<>> /\ storedFrom = <<>>
  /\ counted = {} /\ overheard = {}

Measured(timeSlot, subBand) == timeSlot >= 0 /\ subBand = 0

\* The slot a sum is stored for when a transmission of slot k arrives.
StoredSlot(k) == lastInterferenceSlot

\* Mutation of Restart: the sum goes on over all slots.
RestartNot == interferenceForSlot

Restart == Silence

\* Mutation of Begun: the first transmission stores a sum as well.
BegunAlways(k) == k # lastInterferenceSlot

\* A slot that had a sum is over when a transmission of slot k arrives.
Begun(k) == k # lastInterferenceSlot /\ lastInterferenceSlot # NoSlot

\* Mutation of Sum: the transmission that begins a slot is lost.
SumLate(k, p) == IF k # lastInterferenceSlot THEN Restart ELSE interferenceForSlot + p

\* interferenceForSlot after a transmission of slot k
Sum(k, p) == (IF k # lastInterferenceSlot THEN Restart ELSE interferenceForSlot) + p

\* storeInterference(own node, interferenceForSlot, Local, lastInterferenceSlot)
Store(k) ==
  IF Begun(k)
    THEN /\ stored' = Append(stored, [slot |-> StoredSlot(k), sum |-> interferenceForSlot])
         /\ storedFrom' = Append(storedFrom, counted)
    ELSE UNCHANGED <<stored, storedFrom>>

\* The burst of cell c in this slot ends: it is for somebody else.
Overhear(c, timeSlot, subBand) ==
  LET burst == [frameNumber |-> frameNumber, slot |-> slot, cell |-> c]
  IN  /\ c \notin sent
      /\ sent' = sent \cup {c}
      /\ \/ /\ Measured(timeSlot, subBand)
            /\ Store(timeSlot)
            /\ interferenceForSlot' = Sum(timeSlot, Power[c])
            /\ lastInterferenceSlot' = timeSlot
            /\ counted' = (IF timeSlot # lastInterferenceSlot THEN {} ELSE counted) \cup {burst}
         \/ /\ ~Measured(timeSlot, subBand)
            /\ UNCHANGED <<lastInterferenceSlot, interferenceForSlot, stored, counted,
                           storedFrom>>
      /\ overheard' = IF timeSlot >= 0 /\ subBand = 0 THEN overheard \cup {burst}
                      ELSE overheard
      /\ UNCHANGED <<frameNumber, slot>>

\* The next slot, of this frame or the next one.
NextSlot ==
  /\ sent' = {}
  /\ slot' = (slot + 1) % UplinkSlots
  /\ frameNumber' = IF slot' = 0 THEN frameNumber + 1 ELSE frameNumber
  /\ frameNumber' <= MaxFramesHeard
  /\ UNCHANGED <<lastInterferenceSlot, interferenceForSlot, stored, counted, storedFrom,
                 overheard>>

SlotNext ==
  \/ \E c \in Cell, b \in {0, 1}, k \in {slot, NoSlot} : Overhear(c, k, b)
  \/ NextSlot

SlotSpec == SlotInit /\ [][SlotNext]_slotVars

---------------------------------------------------------------------------
Total(B) == MapThenSumSet(LAMBDA b : Power[b.cell], B)

\* Every variable has its type.
SlotTypeOK ==
  /\ frameNumber \in 1..MaxFramesHeard /\ slot \in 0..(UplinkSlots - 1)
  /\ sent \subseteq Cell
  /\ lastInterferenceSlot \in NoSlot..(UplinkSlots - 1)
  /\ interferenceForSlot \in Nat
  /\ stored \in Seq([slot : 0..(UplinkSlots - 1), sum : Nat])
  /\ Len(storedFrom) = Len(stored)

\* What is stored for a slot is what was overheard in that slot, with nothing
\* of another slot in it; all of one frame, unless nothing was overheard in
\* any other slot between the frames, when they add up.
StoredIsOneSlot ==
  \A n \in DOMAIN stored : LET B == storedFrom[n] IN
    /\ stored[n].sum = Total(B)
    /\ \A b \in B : b.slot = stored[n].slot
    /\ \A b, d \in B : b.frameNumber < d.frameNumber =>
         ~ \E o \in overheard : /\ o.slot # stored[n].slot
                                /\ o.frameNumber * UplinkSlots + o.slot \in
                                     (b.frameNumber * UplinkSlots + b.slot)..(d.frameNumber * UplinkSlots + d.slot)

\* Everything that should be measured is: it has been stored, once, or is in
\* the sum of the slot that goes on.
NothingIsMissed ==
  /\ overheard = counted \cup UNION {storedFrom[n] : n \in DOMAIN stored}
  /\ interferenceForSlot = Total(counted)
  /\ \A m, n \in DOMAIN stored : m # n => storedFrom[m] \cap storedFrom[n] = {}

\* Each slot's interference is measured, once, and attributed to the slot.
SlotSafe == SlotTypeOK /\ StoredIsOneSlot /\ NothingIsMissed
==========================================================================
