# wimac: specification, model checking and proofs

openWNS `wimac` simulates the MAC layer of IEEE 802.16 (WiMAX): base stations
(access points, AP), fixed relay stations (FRS) and subscriber or user terminals
(SS, UT). This directory holds TLA+ modules written from its C++ source, TLC
runs over small deployments, and proofs checked by TLAPS.

All paths below are relative to the repository.

## 1. Inventory of the system

The program is one process driven by one event queue. There are no threads; what
makes it hard is that every station is an actor with timers of its own, that
calls run through several stations inside one event, and that much of the state
a station uses was written by another station at another time.

| Part | State | Operations | Used by / uses | What makes it correct |
|---|---|---|---|---|
| `ConnectionIdentifier`, `service::ConnectionManager` | the list of connections of a station; in an AP the next CID of the cell | append, lookups by CID, station, direction and QoS, delete, change, listening countdown | nearly everything looks connections up here | a CID names one connection; both ends of a hop hold the same ones |
| `service::AssociationControl` | the chosen target, measurements | `associateTo`, `createRecursiveConnection` | calls the managers of all stations up to the AP | every hop complete; no exception half-way |
| `StationManager`, `Component` | all stations by ID | register, `getCellID`, `getRing`, start of the frame builder | everything | the cell ID agrees with the CIDs in use |
| `relay::RSRelayMapper` | pairs of CIDs | `processIncoming`, `addMapping` | filled by the association, used per packet | owner, class and direction survive the relay |
| `ACKSwitch` | none (a command in the packet) | switch to the basic connection and back | above the relay mapper and the scheduler | an acknowledgement comes back to its data's connection |
| `ConnectionClassifier` | none | choose the connection of an outgoing packet | `UpperConvergence`, `ConnectionManager` | exactly one connection per target and class |
| `UpperConvergence`, `RANG` | class per flow, the flow counter; access point per terminal | establish flow, send, receive | upper layers | flows keep their class; terminals are found |
| `frame::TimingControl` | current activation, running flag, timers | start, periodic event, timeout, `finishedPhase` | drives the collectors | frames aligned, completed, every report in its phase |
| Frame head, DL map, UL map and data collectors | timers, the held UL map and its validity | start, receive, collect | timing control, `PhyUser`, schedulers | nothing sent outside its phase; a grant used in its frame only |
| `scheduler::Scheduler` and callbacks | queue, `accepting_`, the last schedule, packets to send | collect, schedule, deliver | collectors, strategies of a library | waiting packets get through |
| `PhyUser`, `PhyAccessFunc` | interference of the current slot | start and stop of transmissions, `filter` | PHY of a library | only the addressed station takes a packet |
| `RegistryProxyWiMAC`, `SpaceTimeSectorizationRegistryProxy` | known users; the sectors | user of a CID, connections per user, direction and priority, filters of users, CQI | strategies, on the tables of the manager | users and connections lead to each other; no filter leaves anybody out for good |
| `QueueManager` | caches of queues and collectors per CID | `getQueue`, `getAllQueues`, `startCollection` | master of the uplink | a cache names the subscriber of a registered CID |
| `BypassQueue` | the checker of a query, the packet being handed down | queries that wake up the units above, `put`, `getHeadOfLinePDU` | strategies; wakes the units above | answers are true, only what is asked for is taken |
| `PseudoBWRequestGenerator` | none (fake packets in a scheduler) | `wakeup` | looks into the stations below | everything that waits is asked for, once |
| `InterferenceCache` | averages and squares per node and subband | store, get | `PhyUser`, registry | the two averages stay in step, values within what was stored |
| `ErrorModelling`, `parameter::PHY` | parameters | mappings | registry, PHY | numeric |
| `Logger`, probes, `PyConfig` | - | - | - | configuration and output |

`PROJECT.json` lists every part with its files ("components"), and under
"hazards" what in this code is hard to test, at its line, with the property that
watches it.

## 2. Modules

| Module | Models | Extends |
|---|---|---|
| `ConnectionTable` | the connection record and the pure lookups of `ConnectionManager` | - |
| `Association` | joining a cell: `AssociationControl`, registration in every manager, CID counter, relay maps | `ConnectionTable` |
| `AssociationProofs` | types and CIDs of `Association` | `Association`, TLAPS |
| `PathProofs` | paths and tables: the other theorems of `Association`, and `Registry` | `AssociationProofs`, `Registry` |
| `DataPathProofs` | theorems of `DataPath` | `DataPath`, `PathProofs` |
| `BandwidthProofs` | theorems of `BandwidthRequest` | `BandwidthRequest`, `PathProofs` |
| `Registry` | what schedulers ask `RegistryProxyWiMAC`, on the tables of `Association` | `Association` |
| `BandwidthRequest` | `PseudoBWRequestGenerator` over those tables, and the buffers it looks into | `Registry` |
| `DataPath` | packets, acknowledgements and flows over the connections, interleaved with associations | `Association` |
| `ConnectionManager` | one manager under all its operations, with its observers and `QueueManager` | `ConnectionTable` |
| `ConnectionRegister` | abstract specification: what a manager and its observers promise | - |
| `Frame` | the TDD frame of a cell, its timers and transmissions, and the uplink grants | - |
| `PhyAccess` | the callbacks and access functors, from a scheduling map to the air | - |
| `HarqReception` | deferred decoding in `DataCollector` | - |
| `FrameProofs` | theorems of `Frame` | `Frame`, TLAPS |
| `AccessProofs` | theorem of `PhyAccess` | `PhyAccess`, TLAPS |
| `AccessPointProofs` | theorems of `ConnectionManager`, with the refinement of `ConnectionRegister`, and of `HarqReception`, `SlotInterference`, `Sectorization` | those, TLAPS |
| `Measurement` | what `PhyUser` writes to the caches, frame head reports, and the choice of a base station | - |
| `SlotInterference` | the interference `PhyUser::filter` sums per slot | - |
| `InterferenceCache` | the smoothed values and their deviations | - |
| `Sectorization` | the groups of the sectorization proxy over time | - |
| `BypassQueue` | the queue without packets and its checkers | - |
| `StationProofs` | theorems of `Measurement`, `BypassQueue`, `InterferenceCache` | those, TLAPS |
| `MCAssociation`, `MCDataPath`, `MCFrame`, `MCBandwidthRequest`, `MCBypassQueue` | constants, symmetry and constraints for TLC | the module they name |
| `MCAccessPoint`, `MCStation` | several parts side by side for TLC | the parts |

Definitions called a *mutation* of another one are variants with a plausible
mistake in them. No behaviour of the system uses them; each shows that a
property tells the mistake from the code.

### Association

`table[s]` is the list `connectionIdentifiers_` of station `s`, `highestCID[a]`
the counter of access point `a`, `mappings[r]` the list of relay `r`. A call of
`associateTo` runs through several stations but inside one event, so `call` holds
the one call in progress and nothing else may happen while it runs. Its steps are

* `AssociateTo`: look up the target, store the ranging connection (CID 0);
* `Climb`: `getAndIncreaseHighestCellCID` passed on to the next base station,
  or the exception `CIDNotFound`;
* `Hop`: ten CIDs drawn at the access point, ten connections appended at both ends,
  ten mappings added in a relay, and at a relay the next hop begun.

The ten appends of a hop ask the same chain of stations for their CIDs with
nothing in between, so the ten climbs are one. `life` tells whether a station's
component was constructed; `cell` is a history variable. `OrderedStart` says that
a station waits for its target, as the start times of a scenario arrange; without
it stations may start in any order and the calls may fail.

### DataPath

A packet in `air` waits in the transmit queue of station `at`. `Transmit` is one
transmission and everything the receiver does with it in that event: the filter
of `PhyUser`, then relaying (`Forward`), or delivery with what `UpperConvergence`
and `RANG` learn from it and the acknowledgement that `ACKSwitch` sends off
(`Deliver`). The order in which queues are served is the scheduler's and left
open. `heard` stands for the network behind the gateway, which can only answer on
a flow it has had packets of.

`Acking` are the stations whose stack has an ARQ. Access points with relays are not
among them: as `BasicBelongs` shows, an access point sends the acknowledgement of a
relayed terminal's packet on the relay's own basic connection, and the relay then fails the assertion in
`src/src/relay/RelayMapper.cpp:117-123`.

### Frame

One base station and its subscribers. `queue` is the simulator's event queue,
ordered by time and, at equal times, by the order of scheduling; time is counted
from now, so the state is finite without a clock. The events are the periodic
event of a frame, the start of its activations, the timing control's timeout, a
collector's own timeout, and start and stop of a transmission. `Dispatch` executes
the next one; packets arrive and stations join in between. One tick is the
computational accuracy factor (1 ns), and the durations keep the order the
configured ones have. The head, map and data collectors differ in when they
report and when their transmission ends, by a tick or two, and this is kept.
The simulator, its timers and the scheduling strategy are library code, modelled
from how `src/` uses them; the strategy is any round robin that wastes no slot.

### Registry and BandwidthRequest

`RegistryProxyWiMAC` keeps nothing but the users it has returned, so `Registry` has
no variables: it is operators on `table`, and its properties are invariants of
`Association`. They hold in every state of every association, also while a call is
half done.

`BandwidthRequest` adds the packets in the buffers of the stations (`buffer`, each
known by its CID and its place among those of this CID)
and in front of a relay's uplink (`inject`), and the fake packets in the scheduler
of each base station. `Wakeup` is the whole handler. `asked` is a history variable:
how much waited for the base station in each station when it looked, found from the
stations' side of the tables, where the handler goes by the base station's.

### ConnectionManager and ConnectionRegister

One access point's manager. `table` maps the ordinal of an append to the entry it
made, so erasing leaves the others where they are, and the first match is that of
least ordinal. A packet is classified first (`Classify`), waits in the units above
(`above`) until the scheduler accepts, and is then put into the queue of its CID
(`Schedule`, `queued`). The scheduler observes deletions and drops its queues
(`Notified`); it does not ask whether the connection of a packet is still there, so a
packet can be put into a queue after its connection was deleted, and stay there. `cache` and `dcCache` are those of the
`QueueManager`; a queue and a `DataCollector` are named by the station they belong
to. `ended` says that an assertion failed or an exception left the manager, which
ends the simulation. The repository itself appends only; the deletions and changes
are the service's interface.

`ConnectionRegister` is a register of owners by CID. A CID that was given up is never
given to another connection, except the ranging CID. A packet sets out for a
registered connection only, but may arrive when that is gone; a deletion takes what
waits with it, not what is still coming. What is known of a CID is never unlearnt. The
refinement mapping forgets the order of the list, the kinds, the countdown and the
second cache; a CID is spent when the counter has passed it. `ImplementsRegister`
is what makes caches without invalidation sound.

### PhyAccess

The base station may form several beams, the spatial layers (`Layers`) of a time
slot, and the compounds of different layers may be on the air side by side, for
different times. `CallBack` is `startScheduling` of the base station's two
schedulers: it chooses any downlink and uplink map within the bounds, and makes the
functors of the downlink map and, with beamforming, the pattern setters of the
uplink map. What the uplink map grants a subscriber is in `granted`. `DeliverDL` and
`DeliverUL` are `deliverNow` of the base station's callbacks. `DeliverSchedule` is a
subscriber's: in the uplink phase it schedules what waits into the grants it has,
all of them or some, and delivers at once; base station and subscribers come in any
order. Then the functors' events take place (`StartTransmission`,
`StopTransmission`, `SetPattern`). `agenda` is the event queue, in the order of
scheduling. Bursts may touch, in a slot, between slots and between the phases.
`Frame` models the same transmissions at the level of phases and has the timers;
here the phases are exact and the transmissions are.

What a map may hold is the strategy's decision, which is library code. Assumed is
that a base station that forms beams gives a pattern to what has one destination,
and one that does not gives none; that the uplink grants a user one layer of a slot at a
time; that the compounds of one layer do not overlap; and that a subscriber fills
a grant from its start. `ULCallback` asserts the part about patterns, and throws for an
uplink compound without a destination.

### HarqReception, Measurement, SlotInterference, InterferenceCache, Sectorization

`HarqReception`: `OnTimeSlot` is `doOnData` of a slot, `DeliverReceived` the event it
scheduled; ticks may pass between them, and further slots arrive. `Fired` stands for
the pointer to an event that is over. The HARQ processes are a library's: they keep
what they get until `decode()`, and give up after `MaxTries`.

`Measurement`: `FrameHead` is one frame head received by all that let it through,
with any value at each and any of them unable to decode it; `Unicast` is a data
transmission; `AssociateNow` the decision time of `BestAtGivenTime`. `entry` says when
a sender's cache last got a value from a receiver, `stamp` is the receiver's
`cacheEntryTimeStamp`. One strategy is checked, `BestRxPower`; the others differ in
`Better`. The case that the strategy has heard nobody at its decision time ends the
simulation with an assertion and is left out.

`SlotInterference`: `Overhear` is the end of `filter` for a transmission that is for
somebody else, with and without a slot number, on two subbands, of which the first counts.

`InterferenceCache` counts power in a small unit, and rounds: a smoothed value is any
number within `Round` of the exact quotient, a square any within `RoundSquare`, each map
for itself, as the code rounds two doubles. `Drift` and `Deficit` are what such
errors can add up to (`ErrorAssumption`); they do not depend on the number of stores.
`heard` is the history of what was stored.

`Sectorization` has every number of sectors and subsectors within the bounds. The three
places where doubles show are choices: the number of a frame that is asked for as
the frame begins may be that of the frame before (`FrameNumber`), a direction a little
below zero becomes 2 pi, which is in no sector (`FullCircle` as a user), and a direction
on a border is in both sectors or in neither (`foundAbove`, `foundBelow`).

### BypassQueue

A query is an atomic call in the code, and yet packets arrive while it runs: waking
up a unit lets it work, which may bring packets to other units. So a query is
`Query`, then `Refuse` or `Put` of each unit in any order, with `Arrive` in between,
then `Return` or `ReturnHead`. `FilterReturn` is what the build makes of the missing
return statement. `known` and `announced` are what the scheduling strategy remembers
of earlier answers: it asks for a packet only of a connection it was told of, as the
strategies do.

## 3. Runs

| Run | Question | Bounds |
|---|---|---|
| `association` | joining in any order, failing calls included; what the registry answers meanwhile | 2 AP, 2 FRS, 2 UT: two cells, chains of two relays, two terminals at one relay |
| `basic_belongs` | *violated*: the basic connection found for a relayed terminal | 1 AP, 1 FRS, 1 UT |
| `data_path` | data, flows and acknowledgements: of terminals with and without a relay, of both directions without; any start order | 2 AP, one of which acknowledges, 1 FRS, 2 UT, 2 flows, 2 packets |
| `data_path_live` | do calls succeed and end when stations wait for their target, and is a terminal that sends found by the gateway | 1 AP, 2 FRS, 2 UT |
| `bandwidth_request` | is what waits below asked for | 1 AP, 2 FRS, 1 UT: a chain of two relays; 3 packets, 2 fake packets per connection |
| `frame` | frames that fill their duration to the last tick, with missed broadcasts | 2 SS, 2 slots, 2 uplink packets each, 1 downlink packet |
| `frame_live` | does a full queue get served | 2 SS, 4 packets for 2 slots |
| `frame_overrun` | *violated*: phases longer than the frame | 1 SS |
| `access_point` | manager, HARQ, interference cache, slot interference, sectors | 3 CIDs, 4 kinds, 2 subscribers, 1 packet of a kind above and 1 in a queue; 3 slots and a plain packet, 2 transmissions; 4 stores of 3 values; 2 cells, 2 slots, 3 frames; 3 sectors by 3 subsectors, 5 frames |
| `station` | physical access, measurement, bypass queue | 2 subscribers, 2 slots, 2 layers, 2 compounds in the two maps of a frame, 2 frames; AP, relay and terminal, 4 frames; 3 connections, 3 packets |
| `cache_deviation` | *violated*: the deviation of one power stored twice | 1 node, 2 stores |
| `bypass_filter` | *violated*: the checker without a return statement | 3 connections, 3 packets |

`access_point` and `station` check parts side by side. The parts share no variable, so
steps of different parts commute and an interleaving shows nothing that the parts
alone do not: in every behaviour one part moves (`part`) and the others stay as they
start. An invariant of a part is checked in all states of that part.

In `data_path` one of the access points acknowledges, and no relay joins it
(`RelaysApart`, a constraint): its cell has acknowledgements in both directions, the other
one those of terminals over a relay.

Two stations of each kind are enough for the properties that compare two of
them; chains of two relays are the shortest where a relay is both ends of a hop of
somebody else's, and where the recursion calls itself. Two packets let a packet
meet a later or an earlier one of its own terminal or of the other; both flows
are needed to confuse classes. In `frame` two subscribers compete for two slots
with up to four packets, and each may hold an old UL map while the other has a new
one. A frame repeats, so every reachable combination of queues and held maps meets
every phase. Three CIDs let one connection be deleted, another be appended
under the next CID, and the first one's cache entry still be there. Two compounds per
frame give every pair there is: one after the other in a slot, in two slots or phases, and
side by side in two layers, of equal or different length; what touches the next frame
meets it. The theorem is for any number of them. Four stores mix both origins with a first value in every order of three.
Three connections of two users in two units, two of them sharing a unit, a user or a
priority, tell every field a checker looks at from every other.

Deadlock is not checked where the system really has nothing left to do: when all
stations have joined or a call has failed (`Association` and what extends it), and
where a bound on frames, packets or stores ends the part. In `Frame` there is
always a next event, and deadlock is checked.

What the properties say, beside the type invariants:

* `CIDsUnique`, `CIDsUniqueInCell`: CIDs drawn by one station and stored by others
  never meet twice, in a table or in a cell.
* `EndpointsAgree`, `MappingsFaithful`, `RelayedPathComplete`: both ends of a hop
  agree; a relay's map keeps owner and kind and has one entry for each CID.
* `CellIDAgrees`, `OneConnectionPerQoS`: two ways to find the cell agree; the
  classifier finds one connection per class through any chain of relays.
* `UserIsMutual`: two stations that share a connection are each other's user of it.
* `RegistryAgrees`: both ends name the same connections outgoing and incoming
  (`OutgoingIsIncoming`), users and connections lead to each other
  (`ConnectionsRoundTrip`), filtering users does not end the simulation
  (`FilterDefined`), each user is reached in a class or as one with signaling only
  (`ClassOrSignaling`), each connection in the priority it has (`PriorityOnce`).
* `NeverFails`, `CallTerminates`: associations succeed when ordered, and end.
* `RequestsSound`, `AsksForAllThatWaits`: fake packets are for users, once each, and
  of uplink connections; as many as waited below.
* `NoAssertionFails`: the assertions of the classifier and the relay mapper.
* `OnCourse`, `AckNamesItsData`: a packet is on its own terminal's connection of
  its class, one hop from a station that takes it; an acknowledgement names the
  connection of its data.
* `LearnedRight`, `TerminalIsFound`: the gateway and the access point know the
  terminal's cell (`LocationRight`) and a flow's class (`FlowKeepsClass`) from its
  packets alone; what is sent to it arrives.
* `ReportsInTime`: the assertions of `finishedPhase`.
* `FramesAligned`, `SentInPhase`, `HalfDuplex`: stations with timers of their own
  are in the same phase, and what is on the air belongs to it.
* `GrantHonoured`: an uplink slot is used by whom it was granted to in this frame.
* `FrameCompletes`, `UplinkServed`: no frame is cut off; a full queue is served.
* `ManagerSafe`: one entry per CID (`OneEntryPerCID`), packets that never meet the
  connection of another terminal under the CID they were classified to, not even when they
  outlive their own (`PacketsMeetTheirOwn`), caches that name the right subscriber
  (`CachesFaithful`); `FirstMatchStable`: lookups are not disturbed by other
  operations; `ImplementsRegister`: the refinement.
* `HarqSafe`, `EverySlotDecoded`: nothing is left in the buffer without an event, late
  or delivered twice; every slot is decoded.
* `CacheSafe`: the averages of value and square stay in step, in whichever way local and
  remote measurements mix, up to what rounding explains (`DeficitBounded`); averages lie
  within what was stored, up to an error that does not grow (`AverageNearHeard`).
* `SlotSafe`: what is stored for a slot was overheard in it (`StoredIsOneSlot`), and
  nothing else is lost (`NothingIsMissed`). `StoredIsOneSlot` says in which case two
  frames add up: when no other slot was heard between them. With one uplink slot the
  sum would never be stored.
* `SectorsFair`: in a cycle of frames that are numbered one after another every direction
  that is not on a border is scheduled once (`OncePerCycle`), and all groups are of one
  size (`GroupsAreEqual`).
* `AccessSafe`: a station that does not send listens, and one that sends does not if it
  has one beam (`ListensUnlessSending`). With several, the end of the first of the bursts
  side by side switches reception on during the others
  (`src/src/PhyAccessFunc.cpp:36`): then there is nobody to be heard, as what is on the air
  together is in one slot, in different beams and goes one way (`BeamsApart`). Those a
  burst is for listen throughout it (`DestinationListens`), under its own receive pattern
  (`PatternInPlace`); a frame leaves nothing behind (`FrameLeavesNothing`).
* `MeasurementSafe`: the entry of a terminal that its base station's scheduler works
  with is fresh (`EntryFresh`), time stamps are those of entries, and the strategy
  knows the best base station (`BestIsBest`). `EntryFresh` is for terminals: a relay's
  time stamp is moved by what its subscribers send, and nothing then renews the
  relay's entry in the cache of the station above.
* `BypassSafe`, `AnswersTrue`: no query moves a packet but the one that asks for it, the
  packet is the one asked for, and answers name what is there when they are given.

Fairness: a call is sequential code, hence weak fairness of its steps
(`FairSpec` of `Association`). `FairDataSpec` adds that a scheduler serves every
terminal's packets at a station in either direction again and again, which is
what the round robin strategies of the configurations do. `FairSpec` of `Frame` and
`HarqFairness` say that the simulator goes on: its event scheduler gets to every
event that is in it.

## 4. Findings

* `basic_belongs`: `getBasicConnectionFor(CID)` promises the basic connection that
  belongs to the given one, for the ACK switch, and ignores whose it is.
* `frame_overrun`: the constructor of the timing control sums up pauses only, as
  `Start` is 0 and `action &&` excludes it. Phases that do not fit are accepted, and
  every frame is cut off by the next.
* `bypass_filter`: `FilterQueued::operator()` in `BypassQueue.cpp:75` has no return
  statement. In a build where it happens to return true, a query takes a packet out
  of a unit above, and the next `getHeadOfLinePDU` returns it for another connection.
* `cache_deviation`: `getCarrierDeviation` promises the deviation of the measured power. It is
  the root of the smoothed square less the square of the smoothed value, and these are
  rounded apart. In doubles, with alpha 0.2, 3 mW stored twice give the average
  3.0000000000000004 and the square 9.0: the argument of the root is -3.6e-15. The
  configured default is alpha 1.0, and nothing in the repository asks for a deviation.

## 5. Proofs

`AssociationProofs` proves for all finite sets of access points, relays and
terminals and both start disciplines, from `StationAssumption` alone:

* `TypeCorrect`: `Spec => []TypeOK`;
* `UniqueCIDs`: `Spec => []CIDsUnique`;
* `UniqueCIDsInCell`: `Spec => []CIDsUniqueInCell`.

Neither uniqueness is inductive. A hop numbers its connections from the counter of
the access point the climb has ended at, and appends them to tables of stations
that might have been given CIDs by another one. The invariant `IInv` adds `CallOK`
(the asked station and the upper end of the hop are in the same cell, and the lower
end, which is no access point, is in none or in that one), `CellOK` (access points
number themselves, from 1 on), `RowsOK` (a numbered connection joins two stations of
one cell and is below the counter of that cell) and `Newcomers` (a station that has
not begun to associate is in no cell and holds no ranging connection).
Then the next ten CIDs are larger than any in the cell,
and the hop's own rows are the same at both ends. `Invariance` shows the initial
states, one step per action and the conclusion.

`PathProofs` goes on from there, for any trees of relays and both start disciplines. Its
invariant `PathInv` speaks of tables, relay maps and the call in progress together:

* `HopsShared`: a ranging connection is its station's own, every other one is held by both
  ends of its hop, beside a basic connection of the same hop;
* `Attached`: a station in a cell has a ranging and a basic connection, and all of its
  connections upwards lead to one base station;
* `Serves`: the station a connection is for is in the cell, and connected to a relay if
  the connection does not end there; `ServedOnce` and `TerminalsOwn`: an access point has the ten
  connections of one hop for each station that joined, and a terminal those of its own hop only;
* `CallBuilds`: what the call in progress has built below the relay it has come to;
* `MappingsFaithful`, `MappingsOnce`, `MappingsComplete`: a relay's mappings join connections of one
  terminal and kind, no CID is in two of them, and only what the call has still to map
  (`Pending`) is in none;
* `NeverFails`, which says something only where `OrderedStart` holds.

A second invariant, `Climbs`, says that a station drew some CID before those below it did:
the way up over ranging connections descends in the CIDs and so ends at an access
point, whose cell it is. From the two follow

* `EndpointsAlwaysAgree`, `MappingsAlwaysFaithful`, `RelaysAlwaysForward`, `OnePerClass`,
  `OrderedNeverFails`, `CellIDAlwaysAgrees`: the safety properties of `Association`;
* `UsersMutual` and `RegistryAlwaysAgrees`: those of `Registry`, which look at
  positions, at filters and at both fields of a row.

`DataPathProofs` adds packets. `DataInv` says where the data of a terminal can be:
every packet in a queue is on a row of its terminal, direction and class that leads one
hop further (`TerminalHops`), and what an access point or the gateway has learned is what
a packet has told it truthfully. With associations interleaved, rows only get more
(`DataIsAssociation`: every step of `DataPath` is one of `Association` or leaves it alone), so
packets stay where they are. It gives `AlwaysLearnedRight` without any condition. What
concerns acknowledgements needs one, `AcksDirect`: access points with relays do not
acknowledge. `BasicBelongs`, whose run fails, is the reason: without the condition the
assertion of the relay mapper is not true of the code. Under it, `AckInv` follows the CID an
acknowledgement carries back along the path, for `NoneFails`, `AlwaysOnCourse` and
`AcksNameTheirData`.

`BandwidthProofs` adds what waits for an uplink, from `BandwidthAssumption`.

* `RequestsAlwaysSound`: `RequestSpec => []RequestsSound`;
* `AlwaysAsksForAll`: `RequestSpec => []AsksForAllThatWaits`.

The handler asks a station below about the connections that the base station's table
calls incoming, a relay's being those of both of its sides. That they are the connections
by which the station sends up to this base station (`AskedIsUpward`) takes both invariants
of `PathProofs`: by `PathInv` the two ends hold the same rows, and by `Climbs` no two
stations are each other's base station (`NoneBothWays`), as each would have drawn a CID
before the other. So at the moment of the request the two amounts are equal.
Afterwards packets come and go and stations associate while the request stands.
`RequestInv` therefore speaks of the connections the fake packets are on (`Matches`), and
those stay, since no connection is lost (`NothingIsLost`) and none gets an old
CID (`MatchesStay`). The rest of it bounds what waits, for the types.

`AccessPointProofs` has four parts. The first is about `ConnectionManager`, for any stations,
kinds of connections and bounds, from `ManagerAssumption`:

* `ManagerIsSafe`: `ManagerSpec => []ManagerSafe`;
* `LookupsAreStable`: `ManagerSpec => FirstMatchStable`;
* `ManagerIsRegister`: `ManagerSpec => ImplementsRegister`.

`ManagerSafe` is not inductive: a new CID might be in the list, in a cache that was
filled for a connection deleted since, or on a packet that has outlived one. The
invariant adds `RowsBehind`, `CachesBehind` and `PacketsBehind`: the counter is ahead of all
of them, and CID 0, the only one that comes again, is never that of data. There is one lemma per group of operations (`EraseStep`,
`AppendStep`, `AlikeStep` for all changes, `LookupStep`, and `ClassifyStep` and `MovedStep` for
packets); `Alike` says that two lists
differ in countdowns only, `Faithful` what every store of the QueueManager satisfies.
`FirstMatchStable` follows from `ListKeepsOrder`. For the refinement,
`OwnersAre` describes the abstract register by the entries of the list, and each
operation is shown to be its abstract step: an append enrols or spends, a deletion
strikes, a change stutters, a packet sets out, arrives and is served, a lookup learns.

Its other parts are proved from `HarqAssumption`, `SlotAssumption` and `SectorAssumption`.

* `HarqIsSafe`: `HarqSpec => []HarqSafe`, for any PDUs and any limit of transmissions. The
  parts of `HarqSafe` are inductive together: `DecodedInTime` bounds the age of what waits
  by the event, and `PendingIffBuffered` says that there is one.
* `SlotsAlwaysSafe`: `SlotSpec => []SlotSafe`. `SlotInv` adds when everything was heard:
  nothing overheard is later than now (`HeardByNow`), the sum in progress is of one slot
  and uninterrupted (`CountedIsOneSlot`), and what was stored is not counted again
  (`StoredIsOver`). A sum over a finite set is a recursion that takes away an
  element of its own choice; that any element will do (`AddsAnyOrder`) is
  proved by a smallest counterexample, as the prover cannot be given an induction
  hypothesis.
* `SectorsAlwaysFair`: `SectorSpec => []SectorsFair`, for any numbers of sectors and subsectors
  that divide the circle, and however numbers and borders are rounded. `SectorInv` says that
  the answers so far are those of the numbers calculated. That every clear direction is
  asked once in a cycle of consecutive numbers is then a fact on remainders (`OneRest`), and
  that the groups are equally large one on a bijection with the clear directions of a
  single group (`GroupSize`). Consecutive numbers are a hypothesis, not a result: when the
  rounding changes from one frame to the next, a group has two turns and another none.

`StationProofs` holds three short ones.

* `AlwaysMeasured`: `MeasureSpec => []MeasurementSafe`, from `MeasurementAssumption`. A terminal has one time
  stamp for all stations it hears, so the invariant has to say why a fresh stamp is that of
  its base station's entry: nothing was written in a later frame (`NotAhead`), who could
  hear a frame head has written lately (`HeardLately`), and since it associated a terminal
  writes to its base station's cache only (`OnlyOfBase`).
* `AlwaysServed` and `AnswersAlwaysTrue`: the properties of `BypassQueue`, for packets that
  arrive during a query, under `FilterReturn = {FALSE}`. This is the build in which the
  missing return statement does no harm; run `bypass_filter` shows that the other outcome
  breaks the property, so the theorem cannot do without the hypothesis.
* `CacheAlwaysSafe`: `CacheSpec => []CacheSafe`, from `CacheAssumption` and `ErrorAssumption`. Exact
  weighted averages keep the square of the mean below the mean of the squares
  (`MeanOfSquares`); with two rounded ones, `SmoothedTogether` shows that a store shrinks the
  deficit there was by the part the old value keeps, and adds no more than its own error.
  `InStep` ties the two series to each other, `Near` each to what was stored.

`FrameProofs` proves all safety properties of `Frame` for any number of subscribers, under
`FrameFits`: `StartupDelay` is 0, which is the default of `FrameBuilder.py`, pauses take time, and the phases
end within the frame. Run `frame_overrun` shows that the last is needed: the code accepts
phases that do not fit and then cuts frames off. `FrameInv` reads the event queue as a
set and finds clocks that agree with it (`Runs`): the ticks to each station's next frame (`P`)
and next activation (`T`), and the stations whose frame is about to start (`W`). They
determine in which phase a station is, and agree between stations. Of events at one
instant `Rank` and `Tie` say which come first, since a report that came after
the timeout of its phase would be an error. The invariant was found with TLC, which checked it on `MCFrame`. It gives
`FrameTyped`, `ReportsAlwaysInTime`, `FramesAlwaysAligned`, `AlwaysSentInPhase`,
`AlwaysHalfDuplex`, `GrantsAlwaysHonoured` and `FramesComplete`, the last of which is an action
property.

`AccessProofs` proves `AccessAlwaysSafe` from `AccessInv`, for any number of beams and either
value of `Beamforming`. Its core is that there is one plan of the frame (`GoodPlan`: two bursts are
one after the other, or `Beside` each other in different beams of a slot and in one direction;
none leaves its phase) of which everything to come is a part (`Follows`): what waits in the
callbacks (`Scheduled`), what a subscriber may still send in its grants (`GrantsFit`), the
agenda of the event scheduler and the bursts on the air. The plan holds every burst a subscriber
might choose for a grant; of such `Rivals` one is sent (`NoRivals`). The agenda is read as
a set, so that the order in which events of one tick are delivered does not matter. `WillStop`
says that what was started will be stopped, `HasPattern` that a base station's receive pattern
is set, or due, before its burst.

Assumptions on the constants are those the modules name, and TLC evaluates them in every run.

Model-checked only is liveness (`CallTerminates`, `UplinkServed`, `TerminalIsFound`, `EverySlotDecoded`), as
the prover handles neither fairness nor ENABLED.

## 6. What is left out, and the plan

Left out for good: floating-point computations (error models, channel quality
estimates, transmit powers, the calculation of patterns), probes, logging and the construction of
stacks. The registry's power capabilities are configuration. That the sectors take turns
when the rounding of the frame number changes in between is not claimed, as the code
does not provide it. The double-basic and
singularity deletions of the manager are called from commented-out lines only.
The repository's tests cover the ACK switch and the interference cache alone.

Next, in this order:

1. Parallel subchannels in `PhyAccess`; pause and stop, and arbitrary activation
   lists, in `Frame`.
2. Handover in `DataPath`: `removeAddress`, stale flows.
