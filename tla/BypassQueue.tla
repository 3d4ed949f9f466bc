--------------------------- MODULE BypassQueue ---------------------------
(***************************************************************************)
(* wimac::scheduler::BypassQueue, the queue of a scheduler that keeps no   *)
(* packets: it leaves them in the functional units above.  A query of the  *)
(* queue installs a checker in place of the acceptance test, wakes up the  *)
(* units above, each of which offers the packet at its head, and reads     *)
(* from the checker what it was offered.  getHeadOfLinePDU is the one      *)
(* query whose checker accepts, one packet, which put() keeps in current_  *)
(* until the query returns it.                                             *)
(*                                                                         *)
(* The units are woken in any order (their receptors rotate) and may be    *)
(* given new packets at any time, also while a query runs.  The scheduling *)
(* strategy asks for a packet only of a connection it has been told of.    *)
(***************************************************************************)
EXTENDS Naturals, Sequences, FiniteSets

CONSTANTS
  QueueCID, User, Priority,
  UserOf, PriorityOf, \* of every connection: the RegistryProxy
  Unit,               \* the functional units that are woken up
  UnitOf,             \* of every connection: the unit its packets come from
  Size,               \* lengths of packets in bits
  FilterReturn,       \* FilterQueued's operator() has no return statement:
                      \* the values a build may return
  None,
  MaxArrivals              \* bound: packets in all

ASSUME BypassAssumption ==
  /\ UserOf \in [QueueCID -> User] /\ PriorityOf \in [QueueCID -> Priority]
  /\ UnitOf \in [QueueCID -> Unit]
  /\ Size \subseteq Nat \ {0} /\ 0 \notin Size
  /\ FilterReturn \in (SUBSET BOOLEAN) \ {{}}
  /\ MaxArrivals \in Nat

VARIABLES
  above,     \* the packets waiting in every unit
  checker,   \* isAcceptingChecker_
  found,     \* the checker's result_
  toWake,    \* the units that have yet to answer the wakeup
  current,   \* current_
  failed,    \* an assertion failed or an exception was thrown
  known,     \* the strategy's: connections it takes for active
  announced, \* the strategy's: bits of the next packet of a connection, or 0
  taken,     \* history: what getHeadOfLinePDU returned
  arrived    \* history: the number of packets

bypassVars == <<above, checker, found, toWake, current, failed, known, announced, taken, arrived>>

PDU     == [id : 1..MaxArrivals, cid : QueueCID, size : Size]
Heads   == {Head(above[u]) : u \in {v \in Unit : above[v] # << >>}}
Backlog == {u \in Unit : above[u] # << >>}

Checker ==
  [kind : {"QueueHasPDUs", "AcceptCID", "HeadOfLinePDUBits"}, arg : QueueCID]
  \cup [kind : {"FilterQueued"}, arg : SUBSET QueueCID]
  \cup [kind : {"ListUsers", "ListConnections"}, arg : {None}]
  \cup [kind : {"ListPriorityConns"}, arg : Priority]

ASSUME NoneAssumption == None \notin PDU /\ None \notin Checker

\* The connections a checker asks about.
Asked(check) ==
  {c \in QueueCID :
     \/ check.kind \in {"ListUsers", "ListConnections"}
     \/ check.kind \in {"QueueHasPDUs", "AcceptCID", "HeadOfLinePDUBits"} /\ c = check.arg
     \/ check.kind = "FilterQueued" /\ c \in check.arg
     \/ check.kind = "ListPriorityConns" /\ PriorityOf[c] = check.arg}

\* Mutation of AcceptCID: any number of packets is accepted.
AcceptCIDAll(check, p) == p.cid = check.arg

AcceptCID(check, p) == current = None /\ p.cid = check.arg

\* Mutation of Noted: HeadOfLinePDUBits takes the length of any packet.
NotedBitsOfAll(check, p) ==
  IF check.kind = "HeadOfLinePDUBits" THEN {p.size}
  ELSE IF p.cid \notin Asked(check) \/ check.kind = "AcceptCID" THEN {}
  ELSE IF check.kind = "ListUsers" THEN {UserOf[p.cid]}
  ELSE {p.cid}

\* What a checker notes of a packet it was offered.
Noted(check, p) ==
  IF p.cid \notin Asked(check) \/ check.kind = "AcceptCID" THEN {}
  ELSE IF check.kind = "ListUsers" THEN {UserOf[p.cid]}
  ELSE IF check.kind = "HeadOfLinePDUBits" THEN {p.size}
  ELSE {p.cid}

\* The values operator() may return.
Accepts(check, p) ==
  IF check.kind = "AcceptCID" THEN {AcceptCID(check, p)}
  ELSE IF check.kind = "FilterQueued" THEN FilterReturn
  ELSE {FALSE}

BypassInit ==
  /\ above = [u \in Unit |-> << >>]
  /\ checker = None /\ found = {} /\ toWake = {} /\ current = None
  /\ failed = FALSE
  /\ known = {}
  /\ announced = [c \in QueueCID |-> 0]
  /\ taken = << >>
  /\ arrived = 0

\* A unit above gets a packet.  Whatever it does then ends at isAccepting,
\* which is FALSE when no query runs; otherwise it offers the packet.
Arrive(c, size) ==
  /\ ~failed
  /\ arrived < MaxArrivals
  /\ arrived' = arrived + 1
  /\ LET u == UnitOf[c] IN
       /\ above' = [above EXCEPT ![u] = Append(@, [id |-> arrived + 1, cid |-> c, size |-> size])]
       /\ toWake' = IF checker = None THEN toWake ELSE toWake \cup {u}
  /\ UNCHANGED <<checker, found, current, failed, known, announced, taken>>

\* The first half of every query: the checker is set, the receptor woken up.
Query(check) ==
  /\ ~failed
  /\ checker = None
  /\ check.kind = "AcceptCID" => check.arg \in known
  /\ checker' = check
  /\ found' = {}
  /\ toWake' = Backlog
  /\ UNCHANGED <<above, current, failed, known, announced, taken, arrived>>

\* Mutation of Note: the result is that of the last packet.
NoteLast(u) == found' = Noted(checker, Head(above[u]))

\* The checker adds to its result.
Note(u) == found' = found \cup Noted(checker, Head(above[u]))

\* isAccepting refuses the packet at the head of u.
Refuse(u) ==
  /\ ~failed
  /\ u \in toWake
  /\ FALSE \in Accepts(checker, Head(above[u]))
  /\ Note(u)
  /\ toWake' = toWake \ {u}
  /\ UNCHANGED <<above, checker, current, failed, known, announced, taken, arrived>>

\* Mutation of Rest: a unit that has run empty is not done.
RestKept(u) == toWake

\* The units that go on when u has sent a packet.
Rest(u) == IF Tail(above[u]) = << >> THEN toWake \ {u} ELSE toWake

\* isAccepting accepts it, and schedule() and put() ask the checker again: the
\* packet is kept if they are told the same and nothing else has been kept.
\* The unit goes on to its next packet.
Put(u) ==
  LET p == Head(above[u]) IN
  /\ ~failed
  /\ u \in toWake
  /\ TRUE \in Accepts(checker, p)
  /\ Note(u)
  /\ \/ /\ current # None \/ FALSE \in Accepts(checker, p)
        /\ failed' = TRUE
        /\ UNCHANGED <<above, toWake, current>>
     \/ /\ current = None
        /\ current' = p
        /\ above' = [above EXCEPT ![u] = Tail(@)]
        /\ toWake' = Rest(u)
        /\ UNCHANGED failed
  /\ UNCHANGED <<checker, known, announced, taken, arrived>>

Answered == ~failed /\ checker # None /\ toWake = {}

\* Mutation of Cleared: current_ keeps the packet.
ClearedNot == current

\* getHeadOfLinePDU resets current_.
Cleared == None

\* The second half of getHeadOfLinePDU
ReturnHead ==
  /\ Answered
  /\ checker.kind = "AcceptCID"
  /\ checker' = None
  /\ known' = known \ {checker.arg}
  /\ announced' = [announced EXCEPT ![checker.arg] = 0]
  /\ IF current = None
       THEN failed' = TRUE /\ UNCHANGED <<taken, current>>
       ELSE /\ taken' = Append(taken, [asked |-> checker.arg, pdu |-> current,
                                       announced |-> announced[checker.arg]])
            /\ current' = Cleared
            /\ UNCHANGED failed
  /\ UNCHANGED <<above, found, toWake, arrived>>

\* Mutation of Told: the connection asked about is taken for active.
ToldAsked(check) == known \cup Asked(check)

\* What the strategy takes for active after the answer to check.
Told(check) == (known \ Asked(check)) \cup (found \cap QueueCID)

\* The second half of every other query
Return ==
  /\ Answered
  /\ checker.kind # "AcceptCID"
  /\ checker' = None
  /\ known' = IF checker.kind \in {"HeadOfLinePDUBits", "ListUsers"} THEN known ELSE Told(checker)
  /\ announced' =
       IF checker.kind # "HeadOfLinePDUBits" THEN announced
       ELSE [announced EXCEPT ![checker.arg] =
               IF found = {} THEN 0 ELSE CHOOSE n \in Size : n \in found]
  /\ UNCHANGED <<above, found, toWake, current, failed, taken, arrived>>

BypassNext ==
  \/ \E c \in QueueCID, size \in Size : Arrive(c, size)
  \/ \E check \in Checker : Query(check)
  \/ \E u \in Unit : Refuse(u) \/ Put(u)
  \/ ReturnHead
  \/ Return

BypassSpec == BypassInit /\ [][BypassNext]_bypassVars

---------------------------------------------------------------------------
\* Every variable has its type.
BypassTypeOK ==
  /\ \A u \in Unit : \A i \in DOMAIN above[u] : above[u][i] \in PDU
  /\ checker \in Checker \cup {None}
  /\ toWake \subseteq Backlog
  /\ current \in PDU \cup {None}
  /\ failed \in BOOLEAN
  /\ known \subseteq QueueCID
  /\ announced \in [QueueCID -> Size \cup {0}]
  /\ arrived \in 0..MaxArrivals

\* No assertion fails: a connection the strategy was told is active still has
\* a packet when its turn comes, whatever else was taken in between, and the
\* queue is never handed two.
NeverFails == ~failed

\* Queries move nothing: what has not been asked for stays above, so nothing
\* is left in current_ for the next query to find.
NothingLingers == checker = None => current = None

\* getHeadOfLinePDU returns a packet of the connection asked for, the oldest
\* one, of the length that was announced.
DeliversWhatWasAsked ==
  \A i \in DOMAIN taken :
    /\ taken[i].pdu.cid = taken[i].asked
    /\ taken[i].announced \in {0, taken[i].pdu.size}
    /\ \A j \in 1..(i - 1) :
         taken[j].pdu.cid = taken[i].pdu.cid => taken[j].pdu.id < taken[i].pdu.id

\* A scheduler that has no packets of its own is served as by a queue.
BypassSafe == BypassTypeOK /\ NeverFails /\ NothingLingers /\ DeliversWhatWasAsked

\* An answer names exactly what is at the heads of the units when it is given,
\* also when packets arrived during the query.
AnswersTrue ==
  [][checker # None /\ checker' = None /\ checker.kind # "AcceptCID" /\ current = None =>
       found = UNION {Noted(checker, p) : p \in Heads}]_bypassVars
==========================================================================
