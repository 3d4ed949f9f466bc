------------------------ MODULE ConnectionRegister ------------------------
(***************************************************************************)
(* What a ConnectionManager and its observers promise the rest of the MAC: *)
(* a register of connections by CID in which a CID, once given up, is not  *)
(* given to another connection; packets that are on their way for a        *)
(* registered connection, may arrive when it is gone, but never meet the   *)
(* connection of another; and whoever remembers the station behind a CID   *)
(* remembers it rightly for as long as the CID is registered.              *)
(* ConnectionManager is shown to implement it.                             *)
(***************************************************************************)
EXTENDS Naturals

CONSTANTS
  Name,      \* the CIDs
  Owner,     \* the stations a connection can belong to
  Target,    \* the stations a connection can serve
  Shared     \* the CIDs that may be given again: the ranging CID

VARIABLES
  register,  \* the owner and the target of each registered CID
  given,     \* the other CIDs, once they are spent
  coming,    \* the packets under way, by CID and target
  waiting,   \* the packets that wait in the queue of a CID
  known      \* the owners the master of the uplink remembers, by CID

regVars == <<register, given, coming, waiting, known>>

RInit ==
  /\ register = << >>
  /\ given = {}
  /\ coming = {}
  /\ waiting = {}
  /\ known = << >>

\* A CID that was never given before, or a shared one, is registered.
Enrol(cid, owner, target) ==
  /\ cid \notin DOMAIN register
  /\ cid \in Shared \/ cid \in given' \ given
  /\ given \subseteq given'
  /\ register' = [c \in DOMAIN register \cup {cid} |->
                    IF c = cid THEN [owner |-> owner, target |-> target]
                    ELSE register[c]]
  /\ UNCHANGED <<coming, waiting, known>>

\* CIDs are given to nobody.
Spend ==
  /\ given \subseteq given'
  /\ UNCHANGED <<register, coming, waiting, known>>

\* Connections are removed together with what waits for them, but not with
\* what is still coming.
Strike(gone) ==
  /\ register' = [c \in DOMAIN register \ gone |-> register[c]]
  /\ waiting' = {p \in waiting : p[1] \notin gone}
  /\ UNCHANGED <<given, coming, known>>

\* A packet sets out for the target of a registered connection.
SetOut(cid) ==
  /\ coming' = coming \cup {<<cid, register[cid].target>>}
  /\ UNCHANGED <<register, given, waiting, known>>

\* Only what has set out arrives, whether or not others like it follow.
Arrive(p) ==
  /\ waiting' = waiting \cup {p}
  /\ coming' \in {coming, coming \ {p}}
  /\ UNCHANGED <<register, given, known>>

Serve(p) ==
  /\ waiting' = waiting \ {p}
  /\ UNCHANGED <<register, given, coming, known>>

\* What is learnt of a CID is true at that moment and never unlearnt.
Learn(cids) ==
  /\ known' = [c \in DOMAIN known \cup cids |->
                 IF c \in DOMAIN known THEN known[c] ELSE register[c].owner]
  /\ UNCHANGED <<register, given, coming, waiting>>

RNext ==
  \/ \E cid \in Name, owner \in Owner, target \in Target : Enrol(cid, owner, target)
  \/ Spend
  \/ \E gone \in SUBSET DOMAIN register : Strike(gone)
  \/ \E cid \in DOMAIN register \ Shared : SetOut(cid)
  \/ \E p \in coming : Arrive(p)
  \/ \E p \in waiting : Serve(p)
  \/ \E cids \in SUBSET (DOMAIN register \ Shared) : Learn(cids)

RSpec == RInit /\ [][RNext]_regVars

\* What is known of a registered CID is true.
KnownIsTrue == \A c \in DOMAIN known \cap DOMAIN register : known[c] = register[c].owner
==========================================================================
