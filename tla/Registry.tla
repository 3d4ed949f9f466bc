---------------------------- MODULE Registry ----------------------------
(***************************************************************************)
(* RegistryProxyWiMAC: what a scheduler asks about its users, answered     *)
(* from the station's connection table while stations associate.  A user   *)
(* is another station; the registry knows those that getUserForCID has     *)
(* returned.  It keeps nothing else, so these are operators on the table.  *)
(***************************************************************************)
EXTENDS Association

NoQoS == "NoQoS"
Priorities == QoSCategory \cup {NoQoS} \* 0 to MaxQoSCategory, by name

\* Connections as the registry returns them: CIDs.
CIDsOf(s, S) == {table[s][i].cid : i \in S}

\* Mutation of User: a relay's users are always its subscribers.
UserBelow(s, i) ==
  LET c == table[s][i]
  IN  IF s \in UT THEN c.baseStation ELSE c.subscriberStation

\* The user of the connection at position i of table s: the station at the
\* other end of the hop.
User(s, i) ==
  LET c == table[s][i]
  IN  IF s \in AP \/ (s \in FRS /\ c.baseStation = s)
        THEN c.subscriberStation ELSE c.baseStation

\* userId2StationId once getUserForCID was asked for every connection
Users(s) == {User(s, i) : i \in DOMAIN table[s]}

\* The elements of t at the positions S, in order.
Select(t, S) ==
  LET at[n \in 0..Len(t)] ==
        IF n = 0 THEN <<>> ELSE IF n \in S THEN Append(at[n - 1], t[n]) ELSE at[n - 1]
  IN  at[Len(t)]

\* Mutation of ConnectionsForUser: only what leads to the user.
ConnectionsOutgoing(s, u) == Select(table[s], Outgoing(table[s], TypeOf(s), u))

\* getConnectionsForUser: what leads to the user, then what comes from it.
ConnectionsForUser(s, u) ==
  Select(table[s], Outgoing(table[s], TypeOf(s), u))
  \o Select(table[s], Incoming(table[s], TypeOf(s), u))

\* filterListening asks for the user's basic connection, with the user as the
\* subscriber; without one CIDNotFound ends the simulation.  No connection's
\* ciNotListening_ is ever raised, so all users are listening.
Listening(s, u) == BasicForStation(table[s], u) # {}

\* Mutation of FilterQoSbased: users of any class have signaling as well.
FilterQoSEach(s, U, q) ==
  {u \in U : \E i \in OfSubscriber(table[s], u) : table[s][i].kind.qos = q}

\* filterQoSbased: users with a connection of class q; for Signaling, those
\* with no connection of any other class.
FilterQoSbased(s, U, q) ==
  {u \in U : LET classes == {table[s][i].kind.qos : i \in OfSubscriber(table[s], u)}
             IN  q \in classes /\ (q = "Signaling" => classes = {"Signaling"})}

\* filterReachable when switchFilterTo was called with q last
FilterReachable(s, U, q) == IF q = NoQoS THEN U ELSE FilterQoSbased(s, U, q)

\* Mutation of ConnectionsForPriority: the other direction.
ConnectionsOtherWay(s, isDL, q) ==
  CIDsOf(s, AllData(table[s], "Downlink", q) \cup
            AllData(table[s], IF isDL THEN "Uplink" ELSE "Downlink", q))

\* getConnectionsForPriority: the downlink connections come in any case.
ConnectionsForPriority(s, isDL, q) ==
  CIDsOf(s, AllData(table[s], "Downlink", q) \cup
            AllData(table[s], IF isDL THEN "Downlink" ELSE "Uplink", q))

\* getPriorityForConnection
PriorityForConnection(s, cid) == {table[s][i].kind.qos : i \in WithID(table[s], cid)}

---------------------------------------------------------------------------
\* Two stations that share a connection are each other's user of it, over
\* every hop of a relayed path, so that what one schedules for the other
\* arrives where its CID is registered.  The ranging connection is the
\* subscriber's own.
UserIsMutual ==
  \A s \in Station : \A i \in DOMAIN table[s] : table[s][i].cid # 0 =>
    \E j \in DOMAIN table[User(s, i)] :
      /\ table[User(s, i)][j] = table[s][i]
      /\ User(User(s, i), j) = s

\* getUserForCID and getConnectionsForUser are each other's inverse for every
\* user a registry knows; the two look at different fields of the table.
ConnectionsRoundTrip ==
  \A s \in Station : \A u \in Users(s) :
    {c.cid : c \in Range(ConnectionsForUser(s, u))}
    = CIDsOf(s, {i \in DOMAIN table[s] : User(s, i) = u})

\* A user of an access point or relay that is not its own base station can
\* be filtered: the lookup of its basic connection does not end the
\* simulation.  (Of its base station a relay or terminal must not ask.)
FilterDefined ==
  call.pc = "idle" =>
    \A s \in AP \cup FRS : \A u \in Users(s) :
      OfSubscriber(table[s], u) # {} => Listening(s, u)

\* Scheduling class by class reaches every user below: each is reached in
\* some class or as one that only has signaling, never both.
ClassOrSignaling ==
  \A s \in AP \cup FRS : LET below == {u \in Users(s) : OfSubscriber(table[s], u) # {}} IN
    /\ below = UNION {FilterReachable(s, below, q) : q \in QoSCategory}
    /\ \A q \in DataQoS : FilterReachable(s, below, q)
                            \cap FilterReachable(s, below, "Signaling") = {}

\* Every data connection that a scheduler of its direction has to serve is
\* found in exactly the priority getPriorityForConnection gives it.
PriorityOnce ==
  \A s \in Station, isDL \in BOOLEAN :
    \A i \in DataOf(table[s], IF isDL THEN "Downlink" ELSE "Uplink") :
      {q \in Priorities : table[s][i].cid \in ConnectionsForPriority(s, isDL, q)}
      = PriorityForConnection(s, table[s][i].cid)

\* The registry is consistent: both ends ask about the same connections,
\* users and connections lead to each other, filters are defined, and each
\* user and each connection is served in one class.
RegistryAgrees ==
  /\ OutgoingIsIncoming
  /\ ConnectionsRoundTrip
  /\ FilterDefined
  /\ ClassOrSignaling
  /\ PriorityOnce
==========================================================================
