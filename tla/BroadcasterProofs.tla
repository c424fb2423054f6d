--------------------------- MODULE BroadcasterProofs ---------------------------
(***************************************************************************)
(* Theorems of the WebSocket broadcaster, for any connections, users,       *)
(* channels and uses of them.                                               *)
(***************************************************************************)
EXTENDS Broadcaster, TLAPS

\* The table holds the open connections.
TableOpen == \A c \in connections : socket[c] = "open"

\* A connection that has not been made has subscribed to nothing.
NewIsBlank == \A c \in Conns : socket[c] = "new" => channels[c] = {} /\ asks[c] = {}

\* Whoever a connection is, is taken for or is asked about, its client may be.
OwnLogins ==
    \A c \in Conns :
        /\ user[c] # NoUser => <<c, user[c]>> \in Logins
        /\ \A u \in auths[c] : <<c, u>> \in Logins
        /\ \A ask \in asks[c] : <<c, ask[2]>> \in Logins

\* Authorizers are asked, and their channels joined, for authenticated users only.
NamedInPrivate ==
    \A c \in Conns : user[c] = NoUser => channels[c] \subseteq Public /\ asks[c] = {}

\* The facts about connections that the agreement of the views rests on.
Orderly == TypeOK /\ TableOpen /\ NewIsBlank /\ OwnLogins /\ NamedInPrivate

-----------------------------------------------------------------------------
(* The connections. *)

LEMMA OrderlyInit == Init => Orderly
<1> SUFFICES ASSUME Init PROVE Orderly
  OBVIOUS
<1>1. TypeOK
  <2>1. members \in [Presence -> SUBSET Users] /\ roster \in [Conns -> [Presence -> SUBSET Users]]
    BY DEF Init
  <2>2. asks \in [Conns -> SUBSET (Slow \X Users)] /\ auths \in [Conns -> SUBSET Users]
    BY DEF Init
  <2>3. setup \in Setups /\ connections \subseteq Conns /\ stopped \in BOOLEAN
    BY DEF Init
  <2>4. /\ socket \in [Conns -> Sockets] /\ peer \in [Conns -> {"there", "gone"}]
        /\ user \in [Conns -> Users \cup {NoUser}] /\ channels \in [Conns -> SUBSET Channels]
        /\ quiet \in [Conns -> 0 .. 2]
    BY DEF Init, Sockets
  <2>5. QED
    BY <2>1, <2>2, <2>3, <2>4, Zenon DEF TypeOK
<1>2. TableOpen /\ NewIsBlank /\ OwnLogins /\ NamedInPrivate
  BY DEF Init, TableOpen, NewIsBlank, OwnLogins, NamedInPrivate
<1>3. QED
  BY <1>1, <1>2 DEF Orderly

\* A join keeps the types, whoever joins a presence channel being a user.
LEMMA JoinType ==
    ASSUME TypeOK, NEW c \in Conns, NEW ch \in Channels, NEW u,
           ch \in Presence => u \in Users, Join(c, ch, u)
    PROVE  /\ channels' \in [Conns -> SUBSET Channels]
           /\ members' \in [Presence -> SUBSET Users]
           /\ roster' \in [Conns -> [Presence -> SUBSET Users]]
<1> USE DEF TypeOK
<1>1. channels' \in [Conns -> SUBSET Channels]
  BY DEF Join
<1>2. CASE ch \in Presence
  <2>1. members' \in [Presence -> SUBSET Users]
    BY <1>2 DEF Join
  <2>2. \A d \in Conns : /\ [roster[c] EXCEPT ![ch] = members[ch] \cup {u}] \in [Presence -> SUBSET Users]
                         /\ [roster[d] EXCEPT ![ch] = @ \cup {u}] \in [Presence -> SUBSET Users]
    BY <1>2
  <2>3. roster' \in [Conns -> [Presence -> SUBSET Users]]
    <3>1. \A d \in Conns : roster'[d] \in { [roster[c] EXCEPT ![ch] = members[ch] \cup {u}],
                                            [roster[d] EXCEPT ![ch] = @ \cup {u}], roster[d] }
      BY <1>2 DEF Join
    <3>2. roster' = [d \in Conns |-> roster'[d]]
      BY <1>2 DEF Join
    <3>3. QED
      BY <2>2, <3>1, <3>2
  <2>4. QED
    BY <1>1, <2>1, <2>3
<1>3. CASE ch \notin Presence
  BY <1>1, <1>3 DEF Join
<1>4. QED
  BY <1>2, <1>3

LEMMA LeaveType ==
    ASSUME TypeOK, NEW c \in Conns, NEW S, Leave(c, S)
    PROVE  /\ members' \in [Presence -> SUBSET Users]
           /\ roster' \in [Conns -> [Presence -> SUBSET Users]]
BY DEF TypeOK, Leave

LEMMA OrderlyStep == Orderly /\ [Next]_vars => Orderly'
<1> SUFFICES ASSUME Orderly, [Next]_vars PROVE Orderly'
  OBVIOUS
<1> USE DEF Orderly, TypeOK, TableOpen, NewIsBlank, OwnLogins, NamedInPrivate, Logins, Slow,
        Sockets, tables
<1>1. CASE UNCHANGED vars
  BY <1>1 DEF vars, serverVars
<1>2. CASE Next
  <2>0. UNCHANGED setup
    BY <1>2 DEF Next
  <2>1. ASSUME NEW c \in Conns, Connect(c)
        PROVE  Orderly'
    BY <2>0, <2>1 DEF Connect
  <2>2. ASSUME NEW c \in Conns, OtherMessage(c)
        PROVE  Orderly'
    BY <2>0, <2>2 DEF OtherMessage, Receive
  <2>3. ASSUME NEW c \in Conns, NEW u \in Users, Auth(c, u)
        PROVE  Orderly'
    <3>1. <<c, u>> \in Logins /\ auths' = [auths EXCEPT ![c] = @ \cup {u}]
      BY <2>3 DEF Auth
    <3>2. UNCHANGED <<socket, peer, connections, stopped, user, channels, members, asks, roster>>
      BY <2>3 DEF Auth, Receive
    <3>3. quiet' \in [Conns -> 0 .. 2] /\ auths' \in [Conns -> SUBSET Users]
      BY <2>3, <3>1 DEF Auth, Receive
    <3>4. OwnLogins'
      BY <2>0, <3>1, <3>2
    <3>5. QED
      BY <2>0, <3>2, <3>3, <3>4
  <2>4. ASSUME NEW c \in Conns, NEW u \in Users, NEW found \in BOOLEAN, Authenticated(c, u, found)
        PROVE  Orderly'
    <3>1. /\ u \in auths[c] /\ auths' = [auths EXCEPT ![c] = @ \ {u}]
          /\ user' = user \/ user' = [user EXCEPT ![c] = u]
          /\ UNCHANGED <<socket, peer, connections, channels, members, asks, quiet, roster, stopped>>
      BY <2>4, Zenon DEF Authenticated
    <3>2. u # NoUser
      BY BroadcasterAssumption
    <3>3. QED
      BY ZenonT(40), <2>0, <3>1, <3>2
  <2>5. ASSUME NEW c \in Conns, NEW ch \in Used, SubscribePublic(c, ch)
        PROVE  Orderly'
    <3>1. ch \in Public /\ ch \notin Presence
      BY <2>5, BroadcasterAssumption DEF SubscribePublic
    <3>2. UNCHANGED <<members, roster>> /\ channels' = [channels EXCEPT ![c] = @ \cup {ch}]
      BY <2>5, <3>1 DEF SubscribePublic, Join
    <3>3. QED
      BY <2>0, <2>5, <3>1, <3>2 DEF SubscribePublic, Receive, Channels
  <2>6. ASSUME NEW c \in Conns, NEW ch \in Used, Subscribe(c, ch)
        PROVE  Orderly'
    <3>1. ch \in Channels /\ user[c] \in Users /\ user[c] # NoUser
      BY <2>6 DEF Subscribe, Channels
    <3>2. /\ channels' \in [Conns -> SUBSET Channels]
          /\ members' \in [Presence -> SUBSET Users]
          /\ roster' \in [Conns -> [Presence -> SUBSET Users]]
      BY <2>6, <3>1, JoinType DEF Subscribe
    <3>3. channels' = [channels EXCEPT ![c] = @ \cup {ch}]
      BY <2>6 DEF Subscribe, Join
    <3>4. QED
      BY <2>0, <2>6, <3>1, <3>2, <3>3 DEF Subscribe, Receive
  <2>7. ASSUME NEW c \in Conns, NEW ch \in Used, AskAuthorizer(c, ch)
        PROVE  Orderly'
    BY <2>0, <2>7 DEF AskAuthorizer, Receive
  <2>8. ASSUME NEW c \in Conns, NEW ask \in asks[c], NEW granted \in BOOLEAN,
               Authorized(c, ask[1], ask[2], granted)
        PROVE  Orderly'
    <3>1. /\ <<ask[1], ask[2]>> \in asks[c]
          /\ asks' = [asks EXCEPT ![c] = @ \ {<<ask[1], ask[2]>>}]
          /\ Join(c, ask[1], ask[2]) \/ UNCHANGED <<channels, members, roster>>
          /\ UNCHANGED <<socket, peer, connections, user, auths, quiet, stopped>>
      BY <2>8, Zenon DEF Authorized
    <3>2. ask[1] \in Slow /\ ask[2] \in Users /\ ask[1] \in Channels
      BY BroadcasterAssumption DEF Setup, Channels
    <3>3. /\ channels' \in [Conns -> SUBSET Channels]
          /\ members' \in [Presence -> SUBSET Users]
          /\ roster' \in [Conns -> [Presence -> SUBSET Users]]
      BY <3>1, <3>2, JoinType
    <3>4. channels' = channels \/ channels' = [channels EXCEPT ![c] = @ \cup {ask[1]}]
      BY <3>1 DEF Join
    <3>5. user[c] # NoUser
      OBVIOUS
    <3>6. QED
      BY <2>0, <3>1, <3>3, <3>4, <3>5
  <2>9. ASSUME NEW c \in Conns, NEW ch \in Used, Unsubscribe(c, ch)
        PROVE  Orderly'
    BY <2>0, <2>9, LeaveType DEF Unsubscribe, Receive
  <2>10. ASSUME NEW c \in Conns, Vanish(c)
         PROVE  Orderly'
    BY <2>0, <2>10 DEF Vanish
  <2>11. ASSUME NEW c \in Conns, SocketCloses(c)
         PROVE  Orderly'
    BY <2>0, <2>11, LeaveType DEF SocketCloses, Disconnect
  <2>12. ASSUME NEW c \in Conns, TerminateConnection(c)
         PROVE  Orderly'
    BY <2>0, <2>12, LeaveType DEF TerminateConnection, Disconnect
  <2>13. ASSUME NEW S \in SUBSET connections, PingConnections(S)
         PROVE  Orderly'
    BY <2>0, <2>13 DEF PingConnections
  <2>14. CASE Shutdown
    BY <2>0, <2>14 DEF Shutdown
  <2>15. QED
    BY ZenonT(40), <1>2, <2>1, <2>2, <2>3, <2>4, <2>5, <2>6, <2>7, <2>8, <2>9, <2>10, <2>11, <2>12, <2>13,
       <2>14 DEF Next, Message, Answer
<1>3. QED
  BY <1>1, <1>2

-----------------------------------------------------------------------------
(* The clients' lists. *)

\* Whoever joins, the subscribers' lists stay the server's.
LEMMA JoinRoster ==
    ASSUME Orderly, RosterAgrees, NEW c \in Conns, NEW ch \in Channels, NEW u,
           Join(c, ch, u), UNCHANGED connections
    PROVE  RosterAgrees'
<1> USE DEF Orderly, TypeOK, TableOpen, RosterAgrees
<1>1. CASE ch \in Presence
  <2> SUFFICES ASSUME NEW d \in connections, NEW pc \in Presence, pc \in channels'[d]
               PROVE  roster'[d][pc] = members'[pc]
    OBVIOUS
  <2>0. d \in Conns /\ socket[d] = "open"
    OBVIOUS
  <2>1. CASE d = c
    <3>1. roster'[d] = [roster[c] EXCEPT ![ch] = members[ch] \cup {u}]
      BY <1>1, <2>0, <2>1 DEF Join
    <3>2. QED
      BY <1>1, <2>0, <2>1, <3>1 DEF Join
  <2>2. CASE d # c
    <3>1. pc \in channels[d]
      BY <2>0, <2>2 DEF Join
    <3>2. d \in Listeners(ch) <=> ch \in channels[d]
      BY <2>0 DEF Listeners
    <3>3. roster'[d] = IF ch \in channels[d] THEN [roster[d] EXCEPT ![ch] = @ \cup {u}] ELSE roster[d]
      BY <1>1, <2>0, <2>2, <3>2 DEF Join
    <3>4. QED
      BY <1>1, <2>0, <2>2, <3>1, <3>3 DEF Join
  <2>3. QED
    BY <2>1, <2>2
<1>2. CASE ch \notin Presence
  BY <1>2 DEF Join
<1>3. QED
  BY <1>1, <1>2

\* Whoever leaves, so do the lists of those who stay.
LEMMA LeaveRoster ==
    ASSUME Orderly, RosterAgrees, NEW c \in Conns, NEW S, Leave(c, S),
           connections' \subseteq connections,
           \A d \in connections' : /\ channels'[d] \subseteq channels[d]
                                   /\ d = c => channels'[d] \cap S = {}
    PROVE  RosterAgrees'
<1> USE DEF Orderly, TypeOK, TableOpen, RosterAgrees
<1> SUFFICES ASSUME NEW d \in connections', NEW pc \in Presence, pc \in channels'[d]
             PROVE  roster'[d][pc] = members'[pc]
  OBVIOUS
<1>1. d \in Conns /\ d \in connections /\ pc \in channels[d] /\ d \in Listeners(pc)
  BY DEF Listeners
<1>2. roster[d][pc] = members[pc]
  BY <1>1
<1>3. /\ members'[pc] = IF pc \in S THEN members[pc] \ {user[c]} ELSE members[pc]
      /\ roster'[d][pc] = IF pc \in S /\ user[c] \in members[pc] /\ d # c
                            THEN roster[d][pc] \ {user[c]} ELSE roster[d][pc]
  BY <1>1 DEF Leave
<1>4. d = c => pc \notin S
  OBVIOUS
<1>5. QED
  BY <1>2, <1>3, <1>4

LEMMA RosterStep == Orderly /\ RosterAgrees /\ [Next]_vars => RosterAgrees'
<1> SUFFICES ASSUME Orderly, RosterAgrees, [Next]_vars PROVE RosterAgrees'
  OBVIOUS
<1>1. ASSUME UNCHANGED <<channels, members, roster>>, connections' \subseteq connections
      PROVE  RosterAgrees'
  BY <1>1 DEF RosterAgrees
<1>2. ASSUME NEW c \in Conns, Connect(c)
      PROVE  RosterAgrees'
  BY <1>2 DEF Connect, RosterAgrees, Orderly, NewIsBlank
<1>3. ASSUME NEW c \in Conns, NEW ch \in Used, SubscribePublic(c, ch) \/ Subscribe(c, ch)
      PROVE  RosterAgrees'
  BY <1>3, JoinRoster DEF SubscribePublic, Subscribe, Receive, Channels
<1>4. ASSUME NEW c \in Conns, NEW ask \in asks[c], NEW granted \in BOOLEAN,
             Authorized(c, ask[1], ask[2], granted)
      PROVE  RosterAgrees'
  <2>1. /\ Join(c, ask[1], ask[2]) \/ UNCHANGED <<channels, members, roster>>
        /\ UNCHANGED connections
    BY <1>4, Zenon DEF Authorized
  <2>2. ask[1] \in Channels
    BY BroadcasterAssumption DEF Setup, Channels, Orderly, TypeOK, Slow
  <2>3. QED
    BY <1>1, <2>1, <2>2, JoinRoster
<1>5. ASSUME NEW c \in Conns, NEW ch \in Used, Unsubscribe(c, ch)
      PROVE  RosterAgrees'
  <2>1. /\ Leave(c, {ch} \cap Presence) /\ UNCHANGED connections
        /\ channels' = [channels EXCEPT ![c] = @ \ {ch}]
    BY <1>5 DEF Unsubscribe, Receive
  <2>2. \A d \in connections' : /\ channels'[d] \subseteq channels[d]
                                /\ d = c => channels'[d] \cap ({ch} \cap Presence) = {}
    BY <2>1 DEF Orderly, TypeOK
  <2>3. QED
    BY <2>1, <2>2, LeaveRoster
<1>6. ASSUME NEW c \in Conns, Disconnect(c)
      PROVE  RosterAgrees'
  BY <1>6, LeaveRoster DEF Disconnect
<1>7. CASE Shutdown
  BY <1>7 DEF Shutdown, RosterAgrees
<1>8. ASSUME NEW c \in Conns, NEW u \in Users, NEW found \in BOOLEAN, Authenticated(c, u, found)
      PROVE  RosterAgrees'
  BY <1>1, <1>8 DEF Authenticated
<1>9. QED
  BY <1>1, <1>2, <1>3, <1>4, <1>5, <1>6, <1>7, <1>8
     DEF Next, Message, Answer, OtherMessage, Auth, AskAuthorizer, Receive, Vanish, SocketCloses,
         TerminateConnection, PingConnections, vars, serverVars, tables

-----------------------------------------------------------------------------
(* The lists of members. *)

\* A connection that takes a name keeps the one it has, where it can have only one.
LEMMA NameKept ==
    ASSUME Orderly, OneUserEach, NEW c \in Conns, NEW u \in auths[c], user[c] # NoUser
    PROVE  user[c] = u
<1>1. <<c, user[c]>> \in Logins /\ <<c, u>> \in Logins
  BY DEF Orderly, OwnLogins
<1>2. QED
  BY <1>1 DEF OneUserEach

\* Who is asked about is who the connection is.
LEMMA AskedIsNamed ==
    ASSUME Orderly, OneUserEach, NEW c \in Conns, NEW ask \in asks[c]
    PROVE  user[c] = ask[2] /\ ask[1] \in Slow /\ ask[1] \in Channels /\ ask[2] \in Users
<1>1. user[c] # NoUser
  BY DEF Orderly, NamedInPrivate
<1>2. <<c, user[c]>> \in Logins /\ <<c, ask[2]>> \in Logins
  BY <1>1 DEF Orderly, OwnLogins
<1>3. user[c] = ask[2]
  BY <1>2 DEF OneUserEach
<1>4. QED
  BY <1>3, BroadcasterAssumption DEF Orderly, TypeOK, Slow, Setup, Channels

\* A subscriber to a presence channel has a name.
LEMMA SubscriberNamed ==
    ASSUME Orderly, NEW c \in Conns, NEW ch \in Presence, ch \in channels[c]
    PROVE  user[c] \in Users
BY BroadcasterAssumption DEF Orderly, TypeOK, NamedInPrivate

LEMMA JoinListed ==
    ASSUME Orderly, SubscribedListed, NEW c \in Conns, NEW ch \in Channels, Join(c, ch, user[c]),
           UNCHANGED <<setup, connections, user>>
    PROVE  SubscribedListed'
<1> SUFFICES ASSUME OneConnectionEach', NEW d \in connections', NEW pc \in Presence, pc \in channels'[d]
             PROVE  user'[d] \in members'[pc]
  BY DEF SubscribedListed
<1>1. OneConnectionEach /\ d \in connections /\ d \in Conns /\ user'[d] = user[d]
  BY DEF OneConnectionEach, OneUserEach, Logins, Orderly, TypeOK
<1>2. CASE pc \in channels[d]
  <2>1. user[d] \in members[pc]
    BY <1>1, <1>2 DEF SubscribedListed
  <2>2. members[pc] \subseteq members'[pc]
    BY DEF Join, Orderly, TypeOK
  <2>3. QED
    BY <1>1, <2>1, <2>2
<1>3. CASE pc \notin channels[d]
  <2>1. d = c /\ pc = ch
    BY <1>1, <1>3 DEF Join, Orderly, TypeOK
  <2>2. user[c] \in members'[ch]
    BY <2>1 DEF Join, Orderly, TypeOK
  <2>3. QED
    BY <1>1, <2>1, <2>2
<1>4. QED
  BY <1>2, <1>3

LEMMA LeaveListed ==
    ASSUME Orderly, SubscribedListed, NEW c \in Conns, NEW S, Leave(c, S),
           UNCHANGED <<setup, user>>, connections' \subseteq connections,
           \A d \in connections' : channels'[d] \subseteq channels[d],
           c \in connections' => channels'[c] \cap S = {}
    PROVE  SubscribedListed'
<1> SUFFICES ASSUME OneConnectionEach', NEW d \in connections', NEW pc \in Presence, pc \in channels'[d]
             PROVE  user'[d] \in members'[pc]
  BY DEF SubscribedListed
<1>1. OneConnectionEach /\ d \in connections /\ d \in Conns /\ pc \in channels[d] /\ user'[d] = user[d]
  BY DEF OneConnectionEach, OneUserEach, Logins, Orderly, TypeOK
<1>2. user[d] \in members[pc]
  BY <1>1 DEF SubscribedListed
<1>3. CASE user[d] # user[c] \/ pc \notin S
  BY <1>1, <1>2, <1>3 DEF Leave
<1>4. CASE user[d] = user[c] /\ pc \in S
  <2>1. user[d] # NoUser
    BY <1>1, SubscriberNamed, BroadcasterAssumption
  <2>2. <<d, user[d]>> \in Logins /\ <<c, user[c]>> \in Logins
    BY <1>1, <1>4, <2>1 DEF Orderly, OwnLogins
  <2>3. d = c
    BY <1>1, <1>4, <2>2 DEF OneConnectionEach
  <2>4. QED
    BY <1>4, <2>3
<1>5. QED
  BY <1>3, <1>4

LEMMA ListedStep == Orderly /\ SubscribedListed /\ [Next]_vars => SubscribedListed'
<1> SUFFICES ASSUME Orderly, SubscribedListed, [Next]_vars PROVE SubscribedListed'
  OBVIOUS
<1>0. UNCHANGED setup
  BY DEF Next, vars
<1>1. ASSUME UNCHANGED <<channels, members, user>>, connections' \subseteq connections
      PROVE  SubscribedListed'
  BY <1>0, <1>1 DEF SubscribedListed, OneConnectionEach, OneUserEach, Logins
<1>2. ASSUME NEW c \in Conns, Connect(c)
      PROVE  SubscribedListed'
  BY <1>0, <1>2 DEF Connect, SubscribedListed, OneConnectionEach, OneUserEach, Logins, Orderly, NewIsBlank
<1>3. ASSUME NEW c \in Conns, NEW ch \in Used, SubscribePublic(c, ch) \/ Subscribe(c, ch)
      PROVE  SubscribedListed'
  BY <1>0, <1>3, JoinListed DEF SubscribePublic, Subscribe, Receive, Channels
<1>4. ASSUME NEW c \in Conns, NEW ask \in asks[c], NEW granted \in BOOLEAN,
             Authorized(c, ask[1], ask[2], granted)
      PROVE  SubscribedListed'
  <2>1. /\ Join(c, ask[1], ask[2]) \/ UNCHANGED <<channels, members, roster>>
        /\ UNCHANGED <<connections, user>>
    BY <1>4, Zenon DEF Authorized
  <2>2. CASE UNCHANGED <<channels, members, roster>>
    BY <1>1, <2>1, <2>2
  <2>3. CASE Join(c, ask[1], ask[2]) /\ OneUserEach
    <3>1. ask[1] \in Channels /\ ask[2] = user[c]
      BY <2>3, AskedIsNamed
    <3>2. QED
      BY <1>0, <2>1, <2>3, <3>1, JoinListed
  <2>4. CASE ~OneUserEach
    BY <1>0, <2>4 DEF SubscribedListed, OneConnectionEach, OneUserEach, Logins
  <2>5. QED
    BY <2>1, <2>2, <2>3, <2>4
<1>5. ASSUME NEW c \in Conns, NEW ch \in Used, Unsubscribe(c, ch)
      PROVE  SubscribedListed'
  <2>1. /\ Leave(c, {ch} \cap Presence) /\ UNCHANGED <<connections, user>>
        /\ channels' = [channels EXCEPT ![c] = @ \ {ch}]
    BY <1>5 DEF Unsubscribe, Receive
  <2>2. /\ \A d \in connections' : channels'[d] \subseteq channels[d]
        /\ c \in connections' => channels'[c] \cap ({ch} \cap Presence) = {}
    BY <2>1 DEF Orderly, TypeOK
  <2>3. QED
    BY <1>0, <2>1, <2>2, LeaveListed
<1>6. ASSUME NEW c \in Conns, Disconnect(c)
      PROVE  SubscribedListed'
  BY <1>0, <1>6, LeaveListed DEF Disconnect
<1>7. CASE Shutdown
  BY <1>7 DEF Shutdown, SubscribedListed
<1>8. ASSUME NEW c \in Conns, NEW u \in Users, NEW found \in BOOLEAN, Authenticated(c, u, found)
      PROVE  SubscribedListed'
  <2>1. /\ user' = user \/ user' = [user EXCEPT ![c] = u]
        /\ u \in auths[c] /\ UNCHANGED <<channels, members, connections>>
    BY <1>8, Zenon DEF Authenticated
  <2> SUFFICES ASSUME OneConnectionEach', NEW d \in connections', NEW pc \in Presence, pc \in channels'[d]
               PROVE  user'[d] \in members'[pc]
    BY DEF SubscribedListed
  <2>2. OneConnectionEach /\ d \in connections /\ d \in Conns /\ pc \in channels[d]
    BY <1>0, <2>1 DEF OneConnectionEach, OneUserEach, Logins, Orderly, TypeOK
  <2>3. user[d] \in members[pc] /\ user[d] # NoUser
    BY <2>2, SubscriberNamed, BroadcasterAssumption DEF SubscribedListed
  <2>4. user'[d] = user[d]
    BY <2>1, <2>2, <2>3, NameKept DEF OneConnectionEach, Orderly, TypeOK
  <2>5. QED
    BY <2>1, <2>3, <2>4
<1>9. QED
  BY <1>1, <1>2, <1>3, <1>4, <1>5, <1>6, <1>7, <1>8
     DEF Next, Message, Answer, OtherMessage, Auth, AskAuthorizer, Receive, Vanish, SocketCloses,
         TerminateConnection, PingConnections, vars, serverVars, tables

-----------------------------------------------------------------------------
(* The members' connections. *)

\* Who keeps a listed user on the list of a channel.
Holds(c, ch, u) == socket[c] # "closed" /\ user[c] = u /\ ch \in channels[c]

\* Members are held as before when the sockets, names and channels that hold them
\* stay and nobody is added.
LEMMA HoldersStay ==
    ASSUME Orderly, MembersConnected, UNCHANGED setup,
           \A ch \in Presence \ Slow : members'[ch] \subseteq members[ch],
           \A c \in Conns, ch \in Presence \ Slow : \A u \in members'[ch] :
               OneUserEach /\ Holds(c, ch, u) => Holds(c, ch, u)'
    PROVE  MembersConnected'
<1> SUFFICES ASSUME OneUserEach', NEW ch \in Presence \ Slow', NEW u \in members'[ch]
             PROVE  \E c \in Conns : Holds(c, ch, u)'
  BY DEF MembersConnected, Holds
<1>1. OneUserEach /\ ch \in Presence \ Slow /\ u \in members[ch]
  BY DEF OneUserEach, Logins, Slow
<1>2. PICK c \in Conns : Holds(c, ch, u)
  BY <1>1 DEF MembersConnected, Holds
<1>3. QED
  BY <1>1, <1>2

\* Whoever leaves a channel was holding no other user.
LEMMA LeaveConnected ==
    ASSUME Orderly, MembersConnected, NEW c \in Conns, NEW S, Leave(c, S),
           UNCHANGED <<setup, user>>,
           \A d \in Conns \ {c} : UNCHANGED <<socket[d], channels[d]>>,
           socket'[c] = "closed" => channels[c] \cap Presence \subseteq S,
           channels[c] \cap Presence \subseteq channels'[c] \cup S
    PROVE  MembersConnected'
<1>1. \A ch \in Presence \ Slow : members'[ch] \subseteq members[ch]
  BY DEF Leave, Orderly, TypeOK
<1>2. ASSUME NEW d \in Conns, NEW ch \in Presence \ Slow, NEW u \in members'[ch], Holds(d, ch, u)
      PROVE  Holds(d, ch, u)'
  <2>1. CASE d # c
    BY <1>2, <2>1 DEF Holds
  <2>2. CASE d = c
    <3>1. ch \notin S
      BY <1>2, <2>2 DEF Leave, Holds
    <3>2. QED
      BY <1>2, <2>2, <3>1 DEF Holds
  <2>3. QED
    BY <2>1, <2>2
<1>3. QED
  BY <1>1, <1>2, HoldersStay

LEMMA ConnectedStep == Orderly /\ MembersConnected /\ [Next]_vars => MembersConnected'
<1> SUFFICES ASSUME Orderly, MembersConnected, [Next]_vars PROVE MembersConnected'
  OBVIOUS
<1> USE DEF Orderly, TypeOK
<1>0. UNCHANGED setup
  BY DEF Next, vars
<1>1. ASSUME UNCHANGED <<channels, members, user>>,
             \A c \in Conns : socket'[c] = "closed" => socket[c] = "closed"
      PROVE  MembersConnected'
  BY <1>0, <1>1, HoldersStay DEF Holds
<1>2. ASSUME NEW c \in Conns, Connect(c)
      PROVE  MembersConnected'
  BY <1>1, <1>2 DEF Connect
<1>3. ASSUME NEW c \in Conns, NEW ch \in Used, SubscribePublic(c, ch)
      PROVE  MembersConnected'
  <2>1. /\ channels' = [channels EXCEPT ![c] = @ \cup {ch}]
        /\ UNCHANGED <<members, socket, user>>
    BY <1>3, BroadcasterAssumption DEF SubscribePublic, Join, Receive
  <2>2. QED
    BY <1>0, <2>1, HoldersStay DEF Holds
<1>4. ASSUME NEW c \in Conns, NEW ch \in Used, Subscribe(c, ch)
      PROVE  MembersConnected'
  <2>1. /\ channels' = [channels EXCEPT ![c] = @ \cup {ch}]
        /\ members' = IF ch \in Presence THEN [members EXCEPT ![ch] = @ \cup {user[c]}] ELSE members
        /\ socket[c] # "closed" /\ UNCHANGED <<socket, user>>
    BY <1>4 DEF Subscribe, Join, Receive
  <2> SUFFICES ASSUME OneUserEach', NEW pc \in Presence \ Slow', NEW u \in members'[pc]
               PROVE  \E d \in Conns : Holds(d, pc, u)'
    BY DEF MembersConnected, Holds
  <2>2. OneUserEach /\ pc \in Presence \ Slow
    BY <1>0 DEF OneUserEach, Logins, Slow
  <2>3. CASE u \in members[pc]
    <3>1. PICK d \in Conns : Holds(d, pc, u)
      BY <2>2, <2>3 DEF MembersConnected, Holds
    <3>2. Holds(d, pc, u)'
      BY <2>1, <3>1 DEF Holds
    <3>3. QED
      BY <3>2
  <2>4. CASE u \notin members[pc]
    <3>1. pc = ch /\ u = user[c]
      BY <2>1, <2>4
    <3>2. Holds(c, pc, u)'
      BY <2>1, <3>1 DEF Holds
    <3>3. QED
      BY <3>2
  <2>5. QED
    BY <2>3, <2>4
<1>5. ASSUME NEW c \in Conns, NEW ask \in asks[c], NEW granted \in BOOLEAN,
             Authorized(c, ask[1], ask[2], granted)
      PROVE  MembersConnected'
  <2>1. /\ Join(c, ask[1], ask[2]) \/ UNCHANGED <<channels, members, roster>>
        /\ UNCHANGED <<socket, user>>
    BY <1>5, Zenon DEF Authorized
  <2>2. CASE UNCHANGED <<channels, members, roster>>
    BY <1>1, <2>1, <2>2
  <2>3. CASE Join(c, ask[1], ask[2])
    <3>1. ask[1] \in Slow
      OBVIOUS
    <3>2. \A ch \in Presence \ Slow : members'[ch] = members[ch]
      BY <2>3, <3>1 DEF Join
    <3>3. \A d \in Conns : channels[d] \subseteq channels'[d]
      BY <2>3 DEF Join
    <3>4. QED
      BY <1>0, <2>1, <3>2, <3>3, HoldersStay DEF Holds
  <2>4. QED
    BY <2>1, <2>2, <2>3
<1>6. ASSUME NEW c \in Conns, NEW ch \in Used, Unsubscribe(c, ch)
      PROVE  MembersConnected'
  <2>1. /\ Leave(c, {ch} \cap Presence) /\ UNCHANGED <<socket, user>>
        /\ channels' = [channels EXCEPT ![c] = @ \ {ch}]
        /\ socket[c] # "closed"
    BY <1>6 DEF Unsubscribe, Receive
  <2>2. QED
    BY <1>0, <2>1, LeaveConnected
<1>7. ASSUME NEW c \in Conns, SocketCloses(c) \/ TerminateConnection(c)
      PROVE  MembersConnected'
  <2>1. /\ Leave(c, channels[c] \cap Presence) /\ UNCHANGED <<user, channels>>
        /\ \A d \in Conns \ {c} : socket'[d] = socket[d]
    BY <1>7 DEF SocketCloses, TerminateConnection, Disconnect
  <2>2. QED
    BY <1>0, <2>1, LeaveConnected
<1>8. ASSUME NEW c \in Conns, NEW u \in Users, NEW found \in BOOLEAN, Authenticated(c, u, found)
      PROVE  MembersConnected'
  <2>1. /\ user' = user \/ user' = [user EXCEPT ![c] = u]
        /\ u \in auths[c] /\ UNCHANGED <<channels, members, socket>>
    BY <1>8, Zenon DEF Authenticated
  <2>2. ASSUME NEW d \in Conns, NEW ch \in Presence \ Slow, NEW m \in members'[ch], OneUserEach,
               Holds(d, ch, m)
        PROVE  Holds(d, ch, m)'
    <3>1. user[d] # NoUser
      BY <2>2, SubscriberNamed, BroadcasterAssumption DEF Holds
    <3>2. user'[d] = user[d]
      BY <2>1, <2>2, <3>1, NameKept
    <3>3. QED
      BY <2>1, <2>2, <3>2 DEF Holds
  <2>3. QED
    BY <1>0, <2>1, <2>2, HoldersStay
<1>9. CASE Shutdown
  BY <1>9 DEF Shutdown, MembersConnected
<1>10. ASSUME NEW S \in SUBSET connections, PingConnections(S)
       PROVE  MembersConnected'
  BY <1>1, <1>10 DEF PingConnections
<1>11. ASSUME NEW c \in Conns,
              \/ OtherMessage(c) \/ Vanish(c)
              \/ \E u \in Users : Auth(c, u)
              \/ \E ch \in Used : AskAuthorizer(c, ch)
       PROVE  MembersConnected'
  BY <1>1, <1>11 DEF OtherMessage, Auth, AskAuthorizer, Receive, Vanish, tables
<1>12. CASE UNCHANGED vars
  BY <1>1, <1>12 DEF vars, serverVars, tables
<1>13. QED
  BY <1>2, <1>3, <1>4, <1>5, <1>6, <1>7, <1>8, <1>9, <1>10, <1>11, <1>12 DEF Next, Message, Answer

-----------------------------------------------------------------------------
\* The three views of a channel agree: every subscriber has been told the list the
\* server holds, is on it where users and connections are one to one, and whoever is
\* on it has a connection, whichever messages, answers, closes and pings come in
\* whichever order.
THEOREM ViewsAlwaysAgree == Spec => []ViewsAgree
<1>1. Init => Orderly /\ RosterAgrees /\ SubscribedListed /\ MembersConnected
  BY OrderlyInit DEF Init, RosterAgrees, SubscribedListed, MembersConnected
<1>2. Orderly /\ RosterAgrees /\ SubscribedListed /\ MembersConnected => ViewsAgree
  BY DEF Orderly, ViewsAgree
<1>3. QED
  BY <1>1, <1>2, OrderlyStep, RosterStep, ListedStep, ConnectedStep, PTL DEF Spec
================================================================================
