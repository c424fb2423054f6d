------------------------------ MODULE Broadcaster ------------------------------
(***************************************************************************)
(* The WebSocket broadcaster: connections, authentication, subscriptions,    *)
(* the member tables of presence channels and the messages that keep clients *)
(* informed of them, stale connections, termination and shutdown.            *)
(*                                                                          *)
(* The server is one event loop, but each message has a handler of its own   *)
(* that is not awaited by the next: a handler that awaits the authenticator  *)
(* or an authorizer resumes after anything else may have happened.           *)
(***************************************************************************)
EXTENDS Naturals

CONSTANTS
    Conns,     \* connections, each used once
    Users,
    NoUser,    \* connection.user is undefined
    Public,    \* channels without authorizer
    Private,
    Presence,  \* channels with member tables
    Setups     \* the uses considered

Channels == Public \cup Private \cup Presence

\* A use of the server: <<c, u>> in logins when the client behind c may present a
\* token of u; the channels used, and those whose authorizer waits for something.
Setup == [logins : SUBSET (Conns \X Users), used : SUBSET Channels,
          slow : SUBSET (Private \cup Presence)]

ASSUME BroadcasterAssumption ==
    /\ NoUser \notin Users
    /\ Setups \subseteq Setup
    /\ Public \cap (Private \cup Presence) = {}
    /\ Private \cap Presence = {}

VARIABLES
    setup,       \* the use, chosen once
    socket,      \* the server's end of each connection
    peer,        \* the client's end: "there", or "gone" without a word
    connections, \* the broadcaster's table of connections
    user,        \* connection.user
    channels,    \* connection.channels
    members,     \* channelMembers: the users listed in each presence channel
    auths,       \* users whose tokens are being verified
    asks,        \* authorizers awaited: channel, and user they were asked about
    quiet,       \* pings sent since the connection's last message
    roster,      \* the member lists as each client has been told
    stopped      \* shutdown() has been called

Logins == setup.logins
Used == setup.used
Slow == setup.slow

tables == <<connections, user, channels, members, auths, asks>>
serverVars == <<socket, peer, tables, quiet, roster, stopped>>
vars == <<setup, serverVars>>

Sockets == {"new", "open",
            "closing",  \* close() called: messages may still arrive
            "cut",      \* terminate() called, close event still to come
            "closed"}

TypeOK ==
    /\ setup \in Setups
    /\ socket \in [Conns -> Sockets]
    /\ peer \in [Conns -> {"there", "gone"}]
    /\ connections \subseteq Conns
    /\ user \in [Conns -> Users \cup {NoUser}]
    /\ channels \in [Conns -> SUBSET Channels]
    /\ members \in [Presence -> SUBSET Users]
    /\ auths \in [Conns -> SUBSET Users]
    /\ asks \in [Conns -> SUBSET (Slow \X Users)]
    /\ quiet \in [Conns -> 0 .. 2]
    /\ roster \in [Conns -> [Presence -> SUBSET Users]]
    /\ stopped \in BOOLEAN

Init ==
    /\ setup \in Setups
    /\ socket = [c \in Conns |-> "new"]
    /\ peer = [c \in Conns |-> "there"]
    /\ connections = {}
    /\ user = [c \in Conns |-> NoUser]
    /\ channels = [c \in Conns |-> {}]
    /\ members = [ch \in Presence |-> {}]
    /\ auths = [c \in Conns |-> {}]
    /\ asks = [c \in Conns |-> {}]
    /\ quiet = [c \in Conns |-> 0]
    /\ roster = [c \in Conns |-> [ch \in Presence |-> {}]]
    /\ stopped = FALSE

-----------------------------------------------------------------------------
(* Presence. *)

\* broadcastToChannel: the connections a message to ch is sent to.
Listeners(ch) == {d \in connections : ch \in channels[d] /\ socket[d] = "open"}

\* The channel is added; u is listed, c gets the list, the others the addition.
Join(c, ch, u) ==
    /\ channels' = [channels EXCEPT ![c] = @ \cup {ch}]
    /\ IF ch \in Presence
       THEN /\ members' = [members EXCEPT ![ch] = @ \cup {u}]
            /\ roster' = [d \in Conns |->
                  IF d = c /\ socket[c] = "open"
                  THEN [roster[c] EXCEPT ![ch] = members[ch] \cup {u}]
                  ELSE IF d # c /\ d \in Listeners(ch)
                       THEN [roster[d] EXCEPT ![ch] = @ \cup {u}]
                       ELSE roster[d]]
       ELSE UNCHANGED <<members, roster>>

\* c's user is taken off the lists of the channels S, and the others are told.
Leave(c, S) ==
    /\ members' = [ch \in Presence |->
          IF ch \in S THEN members[ch] \ {user[c]} ELSE members[ch]]
    /\ roster' = [d \in Conns |-> [ch \in Presence |->
          IF ch \in S /\ user[c] \in members[ch] /\ d # c /\ d \in Listeners(ch)
          THEN roster[d][ch] \ {user[c]} ELSE roster[d][ch]]]

\* handleDisconnect; the connection object keeps its user and its channels.
Disconnect(c) ==
    /\ Leave(c, channels[c] \cap Presence)
    /\ connections' = connections \ {c}
    /\ UNCHANGED <<user, channels, auths, asks>>

-----------------------------------------------------------------------------
(* Messages. *)

Connect(c) ==
    /\ socket[c] = "new" /\ ~stopped
    /\ socket' = [socket EXCEPT ![c] = "open"]
    /\ connections' = connections \cup {c}
    /\ UNCHANGED <<peer, user, channels, members, auths, asks, quiet, roster, stopped>>

\* A message of c arrives: lastActivityAt is now.
Receive(c) ==
    /\ socket[c] \in {"open", "closing"} /\ peer[c] = "there"
    /\ quiet' = [quiet EXCEPT ![c] = 0]
    /\ UNCHANGED <<socket, peer, connections, stopped>>

\* ping, a whisper, or anything the server answers with an error: AUTH_REQUIRED to a
\* subscription while connection.user is not there yet.
OtherMessage(c) ==
    /\ Receive(c)
    /\ UNCHANGED <<user, channels, members, auths, asks, roster>>

\* auth: the token is looked at while other messages are handled.
Auth(c, u) ==
    /\ <<c, u>> \in Logins
    /\ Receive(c)
    /\ auths' = [auths EXCEPT ![c] = @ \cup {u}]
    /\ UNCHANGED <<user, channels, members, asks, roster>>

\* authenticateUser has answered, with the user or with nothing.
Authenticated(c, u, found) ==
    /\ u \in auths[c]
    /\ auths' = [auths EXCEPT ![c] = @ \ {u}]
    /\ user' = IF found THEN [user EXCEPT ![c] = u] ELSE user
    /\ UNCHANGED <<socket, peer, connections, channels, members, asks, quiet,
                   roster, stopped>>

SubscribePublic(c, ch) ==
    /\ ch \in Public
    /\ Receive(c)
    /\ Join(c, ch, user[c])
    /\ UNCHANGED <<user, auths, asks>>

\* The authorizer answers yes at once; a no changes nothing (OtherMessage).
Subscribe(c, ch) ==
    /\ ch \in (Private \cup Presence) \ Slow /\ user[c] # NoUser
    /\ Receive(c)
    /\ Join(c, ch, user[c])
    /\ UNCHANGED <<user, auths, asks>>

\* The authorizer is awaited.
AskAuthorizer(c, ch) ==
    /\ ch \in Slow /\ user[c] # NoUser
    /\ Receive(c)
    /\ asks' = [asks EXCEPT ![c] = @ \cup {<<ch, user[c]>>}]
    /\ UNCHANGED <<user, channels, members, auths, roster>>

\* The authorizer has answered; nothing asks what became of the connection.
Authorized(c, ch, u, granted) ==
    /\ <<ch, u>> \in asks[c]
    /\ asks' = [asks EXCEPT ![c] = @ \ {<<ch, u>>}]
    /\ IF granted THEN Join(c, ch, u) ELSE UNCHANGED <<channels, members, roster>>
    /\ UNCHANGED <<socket, peer, connections, user, auths, quiet, stopped>>

Unsubscribe(c, ch) ==
    /\ ch \in channels[c]
    /\ Receive(c)
    /\ channels' = [channels EXCEPT ![c] = @ \ {ch}]
    /\ Leave(c, {ch} \cap Presence)
    /\ UNCHANGED <<user, auths, asks>>

-----------------------------------------------------------------------------
(* Ends of connections. *)

\* The client's end vanishes without closing.
Vanish(c) ==
    /\ socket[c] = "open" /\ peer[c] = "there"
    /\ peer' = [peer EXCEPT ![c] = "gone"]
    /\ UNCHANGED <<socket, tables, quiet, roster, stopped>>

\* Mutant: the members are left to the stale check.
SocketClosesQuietly(c) ==
    /\ socket[c] \in {"open", "closing", "cut"}
    /\ socket' = [socket EXCEPT ![c] = "closed"]
    /\ connections' = connections \ {c}
    /\ UNCHANGED <<peer, user, channels, members, auths, asks, quiet, roster, stopped>>

\* The socket's close event.
SocketCloses(c) ==
    /\ socket[c] \in {"open", "closing", "cut"}
    /\ socket' = [socket EXCEPT ![c] = "closed"]
    /\ Disconnect(c)
    /\ UNCHANGED <<peer, quiet, stopped>>

\* terminateConnection: handleDisconnect runs now, and again at the close event.
TerminateConnection(c) ==
    /\ c \in connections
    /\ socket' = [socket EXCEPT ![c] = "closing"]
    /\ Disconnect(c)
    /\ UNCHANGED <<peer, quiet, stopped>>

\* Mutant: a stale connection is dropped from the table only.
PingDrops(S) ==
    /\ ~stopped
    /\ S \subseteq {c \in connections : quiet[c] >= 1}
    /\ {c \in connections : quiet[c] = 2} \subseteq S
    /\ connections' = connections \ S
    /\ quiet' = [c \in Conns |-> IF c \in connections \ S THEN quiet[c] + 1 ELSE quiet[c]]
    /\ UNCHANGED <<socket, peer, user, channels, members, auths, asks, roster, stopped>>

\* pingConnections, every 25 s: connections without a message for 40 s are
\* terminated.  At its second ping after the last message a connection may be that
\* old, at its third it is.
PingConnections(S) ==
    /\ ~stopped
    /\ S \subseteq {c \in connections : quiet[c] >= 1}
    /\ {c \in connections : quiet[c] = 2} \subseteq S
    /\ socket' = [c \in Conns |-> IF c \in S THEN "cut" ELSE socket[c]]
    /\ connections' = connections \ S
    /\ quiet' = [c \in Conns |-> IF c \in connections \ S THEN quiet[c] + 1 ELSE quiet[c]]
    /\ UNCHANGED <<peer, user, channels, members, auths, asks, roster, stopped>>

Shutdown ==
    /\ ~stopped
    /\ stopped' = TRUE
    /\ socket' = [c \in Conns |-> IF c \in connections THEN "closing" ELSE socket[c]]
    /\ connections' = {}
    /\ members' = [ch \in Presence |-> {}]
    /\ UNCHANGED <<peer, user, channels, auths, asks, quiet, roster>>

Message(c) ==
    \/ OtherMessage(c)
    \/ \E u \in Users : Auth(c, u)
    \/ \E ch \in Used :
          \/ SubscribePublic(c, ch) \/ Subscribe(c, ch)
          \/ AskAuthorizer(c, ch) \/ Unsubscribe(c, ch)

Answer(c) ==
    \/ \E u \in Users, found \in BOOLEAN : Authenticated(c, u, found)
    \/ \E ask \in asks[c], granted \in BOOLEAN :
          Authorized(c, ask[1], ask[2], granted)

Next ==
    /\ \/ \E c \in Conns :
             \/ Connect(c) \/ Message(c) \/ Answer(c)
             \/ Vanish(c) \/ SocketCloses(c) \/ TerminateConnection(c)
       \/ \E S \in SUBSET connections : PingConnections(S)
       \/ Shutdown
    /\ UNCHANGED setup

Spec == Init /\ [][Next]_vars

\* The ping timer fires, and a socket that was closed or terminated reports it.
Fairness ==
    /\ WF_serverVars(\E S \in SUBSET connections : PingConnections(S))
    /\ \A c \in Conns : WF_serverVars(socket[c] \in {"closing", "cut"} /\ SocketCloses(c))

FairSpec == Spec /\ Fairness
-----------------------------------------------------------------------------
(* Properties. *)

\* What a subscribed client has been told of a presence channel is what the server
\* holds, whoever joins, leaves, is cut off, or is answered late.
RosterAgrees ==
    \A c \in connections, ch \in Presence :
        ch \in channels[c] => roster[c][ch] = members[ch]

\* Every connection is of one user; and every user has one connection.
OneUserEach == \A a, b \in Logins : a[1] = b[1] => a = b
OneConnectionEach == OneUserEach /\ \A a, b \in Logins : a[2] = b[2] => a = b

\* A subscribed connection's user is listed, through late authorizers, terminations
\* and stale checks, where users and connections are one to one.
SubscribedListed ==
    OneConnectionEach =>
        \A c \in connections, ch \in Presence :
            ch \in channels[c] => user[c] \in members[ch]

\* Every listed user has a connection, not yet closed, subscribed to the channel,
\* where a connection is of one user.  It is not claimed of authorizers that wait:
\* one that answers after the connection has closed lists its user for good.
MembersConnected ==
    OneUserEach =>
        \A ch \in Presence \ Slow : \A u \in members[ch] :
            \E c \in Conns : socket[c] # "closed" /\ user[c] = u /\ ch \in channels[c]

\* The three views of a channel agree: the server's lists of members, the lists of
\* channels of the connections, and what the clients have been told.
ViewsAgree == TypeOK /\ RosterAgrees /\ SubscribedListed /\ MembersConnected

\* A subscriber whose client has vanished leaves the list: its silence makes it
\* stale, it is terminated, and the close event takes its user off.
GoneUserLeaves ==
    \A c \in Conns, ch \in Presence :
        (/\ OneConnectionEach /\ ch \notin Slow
         /\ peer[c] = "gone" /\ ch \in channels[c] /\ user[c] \in members[ch])
            ~> user[c] \notin members[ch]
================================================================================
