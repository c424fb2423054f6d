----------------------------- MODULE MCBroadcaster -----------------------------
EXTENDS Broadcaster

CONSTANTS c1, c2, u1, u2, news, inbox, room

OwnUser == {<<c1, u1>>, <<c2, u2>>}
SharedUser == {<<c1, u1>>, <<c2, u1>>}
TwoUsers == {<<c1, u1>>, <<c1, u2>>}

\* One presence channel, of quick and of slow authorizers.
Quick(logins) == [logins |-> logins, used |-> {room}, slow |-> {}]
Late(logins) == [Quick(logins) EXCEPT !.slow = {room}]

\* A public and a private channel.
NoPresence == [logins |-> {<<c1, u1>>}, used |-> {news, inbox}, slow |-> {inbox}]

SetupsAll ==
    {Quick(OwnUser), Late(OwnUser), Quick(TwoUsers), Quick(SharedUser), NoPresence}
================================================================================
