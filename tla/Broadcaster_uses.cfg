SPECIFICATION FairSpec
CONSTANTS
    Conns = {c1, c2}
    c1 = c1
    c2 = c2
    Users = {u1, u2}
    u1 = u1
    u2 = u2
    NoUser = NoUser
    news = news
    inbox = inbox
    room = room
    Public = {news}
    Private = {inbox}
    Presence = {room}
    Setups <- SetupsAll
INVARIANTS
    ViewsAgree
PROPERTIES
    GoneUserLeaves
CHECK_DEADLOCK FALSE
