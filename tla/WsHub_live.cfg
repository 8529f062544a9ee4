\* Two connections of different users, one of whom talks, to a document that
\* holds one, under fairness.
CONSTANTS
    c1 = c1
    c2 = c2
    c3 = c3
    u1 = u1
    u2 = u2
    n1 = n1
    k1 = k1
    None = None
    Conns = {c1, c3}
    Users = {u1, u2}
    Nodes = {n1}
    Kickers = {k1}
    UserOf <- MCUserOf
    NodeOf <- OneDoc
    KickUser <- MCKickUser
    Talkers = {c1}
    MaxClients = 1
    SendCap = 1
    MaxHubs = 2

SPECIFICATION FairSpec

PROPERTIES
    KickReturns
    PumpsEnd
    HubReleased

\* A panic, or the end of every connection, stops the system.
CHECK_DEADLOCK FALSE
