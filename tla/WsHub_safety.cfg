\* Three connections to a document that holds two, and a forced logout of the
\* user of two of them, which both talk.
CONSTANTS
    c1 = c1
    c2 = c2
    c3 = c3
    u1 = u1
    u2 = u2
    n1 = n1
    k1 = k1
    None = None
    Conns = {c1, c2, c3}
    Users = {u1, u2}
    Nodes = {n1}
    Kickers = {k1}
    UserOf <- MCUserOf
    NodeOf <- OneDoc
    KickUser <- MCKickUser
    Talkers = {c1, c2}
    MaxClients = 2
    SendCap = 1
    MaxHubs = 4

SYMMETRY Twins

SPECIFICATION Spec

PROPERTY
    ImplementsRoom

INVARIANTS
    TypeOK
    MapIsLive
    NoSplitDocument
    DocCapacity
    MemberSendOpen
    EmptyHubIsAttended
    KickComplete

\* A panic, or the end of every connection, stops the system.
CHECK_DEADLOCK FALSE
