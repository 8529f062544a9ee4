\* Two groups, two users of whom one is a manager, a node in another, two
\* requests at a time.
CONSTANTS
    u1 = u1
    u2 = u2
    g1 = g1
    g2 = g2
    n1 = n1
    n2 = n2
    r1 = r1
    r2 = r2
    None = None
    Users = {u1, u2}
    Managers = {u2}
    Groups = {g1, g2}
    Nodes = {n1, n2}
    Ancestry <- Chain
    Entries <- Lists
    Reqs = {r1, r2}

SYMMETRY Alike

SPECIFICATION Spec

CONSTRAINT Ordered

INVARIANTS
    TypeOK
    LeaderIsMember
    NoRowsOfGoneGroups
    AnsweredByTheRules
