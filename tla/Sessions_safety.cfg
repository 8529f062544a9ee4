\* A user who registers, refreshes, signs out and changes the password, and a
\* manager who forces the user out and changes the role, two requests at a time.
CONSTANTS
    r1 = r1
    r2 = r2
    r3 = r3
    boss = boss
    amy = amy
    None = None
    Users = {boss, amy}
    Seeded = {boss}
    Managers = {boss}
    Reqs = {r1, r2}
    Ops <- UserAndManager
    MaxTokens = 3
    MaxVersion = 2
    MaxEpoch = 1

SYMMETRY Alike

SPECIFICATION Spec

INVARIANTS
    TypeOK
    AccessNotAhead
    OldTokensDie
    SessionsStartAfresh

\* At the bounds, and with no operation left to ask for, the system stops.
CHECK_DEADLOCK FALSE
