\* One refresh token presented twice at a time.
CONSTANTS
    r1 = r1
    r2 = r2
    r3 = r3
    boss = boss
    amy = amy
    None = None
    Users = {amy}
    Seeded = {amy}
    Managers = {}
    Reqs = {r1, r2}
    Ops <- Rotating
    MaxTokens = 3
    MaxVersion = 1
    MaxEpoch = 1

SYMMETRY Alike

SPECIFICATION Spec

INVARIANT
    OneTimeRotation

\* At the bounds, and with no operation left to ask for, the system stops.
CHECK_DEADLOCK FALSE
