\* One tab that is reloaded.
CONSTANTS
    t1 = t1
    t2 = t2
    c1 = c1
    c2 = c2
    c3 = c3
    TabOf <- MCTabOf
    Tabs = {t1}
    Reloaded = {t1}
    Calls = {c1, c2}
    MaxPairs = 3

SPECIFICATION Spec

INVARIANT
    ReloadKeepsSession
