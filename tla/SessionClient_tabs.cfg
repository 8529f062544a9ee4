\* Two tabs, the first with two requests at a time.
CONSTANTS
    t1 = t1
    t2 = t2
    c1 = c1
    c2 = c2
    c3 = c3
    TabOf <- MCTabOf
    Tabs = {t1, t2}
    Reloaded = {t1}
    Calls = {c1, c2, c3}
    MaxPairs = 2

SYMMETRY Alike

SPECIFICATION Spec

INVARIANTS
    TypeOK
    AlarmsExplained
    BrowserForgets
    NobodyWaitsInVain
    EndedStaysEnded
