\* A group with two members, and one to come.
CONSTANTS
    g = g
    h = h
    a = a
    b = b
    c = c
    x = x
    y = y
    s1 = s1
    s2 = s2
    None = None
    Gone = Gone
    Groups = {g, h}
    Users = {a, b, c}
    Names = {x, y}
    Used = {g}
    Start <- MCStart
    Slots = {s1, s2}
    MaxChanges = 2

SYMMETRY Sym

SPECIFICATION Spec

INVARIANTS
    TypeOK
    ListIsTrue
    CardIsTrue
    RowsAreTrue
    CountIsRows
    ControlsComeBack
    ErrorCanBeRetried

\* A page without groups, and with no more to come, has nothing to do.
CHECK_DEADLOCK FALSE
