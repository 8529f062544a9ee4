---------------------------- MODULE MCGroupsPage ----------------------------
(* An instance of GroupsPage for TLC: a group with a leader and a member,   *)
(* a user who is neither, and a group that is still to be created.          *)
EXTENDS GroupsPage, TLC

CONSTANTS g, h, a, b, c, x, y, s1, s2

MCStart == [k \in Groups |->
    IF k = g THEN [name |-> x, leader |-> a, members |-> {a, b}] ELSE None]

Sym == Permutations(Slots)
=============================================================================
