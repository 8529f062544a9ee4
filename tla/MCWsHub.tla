------------------------------ MODULE MCWsHub ------------------------------
(* Instances of WsHub for TLC.                                             *)
EXTENDS WsHub, TLC

CONSTANTS c1, c2, c3, u1, u2, n1, k1

\* Two users; the first has two connections.
MCUserOf == [c \in Conns |-> IF c \in {c1, c2} THEN u1 ELSE u2]

\* One document only.
OneDoc == [c \in Conns |-> n1]

\* The two connections of the first user to the same document are alike.
Twins == Permutations({c1, c2})

MCKickUser == [k \in Kickers |-> IF k = k1 THEN u1 ELSE u2]
=============================================================================
