-------------------------- MODULE MCSessionClient --------------------------
(* Instances of SessionClient for TLC.                                     *)
EXTENDS SessionClient, TLC

CONSTANTS t1, t2, c1, c2, c3

\* The first tab has two requests at a time, the second one.
MCTabOf == [c \in Calls |-> IF c = c3 THEN t2 ELSE t1]

\* The requests of the first tab are alike.
Alike == Permutations({c1, c2})
=============================================================================
