------------------------------ MODULE MCAccess ------------------------------
(* Instances of Access for TLC.                                            *)
EXTENDS Access, TLC

CONSTANTS u1, u2, g1, g2, n1, n2, r1, r2

\* n2 is in n1.
Chain == (n1 :> <<n1>>) @@ (n2 :> <<n2, n1>>)

\* No rows, so that a node inherits; groups that disagree; groups of which
\* one forbids; a user with a row of his own.
Lists == {<<>>, (g1 :> "readable") @@ (g2 :> "edit"), (g1 :> "none") @@ (g2 :> "edit"),
          (g1 :> "edit") @@ (u1 :> "readable")}

\* What follows a write on checks no longer current is left alone.
Ordered == ~overlap

\* Requests in flight are alike.
Alike == Permutations(Reqs)
=============================================================================
