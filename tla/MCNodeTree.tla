----------------------------- MODULE MCNodeTree -----------------------------
(* Instances of NodeTree for TLC.                                          *)
EXTENDS NodeTree, TLC

CONSTANTS f1, f2, f3, d1, r1, r2

\* Folders are alike, and so are requests in flight.
Alike == Permutations(Folders) \cup Permutations(Reqs)
=============================================================================
