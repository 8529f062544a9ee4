----------------------------- MODULE MCSessions -----------------------------
(* Instances of Sessions for TLC.                                          *)
EXTENDS Sessions, TLC

CONSTANTS r1, r2, r3, boss, amy

\* A user registers and does what is up to a user; a manager signs in and does
\* what is up to managers.
UserAndManager ==
    [u \in Users |-> IF u \in Managers THEN {"login", "force", "promote", "demote"}
                    ELSE {"register", "refresh", "logout", "password"}]
Rotating == [u \in Users |-> {"login", "refresh"}]

\* Requests in flight are alike.
Alike == Permutations({r1, r2, r3} \cap Reqs)
=============================================================================
