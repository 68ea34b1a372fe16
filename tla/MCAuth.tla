------------------------------- MODULE MCAuth -------------------------------
(* Small instances of Auth for TLC. *)
EXTENDS Auth, TLC

CONSTANTS r1, r2, l1, l2, v1, v2, v3

\* One request deletes the account, the others save.
MCWants == [v \in Visits |-> IF v = v2 THEN {"delete"} ELSE {"data"}]

\* The deletion may be served by either replica, the saves by one.
MCReach == [v \in Visits |-> IF v = v2 THEN {r1, r2} ELSE {r1}]

\* The logins are alike, and so are the requests that save.
MCSymmetry == {f @@ g : f \in Permutations(Logins), g \in Permutations(Visits \ {v2})}

=============================================================================
