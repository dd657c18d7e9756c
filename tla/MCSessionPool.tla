---------------------------- MODULE MCSessionPool ----------------------------
(* Instances of the session pool: b1 and b2 are keys of built sessions, u1 and u2 *)
(* keys of supplied ones.                                                  *)
EXTENDS SessionPoolRecency, TLC

CONSTANTS b1, b2, u1, u2, x1, x2, x3

\* The callable keeps two sessions for one key and one for the other.
OwnSessions ==
    [k \in Keys |-> CASE k = u1 -> {x1, x2} [] k = u2 -> {x3} [] OTHER -> {}]

\* The callable returns one session whatever the origin.
SharedSession == [k \in Keys |-> IF k \in {u1, u2} THEN {x1} ELSE {}]

Symmetry == Permutations({b1, b2}) \cup Permutations({x1, x2}) \cup Permutations(Owned)
=============================================================================
