--------------------------- MODULE MCVhalRequests ---------------------------
(* Small instances of VhalRequests: two clients that come, ask and die, whose *)
(* two calls race with results, timeouts and each other.                      *)
EXTENDS VhalRequests, TLC

CONSTANTS b1, b2, t1, t2, a1, a2, r1

MCSymmetry == Permutations({b1, b2}) \union Permutations({a1, a2})
=============================================================================
