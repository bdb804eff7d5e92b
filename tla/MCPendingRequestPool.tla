------------------------ MODULE MCPendingRequestPool ------------------------
(* Two clients and three request IDs with room for two, so that the limit is    *)
(* met, lists hold several batches, and an ID comes back in a later batch; the  *)
(* clock runs past every deadline.                                              *)
EXTENDS PendingRequestPool, TLC

CONSTANTS c1, c2, r1, r2, r3

MCSymmetry == Permutations({c1, c2}) \union Permutations({r1, r2, r3})
=============================================================================
