-------------------------- MODULE MCRecurrentTimer --------------------------
(* Two callbacks with intervals that divide and that miss each other's times. *)
EXTENDS RecurrentTimer, TLC

CONSTANTS f, g

MCSymmetry == Permutations({f, g})
=============================================================================
