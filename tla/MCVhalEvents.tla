--------------------------- MODULE MCVhalEvents ---------------------------
(* VhalEvents for TLC. *)
EXTENDS VhalEvents, TLC
CONSTANTS h1, h2
===========================================================================
