----------------------- MODULE MCVhalSubscriptions -----------------------
(* VhalSubscriptions for TLC: two clients with one callback each. *)
EXTENDS VhalSubscriptions, TLC

CONSTANTS c1, c2, cb1, cb2

MCClientOf == (cb1 :> c1) @@ (cb2 :> c2)

Slow == [rate |-> 1, resolution |-> 0, vur |-> TRUE]
Fast == [rate |-> 2, resolution |-> 1, vur |-> FALSE]
MCSubConfigs == {Slow, Fast}
==========================================================================
