--------------------------- MODULE EventChannel ---------------------------
(***************************************************************************)
(* What the clients of the Vehicle HAL may rely on for property events,    *)
(* whether or not events are batched: every event they are sent was        *)
(* reported by the hardware, an event that was accepted is passed on once, *)
(* in the order of acceptance, as long as the HAL lives.  No threads,      *)
(* queues or locks: an event is in one place, with the source that reports *)
(* it, among those that wait, or with the clients, and moves on from there.*)
(***************************************************************************)
EXTENDS Functions, Sequences

CONSTANTS Event,
          Sources     \* who reports events

VARIABLES held,       \* reported by each source and not accepted yet
          pending,    \* accepted and not passed on yet
          delivered,  \* passed on to the clients
          open        \* whether events are accepted

vars == <<held, pending, delivered, open>>

\* The events that are somewhere.
Known == Range(pending) \union Range(delivered)
             \union UNION {Range(held[s]) : s \in Sources}

Init == /\ held = [s \in Sources |-> <<>>]
        /\ pending = <<>> /\ delivered = <<>> /\ open = TRUE

\* A source whose events are all gone reports some that are new.
Report(s) ==
    /\ held[s] = <<>>
    /\ held' = [held EXCEPT ![s] = held'[s]]
    /\ held'[s] \in Seq(Event)
    /\ IsInjective(held'[s]) /\ Range(held'[s]) \cap Known = {}
    /\ UNCHANGED <<pending, delivered, open>>

\* What a source reported leaves it, all at once ...
HandsOver(s) == /\ held[s] # <<>>
                /\ held' = [held EXCEPT ![s] = <<>>]
                /\ UNCHANGED open

\* ... and goes behind what waits,
Accept(s) == /\ open /\ HandsOver(s)
             /\ pending' = pending \o held[s] /\ UNCHANGED delivered

\* or to the clients without a stop, which overtakes nothing,
Pass(s) == /\ pending = <<>> /\ HandsOver(s)
           /\ delivered' = delivered \o held[s] /\ UNCHANGED pending

\* or nowhere, when the HAL ends.
Discard(s) == ~open /\ HandsOver(s) /\ UNCHANGED <<pending, delivered>>

\* Some of the oldest events are passed on, in one batch.
Deliver == \E n \in 1..Len(pending) :
    /\ delivered' = delivered \o SubSeq(pending, 1, n)
    /\ pending'   = SubSeq(pending, n + 1, Len(pending))
    /\ UNCHANGED <<held, open>>

\* The HAL ends: no more events, and what is left may be dropped.
Close == open' = FALSE /\ UNCHANGED <<held, pending, delivered>>

Drop == ~open /\ pending' = <<>> /\ UNCHANGED <<held, delivered, open>>

Next == \/ \E s \in Sources : Report(s) \/ Accept(s) \/ Pass(s) \/ Discard(s)
        \/ Deliver \/ Close \/ Drop

Spec == Init /\ [][Next]_vars
===========================================================================
