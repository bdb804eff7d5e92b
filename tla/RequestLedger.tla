--------------------------- MODULE RequestLedger ---------------------------
(***************************************************************************)
(* What the pending request pool promises, with no lists, clocks, threads  *)
(* or locks: a request that was accepted stays outstanding until it is     *)
(* answered, and it is answered exactly once.                              *)
(*                                                                         *)
(* A request is identified by its client, its request ID and the ticket of *)
(* the call that brought it.  Tickets are never used twice, so a request   *)
(* ID that a client uses again belongs to a different request.             *)
(***************************************************************************)
EXTENDS Naturals

CONSTANTS Clients, RequestIds

VARIABLES outstanding,  \* the requests that are owed an answer
          answered,     \* <<client, request ID>> of what the last step answered
          nextTicket    \* the ticket of the next accepted call

ledgerVars == <<outstanding, answered, nextTicket>>

Requests(c, ids, t) == {[client |-> c, id |-> i, ticket |-> t] : i \in ids}

Init == /\ outstanding = {}
        /\ answered = {}
        /\ nextTicket = 0

\* A call is accepted as a whole: all its requests become outstanding.
Accept(c, ids) ==
    /\ outstanding' = outstanding \union Requests(c, ids, nextTicket)
    /\ nextTicket' = nextTicket + 1
    /\ answered' = {}

\* What an answer is about is clear: no two requests with the same name.
Unambiguous(rs) ==
    \A r, s \in rs : r.client = s.client /\ r.id = s.id => r = s

\* Some outstanding requests are answered; they are not owed an answer again.
Answer(rs) ==
    /\ Unambiguous(rs)
    /\ outstanding' = outstanding \ rs
    /\ answered' = {<<r.client, r.id>> : r \in rs}
    /\ UNCHANGED nextTicket

Next == \/ \E c \in Clients, ids \in SUBSET RequestIds : Accept(c, ids)
        \/ \E rs \in SUBSET outstanding : Answer(rs)

Spec == Init /\ [][Next]_ledgerVars
=============================================================================
