------------------------- MODULE PendingRequestPool -------------------------
(***************************************************************************)
(* utils/common/{include/PendingRequestPool.h, src/PendingRequestPool.cpp} *)
(* of the reference Vehicle HAL: the pool of get/set requests that were    *)
(* sent to the vehicle hardware and wait for a result or for their         *)
(* timeout.                                                                *)
(*                                                                         *)
(* mPendingRequestsByClient maps a client to a std::list of batches; a     *)
(* batch is what one addRequests call put in.  Lists only grow at the back *)
(* and tickets only grow, so the list of a client is the set of its        *)
(* batches ordered by ticket; a client without a list and one with an      *)
(* empty list are the same to every operation.                             *)
(*                                                                         *)
(* Each operation that holds mLock throughout is one action.  The timer    *)
(* thread takes the overdue batches out of the pool under mLock and calls  *)
(* their callbacks after releasing it, so the callbacks are steps of their *)
(* own, and finish or add operations may come in between.                  *)
(***************************************************************************)
EXTENDS Integers, FiniteSets

CONSTANTS Clients,      \* the keys (const void* clientId) of the callers
          RequestIds,   \* the request IDs callers may use
          Timeout,      \* mTimeoutInNano, in clock ticks
          MaxPending,   \* MAX_PENDING_REQUEST_PER_CLIENT
          MaxTime,      \* bound of the model: the clock stops here
          MaxTickets    \* bound of the model: calls accepted in a behaviour

ASSUME PoolAssumption ==
    /\ Timeout \in Nat
    /\ MaxPending \in Nat
    /\ MaxTime \in Nat
    /\ MaxTickets \in Nat
    /\ IsFiniteSet(RequestIds)

VARIABLES now,         \* elapsedRealtimeNano()
          pending,     \* mPendingRequestsByClient, as a set of batches
          expired,     \* timeoutRequests: taken out, callback still to be run
          timer,       \* where mThread is
          threadStop,  \* mThreadStop
          life,        \* of the pool object: alive, joining (in ~PendingRequestPool) or gone
          nextTicket,  \* numbers the accepted batches: the order of the lists
          answered     \* <<client, ID>> of what the last step returned or called back

poolVars == <<now, pending, expired, timer, threadStop, life, nextTicket, answered>>

Batch == [client : Clients, ids : SUBSET RequestIds, deadline : Nat, ticket : Nat]

\* The list of one client, the IDs pending in it, and the sum of the sizes of its
\* batches: the places its IDs take, an ID counted once for every batch it is in.
PendingOf(c)  == {b \in pending : b.client = c}
PendingIds(c) == UNION {b.ids : b \in PendingOf(c)}
Slots(c)      == UNION {{b.ticket} \X b.ids : b \in PendingOf(c)}
CountOf(c)    == Cardinality(Slots(c))

Init == /\ now = 0
        /\ pending = {}
        /\ expired = {}
        /\ timer = "waiting"
        /\ threadStop = FALSE
        /\ life = "alive"
        /\ nextTicket = 0
        /\ answered = {}
-----------------------------------------------------------------------------
(* addRequests *)

\* Variant with a bug, which the properties below must tell from the code (as
\* every variant in these modules): what is pending already is not counted.
IsTooMany_PerCall(c, ids) == Cardinality(ids) > MaxPending

IsDuplicate(c, ids) == ids \intersect PendingIds(c) # {}
IsTooMany(c, ids)   == Cardinality(ids) > MaxPending - CountOf(c)

\* The checks pass: all the IDs are added as one batch at the back of the list.
AddBatch(c, ids, timeoutTimestamp) ==
    /\ life = "alive"
    /\ ~IsDuplicate(c, ids)
    /\ ~IsTooMany(c, ids)
    /\ nextTicket < MaxTickets
    /\ now + Timeout < MaxTime
    /\ pending' = pending \union {[client |-> c, ids |-> ids,
                                   deadline |-> timeoutTimestamp,
                                   ticket |-> nextTicket]}
    /\ nextTicket' = nextTicket + 1
    /\ answered' = {}
    /\ UNCHANGED <<now, expired, timer, threadStop, life>>

\* Variant: the timeout is subtracted.
AddRequests_Subtracted(c, ids) == AddBatch(c, ids, now - Timeout)

\* The clock is read with mLock held.
AddRequests(c, ids) == AddBatch(c, ids, now + Timeout)

Refusals == {"INVALID_ARG", "TRY_AGAIN"}

\* The call is refused, with the status it returns; nothing is added.
AddRequestsFails(c, ids, status) ==
    /\ life = "alive"
    /\ \/ IsDuplicate(c, ids) /\ status = "INVALID_ARG"
       \/ ~IsDuplicate(c, ids) /\ IsTooMany(c, ids) /\ status = "TRY_AGAIN"
    /\ answered' = {}
    /\ UNCHANGED <<now, pending, expired, timer, threadStop, life, nextTicket>>
-----------------------------------------------------------------------------
(* tryFinishRequests *)

\* The return value: which of the IDs were pending.
FoundIds(c, ids) == ids \intersect PendingIds(c)

\* Every batch of the client loses the IDs; a batch left without IDs is erased.
Finished(c, ids) ==
    {b \in {[o EXCEPT !.ids = @ \ ids] : o \in PendingOf(c)} : b.ids # {}}

TryFinishRequests(c, ids) ==
    /\ life = "alive"
    /\ pending' = (pending \ PendingOf(c)) \union Finished(c, ids)
    /\ answered' = {c} \X FoundIds(c, ids)
    /\ UNCHANGED <<now, expired, timer, threadStop, life, nextTicket>>
-----------------------------------------------------------------------------
(* The timer thread *)

\* Variant: a pass takes one batch of each list.
Overdue_FirstOnly == {b \in pending : /\ b.deadline < now
                                      /\ \A o \in PendingOf(b.client) : b.ticket <= o.ticket}

\* checkTimeout walks each list from the front and breaks at the first batch
\* that is not overdue: a batch goes only if everything before it goes.
Overdue == {b \in pending : \A o \in PendingOf(b.client) :
                                o.ticket <= b.ticket => o.deadline < now}

\* Variant: the overdue batches are copied, not taken out.
CheckTimeout_Copies ==
    /\ timer = "waiting"
    /\ ~threadStop
    /\ expired' = Overdue
    /\ timer' = IF Overdue = {} THEN "waiting" ELSE "notifying"
    /\ answered' = {}
    /\ UNCHANGED <<now, pending, threadStop, life, nextTicket>>

\* The critical section of checkTimeout, after wait_for timed out.
CheckTimeout ==
    /\ timer = "waiting"
    /\ ~threadStop
    /\ pending' = pending \ Overdue
    /\ expired' = Overdue
    /\ timer' = IF Overdue = {} THEN "waiting" ELSE "notifying"
    /\ answered' = {}
    /\ UNCHANGED <<now, threadStop, life, nextTicket>>

\* One callback of checkTimeout, called outside mLock, in the order of the list.
TimeoutCallback(b) ==
    /\ timer = "notifying"
    /\ b \in expired
    /\ \A o \in expired : o.client = b.client => b.ticket <= o.ticket
    /\ expired' = expired \ {b}
    /\ timer' = IF expired' = {} THEN "waiting" ELSE "notifying"
    /\ answered' = {b.client} \X b.ids
    /\ UNCHANGED <<now, pending, threadStop, life, nextTicket>>

\* wait_for returns true: the thread leaves its loop.
ThreadExits ==
    /\ timer = "waiting"
    /\ threadStop
    /\ timer' = "exited"
    /\ answered' = {}
    /\ UNCHANGED <<now, pending, expired, threadStop, life, nextTicket>>
-----------------------------------------------------------------------------
(* ~PendingRequestPool *)

\* Variant: the thread is joined but was never told to stop.
RequestStop_NoFlag ==
    /\ life = "alive"
    /\ timer = "waiting"
    /\ life' = "joining"
    /\ answered' = {}
    /\ UNCHANGED <<now, pending, expired, timer, threadStop, nextTicket>>

\* mThreadStop is set under mCvLock, which the timer thread holds whenever it is
\* not waiting: the destructor waits for a running checkTimeout.
RequestStop ==
    /\ life = "alive"
    /\ timer = "waiting"
    /\ threadStop' = TRUE
    /\ life' = "joining"
    /\ answered' = {}
    /\ UNCHANGED <<now, pending, expired, timer, nextTicket>>

\* Variant: the pool is destroyed with requests in it.
Drain_KeepsPending ==
    /\ life = "joining"
    /\ timer = "exited"
    /\ life' = "gone"
    /\ answered' = {}
    /\ UNCHANGED <<now, pending, expired, timer, threadStop, nextTicket>>

\* After the join, everything still pending is answered as timed out.
Drain ==
    /\ life = "joining"
    /\ timer = "exited"
    /\ pending' = {}
    /\ life' = "gone"
    /\ answered' = UNION {{b.client} \X b.ids : b \in pending}
    /\ UNCHANGED <<now, expired, timer, threadStop, nextTicket>>

Tick == /\ now < MaxTime
        /\ now' = now + 1
        /\ answered' = {}
        /\ UNCHANGED <<pending, expired, timer, threadStop, life, nextTicket>>
-----------------------------------------------------------------------------
CallerNext ==
    \E c \in Clients, ids \in SUBSET RequestIds :
        \/ AddRequests(c, ids)
        \/ \E status \in Refusals : AddRequestsFails(c, ids, status)
        \/ TryFinishRequests(c, ids)

TimerNext == CheckTimeout \/ ThreadExits \/ \E b \in expired : TimeoutCallback(b)

Next == CallerNext \/ TimerNext \/ RequestStop \/ Drain \/ Tick

\* The timer thread is scheduled, its callbacks return (they are oneway binder
\* calls), time passes, and a destructor that started its join finishes.
Fairness ==
    /\ WF_poolVars(CheckTimeout)
    /\ WF_poolVars(\E b \in expired : TimeoutCallback(b))
    /\ WF_poolVars(ThreadExits)
    /\ WF_poolVars(Drain)
    /\ WF_poolVars(Tick)

Spec     == Init /\ [][Next]_poolVars
FairSpec == Spec /\ Fairness
-----------------------------------------------------------------------------
(* What must hold *)

TypeOK ==
    /\ now \in Nat
    /\ pending \subseteq Batch
    /\ expired \subseteq Batch
    /\ timer \in {"waiting", "notifying", "exited"}
    /\ threadStop \in BOOLEAN
    /\ life \in {"alive", "joining", "gone"}
    /\ nextTicket \in Nat
    /\ answered \subseteq Clients \X RequestIds

\* The list of a client is sorted by deadline: checkTimeout may break at the
\* first batch that is not overdue only because of this.
SortedByDeadline ==
    \A a, b \in pending :
        a.client = b.client /\ a.ticket <= b.ticket => a.deadline <= b.deadline

\* A request ID is pending at most once per client, also across batches, so one
\* result finishes one request and a request cannot time out after its result.
UniqueIds ==
    \A a, b \in pending :
        a.client = b.client /\ a.ids \intersect b.ids # {} => a = b

\* No client has more than MAX_PENDING_REQUEST_PER_CLIENT pending requests; the
\* unsigned subtraction in addRequests cannot wrap around.
WithinLimit == \A c \in Clients : CountOf(c) <= MaxPending

\* A timeout callback is only called for a batch whose deadline has passed.
NeverEarly == \A b \in expired : b.deadline < now

\* A pass of checkTimeout leaves no overdue batch behind, although it stops
\* looking at the first batch of a list that is not overdue.
PassMissesNothing ==
    [][CheckTimeout => \A b \in pending' : now <= b.deadline]_poolVars

\* Nothing is called back, added or finished once the pool is gone: what was
\* pending or being notified when the destructor ran has been answered.
NothingLeftBehind == life = "gone" => pending = {} /\ expired = {} /\ timer = "exited"

\* The requests the pool owes an answer: pending, or taken out by checkTimeout
\* whose callback has not been called yet.
Outstanding ==
    UNION {{[client |-> b.client, id |-> i, ticket |-> b.ticket] : i \in b.ids} :
              b \in pending \union expired}

Ledger == INSTANCE RequestLedger WITH outstanding <- Outstanding

\* An accepted request is outstanding from the call that brought it to its one
\* answer, whatever the timer thread, other callers and the destructor do.
ImplementsLedger == Ledger!Spec

\* Every accepted request is answered in the end: by a result or by a timeout.
EveryRequestAnswered ==
    \A c \in Clients, i \in RequestIds, t \in 0 .. MaxTickets - 1 :
        LET r == [client |-> c, id |-> i, ticket |-> t]
        IN  r \in Outstanding ~> r \notin Outstanding

\* The destructor terminates: its join waits for the timer thread, which waits
\* for the lock of the condition variable.
DestructorEnds == life = "joining" ~> life = "gone"
=============================================================================
