---------------------- MODULE PendingRequestPoolProofs ----------------------
(***************************************************************************)
(* Proofs about PendingRequestPool, for every set of clients and request   *)
(* IDs, every timeout, limit and bound.                                    *)
(*                                                                         *)
(* None of the properties is inductive alone: that a list is sorted by     *)
(* deadline rests on its tickets being below the next one and on the clock *)
(* never going back, and that an answer takes a request off the ledger     *)
(* rests on no other batch having its ticket.  PoolInv is their            *)
(* strengthening.                                                          *)
(***************************************************************************)
EXTENDS PendingRequestPool, FiniteSetTheorems, TLAPS

\* The batches of the pool and of the timer thread: two lists, one order.
Batches == pending \union expired

TicketInv ==
    /\ \A b \in Batches : b.ticket < nextTicket
    /\ \A a, b \in Batches : a.ticket = b.ticket => a = b
    /\ pending \intersect expired = {}

\* No deadline is further away than the timeout.
DeadlineInv == \A b \in pending : b.deadline <= now + Timeout

\* The timer thread has callbacks to make only in the middle of checkTimeout.
TimerInv ==
    /\ timer # "notifying" => expired = {}
    /\ timer = "exited" => threadStop
    /\ life = "gone" => timer = "exited" /\ pending = {}

PoolInv == /\ TypeOK
           /\ TicketInv
           /\ DeadlineInv
           /\ TimerInv
           /\ SortedByDeadline
           /\ UniqueIds
           /\ NeverEarly
-----------------------------------------------------------------------------
\* tryFinishRequests only takes IDs out: every batch that is left is what
\* remains of one batch of before, in its place in the order.
Remains(o, c, ids) == [o EXCEPT !.ids = IF o.client = c THEN @ \ ids ELSE @]

LEMMA FinishKeepsBatches ==
    ASSUME TypeOK, NEW c \in Clients, NEW ids \in SUBSET RequestIds,
           TryFinishRequests(c, ids)
    PROVE  \A b \in pending' : \E o \in pending : b = Remains(o, c, ids)
<1>1. SUFFICES ASSUME NEW b \in pending'
               PROVE  \E o \in pending : b = Remains(o, c, ids)
    OBVIOUS
<1>2. CASE b \in pending \ PendingOf(c)
  <2>1. b \in Batch /\ b.client # c
    BY <1>2 DEF TypeOK, PendingOf
  <2>2. b = [b EXCEPT !.ids = b.ids]
    BY <2>1 DEF Batch
  <2> QED BY <1>2, <2>1, <2>2 DEF Remains
<1>3. CASE b \in Finished(c, ids)
  <2>1. PICK o \in PendingOf(c) : b = [o EXCEPT !.ids = @ \ ids]
    BY <1>3 DEF Finished
  <2> QED BY <2>1 DEF PendingOf, Remains
<1> QED BY <1>1, <1>2, <1>3 DEF TryFinishRequests

\* Type correctness is inductive.
LEMMA TypeStep == TypeOK /\ [Next]_poolVars => TypeOK'
<1> SUFFICES ASSUME TypeOK, [Next]_poolVars
             PROVE  TypeOK'
    OBVIOUS
<1> USE PoolAssumption
<1>1. ASSUME NEW c \in Clients, NEW ids \in SUBSET RequestIds, AddRequests(c, ids)
      PROVE  TypeOK'
    BY <1>1 DEF TypeOK, AddRequests, AddBatch, Batch
<1>2. ASSUME NEW c \in Clients, NEW ids \in SUBSET RequestIds,
             NEW status, AddRequestsFails(c, ids, status)
      PROVE  TypeOK'
    BY <1>2 DEF TypeOK, AddRequestsFails
<1>3. ASSUME NEW c \in Clients, NEW ids \in SUBSET RequestIds, TryFinishRequests(c, ids)
      PROVE  TypeOK'
  <2>1. pending' \subseteq Batch
    BY <1>3, FinishKeepsBatches DEF TypeOK, Batch, Remains
  <2>2. answered' \subseteq Clients \X RequestIds
    BY <1>3 DEF TryFinishRequests, FoundIds
  <2> QED BY <1>3, <2>1, <2>2 DEF TypeOK, TryFinishRequests
<1>4. CASE CheckTimeout
    BY <1>4 DEF TypeOK, CheckTimeout, Overdue
<1>5. ASSUME NEW b \in expired, TimeoutCallback(b)
      PROVE  TypeOK'
  <2>1. b.client \in Clients /\ b.ids \subseteq RequestIds
    BY DEF TypeOK, Batch
  <2> QED BY <1>5, <2>1 DEF TypeOK, TimeoutCallback
<1>6. CASE ThreadExits
    BY <1>6 DEF TypeOK, ThreadExits
<1>7. CASE RequestStop
    BY <1>7 DEF TypeOK, RequestStop
<1>8. CASE Drain
  <2>1. \A b \in pending : {b.client} \X b.ids \subseteq Clients \X RequestIds
    BY DEF TypeOK, Batch
  <2> QED BY <1>8, <2>1 DEF TypeOK, Drain
<1>9. CASE Tick
    BY <1>9 DEF TypeOK, Tick
<1>10. CASE UNCHANGED poolVars
    BY <1>10 DEF TypeOK, poolVars
<1> QED BY <1>1, <1>2, <1>3, <1>4, <1>5, <1>6, <1>7, <1>8, <1>9, <1>10
        DEF Next, CallerNext, TimerNext
-----------------------------------------------------------------------------
\* Most actions only take batches away, move them to expired or leave them alone.
Removes == /\ pending' \subseteq pending
           /\ expired' \subseteq Batches
           /\ pending' \intersect expired' = {}
           /\ nextTicket' = nextTicket
           /\ now' \in Nat /\ now' >= now

LEMMA Removing ==
    ASSUME TypeOK, TicketInv, TimerInv,
           CheckTimeout \/ (\E b \in expired : TimeoutCallback(b)) \/ ThreadExits
           \/ RequestStop \/ Drain \/ Tick \/ UNCHANGED poolVars
           \/ \E c \in Clients, ids \in SUBSET RequestIds, status \in Refusals :
                 AddRequestsFails(c, ids, status)
    PROVE  Removes
BY DEF Removes, Batches, TypeOK, TicketInv, TimerInv, CheckTimeout, Overdue,
       TimeoutCallback, ThreadExits, RequestStop, Drain, Tick, poolVars, AddRequestsFails

\* What a step does to the batches: it takes some away, adds one, or shrinks some.
LEMMA StepKinds ==
    ASSUME TypeOK, TicketInv, TimerInv, [Next]_poolVars
    PROVE  \/ Removes
           \/ \E c \in Clients, ids \in SUBSET RequestIds :
                 AddRequests(c, ids) \/ TryFinishRequests(c, ids)
<1>1. CASE CallerNext
    BY <1>1, Removing DEF CallerNext
<1>2. CASE TimerNext \/ RequestStop \/ Drain \/ Tick \/ UNCHANGED poolVars
    BY <1>2, Removing DEF TimerNext
<1> QED BY <1>1, <1>2 DEF Next

LEMMA TicketStep == TypeOK /\ TicketInv /\ TimerInv /\ [Next]_poolVars => TicketInv'
<1> SUFFICES ASSUME TypeOK, TicketInv, TimerInv, [Next]_poolVars
             PROVE  TicketInv'
    OBVIOUS
<1>1. CASE Removes
    BY <1>1 DEF Removes, TicketInv, Batches
<1>2. ASSUME NEW c \in Clients, NEW ids \in SUBSET RequestIds, AddRequests(c, ids)
      PROVE  TicketInv'
    BY <1>2 DEF AddRequests, AddBatch, TicketInv, Batches, TypeOK, Batch
<1>3. ASSUME NEW c \in Clients, NEW ids \in SUBSET RequestIds, TryFinishRequests(c, ids)
      PROVE  TicketInv'
  <2>1. \A b \in pending' : \E o \in pending : b = Remains(o, c, ids)
    BY <1>3, FinishKeepsBatches
  <2>2. \A o \in pending : Remains(o, c, ids).ticket = o.ticket
    BY DEF Remains, TypeOK, Batch
  <2>3. expired' = expired /\ nextTicket' = nextTicket
    BY <1>3 DEF TryFinishRequests
  <2> QED BY <2>1, <2>2, <2>3 DEF TicketInv, Batches
<1> QED BY <1>1, <1>2, <1>3, StepKinds

LEMMA DeadlineStep ==
    TypeOK /\ TicketInv /\ TimerInv /\ DeadlineInv /\ [Next]_poolVars => DeadlineInv'
<1> SUFFICES ASSUME TypeOK, TicketInv, TimerInv, DeadlineInv, [Next]_poolVars
             PROVE  DeadlineInv'
    OBVIOUS
<1> USE PoolAssumption
<1>1. CASE Removes
    BY <1>1 DEF Removes, DeadlineInv, TypeOK, Batch
<1>2. ASSUME NEW c \in Clients, NEW ids \in SUBSET RequestIds, AddRequests(c, ids)
      PROVE  DeadlineInv'
    BY <1>2 DEF AddRequests, AddBatch, DeadlineInv, TypeOK, Batch
<1>3. ASSUME NEW c \in Clients, NEW ids \in SUBSET RequestIds, TryFinishRequests(c, ids)
      PROVE  DeadlineInv'
  <2>1. \A b \in pending' : \E o \in pending : b = Remains(o, c, ids)
    BY <1>3, FinishKeepsBatches
  <2>2. \A o \in pending : Remains(o, c, ids).deadline = o.deadline
    BY DEF Remains, TypeOK, Batch
  <2>3. now' = now
    BY <1>3 DEF TryFinishRequests
  <2> QED BY <2>1, <2>2, <2>3 DEF DeadlineInv
<1> QED BY <1>1, <1>2, <1>3, StepKinds

LEMMA TimerStep == TypeOK /\ TimerInv /\ [Next]_poolVars => TimerInv'
<1> SUFFICES ASSUME TypeOK, TimerInv, [Next]_poolVars
             PROVE  TimerInv'
    OBVIOUS
<1>1. CASE TimerNext
    BY <1>1 DEF TimerNext, CheckTimeout, TimeoutCallback, ThreadExits, TimerInv, TypeOK
<1>2. CASE CallerNext
    BY <1>2 DEF CallerNext, AddRequests, AddBatch, AddRequestsFails,
                TryFinishRequests, TimerInv, TypeOK
<1>3. CASE RequestStop \/ Drain \/ Tick \/ UNCHANGED poolVars
    BY <1>3 DEF RequestStop, Drain, Tick, poolVars, TimerInv, TypeOK
<1> QED BY <1>1, <1>2, <1>3 DEF Next

LEMMA SortedStep ==
    TypeOK /\ TicketInv /\ TimerInv /\ DeadlineInv /\ SortedByDeadline /\ [Next]_poolVars
        => SortedByDeadline'
<1> SUFFICES ASSUME TypeOK, TicketInv, TimerInv, DeadlineInv, SortedByDeadline,
                    [Next]_poolVars
             PROVE  SortedByDeadline'
    OBVIOUS
<1> USE PoolAssumption
<1>1. CASE Removes
    BY <1>1 DEF Removes, SortedByDeadline
<1>2. ASSUME NEW c \in Clients, NEW ids \in SUBSET RequestIds, AddRequests(c, ids)
      PROVE  SortedByDeadline'
    BY <1>2 DEF AddRequests, AddBatch, SortedByDeadline, DeadlineInv, TicketInv,
                Batches, TypeOK, Batch
<1>3. ASSUME NEW c \in Clients, NEW ids \in SUBSET RequestIds, TryFinishRequests(c, ids)
      PROVE  SortedByDeadline'
  <2>1. \A b \in pending' : \E o \in pending : b = Remains(o, c, ids)
    BY <1>3, FinishKeepsBatches
  <2>2. \A o \in pending : /\ Remains(o, c, ids).deadline = o.deadline
                           /\ Remains(o, c, ids).ticket = o.ticket
                           /\ Remains(o, c, ids).client = o.client
    BY DEF Remains, TypeOK, Batch
  <2> QED BY <2>1, <2>2 DEF SortedByDeadline
<1> QED BY <1>1, <1>2, <1>3, StepKinds

LEMMA UniqueStep ==
    TypeOK /\ TicketInv /\ TimerInv /\ UniqueIds /\ [Next]_poolVars => UniqueIds'
<1> SUFFICES ASSUME TypeOK, TicketInv, TimerInv, UniqueIds, [Next]_poolVars
             PROVE  UniqueIds'
    OBVIOUS
<1>1. CASE Removes
    BY <1>1 DEF Removes, UniqueIds
<1>2. ASSUME NEW c \in Clients, NEW ids \in SUBSET RequestIds, AddRequests(c, ids)
      PROVE  UniqueIds'
  <2>1. \A b \in pending : b.client = c => b.ids \intersect ids = {}
    BY <1>2 DEF AddRequests, AddBatch, IsDuplicate, PendingIds, PendingOf
  <2> QED BY <1>2, <2>1 DEF AddRequests, AddBatch, UniqueIds
<1>3. ASSUME NEW c \in Clients, NEW ids \in SUBSET RequestIds, TryFinishRequests(c, ids)
      PROVE  UniqueIds'
  <2>1. \A b \in pending' : \E o \in pending : b = Remains(o, c, ids)
    BY <1>3, FinishKeepsBatches
  <2>2. \A o \in pending : /\ Remains(o, c, ids).ids \subseteq o.ids
                           /\ Remains(o, c, ids).client = o.client
    BY DEF Remains, TypeOK, Batch
  <2> QED BY <2>1, <2>2 DEF UniqueIds
<1> QED BY <1>1, <1>2, <1>3, StepKinds

LEMMA NeverEarlyStep == TypeOK /\ NeverEarly /\ [Next]_poolVars => NeverEarly'
<1> SUFFICES ASSUME TypeOK, NeverEarly, [Next]_poolVars
             PROVE  NeverEarly'
    OBVIOUS
<1>1. CASE CheckTimeout
    BY <1>1 DEF CheckTimeout, Overdue, PendingOf, NeverEarly, TypeOK, Batch
<1>2. CASE expired' \subseteq expired /\ now' \in Nat /\ now' >= now
    BY <1>2 DEF NeverEarly, TypeOK, Batch
<1>3. CheckTimeout \/ (expired' \subseteq expired /\ now' \in Nat /\ now' >= now)
    BY DEF Next, CallerNext, AddRequests, AddBatch, AddRequestsFails, TryFinishRequests,
           TimerNext, TimeoutCallback, ThreadExits, RequestStop, Drain, Tick, poolVars,
           TypeOK
<1> QED BY <1>1, <1>2, <1>3

LEMMA InitInv == Init => PoolInv
<1> SUFFICES ASSUME Init
             PROVE  PoolInv
    OBVIOUS
<1>1. TypeOK
    BY DEF Init, TypeOK
<1>2. TicketInv /\ DeadlineInv /\ TimerInv
    BY DEF Init, TicketInv, Batches, DeadlineInv, TimerInv
<1>3. SortedByDeadline /\ UniqueIds /\ NeverEarly
    BY DEF Init, SortedByDeadline, UniqueIds, NeverEarly
<1> QED BY <1>1, <1>2, <1>3 DEF PoolInv

LEMMA StepInv == PoolInv /\ [Next]_poolVars => PoolInv'
BY TypeStep, TicketStep, DeadlineStep, TimerStep, SortedStep, UniqueStep, NeverEarlyStep
   DEF PoolInv

LEMMA Invariance == Spec => []PoolInv
BY InitInv, StepInv, PTL DEF Spec
-----------------------------------------------------------------------------
\* The state of the pool always has its type (the fields of PendingRequestPool).
THEOREM TypeCorrect == Spec => []TypeOK
<1>1. PoolInv => TypeOK
    BY DEF PoolInv
<1> QED BY <1>1, Invariance, PTL

\* addRequests keeps every client's list sorted by deadline, which is what lets
\* checkTimeout stop at the first batch that is not overdue.
THEOREM ListsSorted == Spec => []SortedByDeadline
<1>1. PoolInv => SortedByDeadline
    BY DEF PoolInv
<1> QED BY <1>1, Invariance, PTL

\* addRequests never lets one client have the same request ID pending twice.
THEOREM IdsUnique == Spec => []UniqueIds
<1>1. PoolInv => UniqueIds
    BY DEF PoolInv
<1> QED BY <1>1, Invariance, PTL

\* checkTimeout never calls a callback before the deadline of its requests.
THEOREM NotEarly == Spec => []NeverEarly
<1>1. PoolInv => NeverEarly
    BY DEF PoolInv
<1> QED BY <1>1, Invariance, PTL

\* ~PendingRequestPool leaves no request unanswered.
THEOREM DestructorAnswersAll == Spec => []NothingLeftBehind
<1>1. PoolInv => NothingLeftBehind
    BY DEF PoolInv, TimerInv, NothingLeftBehind
<1> QED BY <1>1, Invariance, PTL

\* A pass of checkTimeout takes every overdue batch, in spite of its break: what
\* it leaves behind has a deadline that is still to come.
THEOREM TimeoutPassComplete == Spec => PassMissesNothing
<1>1. PoolInv /\ [Next]_poolVars
        => [CheckTimeout => \A b \in pending' : now <= b.deadline]_poolVars
  <2> SUFFICES ASSUME PoolInv, CheckTimeout, NEW b \in pending'
               PROVE  now <= b.deadline
    OBVIOUS
  <2>1. PICK o \in pending : /\ o.client = b.client
                             /\ o.ticket <= b.ticket
                             /\ ~(o.deadline < now)
    BY DEF CheckTimeout, Overdue, PendingOf
  <2>2. b \in pending
    BY DEF CheckTimeout
  <2>3. o.deadline <= b.deadline
    BY <2>1, <2>2 DEF PoolInv, SortedByDeadline
  <2> QED BY <2>1, <2>2, <2>3 DEF PoolInv, TypeOK, Batch
<1> QED BY <1>1, Invariance, PTL DEF Spec, PassMissesNothing
-----------------------------------------------------------------------------
\* The limit.  The places a client takes shrink, or grow by the size of a call.
LimitInv == \A c \in Clients : IsFiniteSet(Slots(c)) /\ CountOf(c) <= MaxPending

LEMMA SlotsShrink ==
    ASSUME LimitInv, NEW c \in Clients, Slots(c)' \subseteq Slots(c)
    PROVE  IsFiniteSet(Slots(c)') /\ Cardinality(Slots(c)') <= MaxPending
<1>1. IsFiniteSet(Slots(c)) /\ Cardinality(Slots(c)) <= MaxPending
    BY DEF LimitInv, CountOf
<1>2. IsFiniteSet(Slots(c)') /\ Cardinality(Slots(c)') <= Cardinality(Slots(c))
    BY <1>1, FS_Subset
<1>3. Cardinality(Slots(c)') \in Nat /\ Cardinality(Slots(c)) \in Nat
    BY <1>1, <1>2, FS_CardinalityType
<1> QED BY <1>1, <1>2, <1>3, PoolAssumption

LEMMA LimitStep ==
    TypeOK /\ TicketInv /\ TimerInv /\ LimitInv /\ [Next]_poolVars => LimitInv'
<1> SUFFICES ASSUME TypeOK, TicketInv, TimerInv, LimitInv, [Next]_poolVars,
                    NEW d \in Clients
             PROVE  IsFiniteSet(Slots(d)') /\ Cardinality(Slots(d)') <= MaxPending
    BY DEF LimitInv, CountOf
<1>1. CASE Removes
  <2>1. Slots(d)' \subseteq Slots(d)
    BY <1>1 DEF Removes, Slots, PendingOf
  <2> QED BY <2>1, SlotsShrink
<1>2. ASSUME NEW c \in Clients, NEW ids \in SUBSET RequestIds, AddRequests(c, ids)
      PROVE  IsFiniteSet(Slots(d)') /\ Cardinality(Slots(d)') <= MaxPending
  <2>1. CASE c # d
    <3>1. Slots(d)' \subseteq Slots(d)
      BY <1>2, <2>1 DEF AddRequests, AddBatch, Slots, PendingOf
    <3> QED BY <3>1, SlotsShrink
  <2>2. CASE c = d
    <3> DEFINE New == {nextTicket} \X ids
    <3>1. Slots(d)' = Slots(d) \union New
      <4>1. PICK b : /\ pending' = pending \union {b}
                     /\ b.client = d /\ b.ids = ids /\ b.ticket = nextTicket
        <5> DEFINE n == [client |-> c, ids |-> ids, deadline |-> now + Timeout,
                         ticket |-> nextTicket]
        <5>1. pending' = pending \union {n}
          BY <1>2 DEF AddRequests, AddBatch
        <5>2. n.client = d /\ n.ids = ids /\ n.ticket = nextTicket
          BY <2>2
        <5> HIDE DEF n
        <5> QED BY <5>1, <5>2
      <4>2. PendingOf(d)' = PendingOf(d) \union {b}
        BY <4>1 DEF PendingOf
      <4> QED BY <4>1, <4>2 DEF Slots
    <3>2. IsFiniteSet(ids) /\ IsFiniteSet({nextTicket}) /\ Cardinality({nextTicket}) = 1
      BY PoolAssumption, FS_Subset, FS_Singleton
    <3>3. IsFiniteSet(New) /\ Cardinality(New) = Cardinality(ids)
      BY <3>2, FS_Product, FS_CardinalityType
    <3>4. IsFiniteSet(Slots(d)) /\ Cardinality(Slots(d)) \in Nat
      BY FS_CardinalityType DEF LimitInv
    <3>5. Cardinality(ids) <= MaxPending - Cardinality(Slots(d))
      <4>1. ~(Cardinality(ids) > MaxPending - Cardinality(Slots(d)))
        BY <1>2, <2>2 DEF AddRequests, AddBatch, IsTooMany, CountOf
      <4>2. Cardinality(ids) \in Nat
        BY <3>2, FS_CardinalityType
      <4> QED BY <4>1, <4>2, <3>4, PoolAssumption
    <3>6. /\ IsFiniteSet(Slots(d) \union New)
          /\ Cardinality(Slots(d) \union New) =
                Cardinality(Slots(d)) + Cardinality(New) - Cardinality(Slots(d) \intersect New)
      BY <3>3, <3>4, FS_Union
    <3>7. Cardinality(Slots(d) \intersect New) \in Nat
      BY <3>3, FS_Subset, FS_CardinalityType
    <3>8. Cardinality(ids) \in Nat
      BY <3>2, FS_CardinalityType
    <3> HIDE DEF New
    <3> QED BY <3>1, <3>3, <3>4, <3>5, <3>6, <3>7, <3>8, PoolAssumption
  <2> QED BY <2>1, <2>2
<1>3. ASSUME NEW c \in Clients, NEW ids \in SUBSET RequestIds, TryFinishRequests(c, ids)
      PROVE  IsFiniteSet(Slots(d)') /\ Cardinality(Slots(d)') <= MaxPending
  <2>1. \A b \in pending' : \E o \in pending : b = Remains(o, c, ids)
    BY <1>3, FinishKeepsBatches
  <2>2. \A o \in pending : /\ Remains(o, c, ids).ids \subseteq o.ids
                           /\ Remains(o, c, ids).client = o.client
                           /\ Remains(o, c, ids).ticket = o.ticket
    BY DEF Remains, TypeOK, Batch
  <2>3. Slots(d)' \subseteq Slots(d)
    BY <2>1, <2>2 DEF Slots, PendingOf
  <2> QED BY <2>3, SlotsShrink
<1> QED BY <1>1, <1>2, <1>3, StepKinds

\* addRequests lets no client have more than MAX_PENDING_REQUEST_PER_CLIENT
\* requests, so MAX_PENDING_REQUEST_PER_CLIENT - pendingRequestCount never wraps.
THEOREM LimitKept == Spec => []WithinLimit
<1>1. Init => LimitInv
  <2>1. Init => \A c \in Clients : Slots(c) = {}
    BY DEF Init, Slots, PendingOf
  <2> QED BY <2>1, FS_EmptySet, PoolAssumption DEF LimitInv, CountOf
<1>2. PoolInv /\ LimitInv /\ [Next]_poolVars => LimitInv'
    BY LimitStep DEF PoolInv
<1>3. LimitInv => WithinLimit
    BY DEF LimitInv, WithinLimit
<1> QED BY <1>1, <1>2, <1>3, Invariance, PTL DEF Spec
-----------------------------------------------------------------------------
\* The refinement of RequestLedger.  The requests of a batch, as the ledger
\* knows them, and the fact that makes reasoning about Outstanding first-order.
RequestsOf(b) == {[client |-> b.client, id |-> i, ticket |-> b.ticket] : i \in b.ids}

LEMMA OutstandingIs ==
    /\ \A r : r \in Outstanding <=> \E b \in Batches : r \in RequestsOf(b)
    /\ \A r : r \in Outstanding' <=> \E b \in Batches' : r \in RequestsOf(b)
BY DEF Outstanding, Batches, RequestsOf

\* The names an answer to a whole batch gives.
LEMMA NamesOfBatch ==
    \A b : {b.client} \X b.ids = {<<r.client, r.id>> : r \in RequestsOf(b)}
<1> SUFFICES ASSUME NEW b
             PROVE  {b.client} \X b.ids = {<<r.client, r.id>> : r \in RequestsOf(b)}
    OBVIOUS
<1> DEFINE name(i) == [client |-> b.client, id |-> i, ticket |-> b.ticket]
<1>1. \A i : name(i).client = b.client /\ name(i).id = i
    OBVIOUS
<1>2. RequestsOf(b) = {name(i) : i \in b.ids}
    BY DEF RequestsOf
<1> HIDE DEF name
<1>3. {<<r.client, r.id>> : r \in RequestsOf(b)} = {<<b.client, i>> : i \in b.ids}
    BY <1>1, <1>2
<1> QED BY <1>3

\* A step that answers nothing and leaves the requests alone is an empty answer.
LEMMA NoAnswer ==
    ASSUME Outstanding' = Outstanding, nextTicket' = nextTicket, answered' = {}
    PROVE  Ledger!Next
<1>1. {} \in SUBSET Outstanding /\ Ledger!Answer({})
    BY DEF Ledger!Answer, Ledger!Unambiguous
<1> QED BY <1>1 DEF Ledger!Next

\* A step that takes whole batches out and answers their requests is an answer.
LEMMA AnswerBatches ==
    ASSUME TypeOK, TicketInv, UniqueIds,
           NEW Gone \in SUBSET Batches,
           Gone \subseteq pending \/ \E b \in expired : Gone = {b},
           Batches' = Batches \ Gone,
           nextTicket' = nextTicket,
           answered' = UNION {{b.client} \X b.ids : b \in Gone}
    PROVE  Ledger!Next
<1> DEFINE rs == UNION {RequestsOf(b) : b \in Gone}
<1>1. rs \in SUBSET Outstanding
    BY OutstandingIs
<1>2. Outstanding' = Outstanding \ rs
  <2>1. \A a, b \in Batches : \A r : r \in RequestsOf(a) /\ r \in RequestsOf(b) => a = b
    BY DEF RequestsOf, TicketInv
  <2> QED BY <2>1, OutstandingIs
<1>3. answered' = {<<r.client, r.id>> : r \in rs}
  <2>1. \A b \in Gone : {b.client} \X b.ids = {<<r.client, r.id>> : r \in RequestsOf(b)}
    BY NamesOfBatch
  <2> QED BY <2>1
<1>4. \A r, s \in rs : r.client = s.client /\ r.id = s.id => r = s
  <2>1. \A a, b \in Gone : a.client = b.client /\ a.ids \intersect b.ids # {} => a = b
    BY DEF UniqueIds
  <2>2. SUFFICES ASSUME NEW r \in rs, NEW s \in rs, r.client = s.client, r.id = s.id
                 PROVE  r = s
    OBVIOUS
  <2>3. PICK a \in Gone : r \in RequestsOf(a)
    OBVIOUS
  <2>4. PICK b \in Gone : s \in RequestsOf(b)
    OBVIOUS
  <2>5. /\ r.client = a.client /\ r.id \in a.ids
        /\ r = [client |-> a.client, id |-> r.id, ticket |-> a.ticket]
    BY <2>3 DEF RequestsOf
  <2>6. /\ s.client = b.client /\ s.id \in b.ids
        /\ s = [client |-> b.client, id |-> s.id, ticket |-> b.ticket]
    BY <2>4 DEF RequestsOf
  <2>7. a = b
    BY <2>1, <2>2, <2>5, <2>6
  <2> QED BY <2>2, <2>5, <2>6, <2>7
<1> HIDE DEF rs
<1>5. Ledger!Answer(rs)
    BY <1>2, <1>3, <1>4 DEF Ledger!Answer, Ledger!Unambiguous
<1> QED BY <1>1, <1>5 DEF Ledger!Next

LEMMA AddIsAccept ==
    ASSUME TypeOK, NEW c \in Clients, NEW ids \in SUBSET RequestIds, AddRequests(c, ids)
    PROVE  Ledger!Next
<1> DEFINE n == [client |-> c, ids |-> ids, deadline |-> now + Timeout,
                 ticket |-> nextTicket]
<1>1. /\ pending' = pending \union {n} /\ expired' = expired
      /\ nextTicket' = nextTicket + 1 /\ answered' = {}
    BY DEF AddRequests, AddBatch
<1>2. n.client = c /\ n.ids = ids /\ n.ticket = nextTicket
    OBVIOUS
<1> HIDE DEF n
<1>3. RequestsOf(n) = Ledger!Requests(c, ids, nextTicket)
    BY <1>2 DEF RequestsOf, Ledger!Requests
<1>4. Batches' = Batches \union {n}
    BY <1>1 DEF Batches
<1>5. Outstanding' = Outstanding \union Ledger!Requests(c, ids, nextTicket)
    BY <1>3, <1>4, OutstandingIs
<1> QED BY <1>1, <1>5 DEF Ledger!Next, Ledger!Accept

LEMMA FinishIsAnswer ==
    ASSUME TypeOK, TicketInv, UniqueIds,
           NEW c \in Clients, NEW ids \in SUBSET RequestIds, TryFinishRequests(c, ids)
    PROVE  Ledger!Next
<1> DEFINE Done(b) == {r \in RequestsOf(b) : b.client = c /\ r.id \in ids}
           rs == UNION {Done(b) : b \in pending}
<1>1. rs \in SUBSET Outstanding
    BY OutstandingIs DEF Batches
<1>2. Outstanding' = Outstanding \ rs
  <2>1. \A a, b \in Batches : \A r : r \in RequestsOf(a) /\ r \in RequestsOf(b) => a = b
    BY DEF RequestsOf, TicketInv
  <2>2. expired' = expired /\ pending \intersect expired = {}
    BY DEF TryFinishRequests, TicketInv
  <2>3. \A o \in pending : RequestsOf(Remains(o, c, ids)) = RequestsOf(o) \ Done(o)
    BY DEF Remains, RequestsOf, TypeOK, Batch
  <2>4. \A b \in pending' : \E o \in pending : b = Remains(o, c, ids)
    BY FinishKeepsBatches
  <2>5. \A o \in pending : RequestsOf(o) \ Done(o) # {} => Remains(o, c, ids) \in pending'
    <3>1. SUFFICES ASSUME NEW o \in pending, RequestsOf(o) \ Done(o) # {}
                   PROVE  Remains(o, c, ids) \in pending'
      OBVIOUS
    <3>2. CASE o.client = c
      <4>1. o.ids \ ids # {}
        BY <3>1, <3>2 DEF RequestsOf
      <4>2. Remains(o, c, ids) = [o EXCEPT !.ids = @ \ ids]
        BY <3>2 DEF Remains
      <4>3. [o EXCEPT !.ids = @ \ ids].ids # {}
        BY <4>1 DEF TypeOK, Batch
      <4> QED BY <3>2, <4>2, <4>3 DEF TryFinishRequests, Finished, PendingOf
    <3>3. CASE o.client # c
      <4>1. Remains(o, c, ids) = o
        BY <3>3 DEF Remains, TypeOK, Batch
      <4> QED BY <3>3, <4>1 DEF TryFinishRequests, PendingOf
    <3> QED BY <3>2, <3>3
  <2>6. \A r : r \in Outstanding' <=> r \in Outstanding /\ r \notin rs
    <3>1. SUFFICES ASSUME NEW r
                   PROVE  r \in Outstanding' <=> r \in Outstanding /\ r \notin rs
      OBVIOUS
    <3>2. ASSUME r \in Outstanding'
          PROVE  r \in Outstanding /\ r \notin rs
      BY <3>2, <2>1, <2>2, <2>3, <2>4, OutstandingIs DEF Batches
    <3>3. ASSUME r \in Outstanding, r \notin rs
          PROVE  r \in Outstanding'
      <4>1. PICK o \in Batches : r \in RequestsOf(o)
        BY <3>3, OutstandingIs
      <4>2. CASE o \in expired
        BY <4>1, <4>2, <2>2, OutstandingIs DEF Batches
      <4>3. CASE o \in pending
        <5>1. r \in RequestsOf(o) \ Done(o)
          BY <3>3, <4>1, <4>3
        <5>2. Remains(o, c, ids) \in pending' /\ r \in RequestsOf(Remains(o, c, ids))
          BY <5>1, <4>3, <2>3, <2>5
        <5> QED BY <5>2, OutstandingIs DEF Batches
      <4> QED BY <4>1, <4>2, <4>3 DEF Batches
    <3> QED BY <3>2, <3>3
  <2> QED BY <2>6
<1>3. answered' = {<<r.client, r.id>> : r \in rs}
  <2>1. answered' = {c} \X (ids \intersect UNION {b.ids : b \in PendingOf(c)})
    BY DEF TryFinishRequests, FoundIds, PendingIds
  <2>2. \A b \in PendingOf(c) :
           {c} \X (ids \intersect b.ids) = {<<r.client, r.id>> : r \in Done(b)}
    <3>1. SUFFICES ASSUME NEW b \in PendingOf(c)
                   PROVE  {c} \X (ids \intersect b.ids) = {<<r.client, r.id>> : r \in Done(b)}
      OBVIOUS
    <3>2. Done(b) = RequestsOf([b EXCEPT !.ids = ids \intersect @])
      BY DEF PendingOf, RequestsOf, TypeOK, Batch
    <3>3. /\ [b EXCEPT !.ids = ids \intersect @].client = c
          /\ [b EXCEPT !.ids = ids \intersect @].ids = ids \intersect b.ids
      BY DEF PendingOf, TypeOK, Batch
    <3> QED BY <3>2, <3>3, NamesOfBatch
  <2>3. \A b \in pending \ PendingOf(c) : Done(b) = {}
    BY DEF PendingOf
  <2> QED BY <2>1, <2>2, <2>3 DEF PendingOf
<1>4. \A r, s \in rs : r.client = s.client /\ r.id = s.id => r = s
  <2>1. SUFFICES ASSUME NEW r \in rs, NEW s \in rs, r.client = s.client, r.id = s.id
                 PROVE  r = s
    OBVIOUS
  <2>2. PICK a \in pending : r \in Done(a)
    OBVIOUS
  <2>3. PICK b \in pending : s \in Done(b)
    OBVIOUS
  <2>4. /\ r.client = a.client /\ r.id \in a.ids
        /\ r = [client |-> a.client, id |-> r.id, ticket |-> a.ticket]
    BY <2>2 DEF RequestsOf
  <2>5. /\ s.client = b.client /\ s.id \in b.ids
        /\ s = [client |-> b.client, id |-> s.id, ticket |-> b.ticket]
    BY <2>3 DEF RequestsOf
  <2>6. a = b
    BY <2>1, <2>4, <2>5 DEF UniqueIds
  <2> QED BY <2>1, <2>4, <2>5, <2>6
<1>5. nextTicket' = nextTicket
    BY DEF TryFinishRequests
<1> HIDE DEF rs
<1>6. Ledger!Answer(rs)
    BY <1>2, <1>3, <1>4, <1>5 DEF Ledger!Answer, Ledger!Unambiguous
<1> QED BY <1>1, <1>6 DEF Ledger!Next

LEMMA InitRefines == Init => Ledger!Init
BY DEF Init, Ledger!Init, Outstanding

LEMMA StepRefines == PoolInv /\ [Next]_poolVars => [Ledger!Next]_(Ledger!ledgerVars)
<1> SUFFICES ASSUME PoolInv, [Next]_poolVars
             PROVE  [Ledger!Next]_(Ledger!ledgerVars)
    OBVIOUS
<1> USE DEF PoolInv
<1>1. ASSUME NEW c \in Clients, NEW ids \in SUBSET RequestIds, AddRequests(c, ids)
      PROVE  Ledger!Next
    BY <1>1, AddIsAccept
<1>2. ASSUME NEW c \in Clients, NEW ids \in SUBSET RequestIds, NEW status,
             AddRequestsFails(c, ids, status)
      PROVE  Ledger!Next
    BY <1>2, NoAnswer DEF AddRequestsFails, Outstanding
<1>3. ASSUME NEW c \in Clients, NEW ids \in SUBSET RequestIds, TryFinishRequests(c, ids)
      PROVE  Ledger!Next
    BY <1>3, FinishIsAnswer
<1>4. CASE CheckTimeout
  <2>1. Batches' = Batches
    BY <1>4 DEF CheckTimeout, Overdue, Batches, TimerInv
  <2>2. Outstanding' = Outstanding
    BY <2>1, OutstandingIs
  <2> QED BY <1>4, <2>2, NoAnswer DEF CheckTimeout
<1>5. ASSUME NEW b \in expired, TimeoutCallback(b)
      PROVE  Ledger!Next
  <2>1. {b} \in SUBSET Batches /\ Batches' = Batches \ {b}
    BY <1>5 DEF TimeoutCallback, Batches, TicketInv
  <2>2. answered' = UNION {{o.client} \X o.ids : o \in {b}} /\ nextTicket' = nextTicket
    BY <1>5 DEF TimeoutCallback
  <2> QED BY <2>1, <2>2, AnswerBatches
<1>6. CASE ThreadExits
    BY <1>6, NoAnswer DEF ThreadExits, Outstanding
<1>7. CASE RequestStop
    BY <1>7, NoAnswer DEF RequestStop, Outstanding
<1>8. CASE Drain
  <2>1. pending \in SUBSET Batches /\ Batches' = Batches \ pending
    BY <1>8 DEF Drain, Batches, TimerInv
  <2> QED BY <1>8, <2>1, AnswerBatches DEF Drain
<1>9. CASE Tick
    BY <1>9, NoAnswer DEF Tick, Outstanding
<1>10. CASE UNCHANGED poolVars
    BY <1>10 DEF poolVars, Ledger!ledgerVars, Outstanding
<1> QED BY <1>1, <1>2, <1>3, <1>4, <1>5, <1>6, <1>7, <1>8, <1>9, <1>10
        DEF Next, CallerNext, TimerNext

\* The pool implements the ledger: an accepted request is owed an answer until
\* tryFinishRequests returns it, a timeout callback names it or the destructor
\* answers it, which happens once; nothing else is ever returned or called back.
THEOREM PoolImplementsLedger == Spec => ImplementsLedger
BY InitRefines, StepRefines, Invariance, PTL DEF Spec, ImplementsLedger, Ledger!Spec
=============================================================================
