------------------------ MODULE VhalRequestsProofs ------------------------
(***************************************************************************)
(* Proofs about VhalRequests, for any clients, threads, request IDs and    *)
(* bounds: the HAL uses the pool as the pool is meant to be used, answers  *)
(* a request once and with an answer of the same address and ID, leaves    *)
(*  nothing pending for a call that failed, and   *)
(* is told of the death of every client it keeps an object for.            *)
(***************************************************************************)
EXTENDS VhalRequests, TLAPS

(* The parts of a call and what the hardware holds of it have their types. *)

Requests == [binder : Binders, addr : Addresses, ids : SUBSET RequestIds,
             denied : SUBSET RequestIds, status : {"running", "ok", "error"}]

Registering == [pc : {"registered"}, binder : Binders, addr : Addresses,
                ids : SUBSET RequestIds, denied : SUBSET RequestIds]
Answering   == [pc : {"added", "calling hardware"}, addr : Addresses, ticket : Nat]

HardwareRequests == [addr : Addresses, ids : SUBSET RequestIds, ticket : Nat,
                     binder : Binders]

\* The threads that have a ticket.
Holders == {t \in Threads : thread[t].pc \in {"added", "calling hardware"}}

CallsInv ==
    /\ calls \in Seq(Requests)
    /\ Len(calls) = nextTicket
    /\ thread \in [Threads -> {Idle} \union Registering \union Answering]
    /\ \A t \in Holders : thread[t].ticket < nextTicket
    /\ hardware \subseteq HardwareRequests
    /\ \A q \in hardware : q.ticket < nextTicket

LEMMA Places ==
    /\ Idle.pc = "idle"
    /\ \A r \in Registering : r.pc = "registered"
    /\ \A r \in Answering : r.pc = "added" \/ r.pc = "calling hardware"
BY DEF Idle, Registering, Answering

\* A thread is idle, registers a call or answers one it has a ticket of.
LEMMA ThreadStates ==
    ASSUME CallsInv, NEW t \in Threads
    PROVE  /\ thread[t].pc = "idle" => thread[t] = Idle
           /\ thread[t].pc = "registered" => thread[t] \in Registering
           /\ thread[t].pc \in {"added", "calling hardware"} =>
                 /\ thread[t] \in Answering
                 /\ thread[t].ticket + 1 \in DOMAIN calls
                 /\ CallOf(t) \in Requests
<1>1. thread[t] \in {Idle} \union Registering \union Answering
  BY DEF CallsInv
<1>2. /\ thread[t].pc = "idle" => thread[t] = Idle
      /\ thread[t].pc = "registered" => thread[t] \in Registering
      /\ thread[t].pc \in {"added", "calling hardware"} => thread[t] \in Answering
  BY <1>1, Places
<1>3. ASSUME thread[t].pc \in {"added", "calling hardware"}
      PROVE  thread[t].ticket + 1 \in DOMAIN calls /\ CallOf(t) \in Requests
  <2>1. thread[t].ticket \in Nat /\ thread[t].ticket < Len(calls)
    BY <1>2, <1>3 DEF Answering, CallsInv, Holders
  <2>2. calls \in Seq(Requests)
    BY DEF CallsInv
  <2> QED
    BY <2>1, <2>2 DEF CallOf
<1> QED
  BY <1>2, <1>3

\* What a step of the HAL is to the pool.
LEMMA PoolStep ==
    ASSUME CallsInv, [Next]_vars
    PROVE  [Pool!Next]_poolVars
<1>1. ASSUME NEW t \in Threads, Register(t)
      PROVE  Pool!Next
  <2>1. /\ thread[t].addr \in Addresses /\ thread[t].ids \in SUBSET RequestIds
        /\ Pool!AddRequests(thread[t].addr, thread[t].ids)
    BY <1>1, ThreadStates DEF Register, Registering
  <2> QED
    BY <2>1 DEF Pool!Next, Pool!CallerNext
<1>2. ASSUME NEW t \in Threads, NEW status \in Pool!Refusals, RegisterFails(t, status)
      PROVE  Pool!Next
  <2>1. /\ thread[t].addr \in Addresses /\ thread[t].ids \in SUBSET RequestIds
        /\ Pool!AddRequestsFails(thread[t].addr, thread[t].ids, status)
    BY <1>2, ThreadStates DEF RegisterFails, Registering
  <2> QED
    BY <2>1 DEF Pool!Next, Pool!CallerNext
<1>3. ASSUME NEW t \in Threads, HardwareRefuses(t)
      PROVE  Pool!Next
  <2>1. /\ thread[t].addr \in Addresses /\ CallOf(t).ids \in SUBSET RequestIds
        /\ Pool!TryFinishRequests(thread[t].addr, CallOf(t).ids)
    BY <1>3, ThreadStates DEF HardwareRefuses, Answering, Requests
  <2> QED
    BY <2>1 DEF Pool!Next, Pool!CallerNext
<1>4. ASSUME NEW q \in hardware, NEW ids \in (SUBSET q.ids) \ {{}}, HardwareResults(q, ids)
      PROVE  Pool!Next
  <2>1. /\ q.addr \in Addresses /\ ids \in SUBSET RequestIds
        /\ Pool!TryFinishRequests(q.addr, ids)
    BY <1>4 DEF HardwareResults, CallsInv, HardwareRequests
  <2> QED
    BY <2>1 DEF Pool!Next, Pool!CallerNext
<1>5. ASSUME NEW b \in expired, OnTimeout(b)
      PROVE  Pool!Next
  BY <1>5 DEF OnTimeout, Pool!Next, Pool!TimerNext
<1>6. ASSUME CheckTimeout \/ Tick
      PROVE  Pool!Next
  BY <1>6 DEF CheckTimeout, Tick, Pool!Next, Pool!TimerNext
<1>7. CASE CallNext
  <2>1. ASSUME NEW t \in Threads,
               \/ \E k \in Kinds, b \in Binders, ids, denied \in SUBSET RequestIds :
                     Call(t, k, b, ids, denied)
               \/ \E b \in Binders : CallRefused(t, b)
               \/ SendDenied(t) \/ HardwareAccepts(t)
        PROVE  UNCHANGED poolVars
    BY <2>1 DEF Call, CallRefused, SendDenied, HardwareAccepts
  <2> QED
    BY <1>1, <1>2, <1>3, <1>7, <2>1 DEF CallNext
<1>8. CASE BinderNext
  BY <1>8 DEF BinderNext, BinderDies, Obituary, OnBinderUnlinked, HandleDied, HandleUnlinked,
              notBinderVars
<1>9. CASE UNCHANGED vars
  BY <1>9 DEF vars, notBinderVars
<1> QED
  BY <1>4, <1>5, <1>6, <1>7, <1>8, <1>9 DEF Next

LEMMA CallsInductive ==
    ASSUME CallsInv, [Next]_vars
    PROVE  CallsInv'
<1> USE DEF CallsInv
<1>0. \A t \in Threads : thread[t].pc \in {"added", "calling hardware"} =>
          thread[t].ticket \in Nat /\ thread[t].ticket < nextTicket
  BY ThreadStates DEF Holders, Answering
<1>1. ASSUME UNCHANGED <<calls, nextTicket, thread, hardware>>
      PROVE  CallsInv'
  BY <1>1 DEF Holders
<1>2. ASSUME NEW t \in Threads, NEW s, s = Idle \/ s \in Registering,
             thread' = [thread EXCEPT ![t] = s],
             UNCHANGED <<nextTicket, hardware>>,
             calls' \in Seq(Requests), Len(calls') = Len(calls)
      PROVE  CallsInv'
  <2>1. thread' \in [Threads -> {Idle} \union Registering \union Answering]
    BY <1>2
  <2>2. s.pc \notin {"added", "calling hardware"}
    BY <1>2, Places
  <2>3. Holders' \subseteq Holders /\ \A u \in Holders' : thread'[u] = thread[u]
    BY <1>2, <2>2 DEF Holders
  <2> QED
    BY <1>2, <2>1, <2>3
<1>3. ASSUME NEW t \in Threads, NEW k \in Kinds, NEW b \in Binders,
             NEW ids \in SUBSET RequestIds, NEW denied \in SUBSET RequestIds,
             Call(t, k, b, ids, denied)
      PROVE  CallsInv'
  BY <1>2, <1>3 DEF Call, poolVars, Registering
<1>4. ASSUME NEW t \in Threads, Register(t)
      PROVE  CallsInv'
  <2>1. thread[t] \in Registering
    BY <1>4, ThreadStates DEF Register
  <2>2. /\ nextTicket' = nextTicket + 1 /\ hardware' = hardware
        /\ thread' = [thread EXCEPT ![t] = [pc |-> "added", addr |-> thread[t].addr,
                                           ticket |-> nextTicket]]
    BY <1>4 DEF Register, Pool!AddRequests, Pool!AddBatch
  <2>3. calls' \in Seq(Requests) /\ Len(calls') = Len(calls) + 1
    BY <1>4, <2>1 DEF Register, Registering, Requests
  <2>4. nextTicket \in Nat /\ thread[t].addr \in Addresses
    BY <2>1 DEF Registering
  <2> DEFINE added == [pc |-> "added", addr |-> thread[t].addr, ticket |-> nextTicket]
  <2>5. added \in Answering /\ added.ticket = nextTicket
    BY <2>4 DEF Answering
  <2> HIDE DEF added
  <2>6. /\ thread' \in [Threads -> {Idle} \union Registering \union Answering]
        /\ thread'[t] = added
        /\ \A u \in Threads \ {t} : thread'[u] = thread[u]
    BY <2>2, <2>5 DEF added
  <2>7. ASSUME NEW u \in Holders'
        PROVE  thread'[u].ticket \in Nat /\ thread'[u].ticket <= nextTicket
    <3>1. u \in Threads /\ thread'[u].pc \in {"added", "calling hardware"}
      BY DEF Holders
    <3>2. CASE u = t
      BY <2>4, <2>5, <2>6, <3>2
    <3>3. CASE u # t
      <4>1. thread'[u] = thread[u]
        BY <2>6, <3>1, <3>3
      <4>2. thread[u].ticket \in Nat /\ thread[u].ticket < nextTicket
        BY <1>0, <3>1, <4>1
      <4> HIDE DEF CallsInv
      <4> QED
        BY <2>4, <4>1, <4>2
    <3> QED
      BY <3>2, <3>3
  <2>8. \A q \in hardware : q.ticket \in Nat
    BY DEF HardwareRequests
  <2> QED
    BY <2>2, <2>3, <2>4, <2>6, <2>7, <2>8
<1>5. ASSUME NEW t \in Threads, NEW status \in {"ok", "error"},
             thread[t].pc \in {"added", "calling hardware"}, Return(t, status)
      PROVE  calls' \in Seq(Requests) /\ Len(calls') = Len(calls)
  <2>1. thread[t].ticket + 1 \in DOMAIN calls /\ CallOf(t) \in Requests
    BY <1>5, ThreadStates
  <2>2. calls' = [calls EXCEPT ![thread[t].ticket + 1] = [CallOf(t) EXCEPT !.status = status]]
    BY <1>5 DEF Return, CallOf
  <2>3. [CallOf(t) EXCEPT !.status = status] \in Requests
    BY <2>1 DEF Requests
  <2> QED
    BY <2>1, <2>2, <2>3
<1>6. ASSUME NEW t \in Threads, SendDenied(t)
      PROVE  CallsInv'
  <2>1. CASE Return(t, "ok")
    BY <1>2, <1>5, <1>6, <2>1 DEF SendDenied, Return, poolVars
  <2>2. CASE thread' = [thread EXCEPT ![t].pc = "calling hardware"] /\ calls' = calls
    <3>1. thread[t] \in Answering
      BY <1>6, ThreadStates DEF SendDenied
    <3>2. /\ [thread[t] EXCEPT !.pc = "calling hardware"] \in Answering
          /\ [thread[t] EXCEPT !.pc = "calling hardware"].ticket = thread[t].ticket
      BY <3>1 DEF Answering
    <3>3. thread' = [thread EXCEPT ![t] = [thread[t] EXCEPT !.pc = "calling hardware"]]
      BY <2>2
    <3>4. thread' \in [Threads -> {Idle} \union Registering \union Answering]
      BY <3>2, <3>3
    <3>5. t \in Holders
      BY <1>6 DEF SendDenied, Holders
    <3>6. Holders' \subseteq Holders /\ \A u \in Holders' : thread'[u].ticket = thread[u].ticket
      BY <3>2, <3>3, <3>5 DEF Holders
    <3>7. UNCHANGED <<nextTicket, hardware>>
      BY <1>6 DEF SendDenied, poolVars
    <3> QED
      BY <2>2, <3>4, <3>6, <3>7
  <2> QED
    BY <1>6, <2>1, <2>2 DEF SendDenied
<1>7. ASSUME NEW t \in Threads, HardwareRefuses(t)
      PROVE  CallsInv'
  BY <1>2, <1>5, <1>7 DEF HardwareRefuses, Return, Pool!TryFinishRequests
<1>8. ASSUME NEW t \in Threads, HardwareAccepts(t)
      PROVE  CallsInv'
  <2>1. thread[t] \in Answering /\ CallOf(t) \in Requests
    BY <1>8, ThreadStates DEF HardwareAccepts
  <2>2. /\ thread' = [thread EXCEPT ![t] = Idle]
        /\ UNCHANGED nextTicket
        /\ Return(t, "ok")
    BY <1>8 DEF HardwareAccepts, Return, poolVars
  <2>3. calls' \in Seq(Requests) /\ Len(calls') = Len(calls)
    BY <1>5, <1>8, <2>2 DEF HardwareAccepts
  <2> DEFINE new == [addr |-> thread[t].addr, ids |-> CallOf(t).ids,
                     ticket |-> thread[t].ticket, binder |-> CallOf(t).binder]
  <2>4. new \in HardwareRequests /\ new.ticket = thread[t].ticket
    BY <2>1 DEF HardwareRequests, Answering, Requests
  <2>5. hardware' = hardware \union {new}
    BY <1>8 DEF HardwareAccepts
  <2>6. thread[t].ticket < nextTicket
    BY <1>0, <1>8 DEF HardwareAccepts
  <2> HIDE DEF new
  <2>7. hardware' \subseteq HardwareRequests /\ \A q \in hardware' : q.ticket < nextTicket'
    BY <2>2, <2>4, <2>5, <2>6
  <2>8. Holders' \subseteq Holders /\ \A u \in Holders' : thread'[u] = thread[u]
    BY <2>2 DEF Holders, Idle
  <2> QED
    BY <2>2, <2>3, <2>7, <2>8
<1>9. ASSUME NEW q \in hardware, NEW ids \in (SUBSET q.ids) \ {{}}, HardwareResults(q, ids)
      PROVE  CallsInv'
  <2>1. hardware' \subseteq hardware \union {[q EXCEPT !.ids = @ \ ids]}
    BY <1>9 DEF HardwareResults
  <2>2. /\ [q EXCEPT !.ids = @ \ ids] \in HardwareRequests
        /\ [q EXCEPT !.ids = @ \ ids].ticket = q.ticket
    BY DEF HardwareRequests
  <2>3. UNCHANGED <<calls, nextTicket, thread>>
    BY <1>9 DEF HardwareResults, Pool!TryFinishRequests, callVars
  <2> QED
    BY <2>1, <2>2, <2>3 DEF Holders
<1>10. ASSUME \/ CheckTimeout \/ Tick \/ BinderNext \/ \E b \in expired : OnTimeout(b)
              \/ \E t \in Threads : \/ \E b \in Binders : CallRefused(t, b)
                                   \/ \E s \in Pool!Refusals : RegisterFails(t, s)
              \/ UNCHANGED vars
       PROVE  CallsInv'
  <2>1. ASSUME NEW t \in Threads, NEW s \in Pool!Refusals, RegisterFails(t, s)
        PROVE  CallsInv'
    BY <1>2, <2>1 DEF RegisterFails, Pool!AddRequestsFails
  <2>2. CASE CheckTimeout \/ Tick
    BY <1>1, <2>2 DEF CheckTimeout, Tick, Pool!CheckTimeout, Pool!Tick, callVars
  <2>3. CASE BinderNext
    BY <1>1, <2>3 DEF BinderNext, BinderDies, Obituary, OnBinderUnlinked, HandleDied,
                      HandleUnlinked, notBinderVars, poolVars, callVars
  <2>4. ASSUME NEW b \in expired, OnTimeout(b)
        PROVE  CallsInv'
    BY <1>1, <2>4 DEF OnTimeout, Pool!TimeoutCallback, callVars
  <2>5. ASSUME NEW t \in Threads, NEW b \in Binders, CallRefused(t, b)
        PROVE  CallsInv'
    BY <1>1, <2>5 DEF CallRefused, poolVars, callVars
  <2>6. CASE UNCHANGED vars
    BY <1>1, <2>6 DEF vars, notBinderVars, poolVars, callVars
  <2> QED
    BY <1>10, <2>1, <2>2, <2>3, <2>4, <2>5, <2>6
<1> QED
  BY <1>3, <1>4, <1>6, <1>7, <1>8, <1>9, <1>10 DEF Next, CallNext

\* The HAL takes only steps of the pool (DefaultVehicleHal and ConnectedClient
\* call it with addresses of client objects), so the pool's safety theorems
\* hold of it.
THEOREM HalUsesPool == Spec => ImplementsPool
<1>1. Init => Pool!Init /\ CallsInv
  <2> SUFFICES ASSUME Init PROVE CallsInv
    BY DEF Init
  <2>1. Holders = {}
    BY DEF Init, Holders, Idle
  <2> QED
    BY <2>1 DEF Init, CallsInv, Pool!Init
<1>2. CallsInv /\ [Next]_vars => [Pool!Next]_(Pool!poolVars) /\ CallsInv'
  BY PoolStep, CallsInductive DEF poolVars, Pool!poolVars
<1> QED
  BY <1>1, <1>2, PTL DEF Spec, ImplementsPool, Pool!Spec
-----------------------------------------------------------------------------
(* Calls keep what was asked; batches only shrink after they were added. *)

LEMMA CallsGrow ==
    ASSUME CallsInv, [Next]_vars, NEW n \in DOMAIN calls
    PROVE  /\ n \in DOMAIN calls'
           /\ calls'[n].binder = calls[n].binder /\ calls'[n].addr = calls[n].addr
           /\ calls'[n].ids = calls[n].ids /\ calls'[n].denied = calls[n].denied
<1>1. calls \in Seq(Requests)
  BY DEF CallsInv
<1>2. ASSUME NEW t \in Threads, Register(t)
      PROVE  n \in DOMAIN calls' /\ calls'[n] = calls[n]
  BY <1>1, <1>2 DEF Register
<1>3. ASSUME NEW t \in Threads, NEW status \in {"ok", "error"},
             thread[t].pc \in {"added", "calling hardware"}, Return(t, status)
      PROVE  /\ n \in DOMAIN calls'
             /\ calls'[n].binder = calls[n].binder /\ calls'[n].addr = calls[n].addr
             /\ calls'[n].ids = calls[n].ids /\ calls'[n].denied = calls[n].denied
  <2>1. calls[n] \in Requests
    BY <1>1
  <2> QED
    BY <1>1, <1>3, <2>1 DEF Return, Requests
<1>4. CASE UNCHANGED calls
  BY <1>4
<1>5. CASE CallNext
  <2>1. ASSUME NEW t \in Threads,
               \/ \E k \in Kinds, b \in Binders, ids, denied \in SUBSET RequestIds :
                     Call(t, k, b, ids, denied)
               \/ \E b \in Binders : CallRefused(t, b)
               \/ \E status \in Pool!Refusals : RegisterFails(t, status)
        PROVE  UNCHANGED calls
    BY <2>1 DEF Call, CallRefused, RegisterFails, callVars
  <2>2. ASSUME NEW t \in Threads, SendDenied(t) \/ HardwareAccepts(t) \/ HardwareRefuses(t)
        PROVE  \/ UNCHANGED calls
               \/ /\ thread[t].pc \in {"added", "calling hardware"}
                  /\ Return(t, "ok") \/ Return(t, "error")
    <3>1. CASE SendDenied(t)
      BY <3>1 DEF SendDenied
    <3>2. CASE HardwareAccepts(t)
      BY <3>2 DEF HardwareAccepts
    <3>3. CASE HardwareRefuses(t)
      BY <3>3 DEF HardwareRefuses
    <3> QED
      BY <2>2, <3>1, <3>2, <3>3
  <2> DEFINE kept == /\ n \in DOMAIN calls'
                     /\ calls'[n].binder = calls[n].binder /\ calls'[n].addr = calls[n].addr
                     /\ calls'[n].ids = calls[n].ids /\ calls'[n].denied = calls[n].denied
  <2>3. ASSUME NEW t \in Threads, Register(t) PROVE kept
    BY <1>2, <2>3
  <2>4. UNCHANGED calls => kept
    BY <1>4
  <2>5. ASSUME NEW t \in Threads, SendDenied(t) \/ HardwareAccepts(t) \/ HardwareRefuses(t)
        PROVE  kept
    <3>1. CASE UNCHANGED calls
      BY <2>4, <3>1
    <3>2. CASE /\ thread[t].pc \in {"added", "calling hardware"}
               /\ Return(t, "ok") \/ Return(t, "error")
      <4>1. CASE Return(t, "ok")
        BY <1>3, <3>2, <4>1
      <4>2. CASE Return(t, "error")
        BY <1>3, <3>2, <4>2
      <4> QED
        BY <3>2, <4>1, <4>2
    <3> QED
      BY <2>2, <2>5, <3>1, <3>2
  <2> HIDE DEF kept
  <2>6. kept
    BY <1>5, <2>1, <2>3, <2>4, <2>5 DEF CallNext
  <2> QED
    BY <2>6 DEF kept
<1>6. CASE CheckTimeout \/ Tick \/ BinderNext \/ UNCHANGED vars
           \/ (\E b \in expired : OnTimeout(b))
           \/ (\E q \in hardware : \E ids \in (SUBSET q.ids) \ {{}} : HardwareResults(q, ids))
  BY <1>4, <1>6 DEF CheckTimeout, Tick, BinderNext, BinderDies, Obituary, OnBinderUnlinked,
                    HandleDied, HandleUnlinked, OnTimeout, HardwareResults, vars,
                    notBinderVars, callVars
<1> QED
  BY <1>5, <1>6 DEF Next

Open == pending \union expired

BatchesInv ==
    /\ now \in Nat
    /\ pending \subseteq Pool!Batch /\ expired \subseteq Pool!Batch
    /\ pending \intersect expired = {}
    /\ \A a, b \in Open : a.ticket = b.ticket => a = b
    /\ \A b \in Open : b.ticket < nextTicket /\ b.ids \subseteq calls[b.ticket + 1].ids

\* b is what is left of o.
LeftOf(b, o) == b.ticket = o.ticket /\ b.client = o.client /\ b.ids \subseteq o.ids

\* Every step of the pool but an accepted addRequests.
Shrink == /\ pending' \subseteq Pool!Batch /\ expired' \subseteq Pool!Batch
          /\ pending' \intersect expired' = {}
          /\ nextTicket' = nextTicket /\ now' \in Nat
          /\ \A a, b \in Open' : a.ticket = b.ticket => a = b
          /\ \A b \in pending' : \E o \in pending : LeftOf(b, o)
          /\ \A b \in expired' : b \in Open

LEMMA FinishShrinks ==
    ASSUME BatchesInv, NEW a, NEW ids, Pool!TryFinishRequests(a, ids)
    PROVE  /\ Shrink
           /\ \A b \in pending' : b.client = a => b.ids \intersect ids = {} /\ b.ids # {}
<1> DEFINE rest(o) == [o EXCEPT !.ids = @ \ ids]
<1>1. \A o \in pending : /\ rest(o) \in Pool!Batch /\ LeftOf(rest(o), o)
                         /\ rest(o).ids = o.ids \ ids
  BY DEF BatchesInv, Pool!Batch, LeftOf
<1>2. /\ \A b \in pending' : \E o \in pending :
            IF o.client = a THEN b = rest(o) /\ b.ids # {} ELSE b = o
      /\ expired' = expired /\ nextTicket' = nextTicket /\ now' = now
  BY DEF Pool!TryFinishRequests, Pool!PendingOf, Pool!Finished
<1> HIDE DEF rest
<1>3. ASSUME NEW b \in pending'
      PROVE  \E o \in pending : /\ LeftOf(b, o) /\ b \in Pool!Batch
                                /\ IF o.client = a THEN b = rest(o) ELSE b = o
  BY <1>1, <1>2 DEF LeftOf, BatchesInv
<1>4. ASSUME NEW b \in pending', NEW c \in pending', b.ticket = c.ticket
      PROVE  b = c
  BY <1>3, <1>4 DEF LeftOf, BatchesInv, Open
<1>5. ASSUME NEW b \in pending', NEW e \in expired, b.ticket = e.ticket
      PROVE  FALSE
  BY <1>3, <1>5 DEF LeftOf, BatchesInv, Open
<1>6. Shrink
  BY <1>2, <1>3, <1>4, <1>5 DEF Shrink, Open, BatchesInv
<1>7. ASSUME NEW b \in pending', b.client = a
      PROVE  b.ids \intersect ids = {} /\ b.ids # {}
  BY <1>1, <1>2, <1>7 DEF LeftOf
<1> QED
  BY <1>6, <1>7

LEMMA TimerShrinks ==
    ASSUME BatchesInv,
           \/ Pool!CheckTimeout \/ Pool!Tick \/ \E b \in expired : Pool!TimeoutCallback(b)
           \/ \E a, ids, status : Pool!AddRequestsFails(a, ids, status)
           \/ UNCHANGED poolVars
    PROVE  Shrink
<1>1. \A b \in pending : LeftOf(b, b)
  BY DEF LeftOf
<1>2. /\ pending' \subseteq pending /\ expired' \subseteq Open
      /\ pending' \intersect expired' = {}
      /\ nextTicket' = nextTicket /\ now' \in Nat
  <2>1. CASE Pool!CheckTimeout
    BY <2>1 DEF Pool!CheckTimeout, Pool!Overdue, Open, BatchesInv
  <2>2. CASE Pool!Tick \/ UNCHANGED poolVars
             \/ \E a, ids, status : Pool!AddRequestsFails(a, ids, status)
    BY <2>2 DEF Pool!Tick, poolVars, Pool!AddRequestsFails, Open, BatchesInv
  <2>3. CASE \E b \in expired : Pool!TimeoutCallback(b)
    BY <2>3 DEF Pool!TimeoutCallback, Open, BatchesInv
  <2> QED
    BY <2>1, <2>2, <2>3
<1> QED
  BY <1>1, <1>2 DEF Shrink, BatchesInv, Open

LEMMA BatchSteps ==
    ASSUME BatchesInv, [Next]_vars
    PROVE  Shrink \/ \E t \in Threads : Register(t)
<1>1. CASE CallNext
  <2>1. ASSUME NEW t \in Threads,
               \/ \E k \in Kinds, b \in Binders, ids, denied \in SUBSET RequestIds :
                     Call(t, k, b, ids, denied)
               \/ \E b \in Binders : CallRefused(t, b)
               \/ \E status \in Pool!Refusals : RegisterFails(t, status)
               \/ SendDenied(t) \/ HardwareAccepts(t)
        PROVE  Shrink
    <3>1. \/ UNCHANGED poolVars
          \/ \E a, ids, status : Pool!AddRequestsFails(a, ids, status)
      BY <2>1 DEF Call, CallRefused, RegisterFails, SendDenied, HardwareAccepts
    <3> QED
      BY <3>1, TimerShrinks
  <2>2. ASSUME NEW t \in Threads, HardwareRefuses(t)
        PROVE  Shrink
    BY <2>2, FinishShrinks DEF HardwareRefuses
  <2> QED
    BY <1>1, <2>1, <2>2 DEF CallNext
<1>2. ASSUME NEW q \in hardware, NEW ids \in (SUBSET q.ids) \ {{}}, HardwareResults(q, ids)
      PROVE  Shrink
  BY <1>2, FinishShrinks DEF HardwareResults
<1>3. CASE \/ CheckTimeout \/ Tick \/ BinderNext \/ UNCHANGED vars
           \/ \E b \in expired : OnTimeout(b)
  <2>1. \/ Pool!CheckTimeout \/ Pool!Tick \/ \E b \in expired : Pool!TimeoutCallback(b)
        \/ UNCHANGED poolVars
    BY <1>3 DEF CheckTimeout, Tick, BinderNext, BinderDies, Obituary, OnBinderUnlinked,
                HandleDied, HandleUnlinked, OnTimeout, vars, notBinderVars
  <2> QED
    BY <2>1, TimerShrinks
<1> QED
  BY <1>1, <1>2, <1>3 DEF Next

\* The batch an accepted addRequests brings, and what was there.
LEMMA RegisterAdds ==
    ASSUME CallsInv, BatchesInv, NEW t \in Threads, Register(t)
    PROVE  \E new \in Pool!Batch :
               /\ new.client = thread[t].addr /\ new.ids = thread[t].ids
               /\ new.ticket = nextTicket
               /\ pending' = pending \union {new}
               /\ expired' = expired /\ now' = now /\ nextTicket' = nextTicket + 1
<1> DEFINE new == [client |-> thread[t].addr, ids |-> thread[t].ids,
                   deadline |-> now + Timeout, ticket |-> nextTicket]
<1>1. thread[t] \in Registering
  BY ThreadStates DEF Register
<1>2. nextTicket \in Nat /\ now + Timeout \in Nat
  BY RequestsAssumption DEF CallsInv, BatchesInv
<1>3. new \in Pool!Batch
  BY <1>1, <1>2 DEF Pool!Batch, Registering
<1>4. /\ pending' = pending \union {new}
      /\ expired' = expired /\ now' = now /\ nextTicket' = nextTicket + 1
  BY DEF Register, Pool!AddRequests, Pool!AddBatch
<1> QED
  BY <1>3, <1>4

LEMMA BatchesInductive ==
    ASSUME CallsInv, BatchesInv, [Next]_vars
    PROVE  BatchesInv'
<1>1. \A b \in Open : /\ b \in Pool!Batch /\ b.ticket \in Nat /\ b.ticket < nextTicket
                      /\ b.ticket + 1 \in DOMAIN calls
  <2>1. \A b \in Open : b \in Pool!Batch /\ b.ticket \in Nat /\ b.ticket < nextTicket
    BY DEF BatchesInv, Open, Pool!Batch
  <2>2. DOMAIN calls = 1 .. nextTicket /\ nextTicket \in Nat
    BY DEF CallsInv
  <2> QED
    BY <2>1, <2>2
<1>2. \A b \in Open : b.ids \subseteq calls'[b.ticket + 1].ids
  BY <1>1, CallsGrow DEF BatchesInv
<1>3. CASE Shrink
  <2>1. ASSUME NEW b \in Open'
        PROVE  \E o \in Open : LeftOf(b, o)
    BY <1>3 DEF Shrink, Open, LeftOf
  <2> QED
    BY <1>1, <1>2, <1>3, <2>1 DEF Shrink, BatchesInv, LeftOf
<1>4. ASSUME NEW t \in Threads, Register(t)
      PROVE  BatchesInv'
  <2>1. PICK new \in Pool!Batch :
            /\ new.client = thread[t].addr /\ new.ids = thread[t].ids
            /\ new.ticket = nextTicket
            /\ pending' = pending \union {new}
            /\ expired' = expired /\ now' = now /\ nextTicket' = nextTicket + 1
    BY <1>4, RegisterAdds
  <2>2. nextTicket \in Nat
    BY DEF CallsInv
  <2>3. calls'[nextTicket + 1].ids = new.ids
    BY <1>4, <2>1 DEF Register, CallsInv
  <2>4. \A b \in Open : b.ticket # new.ticket /\ b # new
    BY <1>1, <2>1, <2>2
  <2>5. Open' = Open \union {new}
    BY <2>1 DEF Open
  <2>6. \A b \in Open' : b.ticket < nextTicket' /\ b.ids \subseteq calls'[b.ticket + 1].ids
    BY <1>1, <1>2, <2>1, <2>2, <2>3, <2>5
  <2>7. \A a, b \in Open' : a.ticket = b.ticket => a = b
    BY <2>4, <2>5 DEF BatchesInv
  <2>8. pending' \intersect expired' = {}
    BY <2>1, <2>4 DEF BatchesInv, Open
  <2> QED
    BY <2>1, <2>6, <2>7, <2>8 DEF BatchesInv
<1> QED
  BY <1>3, <1>4, BatchSteps
-----------------------------------------------------------------------------
(* Answers *)

AnswerMessages == [ticket : Nat, id : RequestIds, how : {"denied", "result", "timeout"},
                   to : Binders, origin : Nat]

LEMMA FunctionsAreSequences ==
    ASSUME NEW S, NEW n \in Nat, NEW s \in [1 .. n -> S]
    PROVE  s \in Seq(S) /\ Len(s) = n
OBVIOUS

\* An answer joins those of its request; other requests keep theirs.
LEMMA SendAnswersAppends ==
    ASSUME answers \in Seq([RequestIds -> Seq(AnswerMessages)]),
           NEW rs \in SUBSET AnswerMessages, SendAnswers(rs)
    PROVE  /\ answers' \in Seq([RequestIds -> Seq(AnswerMessages)])
           /\ Len(answers') = Len(answers)
           /\ \A n \in DOMAIN answers, i \in RequestIds :
                 \/ /\ answers'[n][i] = answers[n][i]
                    /\ ~ \E r \in rs : r.ticket = n - 1 /\ r.id = i
                 \/ \E r \in rs : /\ r.ticket = n - 1 /\ r.id = i
                                  /\ answers'[n][i] = Append(answers[n][i], r)
<1> DEFINE new(n, i) == {r \in rs : r.ticket = n - 1 /\ r.id = i}
           then(n, i) == IF new(n, i) = {} THEN answers[n][i]
                         ELSE Append(answers[n][i], CHOOSE r \in new(n, i) : TRUE)
<1>1. answers' = [n \in DOMAIN answers |-> [i \in RequestIds |-> then(n, i)]]
  BY DEF SendAnswers
<1>2. ASSUME NEW n \in DOMAIN answers, NEW i \in RequestIds
      PROVE  /\ then(n, i) \in Seq(AnswerMessages)
             /\ \/ then(n, i) = answers[n][i] /\ new(n, i) = {}
                \/ \E r \in new(n, i) : then(n, i) = Append(answers[n][i], r)
  <2>1. answers[n][i] \in Seq(AnswerMessages)
    OBVIOUS
  <2>2. CASE new(n, i) = {}
    BY <2>1, <2>2
  <2>3. CASE new(n, i) # {}
    <3>1. (CHOOSE r \in new(n, i) : TRUE) \in new(n, i)
      BY <2>3
    <3>2. new(n, i) \subseteq AnswerMessages
      OBVIOUS
    <3> QED
      BY <2>1, <2>3, <3>1, <3>2
  <2> QED
    BY <2>2, <2>3
<1> HIDE DEF then
<1>3. DOMAIN answers = 1 .. Len(answers) /\ Len(answers) \in Nat
  OBVIOUS
<1>4. /\ answers' \in [1 .. Len(answers) -> [RequestIds -> Seq(AnswerMessages)]]
      /\ DOMAIN answers' = 1 .. Len(answers)
  BY <1>1, <1>2, <1>3
<1>5. /\ answers' \in Seq([RequestIds -> Seq(AnswerMessages)])
      /\ Len(answers') = Len(answers)
  BY <1>3, <1>4, FunctionsAreSequences
<1>6. \A n \in DOMAIN answers, i \in RequestIds : answers'[n][i] = then(n, i)
  BY <1>1
<1>7. ASSUME NEW n \in DOMAIN answers, NEW i \in RequestIds
      PROVE  \/ /\ answers'[n][i] = answers[n][i]
                /\ ~ \E r \in rs : r.ticket = n - 1 /\ r.id = i
             \/ \E r \in rs : /\ r.ticket = n - 1 /\ r.id = i
                              /\ answers'[n][i] = Append(answers[n][i], r)
  <2>1. answers'[n][i] = then(n, i)
    BY <1>6
  <2>2. CASE then(n, i) = answers[n][i] /\ new(n, i) = {}
    BY <2>1, <2>2
  <2>3. CASE \E r \in new(n, i) : then(n, i) = Append(answers[n][i], r)
    BY <2>1, <2>3
  <2> QED
    BY <1>2, <2>2, <2>3
<1> QED
  BY <1>5, <1>7

\* Threads come by tickets and requests in one way.
LEMMA HolderSteps ==
    ASSUME CallsInv, [Next]_vars, NEW u \in Threads
    PROVE  /\ u \in Holders' =>
                 \/ /\ u \in Holders
                    /\ thread'[u].ticket = thread[u].ticket /\ thread'[u].addr = thread[u].addr
                    /\ thread'[u].pc = "added" => thread'[u] = thread[u]
                 \/ Register(u)
           /\ thread'[u].pc = "registered" =>
                 \/ thread'[u] = thread[u]
                 \/ \E k \in Kinds, b \in Binders, ids, denied \in SUBSET RequestIds :
                       Call(u, k, b, ids, denied)
<1> DEFINE stays == /\ u \in Holders' =>
                          /\ u \in Holders
                          /\ thread'[u].ticket = thread[u].ticket
                          /\ thread'[u].addr = thread[u].addr
                          /\ thread'[u].pc = "added" => thread'[u] = thread[u]
                    /\ thread'[u].pc = "registered" => thread'[u] = thread[u]
<1>1. ASSUME thread'[u] = thread[u] PROVE stays
  BY <1>1 DEF Holders
<1>2. thread \in [Threads -> {Idle} \union Registering \union Answering]
  BY DEF CallsInv
<1>3. ASSUME NEW t \in Threads, thread' = [thread EXCEPT ![t] = Idle] PROVE stays
  <2>1. CASE t = u
    BY <1>2, <1>3, <2>1, Places DEF Holders
  <2>2. CASE t # u
    BY <1>1, <1>2, <1>3, <2>2
  <2> QED
    BY <2>1, <2>2
<1>4. ASSUME NEW t \in Threads, SendDenied(t) PROVE stays
  <2>1. CASE thread' = [thread EXCEPT ![t].pc = "calling hardware"]
    <3>1. CASE t = u
      <4>1. thread[u] \in Answering /\ u \in Holders
        BY <1>4, <3>1, ThreadStates DEF SendDenied, Holders
      <4>2. thread'[u] = [thread[u] EXCEPT !.pc = "calling hardware"]
        BY <1>2, <2>1, <3>1
      <4>3. /\ thread'[u].pc = "calling hardware"
            /\ thread'[u].ticket = thread[u].ticket /\ thread'[u].addr = thread[u].addr
        BY <4>1, <4>2 DEF Answering
      <4> QED
        BY <4>1, <4>3
    <3>2. CASE t # u
      BY <1>1, <1>2, <2>1, <3>2
    <3> QED
      BY <3>1, <3>2
  <2> QED
    BY <1>3, <1>4, <2>1 DEF SendDenied, Return
<1>5. ASSUME NEW t \in Threads, t # u,
             \/ Register(t)
             \/ \E k \in Kinds, b \in Binders, ids, denied \in SUBSET RequestIds :
                   Call(t, k, b, ids, denied)
      PROVE  stays
  BY <1>1, <1>2, <1>5 DEF Register, Call
<1>6. ASSUME NEW t \in Threads,
             \/ \E b \in Binders : CallRefused(t, b)
             \/ \E status \in Pool!Refusals : RegisterFails(t, status)
             \/ HardwareAccepts(t) \/ HardwareRefuses(t)
      PROVE  stays
  BY <1>1, <1>3, <1>6 DEF CallRefused, callVars, RegisterFails, HardwareAccepts,
                          HardwareRefuses, Return
<1>7. CASE \/ CheckTimeout \/ Tick \/ BinderNext \/ UNCHANGED vars
           \/ (\E b \in expired : OnTimeout(b))
           \/ (\E q \in hardware : \E ids \in (SUBSET q.ids) \ {{}} : HardwareResults(q, ids))
  BY <1>1, <1>7 DEF CheckTimeout, Tick, BinderNext, BinderDies, Obituary, OnBinderUnlinked,
                    HandleDied, HandleUnlinked, OnTimeout, HardwareResults, vars,
                    notBinderVars, callVars
<1>8. ASSUME NEW k \in Kinds, NEW b \in Binders, NEW ids \in SUBSET RequestIds,
             NEW denied \in SUBSET RequestIds, Call(u, k, b, ids, denied)
      PROVE  u \notin Holders'
  BY <1>2, <1>8 DEF Call, Holders
<1>9. ASSUME Register(u)
      PROVE  thread'[u].pc # "registered"
  BY <1>2, <1>9 DEF Register
<1> HIDE DEF stays
<1>10. CASE CallNext
  <2>1. PICK t \in Threads :
           \/ \E k \in Kinds, b \in Binders, ids, denied \in SUBSET RequestIds :
                 Call(t, k, b, ids, denied)
           \/ \E b \in Binders : CallRefused(t, b)
           \/ Register(t)
           \/ \E status \in Pool!Refusals : RegisterFails(t, status)
           \/ SendDenied(t) \/ HardwareAccepts(t) \/ HardwareRefuses(t)
    BY <1>10 DEF CallNext
  <2>2. \/ stays
        \/ Register(u)
        \/ \E k \in Kinds, b \in Binders, ids, denied \in SUBSET RequestIds :
              Call(u, k, b, ids, denied)
    BY <1>4, <1>5, <1>6, <2>1
  <2> QED
    BY <1>8, <1>9, <2>2 DEF stays
<1> QED
  BY <1>7, <1>10 DEF Next, stays

\* A ticket belongs to one thread, whose client object its pending batch is
\* for; a request is denied or goes to the hardware, never both.
HoldersInv ==
    /\ \A t, u \in Holders : thread[t].ticket = thread[u].ticket => t = u
    /\ \A t \in Holders, b \in pending :
          b.ticket = thread[t].ticket => b.client = thread[t].addr
    /\ \A n \in DOMAIN calls : calls[n].ids \intersect calls[n].denied = {}
    /\ \A t \in Threads : thread[t].pc = "registered" =>
          thread[t].ids \intersect thread[t].denied = {}

LEMMA HoldersInductive ==
    ASSUME CallsInv, BatchesInv, HoldersInv, [Next]_vars
    PROVE  HoldersInv'
<1>1. \A t \in Holders : thread[t].ticket \in Nat /\ thread[t].ticket < nextTicket
  BY ThreadStates DEF Holders, Answering, CallsInv
<1>2. nextTicket \in Nat /\ calls \in Seq(Requests) /\ DOMAIN calls = 1 .. nextTicket
  BY DEF CallsInv
<1>3. ASSUME NEW t \in Threads, thread'[t].pc = "registered"
      PROVE  thread'[t].ids \intersect thread'[t].denied = {}
  <2>1. CASE thread'[t] = thread[t]
    BY <1>3, <2>1 DEF HoldersInv
  <2>2. ASSUME NEW k \in Kinds, NEW b \in Binders, NEW ids \in SUBSET RequestIds,
               NEW denied \in SUBSET RequestIds, Call(t, k, b, ids, denied)
        PROVE  thread'[t].ids \intersect thread'[t].denied = {}
    <3>1. ids \intersect denied = {}
      BY <2>2 DEF Call, MayAsk
    <3>2. thread'[t].ids = ids /\ thread'[t].denied = denied
      BY <2>2 DEF Call, CallsInv
    <3> QED
      BY <3>1, <3>2
  <2> QED
    BY <1>3, <2>1, <2>2, HolderSteps
<1>4. CASE Shrink /\ ~ \E t \in Threads : Register(t)
  <2>1. \A t \in Holders' : /\ t \in Holders
                            /\ thread'[t].ticket = thread[t].ticket
                            /\ thread'[t].addr = thread[t].addr
    BY <1>4, HolderSteps DEF Holders
  <2>2. \A b \in pending' : \E o \in pending : b.ticket = o.ticket /\ b.client = o.client
    BY <1>4 DEF Shrink, LeftOf
  <2>3. DOMAIN calls' = DOMAIN calls
    BY <1>2, <1>4, CallsInductive DEF CallsInv, Shrink
  <2>4. \A n \in DOMAIN calls' : calls'[n].ids \intersect calls'[n].denied = {}
    BY <2>3, CallsGrow DEF HoldersInv
  <2> QED
    BY <1>3, <2>1, <2>2, <2>4 DEF HoldersInv
<1>5. ASSUME NEW t \in Threads, Register(t)
      PROVE  HoldersInv'
  <2>1. /\ thread'[t].ticket = nextTicket /\ thread'[t].addr = thread[t].addr
        /\ \A u \in Threads \ {t} : thread'[u] = thread[u]
    BY <1>5 DEF Register, CallsInv
  <2>2. Holders' \subseteq Holders \union {t} /\ t \notin Holders
    BY <1>5, <2>1 DEF Holders, Register
  <2>3. ASSUME NEW u \in Holders' \ {t}
        PROVE  /\ u \in Holders /\ thread'[u] = thread[u]
               /\ thread'[u].ticket # nextTicket
    <3>1. u \in Holders
      BY <2>2
    <3>2. thread'[u] = thread[u]
      BY <2>1, <3>1 DEF Holders
    <3>3. thread[u].ticket # nextTicket
      BY <1>1, <1>2, <3>1
    <3> QED
      BY <3>1, <3>2, <3>3
  <2>4. PICK new \in Pool!Batch :
            /\ new.client = thread[t].addr /\ new.ticket = nextTicket
            /\ pending' = pending \union {new}
    BY <1>5, RegisterAdds
  <2>5. \A b \in pending : b.ticket # nextTicket
    BY <1>2 DEF BatchesInv, Open, Pool!Batch
  <2>6. thread[t].ids \intersect thread[t].denied = {}
    BY <1>5 DEF Register, HoldersInv
  <2>7. \A n \in DOMAIN calls' : calls'[n].ids \intersect calls'[n].denied = {}
    BY <1>2, <1>5, <2>6 DEF Register, HoldersInv
  <2>8. \A u, v \in Holders' : thread'[u].ticket = thread'[v].ticket => u = v
    BY <2>1, <2>3 DEF HoldersInv
  <2>9. \A u \in Holders', b \in pending' :
            b.ticket = thread'[u].ticket => b.client = thread'[u].addr
    BY <2>1, <2>3, <2>4, <2>5 DEF HoldersInv
  <2> QED
    BY <1>3, <2>7, <2>8, <2>9 DEF HoldersInv
<1> QED
  BY <1>4, <1>5, BatchSteps

\* A request that is still open has no answer, and no request has two.
OnceInv ==
    /\ answers \in Seq([RequestIds -> Seq(AnswerMessages)])
    /\ Len(answers) = nextTicket
    /\ AnsweredOnce
    /\ \A b \in Open : \A i \in b.ids : answers[b.ticket + 1][i] = <<>>
    /\ \A t \in Holders : thread[t].pc = "added" =>
          \A i \in CallOf(t).denied : answers[thread[t].ticket + 1][i] = <<>>

\* Answers of one step to requests that had none.
LEMMA SendOnce ==
    ASSUME CallsInv, OnceInv, NEW rs \in SUBSET AnswerMessages, SendAnswers(rs),
           \A r \in rs : r.ticket < nextTicket /\ answers[r.ticket + 1][r.id] = <<>>
    PROVE  /\ answers' \in Seq([RequestIds -> Seq(AnswerMessages)])
           /\ Len(answers') = nextTicket
           /\ AnsweredOnce'
           /\ \A n \in DOMAIN answers, i \in RequestIds :
                 answers[n][i] = <<>> /\ (~ \E r \in rs : r.ticket = n - 1 /\ r.id = i)
                     => answers'[n][i] = <<>>
<1>1. /\ answers \in Seq([RequestIds -> Seq(AnswerMessages)])
      /\ Len(answers) = nextTicket
      /\ DOMAIN answers = 1 .. nextTicket /\ nextTicket \in Nat
  BY DEF OnceInv, CallsInv
<1>2. /\ answers' \in Seq([RequestIds -> Seq(AnswerMessages)])
      /\ Len(answers') = Len(answers)
  BY <1>1, SendAnswersAppends
<1>3. \A n \in DOMAIN answers, i \in RequestIds :
         \/ /\ answers'[n][i] = answers[n][i]
            /\ ~ \E r \in rs : r.ticket = n - 1 /\ r.id = i
         \/ \E r \in rs : /\ r.ticket = n - 1 /\ r.id = i
                          /\ answers'[n][i] = Append(answers[n][i], r)
  BY <1>1, SendAnswersAppends
<1>4. ASSUME NEW n \in DOMAIN answers, NEW i \in RequestIds
      PROVE  Len(answers'[n][i]) <= 1
  <2>1. CASE answers'[n][i] = answers[n][i]
    BY <2>1 DEF OnceInv, AnsweredOnce
  <2>2. ASSUME NEW r \in rs, r.ticket = n - 1, r.id = i,
               answers'[n][i] = Append(answers[n][i], r)
        PROVE  Len(answers'[n][i]) <= 1
    <3>1. r.ticket + 1 = n
      BY <1>1, <2>2
    <3>2. answers[n][i] = <<>>
      BY <2>2, <3>1
    <3> QED
      BY <2>2, <3>2
  <2> QED
    BY <1>3, <2>1, <2>2
<1>5. DOMAIN answers' = DOMAIN answers
  BY <1>1, <1>2
<1>6. AnsweredOnce'
  BY <1>4, <1>5 DEF AnsweredOnce
<1> QED
  BY <1>1, <1>2, <1>3, <1>6

LEMMA ShrinkRegistersNothing ==
    ASSUME CallsInv, Shrink, NEW t \in Threads
    PROVE  ~Register(t)
<1>1. nextTicket \in Nat
  BY DEF CallsInv
<1>2. Register(t) => nextTicket' = nextTicket + 1
  BY DEF Register, Pool!AddRequests, Pool!AddBatch
<1> QED
  BY <1>1, <1>2 DEF Shrink

LEMMA AnswersTyped ==
    ASSUME NEW t \in Nat, NEW i \in RequestIds, NEW how \in {"denied", "result", "timeout"},
           NEW to \in Binders, NEW origin \in Nat
    PROVE  /\ Answer(t, i, how, to, origin) \in AnswerMessages
           /\ Answer(t, i, how, to, origin).ticket = t
           /\ Answer(t, i, how, to, origin).id = i
           /\ Answer(t, i, how, to, origin).to = to
           /\ Answer(t, i, how, to, origin).origin = origin
BY DEF Answer, AnswerMessages

\* What a step leaves of the open batches and denied requests.
LEMMA StillOpen ==
    ASSUME CallsInv, BatchesInv, [Next]_vars, Shrink
    PROVE  /\ \A b \in Open' : \E o \in Open : LeftOf(b, o)
           /\ \A t \in Holders' : thread'[t].pc = "added" =>
                 /\ t \in Holders /\ thread[t].pc = "added"
                 /\ thread'[t].ticket = thread[t].ticket
                 /\ CallOf(t)'.denied = CallOf(t).denied
<1>1. \A b \in Open : LeftOf(b, b)
  BY DEF LeftOf
<1>2. \A b \in Open' : \E o \in Open : LeftOf(b, o)
  BY <1>1 DEF Shrink, Open
<1>3. ASSUME NEW t \in Holders', thread'[t].pc = "added"
      PROVE  /\ t \in Holders /\ thread[t].pc = "added"
             /\ thread'[t].ticket = thread[t].ticket
             /\ CallOf(t)'.denied = CallOf(t).denied
  <2>1. t \in Threads
    BY DEF Holders
  <2>2. t \in Holders /\ thread'[t] = thread[t]
    BY <1>3, <2>1, HolderSteps, ShrinkRegistersNothing
  <2>3. thread[t].ticket + 1 \in DOMAIN calls
    BY <2>1, <2>2, ThreadStates DEF Holders
  <2> QED
    BY <1>3, <2>2, <2>3, CallsGrow DEF CallOf
<1> QED
  BY <1>2, <1>3

\* A step that answers requests keeps OnceInv if they were open until then and
\* are not any more.
LEMMA SendKeepsOnce ==
    ASSUME CallsInv, BatchesInv, OnceInv, [Next]_vars, Shrink,
           NEW rs \in SUBSET AnswerMessages, SendAnswers(rs),
           \A r \in rs : r.ticket < nextTicket /\ answers[r.ticket + 1][r.id] = <<>>,
           \A r \in rs, b \in Open' : r.ticket = b.ticket => r.id \notin b.ids,
           \A r \in rs, t \in Holders' :
               thread'[t].pc = "added" /\ r.ticket = thread'[t].ticket
                   => r.id \notin CallOf(t)'.denied
    PROVE  OnceInv'
<1>1. /\ answers' \in Seq([RequestIds -> Seq(AnswerMessages)])
      /\ Len(answers') = nextTicket /\ AnsweredOnce'
      /\ \A n \in DOMAIN answers, i \in RequestIds :
            answers[n][i] = <<>> /\ (~ \E r \in rs : r.ticket = n - 1 /\ r.id = i)
                => answers'[n][i] = <<>>
  BY SendOnce
<1>2. nextTicket \in Nat /\ DOMAIN answers = 1 .. nextTicket /\ nextTicket' = nextTicket
  BY DEF OnceInv, CallsInv, Shrink
<1>3. ASSUME NEW ticket \in Nat, ticket < nextTicket, NEW i \in RequestIds,
             answers[ticket + 1][i] = <<>>, \A r \in rs : r.ticket = ticket => r.id # i
      PROVE  answers'[ticket + 1][i] = <<>>
  <2>1. ticket + 1 \in DOMAIN answers
    BY <1>2, <1>3
  <2>2. ~ \E r \in rs : r.ticket = (ticket + 1) - 1 /\ r.id = i
    BY <1>3 DEF AnswerMessages
  <2> QED
    BY <1>1, <1>3, <2>1, <2>2
<1>4. ASSUME NEW b \in Open', NEW i \in b.ids
      PROVE  answers'[b.ticket + 1][i] = <<>>
  <2>1. PICK o \in Open : LeftOf(b, o)
    BY StillOpen
  <2>2. /\ o.ticket \in Nat /\ o.ticket < nextTicket /\ i \in RequestIds
        /\ answers[o.ticket + 1][i] = <<>> /\ b.ticket = o.ticket
    BY <2>1 DEF LeftOf, BatchesInv, Open, Pool!Batch, OnceInv
  <2>3. \A r \in rs : r.ticket = o.ticket => r.id # i
    BY <2>2
  <2> QED
    BY <1>3, <2>2, <2>3
<1>5. ASSUME NEW t \in Holders', thread'[t].pc = "added", NEW i \in CallOf(t)'.denied
      PROVE  answers'[thread'[t].ticket + 1][i] = <<>>
  <2>1. /\ t \in Holders /\ thread[t].pc = "added" /\ thread'[t].ticket = thread[t].ticket
        /\ CallOf(t)'.denied = CallOf(t).denied
    BY <1>5, StillOpen DEF Holders
  <2>2. thread[t].ticket \in Nat /\ thread[t].ticket < nextTicket /\ CallOf(t) \in Requests
    BY <2>1, ThreadStates DEF Holders, Answering, CallsInv
  <2>3. i \in RequestIds
    BY <1>5, <2>1, <2>2 DEF Requests
  <2>4. answers[thread[t].ticket + 1][i] = <<>>
    BY <1>5, <2>1 DEF OnceInv
  <2>5. \A r \in rs : r.ticket = thread[t].ticket => r.id # i
    BY <1>5, <2>1
  <2> QED
    BY <1>3, <2>1, <2>2, <2>3, <2>4, <2>5
<1> QED
  BY <1>1, <1>2, <1>4, <1>5 DEF OnceInv

LEMMA SendDeniedOnce ==
    ASSUME CallsInv, BatchesInv, HoldersInv, OnceInv, [Next]_vars,
           NEW t \in Threads, SendDenied(t)
    PROVE  OnceInv'
<1> DEFINE rs == {Answer(thread[t].ticket, i, "denied", CallOf(t).binder, thread[t].ticket) :
                    i \in CallOf(t).denied}
<1>1. /\ thread[t].pc = "added" /\ t \in Holders
      /\ thread[t] \in Answering /\ thread[t].ticket < nextTicket
      /\ CallOf(t) \in Requests /\ thread[t].ticket + 1 \in DOMAIN calls
  BY ThreadStates DEF SendDenied, Holders, CallsInv
<1>2. rs \in SUBSET AnswerMessages
  <2>1. /\ thread[t].ticket \in Nat /\ CallOf(t).binder \in Binders
        /\ CallOf(t).denied \subseteq RequestIds
    BY <1>1 DEF Requests, Answering
  <2> QED
    BY <2>1, AnswersTyped
<1>3. \A r \in rs : r.ticket = thread[t].ticket /\ r.id \in CallOf(t).denied
  BY DEF Answer
<1>4. SendAnswers(rs)
  BY DEF SendDenied
<1>5. Shrink /\ UNCHANGED nextTicket
  BY TimerShrinks DEF SendDenied, Shrink
<1> HIDE DEF rs
<1>6. \A r \in rs : r.ticket < nextTicket /\ answers[r.ticket + 1][r.id] = <<>>
  BY <1>1, <1>3 DEF OnceInv
<1>8. ASSUME NEW r \in rs, NEW b \in Open', r.ticket = b.ticket
      PROVE  r.id \notin b.ids
  <2>1. PICK o \in Open : LeftOf(b, o)
    BY <1>5, StillOpen
  <2>2. b.ids \subseteq calls[thread[t].ticket + 1].ids
    BY <1>3, <1>8, <2>1 DEF LeftOf, BatchesInv
  <2> QED
    BY <1>1, <1>3, <2>2 DEF HoldersInv, CallOf
<1>9. ASSUME NEW u \in Holders', thread'[u].pc = "added"
      PROVE  thread'[u].ticket # thread[t].ticket
  <2>1. u \in Holders /\ thread'[u].ticket = thread[u].ticket
    BY <1>5, <1>9, StillOpen DEF Holders
  <2>2. thread'[t].pc # "added"
    <3>1. thread \in [Threads -> {Idle} \union Registering \union Answering]
      BY DEF CallsInv
    <3>2. CASE thread' = [thread EXCEPT ![t] = Idle]
      BY <3>1, <3>2, Places
    <3>3. CASE thread' = [thread EXCEPT ![t].pc = "calling hardware"]
      <4>1. thread'[t] = [thread[t] EXCEPT !.pc = "calling hardware"]
        BY <3>1, <3>3
      <4> QED
        BY <1>1, <4>1 DEF Answering
    <3> QED
      BY <3>2, <3>3 DEF SendDenied, Return
  <2> QED
    BY <1>1, <1>9, <2>1, <2>2 DEF HoldersInv
<1> QED
  BY <1>2, <1>3, <1>4, <1>5, <1>6, <1>8, <1>9, SendKeepsOnce

\* The open batch a result is matched with.
LEMMA TicketOfFound ==
    ASSUME BatchesInv, NEW a, NEW ids, NEW i \in Pool!FoundIds(a, ids)
    PROVE  \E b \in pending : /\ b.client = a /\ i \in b.ids /\ i \in ids
                              /\ TicketOf(a, i) = b.ticket
<1>1. i \in ids /\ \E b \in Pool!PendingOf(a) : i \in b.ids
  BY DEF Pool!FoundIds, Pool!PendingIds
<1>2. PICK b \in Pool!PendingOf(a) : i \in b.ids /\ TicketOf(a, i) = b.ticket
  BY <1>1 DEF TicketOf
<1> QED
  BY <1>1, <1>2 DEF Pool!PendingOf

LEMMA HardwareResultsOnce ==
    ASSUME CallsInv, BatchesInv, HoldersInv, OnceInv, [Next]_vars,
           NEW q \in hardware, NEW ids \in (SUBSET q.ids) \ {{}}, HardwareResults(q, ids)
    PROVE  OnceInv'
<1> DEFINE found == Pool!FoundIds(q.addr, ids)
           rs == {Answer(TicketOf(q.addr, i), i, "result", q.binder, q.ticket) : i \in found}
<1>1. Shrink /\ \A b \in pending' : b.client = q.addr => b.ids \intersect ids = {}
  BY FinishShrinks DEF HardwareResults
<1>2. q \in HardwareRequests /\ found \subseteq RequestIds
  BY DEF CallsInv, HardwareRequests, Pool!FoundIds
<1>3. ASSUME NEW i \in found
      PROVE  /\ TicketOf(q.addr, i) \in Nat /\ TicketOf(q.addr, i) < nextTicket
             /\ answers[TicketOf(q.addr, i) + 1][i] = <<>>
             /\ \A b \in Open' : b.ticket = TicketOf(q.addr, i) => i \notin b.ids
             /\ i \in calls[TicketOf(q.addr, i) + 1].ids
             /\ TicketOf(q.addr, i) + 1 \in DOMAIN calls
  <2>1. PICK b \in pending : /\ b.client = q.addr /\ i \in b.ids /\ i \in ids
                             /\ TicketOf(q.addr, i) = b.ticket
    BY TicketOfFound
  <2>2. b \in Open /\ b.ticket \in Nat /\ b.ticket < nextTicket
    BY DEF BatchesInv, Open, Pool!Batch
  <2>3. answers[b.ticket + 1][i] = <<>> /\ i \in calls[b.ticket + 1].ids
    BY <2>1, <2>2 DEF OnceInv, BatchesInv
  <2>4. b.ticket + 1 \in DOMAIN calls
    BY <2>2 DEF CallsInv
  <2>5. ASSUME NEW c \in pending', c.ticket = b.ticket
        PROVE  i \notin c.ids
    <3>1. PICK o \in pending : LeftOf(c, o)
      BY <1>1 DEF Shrink
    <3>2. o = b
      BY <2>2, <2>5, <3>1 DEF LeftOf, BatchesInv, Open
    <3> QED
      BY <1>1, <2>1, <3>1, <3>2 DEF LeftOf
  <2>6. ASSUME NEW c \in expired', c.ticket = b.ticket
        PROVE  FALSE
    <3>1. expired' = expired
      BY DEF HardwareResults, Pool!TryFinishRequests
    <3> QED
      BY <2>6, <3>1 DEF BatchesInv, Open
  <2> QED
    BY <2>1, <2>2, <2>3, <2>4, <2>5, <2>6 DEF Open
<1>4. rs \in SUBSET AnswerMessages
  BY <1>2, <1>3, AnswersTyped DEF HardwareRequests
<1>5. \A r \in rs : r.id \in found /\ r.ticket = TicketOf(q.addr, r.id)
  BY DEF Answer
<1>6. SendAnswers(rs)
  BY DEF HardwareResults
<1> HIDE DEF rs, found
<1>7. \A r \in rs : r.ticket < nextTicket /\ answers[r.ticket + 1][r.id] = <<>>
  BY <1>3, <1>5
<1>8. \A r \in rs, b \in Open' : r.ticket = b.ticket => r.id \notin b.ids
  BY <1>3, <1>5
<1>9. ASSUME NEW r \in rs, NEW t \in Holders', thread'[t].pc = "added",
             r.ticket = thread'[t].ticket
      PROVE  r.id \notin CallOf(t)'.denied
  <2>1. t \in Holders /\ thread'[t].ticket = thread[t].ticket
        /\ CallOf(t)'.denied = CallOf(t).denied
    BY <1>1, <1>9, StillOpen
  <2> QED
    BY <1>3, <1>5, <1>9, <2>1 DEF HoldersInv, CallOf
<1> QED
  BY <1>1, <1>4, <1>6, <1>7, <1>8, <1>9, SendKeepsOnce

LEMMA OnTimeoutOnce ==
    ASSUME CallsInv, BatchesInv, HoldersInv, OnceInv, [Next]_vars,
           NEW b \in expired, OnTimeout(b)
    PROVE  OnceInv'
<1> DEFINE rs == {Answer(b.ticket, i, "timeout", calls[b.ticket + 1].binder, b.ticket) :
                    i \in b.ids}
<1>1. Shrink /\ Open' \subseteq Open \ {b}
  BY TimerShrinks DEF OnTimeout, Pool!TimeoutCallback, Open, BatchesInv
<1>2. /\ b \in Open /\ b.ticket \in Nat /\ b.ticket < nextTicket /\ b.ids \subseteq RequestIds
      /\ b.ids \subseteq calls[b.ticket + 1].ids
  BY DEF BatchesInv, Open, Pool!Batch
<1>3. b.ticket + 1 \in DOMAIN calls /\ calls[b.ticket + 1] \in Requests
  BY <1>2 DEF CallsInv
<1>4. rs \in SUBSET AnswerMessages
  <2>1. calls[b.ticket + 1].binder \in Binders
    BY <1>3 DEF Requests
  <2> QED
    BY <1>2, <2>1, AnswersTyped
<1>5. \A r \in rs : r.id \in b.ids /\ r.ticket = b.ticket
  BY DEF Answer
<1>6. SendAnswers(rs)
  BY DEF OnTimeout
<1> HIDE DEF rs
<1>7. \A r \in rs : r.ticket < nextTicket /\ answers[r.ticket + 1][r.id] = <<>>
  BY <1>2, <1>5 DEF OnceInv
<1>8. \A c \in Open' : c.ticket # b.ticket
  BY <1>1, <1>2 DEF BatchesInv
<1>9. ASSUME NEW r \in rs, NEW t \in Holders', thread'[t].pc = "added",
             r.ticket = thread'[t].ticket
      PROVE  r.id \notin CallOf(t)'.denied
  <2>1. t \in Holders /\ thread'[t].ticket = thread[t].ticket
        /\ CallOf(t)'.denied = CallOf(t).denied
    BY <1>1, <1>9, StillOpen
  <2> QED
    BY <1>2, <1>3, <1>5, <1>9, <2>1 DEF HoldersInv, CallOf
<1> QED
  BY <1>1, <1>4, <1>5, <1>6, <1>7, <1>8, <1>9, SendKeepsOnce

\* Steps that answer nothing.
LEMMA QuietKeepsOnce ==
    ASSUME CallsInv, BatchesInv, OnceInv, [Next]_vars, Shrink, UNCHANGED answers
    PROVE  OnceInv'
<1>1. ASSUME NEW b \in Open', NEW i \in b.ids
      PROVE  answers'[b.ticket + 1][i] = <<>>
  <2>1. PICK o \in Open : LeftOf(b, o)
    BY StillOpen
  <2> QED
    BY <2>1 DEF OnceInv, LeftOf
<1>2. ASSUME NEW t \in Holders', thread'[t].pc = "added", NEW i \in CallOf(t)'.denied
      PROVE  answers'[thread'[t].ticket + 1][i] = <<>>
  <2>1. /\ t \in Holders /\ thread[t].pc = "added" /\ thread'[t].ticket = thread[t].ticket
        /\ CallOf(t)'.denied = CallOf(t).denied
    BY <1>2, StillOpen
  <2> QED
    BY <1>2, <2>1 DEF OnceInv
<1> QED
  BY <1>1, <1>2 DEF OnceInv, AnsweredOnce, Shrink

LEMMA RegisterOnce ==
    ASSUME CallsInv, BatchesInv, OnceInv, [Next]_vars, NEW t \in Threads, Register(t)
    PROVE  OnceInv'
<1> DEFINE row == [i \in RequestIds |-> <<>>]
<1>1. /\ answers \in Seq([RequestIds -> Seq(AnswerMessages)]) /\ Len(answers) = nextTicket
      /\ answers' = Append(answers, row)
      /\ nextTicket \in Nat /\ DOMAIN answers = 1 .. nextTicket
  BY DEF OnceInv, CallsInv, Register
<1>2. row \in [RequestIds -> Seq(AnswerMessages)]
  OBVIOUS
<1> HIDE DEF row
<1>3. /\ answers' \in Seq([RequestIds -> Seq(AnswerMessages)])
      /\ Len(answers') = nextTicket + 1
      /\ DOMAIN answers' = 1 .. (nextTicket + 1)
      /\ \A n \in DOMAIN answers : answers'[n] = answers[n]
      /\ answers'[nextTicket + 1] = row
  BY <1>1, <1>2
<1>4. \A i \in RequestIds : row[i] = <<>>
  BY DEF row
<1>5. PICK new \in Pool!Batch :
            /\ new.ids = thread[t].ids /\ new.ticket = nextTicket
            /\ pending' = pending \union {new}
            /\ expired' = expired /\ nextTicket' = nextTicket + 1
  BY RegisterAdds
<1>6. AnsweredOnce'
  <2>1. \A n \in DOMAIN answers' : n \in DOMAIN answers \/ n = nextTicket + 1
    BY <1>1, <1>3
  <2>2. \A n \in DOMAIN answers, i \in RequestIds : Len(answers'[n][i]) <= 1
    BY <1>3 DEF OnceInv, AnsweredOnce
  <2>3. \A i \in RequestIds : Len(answers'[nextTicket + 1][i]) <= 1
    BY <1>3, <1>4
  <2> QED
    BY <2>1, <2>2, <2>3 DEF AnsweredOnce
<1>7. ASSUME NEW b \in Open', NEW i \in b.ids
      PROVE  answers'[b.ticket + 1][i] = <<>>
  <2>1. CASE b = new
    BY <1>3, <1>4, <1>5, <2>1 DEF Pool!Batch
  <2>2. CASE b \in Open
    <3>1. b.ticket + 1 \in DOMAIN answers
      BY <1>1, <2>2 DEF BatchesInv, Open, Pool!Batch
    <3> QED
      BY <1>3, <2>2, <3>1 DEF OnceInv
  <2> QED
    BY <1>5, <2>1, <2>2 DEF Open
<1>8. ASSUME NEW u \in Holders', thread'[u].pc = "added", NEW i \in CallOf(u)'.denied
      PROVE  answers'[thread'[u].ticket + 1][i] = <<>>
  <2>1. CASE u = t
    <3>1. thread'[u].ticket = nextTicket
      BY <2>1 DEF Register, CallsInv
    <3>2. CallOf(u)'.denied = thread[t].denied
      BY <1>1, <3>1 DEF CallOf, Register, CallsInv
    <3>3. thread[t].denied \subseteq RequestIds
      BY ThreadStates DEF Register, Registering
    <3> QED
      BY <1>3, <1>4, <1>8, <3>1, <3>2, <3>3
  <2>2. CASE u # t
    <3>1. thread'[u] = thread[u] /\ u \in Threads
      BY <2>2 DEF Register, CallsInv, Holders
    <3>2. u \in Holders /\ thread[u].ticket + 1 \in DOMAIN calls
      BY <1>8, <3>1, ThreadStates DEF Holders
    <3>3. CallOf(u)'.denied = CallOf(u).denied
      BY <3>1, <3>2, CallsGrow DEF CallOf
    <3>4. thread[u].ticket + 1 \in DOMAIN answers
      BY <1>1, <3>2 DEF CallsInv
    <3> QED
      BY <1>3, <1>8, <3>1, <3>2, <3>3, <3>4 DEF OnceInv
  <2> QED
    BY <2>1, <2>2
<1> QED
  BY <1>3, <1>5, <1>6, <1>7, <1>8 DEF OnceInv

LEMMA OnceInductive ==
    ASSUME CallsInv, BatchesInv, HoldersInv, OnceInv, [Next]_vars
    PROVE  OnceInv'
<1>1. CASE \E t \in Threads : Register(t)
  BY <1>1, RegisterOnce
<1>2. CASE UNCHANGED answers /\ ~ \E t \in Threads : Register(t)
  BY <1>2, QuietKeepsOnce, BatchSteps
<1>3. CASE CallNext
  <2>1. ASSUME NEW t \in Threads,
               \/ \E k \in Kinds, b \in Binders, ids, denied \in SUBSET RequestIds :
                     Call(t, k, b, ids, denied)
               \/ \E b \in Binders : CallRefused(t, b)
               \/ \E status \in Pool!Refusals : RegisterFails(t, status)
               \/ HardwareAccepts(t) \/ HardwareRefuses(t)
        PROVE  UNCHANGED answers
    BY <2>1 DEF Call, CallRefused, RegisterFails, HardwareAccepts, HardwareRefuses
  <2> QED
    BY <1>1, <1>2, <1>3, <2>1, SendDeniedOnce DEF CallNext
<1>4. CASE CheckTimeout \/ Tick \/ BinderNext \/ UNCHANGED vars
  BY <1>1, <1>2, <1>4 DEF CheckTimeout, Tick, BinderNext, BinderDies, Obituary,
                          OnBinderUnlinked, HandleDied, HandleUnlinked, vars, notBinderVars
<1> QED
  BY <1>3, <1>4, HardwareResultsOnce, OnTimeoutOnce DEF Next

LEMMA InitialRequests ==
    ASSUME Init
    PROVE  CallsInv /\ BatchesInv /\ HoldersInv /\ OnceInv
<1>1. Holders = {}
  BY DEF Init, Holders, Idle
<1>2. Open = {} /\ calls = <<>> /\ answers = <<>> /\ nextTicket = 0 /\ now \in Nat
  BY DEF Init, Open, Pool!Init
<1>3. CallsInv
  BY <1>1 DEF Init, CallsInv, Pool!Init
<1>4. BatchesInv
  BY <1>2 DEF BatchesInv, Open
<1>5. HoldersInv
  BY <1>1, <1>2 DEF HoldersInv, Init, Idle
<1>6. OnceInv
  BY <1>1, <1>2 DEF OnceInv, AnsweredOnce
<1> QED
  BY <1>3, <1>4, <1>5, <1>6

\* A request is answered at most once (PendingRequestPool::tryFinishRequests
\* under its lock decides who answers; SendDenied answers what the pool never
\* had).
THEOREM RequestsAnsweredOnce == Spec => []AnsweredOnce
<1>1. CallsInv /\ BatchesInv /\ HoldersInv /\ OnceInv /\ [Next]_vars
          => (CallsInv /\ BatchesInv /\ HoldersInv /\ OnceInv)'
  BY CallsInductive, BatchesInductive, HoldersInductive, OnceInductive
<1>2. OnceInv => AnsweredOnce
  BY DEF OnceInv
<1> QED
  BY <1>1, <1>2, InitialRequests, PTL DEF Spec
-----------------------------------------------------------------------------
(* Calls that fail *)

LEMMA WhatFails ==
    ASSUME CallsInv, [Next]_vars, NEW n \in DOMAIN calls, calls'[n].status = "error"
    PROVE  \/ calls[n].status = "error"
           \/ \E t \in Threads : HardwareRefuses(t) /\ n = thread[t].ticket + 1
<1>1. calls \in Seq(Requests) /\ calls[n] \in Requests
  BY DEF CallsInv
<1>2. ASSUME UNCHANGED calls PROVE calls[n].status = "error"
  BY <1>2
<1>3. ASSUME NEW t \in Threads, Register(t)
      PROVE  calls[n].status = "error"
  BY <1>1, <1>3 DEF Register
<1>4. ASSUME NEW t \in Threads, Return(t, "ok")
      PROVE  calls[n].status = "error"
  BY <1>1, <1>4 DEF Return, Requests
<1>5. ASSUME NEW t \in Threads, HardwareRefuses(t), n # thread[t].ticket + 1
      PROVE  calls[n].status = "error"
  BY <1>1, <1>5 DEF HardwareRefuses, Return
<1>6. CASE CallNext
  <2>1. PICK t \in Threads :
           \/ \E k \in Kinds, b \in Binders, ids, denied \in SUBSET RequestIds :
                 Call(t, k, b, ids, denied)
           \/ \E b \in Binders : CallRefused(t, b)
           \/ Register(t)
           \/ \E status \in Pool!Refusals : RegisterFails(t, status)
           \/ SendDenied(t) \/ HardwareAccepts(t) \/ HardwareRefuses(t)
    BY <1>6 DEF CallNext
  <2>2. UNCHANGED calls \/ Return(t, "ok") \/ Register(t) \/ HardwareRefuses(t)
    BY <2>1 DEF Call, CallRefused, RegisterFails, SendDenied, HardwareAccepts, callVars
  <2> QED
    BY <1>2, <1>3, <1>4, <1>5, <2>2
<1>7. CASE \/ CheckTimeout \/ Tick \/ BinderNext \/ UNCHANGED vars
           \/ (\E b \in expired : OnTimeout(b))
           \/ (\E q \in hardware : \E ids \in (SUBSET q.ids) \ {{}} : HardwareResults(q, ids))
  BY <1>2, <1>7 DEF CheckTimeout, Tick, BinderNext, BinderDies, Obituary, OnBinderUnlinked,
                    HandleDied, HandleUnlinked, OnTimeout, HardwareResults, vars,
                    notBinderVars, callVars
<1> QED
  BY <1>6, <1>7 DEF Next

LEMMA FailedInductive ==
    ASSUME CallsInv, BatchesInv, HoldersInv, FailedCallsLeaveNothing, [Next]_vars
    PROVE  FailedCallsLeaveNothing'
<1>1. \A b \in pending : b.ticket \in Nat /\ b.ticket < nextTicket /\ b.ticket + 1 \in DOMAIN calls
  BY DEF BatchesInv, Open, Pool!Batch, CallsInv
<1>2. ASSUME NEW t \in Threads, Register(t)
      PROVE  FailedCallsLeaveNothing'
  <2>1. PICK new \in Pool!Batch : /\ new.ticket = nextTicket
                                  /\ pending' = pending \union {new}
    BY <1>2, RegisterAdds
  <2>2. /\ calls'[nextTicket + 1].status = "running"
        /\ \A b \in pending : calls'[b.ticket + 1] = calls[b.ticket + 1]
    BY <1>1, <1>2 DEF Register, CallsInv
  <2> QED
    BY <2>1, <2>2 DEF FailedCallsLeaveNothing
<1>3. ASSUME Shrink, NEW b \in pending', calls'[b.ticket + 1].status = "error"
      PROVE  FALSE
  <2>1. PICK o \in pending : LeftOf(b, o)
    BY <1>3 DEF Shrink
  <2>2. PICK t \in Threads : HardwareRefuses(t) /\ o.ticket + 1 = thread[t].ticket + 1
    BY <1>1, <1>3, <2>1, WhatFails DEF LeftOf, FailedCallsLeaveNothing
  <2>3. t \in Holders /\ thread[t].ticket \in Nat
    BY <2>2, ThreadStates DEF HardwareRefuses, Holders, Answering
  <2>4. o.ticket = thread[t].ticket /\ o.client = thread[t].addr /\ o.ids \subseteq CallOf(t).ids
    BY <1>1, <2>2, <2>3 DEF HoldersInv, BatchesInv, Open, CallOf
  <2>5. b.ids \intersect CallOf(t).ids = {} /\ b.ids # {}
    BY <1>3, <2>1, <2>2, <2>4, FinishShrinks DEF HardwareRefuses, LeftOf
  <2> QED
    BY <2>1, <2>4, <2>5 DEF LeftOf
<1> QED
  BY <1>2, <1>3, BatchSteps DEF FailedCallsLeaveNothing

\* A call that returned the hardware's error has nothing pending, so it cannot
\* time out into its callback later (getValues and setValues finish the requests
\* they registered before they return the error).
THEOREM FailedCallsLeaveNothingPending == Spec => []FailedCallsLeaveNothing
<1>1. Init => FailedCallsLeaveNothing
  BY DEF Init, Pool!Init, FailedCallsLeaveNothing
<1>2. CallsInv /\ BatchesInv /\ HoldersInv /\ FailedCallsLeaveNothing /\ [Next]_vars
          => (CallsInv /\ BatchesInv /\ HoldersInv /\ FailedCallsLeaveNothing)'
  BY CallsInductive, BatchesInductive, HoldersInductive, FailedInductive
<1> QED
  BY <1>1, <1>2, InitialRequests, PTL DEF Spec
-----------------------------------------------------------------------------
(* Binder death *)

BinderDiedUnlinkedEvents == [forOnBinderDied : BOOLEAN, clientId : Binders]

EventOf(b)    == \E n \in DOMAIN binderEvents : binderEvents[n] = Lifecycle!Died(b)
UnlinkedOf(b) == \E n \in DOMAIN binderEvents : binderEvents[n] = Lifecycle!Unlinked(b)

\* A recipient that is to be unlinked, or the event that it was, belongs to a
\* dead binder, which is never linked again.
LifecycleInv ==
    /\ binder \in [Binders -> {"alive", "dying", "dead"}]
    /\ recipient \in [Binders -> {"none", "linked", "died"}]
    /\ binderEvents \in Seq(BinderDiedUnlinkedEvents)
    /\ \A b \in contexts : binder[b] = "alive" => recipient[b] = "linked"
    /\ \A b \in Binders : /\ recipient[b] # "none" => b \in contexts
                          /\ recipient[b] = "died" => binder[b] = "dead"
                          /\ UnlinkedOf(b) => recipient[b] = "none" /\ binder[b] = "dead"

LEMMA EventsTyped ==
    ASSUME NEW b \in Binders
    PROVE  /\ Lifecycle!Died(b) \in BinderDiedUnlinkedEvents
           /\ Lifecycle!Unlinked(b) \in BinderDiedUnlinkedEvents
           /\ \A c \in Binders : /\ Lifecycle!Died(c) # Lifecycle!Unlinked(b)
                                 /\ Lifecycle!Unlinked(c) # Lifecycle!Died(b)
                                 /\ Lifecycle!Died(c) = Lifecycle!Died(b) => c = b
                                 /\ Lifecycle!Unlinked(c) = Lifecycle!Unlinked(b) => c = b
BY DEF Lifecycle!Died, Lifecycle!Unlinked, BinderDiedUnlinkedEvents

\* A pushed event is the only one that joins the queue.
LEMMA PushAdds ==
    ASSUME binderEvents \in Seq(BinderDiedUnlinkedEvents),
           NEW e \in BinderDiedUnlinkedEvents, Lifecycle!PushEvent(e)
    PROVE  /\ binderEvents' \in Seq(BinderDiedUnlinkedEvents)
           /\ \A b \in Binders : /\ EventOf(b)' <=> EventOf(b) \/ e = Lifecycle!Died(b)
                                 /\ UnlinkedOf(b)' <=> UnlinkedOf(b) \/ e = Lifecycle!Unlinked(b)
<1>1. binderEvents' = Append(binderEvents, e)
  BY DEF Lifecycle!PushEvent
<1>2. /\ binderEvents' \in Seq(BinderDiedUnlinkedEvents)
      /\ Len(binderEvents') = Len(binderEvents) + 1 /\ Len(binderEvents) \in Nat
      /\ \A n \in 1..Len(binderEvents) : binderEvents'[n] = binderEvents[n]
      /\ binderEvents'[Len(binderEvents) + 1] = e
      /\ DOMAIN binderEvents = 1..Len(binderEvents)
      /\ DOMAIN binderEvents' = 1..Len(binderEvents')
  BY <1>1
<1>3. ASSUME NEW x
      PROVE  (\E n \in DOMAIN binderEvents' : binderEvents'[n] = x) <=>
             (\E n \in DOMAIN binderEvents : binderEvents[n] = x) \/ e = x
  <2>1. \A n \in DOMAIN binderEvents' : n \in DOMAIN binderEvents \/ n = Len(binderEvents) + 1
    BY <1>2
  <2>2. DOMAIN binderEvents \subseteq DOMAIN binderEvents'
        /\ Len(binderEvents) + 1 \in DOMAIN binderEvents'
    BY <1>2
  <2> QED
    BY <1>2, <2>1, <2>2
<1> QED
  BY <1>2, <1>3 DEF EventOf, UnlinkedOf, Lifecycle!Died, Lifecycle!Unlinked

\* Of the events in the queue only the one that is taken can be missing after it.
LEMMA NextTakes ==
    ASSUME binderEvents \in Seq(BinderDiedUnlinkedEvents),
           NEW e \in BinderDiedUnlinkedEvents, Lifecycle!NextEventIs(e)
    PROVE  /\ binderEvents' \in Seq(BinderDiedUnlinkedEvents)
           /\ \A b \in Binders : /\ UnlinkedOf(b)' => UnlinkedOf(b)
                                 /\ e = Lifecycle!Unlinked(b) => UnlinkedOf(b)
                                 /\ EventOf(b) /\ e # Lifecycle!Died(b) => EventOf(b)'
<1>1. /\ binderEvents # <<>> /\ e = Head(binderEvents) /\ binderEvents' = Tail(binderEvents)
  BY DEF Lifecycle!NextEventIs
<1>2. /\ Len(binderEvents) \in Nat /\ Len(binderEvents) >= 1
      /\ binderEvents' \in Seq(BinderDiedUnlinkedEvents)
      /\ e = binderEvents[1]
      /\ Len(binderEvents') = Len(binderEvents) - 1
      /\ \A n \in 1..Len(binderEvents') : binderEvents'[n] = binderEvents[n + 1]
      /\ DOMAIN binderEvents = 1..Len(binderEvents)
      /\ DOMAIN binderEvents' = 1..Len(binderEvents')
  <2>1. Len(binderEvents) \in Nat /\ Len(binderEvents) >= 1
    BY <1>1
  <2>2. /\ binderEvents' \in Seq(BinderDiedUnlinkedEvents)
        /\ e = binderEvents[1]
        /\ Len(binderEvents') = Len(binderEvents) - 1
    BY <1>1, <2>1
  <2>3. DOMAIN binderEvents = 1..Len(binderEvents) /\ DOMAIN binderEvents' = 1..Len(binderEvents')
    BY <2>2
  <2>4. \A n \in 1..Len(binderEvents') : binderEvents'[n] = binderEvents[n + 1]
    BY <1>1, <2>1, <2>2
  <2> QED
    BY <2>1, <2>2, <2>3, <2>4
<1>3. ASSUME NEW x, NEW n \in DOMAIN binderEvents', binderEvents'[n] = x
      PROVE  \E m \in DOMAIN binderEvents : binderEvents[m] = x
  <2>1. n + 1 \in DOMAIN binderEvents
    BY <1>2
  <2>2. binderEvents[n + 1] = x
    BY <1>2, <1>3
  <2> QED
    BY <2>1, <2>2
<1>4. ASSUME NEW x, NEW n \in DOMAIN binderEvents, binderEvents[n] = x, e # x
      PROVE  \E m \in DOMAIN binderEvents' : binderEvents'[m] = x
  <2>1. n - 1 \in DOMAIN binderEvents' /\ binderEvents'[n - 1] = x
    BY <1>2, <1>4
  <2> QED
    BY <2>1
<1>5. ASSUME NEW b \in Binders, e = Lifecycle!Unlinked(b)
      PROVE  UnlinkedOf(b)
  <2>1. 1 \in DOMAIN binderEvents /\ binderEvents[1] = Lifecycle!Unlinked(b)
    BY <1>2, <1>5
  <2> QED
    BY <2>1 DEF UnlinkedOf
<1> QED
  BY <1>2, <1>3, <1>4, <1>5 DEF EventOf, UnlinkedOf, Lifecycle!Died, Lifecycle!Unlinked

\* Calls that monitor a client: it is watched from then on, if it was not.
LEMMA MonitoredWatches ==
    ASSUME LifecycleInv, NEW b \in Binders, Lifecycle!Monitored(b)
    PROVE  /\ LifecycleInv'
           /\ Lifecycle!Watched(b)'
           /\ \A c \in Binders : Lifecycle!Watched(c) => Lifecycle!Watched(c)'
<1>1. /\ \A c \in Binders : /\ Lifecycle!Watched(c) <=> recipient[c] = "linked" \/ EventOf(c)
                            /\ Lifecycle!Watched(c)' <=> recipient'[c] = "linked" \/ EventOf(c)'
      /\ binderEvents' = binderEvents
      /\ \A c \in Binders : EventOf(c)' = EventOf(c) /\ UnlinkedOf(c)' = UnlinkedOf(c)
  BY DEF Lifecycle!Monitored, Lifecycle!Watched, EventOf, UnlinkedOf, Lifecycle!Died,
         Lifecycle!Unlinked
<1>2. CASE /\ b \in contexts /\ binder[b] = "alive"
           /\ UNCHANGED <<binder, recipient, contexts, binderEvents>>
  BY <1>1, <1>2 DEF LifecycleInv
<1>3. CASE /\ b \notin contexts /\ binder[b] # "dead"
           /\ contexts' = contexts \union {b}
           /\ recipient' = [recipient EXCEPT ![b] = "linked"]
           /\ UNCHANGED <<binder, binderEvents>>
  BY <1>1, <1>3 DEF LifecycleInv
<1> QED
  BY <1>2, <1>3 DEF Lifecycle!Monitored, Lifecycle!IsAlive, Lifecycle!LinkFails

\* The steps of binder, a refused call and the end of a recipient lose nobody.
LEMMA BinderKeepsWatch ==
    ASSUME LifecycleInv, NEW b \in Binders,
           \/ Lifecycle!NotMonitored(b) \/ Lifecycle!Dies(b) \/ Lifecycle!OnBinderDied(b)
           \/ Lifecycle!OnBinderUnlinked(b) \/ Lifecycle!HandleUnlinked(b)
    PROVE  /\ LifecycleInv'
           /\ \A c \in Binders : Lifecycle!Watched(c) => Lifecycle!Watched(c)'
<1>1. \A c \in Binders : /\ Lifecycle!Watched(c) <=> recipient[c] = "linked" \/ EventOf(c)
                         /\ Lifecycle!Watched(c)' <=> recipient'[c] = "linked" \/ EventOf(c)'
  BY DEF Lifecycle!Watched, EventOf, Lifecycle!Died
<1>2. ASSUME binderEvents' = binderEvents, NEW c \in Binders
      PROVE  EventOf(c)' = EventOf(c) /\ UnlinkedOf(c)' = UnlinkedOf(c)
  BY <1>2 DEF EventOf, UnlinkedOf, Lifecycle!Died, Lifecycle!Unlinked
<1>3. binderEvents \in Seq(BinderDiedUnlinkedEvents)
  BY DEF LifecycleInv
<1>4. CASE UNCHANGED <<binder, recipient, contexts, binderEvents>>
  BY <1>1, <1>2, <1>4 DEF LifecycleInv
<1>5. CASE /\ b \notin contexts /\ binder[b] = "dead" /\ contexts' = contexts \union {b}
           /\ Lifecycle!PushEvent(Lifecycle!Unlinked(b))
           /\ UNCHANGED <<binder, recipient>>
  <2>1. /\ binderEvents' \in Seq(BinderDiedUnlinkedEvents)
        /\ \A c \in Binders : /\ EventOf(c)' <=> EventOf(c)
                              /\ UnlinkedOf(c)' <=> UnlinkedOf(c) \/ c = b
    BY <1>3, <1>5, PushAdds, EventsTyped
  <2> QED
    BY <1>1, <1>5, <2>1 DEF LifecycleInv
<1>6. CASE Lifecycle!Dies(b)
  BY <1>1, <1>2, <1>6 DEF Lifecycle!Dies, LifecycleInv
<1>7. CASE /\ binder[b] = "dying" /\ binder' = [binder EXCEPT ![b] = "dead"]
           /\ recipient[b] = "linked" /\ recipient' = [recipient EXCEPT ![b] = "died"]
           /\ Lifecycle!PushEvent(Lifecycle!Died(b)) /\ contexts' = contexts
  <2>1. /\ binderEvents' \in Seq(BinderDiedUnlinkedEvents)
        /\ \A c \in Binders : /\ EventOf(c)' <=> EventOf(c) \/ c = b
                              /\ UnlinkedOf(c)' <=> UnlinkedOf(c)
    BY <1>3, <1>7, PushAdds, EventsTyped
  <2> QED
    BY <1>1, <1>7, <2>1 DEF LifecycleInv
<1>8. CASE /\ binder[b] = "dying" /\ binder' = [binder EXCEPT ![b] = "dead"]
           /\ recipient[b] # "linked"
           /\ UNCHANGED <<recipient, contexts, binderEvents>>
  BY <1>1, <1>2, <1>8 DEF LifecycleInv
<1>9. CASE Lifecycle!OnBinderUnlinked(b)
  <2>1. /\ recipient[b] = "died" /\ recipient' = [recipient EXCEPT ![b] = "none"]
        /\ UNCHANGED <<binder, contexts>>
        /\ Lifecycle!PushEvent(Lifecycle!Unlinked(b))
    BY <1>9 DEF Lifecycle!OnBinderUnlinked
  <2>2. /\ binderEvents' \in Seq(BinderDiedUnlinkedEvents)
        /\ \A c \in Binders : /\ EventOf(c)' <=> EventOf(c)
                              /\ UnlinkedOf(c)' <=> UnlinkedOf(c) \/ c = b
    BY <1>3, <2>1, PushAdds, EventsTyped
  <2> QED
    BY <1>1, <2>1, <2>2 DEF LifecycleInv
<1>10. CASE Lifecycle!HandleUnlinked(b)
  <2>1. /\ contexts' = contexts \ {b} /\ UNCHANGED <<binder, recipient>>
        /\ Lifecycle!NextEventIs(Lifecycle!Unlinked(b))
    BY <1>10 DEF Lifecycle!HandleUnlinked
  <2>2. /\ binderEvents' \in Seq(BinderDiedUnlinkedEvents)
        /\ UnlinkedOf(b)
        /\ \A c \in Binders : /\ EventOf(c) => EventOf(c)'
                              /\ UnlinkedOf(c)' => UnlinkedOf(c)
    BY <1>3, <2>1, NextTakes, EventsTyped
  <2> QED
    BY <1>1, <2>1, <2>2 DEF LifecycleInv
<1> QED
  BY <1>4, <1>5, <1>6, <1>7, <1>8, <1>9, <1>10
     DEF Lifecycle!NotMonitored, Lifecycle!LinkFails, Lifecycle!OnBinderDied

LEMMA HandleDiedKeepsOthers ==
    ASSUME LifecycleInv, NEW b \in Binders, Lifecycle!HandleDied(b)
    PROVE  /\ LifecycleInv'
           /\ \A c \in Binders \ {b} : Lifecycle!Watched(c) => Lifecycle!Watched(c)'
<1>1. \A c \in Binders : /\ Lifecycle!Watched(c) <=> recipient[c] = "linked" \/ EventOf(c)
                         /\ Lifecycle!Watched(c)' <=> recipient'[c] = "linked" \/ EventOf(c)'
  BY DEF Lifecycle!Watched, EventOf, Lifecycle!Died
<1>2. /\ UNCHANGED <<binder, recipient, contexts>>
      /\ Lifecycle!NextEventIs(Lifecycle!Died(b))
  BY DEF Lifecycle!HandleDied
<1>3. /\ binderEvents' \in Seq(BinderDiedUnlinkedEvents)
      /\ \A c \in Binders : /\ c # b /\ EventOf(c) => EventOf(c)'
                            /\ UnlinkedOf(c)' => UnlinkedOf(c)
  <2>1. binderEvents \in Seq(BinderDiedUnlinkedEvents)
    BY DEF LifecycleInv
  <2> QED
    BY <1>2, <2>1, NextTakes, EventsTyped
<1> QED
  BY <1>1, <1>2, <1>3 DEF LifecycleInv

\* A client's object is there only while its death is watched for.
WatchInv == /\ LifecycleInv
            /\ clients \in [Kinds -> [Binders -> Addresses \union {NoAddress}]]
            /\ ClientsAreWatched

LEMMA WatchInductive ==
    ASSUME WatchInv, [Next]_vars
    PROVE  WatchInv'
<1>1. \A c \in Binders, k \in Kinds : clients[k][c] # NoAddress => Lifecycle!Watched(c)
  BY DEF WatchInv, ClientsAreWatched
<1>2. ASSUME LifecycleInv',
             clients' \in [Kinds -> [Binders -> Addresses \union {NoAddress}]],
             \A k \in Kinds, c \in Binders :
                 clients'[k][c] # NoAddress => Lifecycle!Watched(c)'
      PROVE  WatchInv'
  BY <1>2 DEF WatchInv, ClientsAreWatched
<1>3. ASSUME UNCHANGED binderVars, UNCHANGED clients
      PROVE  WatchInv'
  <2>1. \A c \in Binders : /\ Lifecycle!Watched(c)' = Lifecycle!Watched(c)
                           /\ UnlinkedOf(c)' = UnlinkedOf(c)
    BY <1>3 DEF binderVars, Lifecycle!Watched, Lifecycle!Died, UnlinkedOf, Lifecycle!Unlinked
  <2> QED
    BY <1>1, <1>2, <1>3, <2>1 DEF binderVars, LifecycleInv, WatchInv
<1>4. ASSUME NEW t \in Threads, NEW k \in Kinds, NEW b \in Binders,
             NEW ids \in SUBSET RequestIds, NEW denied \in SUBSET RequestIds,
             Call(t, k, b, ids, denied)
      PROVE  WatchInv'
  <2>1. /\ LifecycleInv' /\ Lifecycle!Watched(b)'
        /\ \A c \in Binders : Lifecycle!Watched(c) => Lifecycle!Watched(c)'
    BY <1>4, MonitoredWatches DEF Call, WatchInv
  <2>2. PICK a \in Addresses : clients' = [clients EXCEPT ![k][b] = a]
    BY <1>4 DEF Call, GetOrCreateClient
  <2> QED
    BY <1>1, <1>2, <2>1, <2>2 DEF WatchInv
<1>5. ASSUME NEW b \in Binders,
             \/ \E t \in Threads : CallRefused(t, b)
             \/ BinderDies(b) \/ Obituary(b) \/ OnBinderUnlinked(b) \/ HandleUnlinked(b)
      PROVE  WatchInv'
  <2>1. /\ UNCHANGED clients
        /\ \/ Lifecycle!NotMonitored(b) \/ Lifecycle!Dies(b) \/ Lifecycle!OnBinderDied(b)
           \/ Lifecycle!OnBinderUnlinked(b) \/ Lifecycle!HandleUnlinked(b)
    BY <1>5 DEF CallRefused, BinderDies, Obituary, OnBinderUnlinked,
                HandleUnlinked, notBinderVars
  <2>2. LifecycleInv' /\ \A c \in Binders : Lifecycle!Watched(c) => Lifecycle!Watched(c)'
    BY <2>1, BinderKeepsWatch DEF WatchInv
  <2> QED
    BY <1>1, <1>2, <2>1, <2>2 DEF WatchInv
<1>6. ASSUME NEW b \in Binders, HandleDied(b)
      PROVE  WatchInv'
  <2>1. /\ LifecycleInv'
        /\ \A c \in Binders \ {b} : Lifecycle!Watched(c) => Lifecycle!Watched(c)'
    BY <1>6, HandleDiedKeepsOthers DEF HandleDied, WatchInv
  <2>2. /\ clients' \in [Kinds -> [Binders -> Addresses \union {NoAddress}]]
        /\ \A k \in Kinds, c \in Binders :
              clients'[k][c] = IF c = b THEN NoAddress ELSE clients[k][c]
    BY <1>6 DEF HandleDied, Forgotten, WatchInv
  <2> QED
    BY <1>1, <1>2, <2>1, <2>2
<1>7. CASE CallNext
  <2>1. ASSUME NEW t \in Threads,
               \/ Register(t) \/ (\E status \in Pool!Refusals : RegisterFails(t, status))
               \/ SendDenied(t) \/ HardwareAccepts(t) \/ HardwareRefuses(t)
        PROVE  WatchInv'
    BY <1>3, <2>1 DEF Register, RegisterFails, SendDenied, HardwareAccepts, HardwareRefuses
  <2> QED
    BY <1>4, <1>5, <1>7, <2>1 DEF CallNext
<1>8. CASE \/ CheckTimeout \/ Tick \/ UNCHANGED vars
           \/ (\E b \in expired : OnTimeout(b))
           \/ (\E q \in hardware : \E ids \in (SUBSET q.ids) \ {{}} : HardwareResults(q, ids))
  BY <1>3, <1>8 DEF CheckTimeout, Tick, OnTimeout, HardwareResults, vars, notBinderVars
<1> QED
  BY <1>5, <1>6, <1>7, <1>8 DEF Next, BinderNext

LEMMA InitialWatch ==
    ASSUME Init
    PROVE  WatchInv
<1>1. LifecycleInv
  BY DEF Init, Lifecycle!Init, LifecycleInv, UnlinkedOf
<1> QED
  BY <1>1 DEF Init, WatchInv, ClientsAreWatched

\* DefaultVehicleHal hears of the death of every client it keeps an object for
\* (getValues and setValues monitor the binder in the section that creates the
\* object, monitorBinderLifeCycleLocked fails for a binder that died).
THEOREM ClientsWatched == Spec => []ClientsAreWatched
<1>1. WatchInv => ClientsAreWatched
  BY DEF WatchInv
<1> QED
  BY <1>1, InitialWatch, WatchInductive, PTL DEF Spec

\* No context is freed that the cookie of a death recipient still points to:
\* onBinderUnlinkedWithContext, the last to use it, is the only one to erase it.
THEOREM CookiesStayAlive == Spec => []CookiesAreAlive
<1>1. WatchInv => CookiesAreAlive
  BY DEF WatchInv, LifecycleInv, CookiesAreAlive, Lifecycle!CookiesAreAlive
<1> QED
  BY <1>1, InitialWatch, WatchInductive, PTL DEF Spec
-----------------------------------------------------------------------------
(* What an answer and its request have in common *)

\* What is open at the pool or runs for a call has the address of its client.
AddressesInv ==
    /\ \A b \in Open : b.client = calls[b.ticket + 1].addr
    /\ \A t \in Holders : thread[t].addr = CallOf(t).addr

LEMMA AddressesInductive ==
    ASSUME CallsInv, BatchesInv, AddressesInv, [Next]_vars
    PROVE  AddressesInv'
<1>1. \A b \in Open : b.ticket \in Nat /\ b.ticket + 1 \in DOMAIN calls
  <2>1. DOMAIN calls = 1 .. nextTicket /\ nextTicket \in Nat
    BY DEF CallsInv
  <2> QED
    BY <2>1 DEF BatchesInv, Open, Pool!Batch
<1>2. \A t \in Holders : thread[t].ticket + 1 \in DOMAIN calls
  BY ThreadStates DEF Holders
<1>3. ASSUME NEW t \in Threads, Register(t)
      PROVE  /\ calls'[nextTicket + 1].addr = thread[t].addr
             /\ thread'[t].ticket = nextTicket /\ thread'[t].addr = thread[t].addr
  BY <1>3 DEF Register, CallsInv
<1>4. ASSUME NEW b \in Open'
      PROVE  b.client = calls'[b.ticket + 1].addr
  <2>1. CASE \E o \in Open : LeftOf(b, o)
    BY <1>1, <2>1, CallsGrow DEF AddressesInv, LeftOf
  <2>2. ASSUME NEW t \in Threads, Register(t), b \notin Open
        PROVE  b.client = calls'[b.ticket + 1].addr
    <3>1. b.client = thread[t].addr /\ b.ticket = nextTicket
      BY <2>2, RegisterAdds DEF Open
    <3> QED
      BY <1>3, <2>2, <3>1
  <2>3. b \in Open => LeftOf(b, b)
    BY DEF LeftOf
  <2> QED
    BY <2>1, <2>2, <2>3, BatchSteps, StillOpen
<1>5. ASSUME NEW t \in Holders'
      PROVE  thread'[t].addr = CallOf(t)'.addr
  <2>1. t \in Threads
    BY DEF Holders
  <2>2. CASE /\ t \in Holders
             /\ thread'[t].ticket = thread[t].ticket /\ thread'[t].addr = thread[t].addr
    BY <1>2, <2>2, CallsGrow DEF AddressesInv, CallOf
  <2>3. CASE Register(t)
    BY <1>3, <2>1, <2>3 DEF CallOf
  <2> QED
    BY <2>1, <2>2, <2>3, HolderSteps
<1> QED
  BY <1>4, <1>5 DEF AddressesInv

\* What the hardware holds is what the call gave it.
HardwareInv == \A q \in hardware : /\ q.binder = calls[q.ticket + 1].binder
                                   /\ q.addr = calls[q.ticket + 1].addr
                                   /\ q.ids \subseteq calls[q.ticket + 1].ids

LEMMA HardwareSteps ==
    ASSUME CallsInv, [Next]_vars
    PROVE  \A q \in hardware' :
              \/ \E r \in hardware : /\ q.ticket = r.ticket /\ q.addr = r.addr
                                     /\ q.binder = r.binder /\ q.ids \subseteq r.ids
              \/ \E t \in Holders : /\ q.ticket = thread[t].ticket /\ q.addr = thread[t].addr
                                    /\ q.binder = CallOf(t).binder /\ q.ids = CallOf(t).ids
<1> DEFINE kept(q) == \E r \in hardware : /\ q.ticket = r.ticket /\ q.addr = r.addr
                                          /\ q.binder = r.binder /\ q.ids \subseteq r.ids
           brought(q) == \E t \in Holders :
                            /\ q.ticket = thread[t].ticket /\ q.addr = thread[t].addr
                            /\ q.binder = CallOf(t).binder /\ q.ids = CallOf(t).ids
<1>1. ASSUME NEW t \in Threads, HardwareAccepts(t)
      PROVE  \A q \in hardware' : kept(q) \/ brought(q)
  <2> DEFINE new == [addr |-> thread[t].addr, ids |-> CallOf(t).ids,
                     ticket |-> thread[t].ticket, binder |-> CallOf(t).binder]
  <2>1. hardware' = hardware \union {new} /\ t \in Holders
    BY <1>1 DEF HardwareAccepts, Holders
  <2>2. /\ new.addr = thread[t].addr /\ new.ids = CallOf(t).ids
        /\ new.ticket = thread[t].ticket /\ new.binder = CallOf(t).binder
    OBVIOUS
  <2> HIDE DEF new
  <2>3. brought(new)
    BY <2>1, <2>2
  <2>4. \A q \in hardware : kept(q)
    OBVIOUS
  <2> QED
    BY <2>1, <2>3, <2>4
<1>2. ASSUME NEW q \in hardware, NEW ids \in (SUBSET q.ids) \ {{}}, HardwareResults(q, ids)
      PROVE  \A r \in hardware' : kept(r)
  <2>1. /\ [q EXCEPT !.ids = @ \ ids].ticket = q.ticket
        /\ [q EXCEPT !.ids = @ \ ids].addr = q.addr
        /\ [q EXCEPT !.ids = @ \ ids].binder = q.binder
        /\ [q EXCEPT !.ids = @ \ ids].ids \subseteq q.ids
    BY DEF CallsInv, HardwareRequests
  <2>2. \A r \in hardware' : r \in hardware \/ r = [q EXCEPT !.ids = @ \ ids]
    BY <1>2 DEF HardwareResults
  <2> QED
    BY <2>1, <2>2
<1>3. UNCHANGED hardware => \A q \in hardware' : kept(q)
  OBVIOUS
<1> HIDE DEF kept, brought
<1>4. CASE CallNext
  <2>1. ASSUME NEW t \in Threads,
               \/ \E k \in Kinds, b \in Binders, ids, denied \in SUBSET RequestIds :
                     Call(t, k, b, ids, denied)
               \/ \E b \in Binders : CallRefused(t, b)
               \/ Register(t)
               \/ \E status \in Pool!Refusals : RegisterFails(t, status)
               \/ SendDenied(t) \/ HardwareRefuses(t)
        PROVE  UNCHANGED hardware
    BY <2>1 DEF Call, CallRefused, Register, RegisterFails, SendDenied, HardwareRefuses
  <2> QED
    BY <1>1, <1>3, <1>4, <2>1 DEF CallNext, kept, brought
<1>5. CASE \/ CheckTimeout \/ Tick \/ BinderNext \/ UNCHANGED vars
           \/ (\E b \in expired : OnTimeout(b))
  <2>1. UNCHANGED hardware
    BY <1>5 DEF CheckTimeout, Tick, BinderNext, BinderDies, Obituary, OnBinderUnlinked,
                HandleDied, HandleUnlinked, OnTimeout, vars, notBinderVars
  <2> QED
    BY <1>3, <2>1 DEF kept
<1> QED
  BY <1>2, <1>4, <1>5 DEF Next, kept, brought

LEMMA HardwareInductive ==
    ASSUME CallsInv, AddressesInv, HardwareInv, [Next]_vars
    PROVE  HardwareInv'
<1>1. \A t \in Holders : thread[t].ticket + 1 \in DOMAIN calls
  BY ThreadStates DEF Holders
<1>2. \A q \in hardware : q.ticket + 1 \in DOMAIN calls
  BY DEF CallsInv, HardwareRequests
<1>3. ASSUME NEW q \in hardware'
      PROVE  /\ q.binder = calls[q.ticket + 1].binder
             /\ q.addr = calls[q.ticket + 1].addr
             /\ q.ids \subseteq calls[q.ticket + 1].ids
             /\ q.ticket + 1 \in DOMAIN calls
  BY <1>1, <1>2, HardwareSteps DEF HardwareInv, AddressesInv, CallOf
<1> QED
  BY <1>3, CallsGrow DEF HardwareInv

\* An answer of a known call that matches its request does so for good.
LEMMA MatchesStay ==
    ASSUME CallsInv, [Next]_vars, NEW answer, NEW n \in DOMAIN calls, NEW i,
           Matches(answer, n, i)
    PROVE  Matches(answer, n, i)'
BY CallsGrow DEF Matches

\* Answers that match their requests join such answers.
LEMMA SendMatching ==
    ASSUME CallsInv, OnceInv, AnswersMatchAddressAndId, [Next]_vars,
           NEW rs \in SUBSET AnswerMessages, SendAnswers(rs),
           \A r \in rs : Matches(r, r.ticket + 1, r.id)
    PROVE  AnswersMatchAddressAndId'
<1>1. answers \in Seq([RequestIds -> Seq(AnswerMessages)])
  BY DEF OnceInv
<1>2. /\ answers' \in Seq([RequestIds -> Seq(AnswerMessages)])
      /\ Len(answers') = Len(answers)
      /\ \A n \in DOMAIN answers, i \in RequestIds :
            \/ /\ answers'[n][i] = answers[n][i]
               /\ ~ \E r \in rs : r.ticket = n - 1 /\ r.id = i
            \/ \E r \in rs : /\ r.ticket = n - 1 /\ r.id = i
                             /\ answers'[n][i] = Append(answers[n][i], r)
  BY <1>1, SendAnswersAppends
<1>3. DOMAIN answers' = DOMAIN answers /\ DOMAIN answers = DOMAIN calls /\ DOMAIN answers \subseteq Nat
  BY <1>1, <1>2 DEF OnceInv, CallsInv
<1>4. ASSUME NEW n \in DOMAIN answers, NEW i \in RequestIds, NEW m \in DOMAIN answers'[n][i]
      PROVE  Matches(answers'[n][i][m], n, i)
  <2>1. CASE answers'[n][i] = answers[n][i]
    BY <1>4, <2>1 DEF AnswersMatchAddressAndId
  <2>2. ASSUME NEW r \in rs, r.ticket = n - 1, r.id = i,
               answers'[n][i] = Append(answers[n][i], r)
        PROVE  Matches(answers'[n][i][m], n, i)
    <3>1. answers[n][i] \in Seq(AnswerMessages)
      BY <1>1
    <3>2. CASE m \in DOMAIN answers[n][i]
      <4>1. answers'[n][i][m] = answers[n][i][m]
        BY <2>2, <3>1, <3>2
      <4> QED
        BY <3>2, <4>1 DEF AnswersMatchAddressAndId
    <3>3. CASE m \notin DOMAIN answers[n][i]
      <4>1. answers'[n][i][m] = r
        BY <1>4, <2>2, <3>1, <3>3
      <4>2. r.ticket + 1 = n
        BY <1>3, <2>2
      <4> QED
        BY <2>2, <4>1, <4>2
    <3> QED
      BY <3>2, <3>3
  <2> QED
    BY <1>2, <2>1, <2>2
<1> QED
  BY <1>3, <1>4, MatchesStay DEF AnswersMatchAddressAndId

LEMMA MatchesInductive ==
    ASSUME CallsInv, BatchesInv, AddressesInv, HardwareInv, OnceInv,
           AnswersMatchAddressAndId, [Next]_vars
    PROVE  AnswersMatchAddressAndId'
<1>0. DOMAIN answers = DOMAIN calls
  BY DEF OnceInv, CallsInv
<1>1. CASE UNCHANGED answers
  BY <1>0, <1>1, MatchesStay DEF AnswersMatchAddressAndId
<1>2. ASSUME NEW t \in Threads, Register(t)
      PROVE  AnswersMatchAddressAndId'
  <2>1. /\ answers \in Seq([RequestIds -> Seq(AnswerMessages)])
        /\ answers' = Append(answers, [i \in RequestIds |-> <<>>])
    BY <1>2 DEF Register, OnceInv
  <2>2. ASSUME NEW n \in DOMAIN answers', NEW i \in RequestIds,
               NEW m \in DOMAIN answers'[n][i]
        PROVE  n \in DOMAIN answers /\ answers'[n] = answers[n]
    <3>1. \/ n \in DOMAIN answers /\ answers'[n] = answers[n]
          \/ answers'[n] = [j \in RequestIds |-> <<>>]
      BY <2>1
    <3>2. DOMAIN <<>> = {}
      OBVIOUS
    <3> QED
      BY <2>2, <3>1, <3>2
  <2> QED
    BY <1>0, <2>2, MatchesStay DEF AnswersMatchAddressAndId
<1>3. ASSUME NEW t \in Threads, SendDenied(t)
      PROVE  AnswersMatchAddressAndId'
  <2> DEFINE rs == {Answer(thread[t].ticket, i, "denied", CallOf(t).binder,
                           thread[t].ticket) : i \in CallOf(t).denied}
  <2>1. /\ thread[t] \in Answering /\ CallOf(t) \in Requests
        /\ thread[t].ticket + 1 \in DOMAIN calls
    BY <1>3, ThreadStates DEF SendDenied
  <2>2. /\ thread[t].ticket \in Nat /\ CallOf(t).binder \in Binders
        /\ CallOf(t).denied \subseteq RequestIds
    BY <2>1 DEF Answering, Requests
  <2>3. rs \in SUBSET AnswerMessages
    BY <2>2, AnswersTyped
  <2>4. \A r \in rs : Matches(r, r.ticket + 1, r.id)
    BY <2>1, <2>2 DEF Matches, Answer, CallOf
  <2>5. SendAnswers(rs)
    BY <1>3 DEF SendDenied
  <2> HIDE DEF rs
  <2> QED
    BY <2>3, <2>4, <2>5, SendMatching
<1>4. ASSUME NEW q \in hardware, NEW ids \in (SUBSET q.ids) \ {{}}, HardwareResults(q, ids)
      PROVE  AnswersMatchAddressAndId'
  <2> DEFINE found == Pool!FoundIds(q.addr, ids)
             rs == {Answer(TicketOf(q.addr, i), i, "result", q.binder, q.ticket) : i \in found}
  <2>1. ASSUME NEW i \in found
        PROVE  /\ TicketOf(q.addr, i) \in Nat
               /\ q.addr = calls[TicketOf(q.addr, i) + 1].addr
    <3>1. PICK b \in pending : b.client = q.addr /\ TicketOf(q.addr, i) = b.ticket
      BY TicketOfFound
    <3> QED
      BY <3>1 DEF BatchesInv, AddressesInv, Open, Pool!Batch
  <2>2. /\ q.ticket \in Nat /\ q.ticket + 1 \in DOMAIN calls /\ q.binder \in Binders
        /\ found \subseteq RequestIds /\ found \subseteq q.ids
    BY DEF CallsInv, HardwareRequests, Pool!FoundIds
  <2>3. SendAnswers(rs)
    BY <1>4 DEF HardwareResults
  <2> HIDE DEF found
  <2>4. rs \in SUBSET AnswerMessages
    BY <2>1, <2>2, AnswersTyped
  <2>5. ASSUME NEW r \in rs
        PROVE  Matches(r, r.ticket + 1, r.id)
    <3>1. PICK i \in found : r = Answer(TicketOf(q.addr, i), i, "result", q.binder, q.ticket)
      OBVIOUS
    <3>2. /\ r.ticket = TicketOf(q.addr, i) /\ r.id = i /\ r.how = "result"
          /\ r.to = q.binder /\ r.origin = q.ticket
      BY <3>1 DEF Answer
    <3>3. /\ q.binder = calls[q.ticket + 1].binder /\ q.addr = calls[q.ticket + 1].addr
          /\ i \in calls[q.ticket + 1].ids
      BY <2>2 DEF HardwareInv
    <3> QED
      BY <2>1, <2>2, <3>2, <3>3 DEF Matches
  <2> HIDE DEF rs
  <2> QED
    BY <2>3, <2>4, <2>5, SendMatching
<1>5. ASSUME NEW b \in expired, OnTimeout(b)
      PROVE  AnswersMatchAddressAndId'
  <2> DEFINE rs == {Answer(b.ticket, i, "timeout", calls[b.ticket + 1].binder, b.ticket) :
                      i \in b.ids}
  <2>1. b.ticket \in Nat /\ b.ids \subseteq RequestIds /\ b.ticket + 1 \in DOMAIN calls
    BY DEF BatchesInv, Open, Pool!Batch, CallsInv
  <2>2. calls[b.ticket + 1].binder \in Binders
    <3>1. calls[b.ticket + 1] \in Requests
      BY <2>1 DEF CallsInv
    <3> QED
      BY <3>1 DEF Requests
  <2>3. rs \in SUBSET AnswerMessages
    BY <2>1, <2>2, AnswersTyped
  <2>4. \A r \in rs : Matches(r, r.ticket + 1, r.id)
    BY <2>1 DEF Matches, Answer
  <2>5. SendAnswers(rs)
    BY <1>5 DEF OnTimeout
  <2> HIDE DEF rs
  <2> QED
    BY <2>3, <2>4, <2>5, SendMatching
<1>6. CASE CallNext
  <2>1. ASSUME NEW t \in Threads,
               \/ \E k \in Kinds, b \in Binders, ids, denied \in SUBSET RequestIds :
                     Call(t, k, b, ids, denied)
               \/ \E b \in Binders : CallRefused(t, b)
               \/ \E status \in Pool!Refusals : RegisterFails(t, status)
               \/ HardwareAccepts(t) \/ HardwareRefuses(t)
        PROVE  UNCHANGED answers
    BY <2>1 DEF Call, CallRefused, RegisterFails, HardwareAccepts, HardwareRefuses
  <2> QED
    BY <1>1, <1>2, <1>3, <1>6, <2>1 DEF CallNext
<1>7. CASE CheckTimeout \/ Tick \/ BinderNext \/ UNCHANGED vars
  BY <1>1, <1>7 DEF CheckTimeout, Tick, BinderNext, BinderDies, Obituary, OnBinderUnlinked,
                    HandleDied, HandleUnlinked, vars, notBinderVars
<1> QED
  BY <1>4, <1>5, <1>6, <1>7 DEF Next

\* Whatever addresses and request IDs are used again, an answer is sent to the
\* callback of the call it was made for, and answers a request of another call
\* only if that is a result, of the same ID, and of a client object at the same
\* address (getOrSetValuesCallback hands the pool only an address and IDs).
THEOREM AnswersMatchTheirRequests == Spec => []AnswersMatchAddressAndId
<1> DEFINE Inv == /\ CallsInv /\ BatchesInv /\ HoldersInv /\ OnceInv
                  /\ AddressesInv /\ HardwareInv /\ AnswersMatchAddressAndId
<1>1. Init => Inv
  <2> SUFFICES ASSUME Init PROVE Inv
    OBVIOUS
  <2>1. answers = <<>> /\ hardware = {} /\ Open = {} /\ Holders = {}
    BY DEF Init, Open, Holders, Pool!Init, Idle
  <2>2. AddressesInv /\ HardwareInv /\ AnswersMatchAddressAndId
    BY <2>1 DEF AddressesInv, HardwareInv, AnswersMatchAddressAndId
  <2> QED
    BY <2>2, InitialRequests
<1>2. Inv /\ [Next]_vars => Inv'
  BY CallsInductive, BatchesInductive, HoldersInductive, OnceInductive, AddressesInductive,
     HardwareInductive, MatchesInductive
<1>3. Inv => AnswersMatchAddressAndId
  OBVIOUS
<1> QED
  BY <1>1, <1>2, <1>3, PTL DEF Spec
=============================================================================
