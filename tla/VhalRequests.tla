---------------------------- MODULE VhalRequests ----------------------------
(***************************************************************************)
(* getValues and setValues of the reference Vehicle HAL                    *)
(* (vhal/src/DefaultVehicleHal.cpp, vhal/src/ConnectedClient.cpp) on top   *)
(* of its pending request pool, with the death of client binders and the   *)
(* vehicle hardware as environment.                                        *)
(*                                                                         *)
(* A client is known by its binder (AIBinder of its IVehicleCallback).     *)
(* For each kind of call it gets a GetSetValuesClient object; the pool     *)
(* knows that object by its address only.  The object is freed when the    *)
(* binder died and no call uses it; the hardware and the pool may still    *)
(* hold its address.                                                       *)
(*                                                                         *)
(* getValues and setValues differ in the checks that decide which requests *)
(* are denied before the hardware sees them; a call is given here as the   *)
(* set of request IDs that pass and the set of those that are denied.      *)
(***************************************************************************)
EXTENDS Integers, Sequences, FiniteSets

CONSTANTS Kinds,            \* a subset of {"get", "set"}
          Binders,          \* client callbacks
          Threads,          \* binder threads that run calls
          Addresses,        \* where client objects may be allocated
          RequestIds, Timeout, MaxPending, MaxTime,
          MaxTickets,       \* of the pool
          Mortal,           \* the clients that may die
          MaxEvents,        \* bound of the model: length of mBinderEvents
          NoAddress         \* not an address

ASSUME RequestsAssumption ==
    /\ Kinds \subseteq {"get", "set"}
    /\ Mortal \subseteq Binders
    /\ Timeout \in Nat /\ MaxPending \in Nat /\ MaxTime \in Nat /\ MaxTickets \in Nat
    /\ IsFiniteSet(RequestIds)
    /\ MaxEvents \in Nat
    /\ NoAddress \notin Addresses

VARIABLES now, pending, expired, timer, threadStop, life, nextTicket, answered,
          clients,       \* mGetValuesClients and mSetValuesClients: their objects
          calls,         \* calls[t + 1] is the call that got ticket t
          thread,        \* what each binder thread is doing
          hardware,      \* requests the hardware accepted and has not answered
          answers,       \* answers[t + 1][i]: the answers sent for request i of call t
          binder, recipient, contexts, binderEvents

Pool      == INSTANCE PendingRequestPool WITH Clients <- Addresses
Lifecycle == INSTANCE BinderLifecycle

poolVars      == <<now, pending, expired, timer, threadStop, life, nextTicket, answered>>
callVars      == <<calls, thread>>
binderVars    == <<binder, recipient, contexts, binderEvents>>
notBinderVars == <<poolVars, clients, callVars, hardware, answers>>
vars == <<notBinderVars, binderVars>>

Idle == [pc |-> "idle"]

Init == /\ Pool!Init
        /\ clients = [k \in Kinds |-> [b \in Binders |-> NoAddress]]
        /\ calls = <<>>
        /\ thread = [t \in Threads |-> Idle]
        /\ hardware = {}
        /\ answers = <<>>
        /\ Lifecycle!Init
-----------------------------------------------------------------------------
(* Client objects *)

\* A client object lives as long as a map or a running call refers to it.
LiveAddresses == {clients[k][b] : k \in Kinds, b \in Binders}
                 \union {thread[t].addr : t \in {u \in Threads : thread[u].pc # "idle"}}

\* Where a new one may be allocated: the address of a freed one may come again.
Free(a) == a \in Addresses \ LiveAddresses

\* getOrCreateClient: a is the address of the client's object.
GetOrCreateClient(k, b, a) ==
    /\ IF clients[k][b] = NoAddress THEN Free(a) ELSE a = clients[k][b]
    /\ clients' = [clients EXCEPT ![k][b] = a]
-----------------------------------------------------------------------------
(* Binder death *)

BinderDies(b)       == Lifecycle!Dies(b) /\ UNCHANGED notBinderVars
Obituary(b)         == Lifecycle!OnBinderDied(b) /\ UNCHANGED notBinderVars
OnBinderUnlinked(b) == Lifecycle!OnBinderUnlinked(b) /\ UNCHANGED notBinderVars
HandleUnlinked(b)   == Lifecycle!HandleUnlinked(b) /\ UNCHANGED notBinderVars

Forgotten(b) == [k \in Kinds |-> [clients[k] EXCEPT ![b] = NoAddress]]

\* Variants: the context goes with the client; only getValues clients are erased;
\* the client's requests are taken out of the pool, answered or not.
HandleDied_DropsContext(b) ==
    /\ Lifecycle!NextEventIs(Lifecycle!Died(b))
    /\ clients' = Forgotten(b)
    /\ contexts' = contexts \ {b}
    /\ UNCHANGED <<poolVars, callVars, hardware, answers, binder, recipient>>
HandleDied_GetOnly(b) ==
    /\ Lifecycle!HandleDied(b)
    /\ clients' = [clients EXCEPT !["get"][b] = NoAddress]
    /\ UNCHANGED <<poolVars, callVars, hardware, answers>>
HandleDied_DropsRequests(b) ==
    /\ Lifecycle!HandleDied(b)
    /\ pending' = {o \in pending : \A k \in Kinds : o.client # clients[k][b]}
    /\ clients' = Forgotten(b)
    /\ UNCHANGED <<now, expired, timer, threadStop, life, nextTicket, answered,
                   callVars, hardware, answers>>

\* onBinderDiedWithContext erases the client's objects, with mLock held.
HandleDied(b) ==
    /\ Lifecycle!HandleDied(b)
    /\ clients' = Forgotten(b)
    /\ UNCHANGED <<poolVars, callVars, hardware, answers>>
-----------------------------------------------------------------------------
(* A getValues or setValues call *)

\* What a client may ask for: some requests, each with an ID of its own among
\* those of the call.  The IDs of an earlier call may come again, the HAL refuses
\* one that is still pending.
MayAsk(ids, denied) == ids \union denied # {} /\ ids \intersect denied = {}

\* Up to the end of the section that holds mLock.
Call(t, k, b, ids, denied) ==
    /\ thread[t].pc = "idle"
    /\ MayAsk(ids, denied)
    /\ Lifecycle!Monitored(b)
    /\ \E a \in Addresses :
          /\ GetOrCreateClient(k, b, a)
          /\ thread' = [thread EXCEPT ![t] =
                          [pc |-> "registered", binder |-> b, addr |-> a, ids |-> ids,
                           denied |-> denied]]
    /\ UNCHANGED <<poolVars, calls, hardware, answers>>

\* The call returns "client died".
CallRefused(t, b) ==
    /\ thread[t].pc = "idle"
    /\ Lifecycle!NotMonitored(b)
    /\ UNCHANGED <<poolVars, clients, callVars, hardware, answers>>

\* client->addRequests succeeds.  A call that has nothing for the hardware
\* registers an empty batch.
Register(t) ==
    /\ thread[t].pc = "registered"
    /\ Pool!AddRequests(thread[t].addr, thread[t].ids)
    /\ calls' = Append(calls, [binder |-> thread[t].binder, addr |-> thread[t].addr,
                               ids |-> thread[t].ids, denied |-> thread[t].denied,
                               status |-> "running"])
    /\ answers' = Append(answers, [i \in RequestIds |-> <<>>])
    /\ thread' = [thread EXCEPT ![t] = [pc |-> "added", addr |-> @.addr, ticket |-> nextTicket]]
    /\ UNCHANGED <<clients, hardware, binderVars>>

\* It fails: the call returns the status and nothing else happens.
RegisterFails(t, status) ==
    /\ thread[t].pc = "registered"
    /\ Pool!AddRequestsFails(thread[t].addr, thread[t].ids, status)
    /\ thread' = [thread EXCEPT ![t] = Idle]
    /\ UNCHANGED <<clients, calls, hardware, answers, binderVars>>

CallOf(t) == calls[thread[t].ticket + 1]

Return(t, status) ==
    /\ thread' = [thread EXCEPT ![t] = Idle]
    /\ calls' = [calls EXCEPT ![thread[t].ticket + 1].status = status]

\* Answers are appended to those of their request: rs has the answers of a step.
SendAnswers(rs) ==
    answers' = [n \in DOMAIN answers |-> [i \in RequestIds |->
                  LET new == {r \in rs : r.ticket = n - 1 /\ r.id = i}
                  IN  IF new = {} THEN answers[n][i]
                      ELSE Append(answers[n][i], CHOOSE r \in new : TRUE)]]

Answer(t, i, how, to, origin) ==
    [ticket |-> t, id |-> i, how |-> how, to |-> to, origin |-> origin]

\* Variant: a call with nothing for the hardware returns before it answers.
SendDenied_ReturnsFirst(t) ==
    /\ thread[t].pc = "added"
    /\ IF CallOf(t).ids = {}
       THEN Return(t, "ok") /\ UNCHANGED answers
       ELSE /\ SendAnswers({Answer(thread[t].ticket, i, "denied", CallOf(t).binder,
                                  thread[t].ticket) : i \in CallOf(t).denied})
            /\ thread' = [thread EXCEPT ![t].pc = "calling hardware"]
            /\ UNCHANGED calls
    /\ UNCHANGED <<poolVars, clients, hardware, binderVars>>

\* The denied requests are answered, and a call with no others is over.
SendDenied(t) ==
    /\ thread[t].pc = "added"
    /\ SendAnswers({Answer(thread[t].ticket, i, "denied", CallOf(t).binder, thread[t].ticket) :
                      i \in CallOf(t).denied})
    /\ IF CallOf(t).ids = {}
       THEN Return(t, "ok")
       ELSE /\ thread' = [thread EXCEPT ![t].pc = "calling hardware"]
            /\ UNCHANGED calls
    /\ UNCHANGED <<poolVars, clients, hardware, binderVars>>

\* mVehicleHardware->getValues or setValues returns OK.
HardwareAccepts(t) ==
    /\ thread[t].pc = "calling hardware"
    /\ hardware' = hardware \union {[addr |-> thread[t].addr, ids |-> CallOf(t).ids,
                                     ticket |-> thread[t].ticket, binder |-> CallOf(t).binder]}
    /\ Return(t, "ok")
    /\ UNCHANGED <<poolVars, clients, answers, binderVars>>

\* Variant: the requests stay in the pool.
HardwareRefuses_KeepsPending(t) ==
    /\ thread[t].pc = "calling hardware"
    /\ Return(t, "error")
    /\ UNCHANGED <<poolVars, clients, hardware, answers, binderVars>>

\* It returns an error: the requests are finished and the call fails.
HardwareRefuses(t) ==
    /\ thread[t].pc = "calling hardware"
    /\ Pool!TryFinishRequests(thread[t].addr, CallOf(t).ids)
    /\ Return(t, "error")
    /\ UNCHANGED <<clients, hardware, answers, binderVars>>
-----------------------------------------------------------------------------
(* Results and timeouts *)

\* The ticket of the request that is pending at an address under an ID.
TicketOf(a, i) == (CHOOSE b \in Pool!PendingOf(a) : i \in b.ids).ticket

\* Variant: results are sent on whether or not their request is still pending.
HardwareResults_Unfiltered(q, ids) ==
    /\ q \in hardware
    /\ ids \subseteq q.ids
    /\ SendAnswers({Answer(q.ticket, i, "result", q.binder, q.ticket) : i \in ids})
    /\ Pool!TryFinishRequests(q.addr, ids)
    /\ hardware' = (hardware \ {q}) \union
                   {r \in {[q EXCEPT !.ids = @ \ ids]} : r.ids # {}}
    /\ UNCHANGED <<clients, callVars, binderVars>>

\* getOrSetValuesCallback: the hardware calls the result callback of request q
\* with some results.  Those whose request is still pending are sent to the
\* callback it was created with, the others are dropped.  The message is sent
\* after mLock is released; messages to a client carry no order.
HardwareResults(q, ids) ==
    /\ q \in hardware
    /\ ids \subseteq q.ids
    /\ SendAnswers({Answer(TicketOf(q.addr, i), i, "result", q.binder, q.ticket) :
                      i \in Pool!FoundIds(q.addr, ids)})
    /\ Pool!TryFinishRequests(q.addr, ids)
    /\ hardware' = (hardware \ {q}) \union
                   {r \in {[q EXCEPT !.ids = @ \ ids]} : r.ids # {}}
    /\ UNCHANGED <<clients, callVars, binderVars>>

\* Variant: one timeout callback serves every client, that of the latest call.
OnTimeout_LatestCall(b) ==
    /\ Pool!TimeoutCallback(b)
    /\ SendAnswers({Answer(b.ticket, i, "timeout", calls[Len(calls)].binder, b.ticket) :
                      i \in b.ids})
    /\ UNCHANGED <<clients, callVars, hardware, binderVars>>

\* onTimeout: the callback that was registered with the batch gets TRY_AGAIN.
OnTimeout(b) ==
    /\ Pool!TimeoutCallback(b)
    /\ SendAnswers({Answer(b.ticket, i, "timeout", calls[b.ticket + 1].binder, b.ticket) :
                      i \in b.ids})
    /\ UNCHANGED <<clients, callVars, hardware, binderVars>>

CheckTimeout == /\ Pool!CheckTimeout
                /\ UNCHANGED <<clients, callVars, hardware, answers, binderVars>>

Tick == /\ Pool!Tick
        /\ UNCHANGED <<clients, callVars, hardware, answers, binderVars>>
-----------------------------------------------------------------------------
CallNext ==
    \E t \in Threads :
        \/ \E k \in Kinds, b \in Binders, ids, denied \in SUBSET RequestIds :
              Call(t, k, b, ids, denied)
        \/ \E b \in Binders : CallRefused(t, b)
        \/ Register(t)
        \/ \E status \in Pool!Refusals : RegisterFails(t, status)
        \/ SendDenied(t)
        \/ HardwareAccepts(t)
        \/ HardwareRefuses(t)

BinderNext == \E b \in Binders : \/ BinderDies(b) \/ Obituary(b) \/ OnBinderUnlinked(b)
                                 \/ HandleDied(b) \/ HandleUnlinked(b)

Next == \/ CallNext
        \/ BinderNext
        \/ \E q \in hardware : \E ids \in (SUBSET q.ids) \ {{}} : HardwareResults(q, ids)
        \/ \E b \in expired : OnTimeout(b)
        \/ CheckTimeout
        \/ Tick

\* Running calls go on, the timer thread and the event handler are scheduled,
\* time passes and obituaries arrive.  The hardware need not ever answer.
Fairness ==
    /\ \A t \in Threads :
          WF_vars(Register(t) \/ (\E status \in Pool!Refusals : RegisterFails(t, status))
                  \/ SendDenied(t) \/ HardwareAccepts(t) \/ HardwareRefuses(t))
    /\ WF_vars(CheckTimeout)
    /\ WF_vars(Tick)
    /\ WF_vars(\E b \in expired : OnTimeout(b))
    /\ WF_vars(\E b \in Binders : HandleDied(b) \/ HandleUnlinked(b))
    /\ \A b \in Mortal : WF_vars(Obituary(b) \/ OnBinderUnlinked(b))

Spec     == Init /\ [][Next]_vars
FairSpec == Spec /\ Fairness
-----------------------------------------------------------------------------
(* What must hold *)

\* A request is answered at most once, however its result, its timeout, the
\* return of the call and a later request race.
AnsweredOnce ==
    \A n \in DOMAIN answers, i \in RequestIds : Len(answers[n][i]) <= 1

\* Every answer for a request goes to the client that asked.
AnswersReachAsker ==
    \A n \in DOMAIN answers, i \in RequestIds :
        \A m \in DOMAIN answers[n][i] : answers[n][i][m].to = calls[n].binder

\* An answer and the request i of call n it is for.
Matches(answer, n, i) ==
    LET origin == calls[answer.origin + 1]
    IN  /\ answer.origin + 1 \in DOMAIN calls
        /\ answer.to = origin.binder
        /\ answer.how # "result" => answer.origin = n - 1
        /\ answer.how = "result" => i \in origin.ids /\ origin.addr = calls[n].addr

\* How far an answer can go astray, whatever addresses and IDs are used again:
\* it is sent to the callback of the call it was made for.  A denial or a timeout
\* is of the very request it answers.  A result may be a late one of another
\* call, but of the same client object, or of one that had the same address, and
\* that call had asked the hardware for the same ID (getOrSetValuesCallback has
\* nothing else to match it by).
AnswersMatchAddressAndId ==
    \A n \in DOMAIN answers, i \in RequestIds :
        \A m \in DOMAIN answers[n][i] : Matches(answers[n][i][m], n, i)

\* A call that returned the hardware's error has nothing pending any more.
FailedCallsLeaveNothing == \A b \in pending : calls[b.ticket + 1].status # "error"

\* The VHAL hears of the death of every client it keeps an object for: its
\* recipient is linked or the event is on its way.
ClientsAreWatched ==
    \A k \in Kinds, b \in Binders :
        clients[k][b] # NoAddress => Lifecycle!Watched(b)

\* The context a death recipient's cookie points to is not freed while
\* onBinderDied or onBinderUnlinked may still be called with it.
CookiesAreAlive == Lifecycle!CookiesAreAlive

\* The VHAL uses the pool as the pool is meant to be used: its steps are the
\* pool's steps, so what is proved of the pool holds here.
ImplementsPool == Pool!Spec

\* A request that was registered is answered, unless the call returns an error.
EveryRequestAnswered ==
    \A n \in 1 .. MaxTickets, i \in RequestIds :
        (n \in DOMAIN calls /\ i \in calls[n].ids \union calls[n].denied)
            ~> (n \in DOMAIN calls /\ (answers[n][i] # <<>> \/ calls[n].status = "error"))

\* The VHAL forgets a client that died, for good, and its context.
DeadClientsForgotten ==
    \A b \in Mortal :
        /\ binder[b] = "dead" ~> [](\A k \in Kinds : clients[k][b] = NoAddress)
        /\ binder[b] = "dead" ~> b \notin contexts
=============================================================================
