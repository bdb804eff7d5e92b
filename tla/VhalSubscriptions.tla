------------------------- MODULE VhalSubscriptions -------------------------
(***************************************************************************)
(* Subscriptions of DefaultVehicleHal (vhal/src/DefaultVehicleHal.cpp):    *)
(* the calls of clients and the handling of their deaths, around           *)
(* SubscriptionManager and BinderLifecycle.                                *)
(*                                                                         *)
(* subscribe holds mLock over its two calls of the manager, and the        *)
(* handler of binder events takes it; unsubscribe does not, so it may run  *)
(* between the two.                                                        *)
(***************************************************************************)
EXTENDS SubscriptionManager, Sequences

CONSTANTS Mortal, MaxEvents  \* of BinderLifecycle: who may die, and a bound

VARIABLES binder, recipient, contexts, binderEvents,  \* of BinderLifecycle
          call  \* the subscribe that holds mLock and what is left of it, or None

Lifecycle == INSTANCE BinderLifecycle WITH Binders <- Clients

lifecycleVars == <<binder, recipient, contexts, binderEvents>>
halVars == <<vars, lifecycleVars, call>>

HalInit == Init /\ Lifecycle!Init /\ call = None

mLockIsFree == call = None
-----------------------------------------------------------------------------
\* subscribe takes mLock, links to the client's death and keeps the lock.
Subscribe(cb, onChange, continuous) ==
    /\ mLockIsFree
    /\ Lifecycle!Monitored(ClientOf[cb])
    /\ call' = [cb |-> cb, onChange |-> onChange, continuous |-> continuous]
    /\ UNCHANGED vars

\* Both kinds of subscription end here when the client is known to have died.
Refused(c) ==
    /\ mLockIsFree
    /\ Lifecycle!NotMonitored(c)
    /\ UNCHANGED <<vars, call>>

\* The first call of the manager; a failure ends the whole call.
OnChangeHalf ==
    /\ call # None /\ call.onChange # {}
    /\ \E walk \in OnChangeWalks(call.cb, call.onChange) :
           /\ Subscribed(call.cb, call.onChange, walk)
           /\ call' = IF walk.done = call.onChange /\ call.continuous # <<>>
                      THEN [call EXCEPT !.onChange = {}] ELSE None
    /\ UNCHANGED lifecycleVars

\* The second one; then mLock is released.
ContinuousHalf ==
    /\ call # None /\ call.onChange = {}
    /\ SubscribeContinuous(call.cb, call.continuous)
    /\ call' = None
    /\ UNCHANGED lifecycleVars

\* The manager may be refused by the hardware; the client stays monitored.
RegisterSupportedValueChange(c, ps) ==
    /\ mLockIsFree
    /\ Lifecycle!Monitored(c)
    /\ \E accepted \in {TRUE, ps \intersect Failing = {}} :
           IF accepted THEN SubscribeSupportedValueChange(c, ps)
           ELSE UNCHANGED vars
    /\ UNCHANGED call

\* These two do not take mLock.
Unsubscribe(c, ps) ==
    UnsubscribeProps(c, ps) /\ UNCHANGED <<lifecycleVars, call>>

UnregisterSupportedValueChange(c, ps) ==
    UnsubscribeSupportedValueChange(c, ps) /\ UNCHANGED <<lifecycleVars, call>>

\* An event of the hardware asks for its receivers.
Deliver(p, event) ==
    GetSubscribedClients(p, event) /\ UNCHANGED <<lifecycleVars, call>>
-----------------------------------------------------------------------------
(* The death of a client; binder calls back at any time *)

BinderDies(b)       == Lifecycle!Dies(b) /\ UNCHANGED <<vars, call>>
Obituary(b)         == Lifecycle!OnBinderDied(b) /\ UNCHANGED <<vars, call>>
OnBinderUnlinked(b) == Lifecycle!OnBinderUnlinked(b) /\ UNCHANGED <<vars, call>>

\* Variant: unsubscribes without waiting for mLock.
HandleDied_NoLock(b) ==
    /\ Lifecycle!HandleDied(b)
    /\ UnsubscribeClient(b)
    /\ UNCHANGED call

\* Variant: drops the subscriptions by property only.
HandleDied_KeepsSupported(b) ==
    /\ mLockIsFree
    /\ Lifecycle!HandleDied(b)
    /\ IF props[b] = {} THEN UNCHANGED vars ELSE UnsubscribeProps(b, props[b])
    /\ UNCHANGED call

\* onBinderDiedWithContext, which ignores whether the manager succeeded.
HandleDied(b) ==
    /\ mLockIsFree
    /\ Lifecycle!HandleDied(b)
    /\ UnsubscribeClient(b)
    /\ UNCHANGED call

HandleUnlinked(b) ==
    /\ mLockIsFree
    /\ Lifecycle!HandleUnlinked(b)
    /\ UNCHANGED <<vars, call>>
-----------------------------------------------------------------------------
\* A call has options for some property.
Calls == ((SUBSET (Props \ Continuous)) \X Maps(Continuous, SubConfigs))
             \ {<<{}, <<>>>>}

CallNext ==
    \/ \E cb \in Callbacks, c \in Calls : Subscribe(cb, c[1], c[2])
    \/ \E c \in Clients : Refused(c)
    \/ OnChangeHalf
    \/ ContinuousHalf
    \/ \E c \in Clients, ps \in (SUBSET SupportedValueProps) \ {{}} :
           RegisterSupportedValueChange(c, ps) \/ UnregisterSupportedValueChange(c, ps)
    \/ \E c \in Clients, ps \in (SUBSET Props) \ {{}} : Unsubscribe(c, ps)
    \/ \E p \in Reported, event \in Events : Deliver(p, event)

BinderNext ==
    \E b \in Clients : \/ BinderDies(b) \/ Obituary(b) \/ OnBinderUnlinked(b)
                       \/ HandleDied(b) \/ HandleUnlinked(b)

HalNext == CallNext \/ BinderNext

\* A call goes on, binder reports what happened, and the handler thread,
\* which waits for mLock again and again, gets it in the end.
Fairness ==
    /\ WF_halVars(OnChangeHalf) /\ WF_halVars(ContinuousHalf)
    /\ \A b \in Clients : WF_halVars(Obituary(b)) /\ WF_halVars(OnBinderUnlinked(b))
    /\ SF_halVars(\E b \in Clients : HandleDied(b) \/ HandleUnlinked(b))

HalSpec == HalInit /\ [][HalNext]_halVars /\ Fairness
-----------------------------------------------------------------------------
(* Properties *)

SubscribeCalls == [cb : Callbacks, onChange : SUBSET (Props \ Continuous),
                   continuous : Maps(Continuous, SubConfigs)]

BinderDiedUnlinkedEvents == [forOnBinderDied : BOOLEAN, clientId : Clients]

IsSubscribed(c) == \/ \E p \in Props : c \in DOMAIN clients[p]
                   \/ \E p \in SupportedValueProps : c \in supportedClients[p]

\* A client with a subscription, or with a subscribe that will make one, is
\* one whose death the HAL will hear of.  "Without this, we may create a new
\* subscription for an already dead client which will never be unsubscribed"
\* (subscribe, on why it holds mLock).
SubscribersAreWatched ==
    /\ \A c \in Clients : IsSubscribed(c) => Lifecycle!Watched(c)
    /\ call # None => Lifecycle!Watched(ClientOf[call.cb])

\* A client that died is subscribed to nothing from some time on
\* (onBinderDiedWithContext), whatever calls of its are still on their way.
DeadClientsUnsubscribed ==
    \A c \in Clients : binder[c] = "dead" ~> []~IsSubscribed(c)

\* The manager is only used as it means to be used: every step is one of its
\* own, also where the halves of a subscribe, unsubscribes and deaths overlap.
ImplementsManager == Spec
=============================================================================
