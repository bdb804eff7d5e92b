-------------------------- MODULE BinderLifecycle --------------------------
(***************************************************************************)
(* The death of client binders as DefaultVehicleHal follows it             *)
(* (vhal/src/DefaultVehicleHal.cpp): death recipients with their cookies,  *)
(* and the queue of events that a thread of its own works off, because     *)
(* binder may call back while mLock is held.                               *)
(***************************************************************************)
EXTENDS Naturals, Sequences

CONSTANTS Binders,    \* client callbacks
          Mortal,     \* those that may die
          MaxEvents   \* bound of the model: length of mBinderEvents

VARIABLES binder,       \* of each client: alive, dying (calls fail) or dead (obituary sent)
          recipient,    \* its death recipient: none, linked or died (unlink to come)
          contexts,     \* mOnBinderDiedContexts
          binderEvents  \* mBinderEvents

Init == /\ binder = [b \in Binders |-> "alive"]
        /\ recipient = [b \in Binders |-> "none"]
        /\ contexts = {}
        /\ binderEvents = <<>>

IsAlive(b)     == binder[b] = "alive"
LinkFails(b)   == binder[b] = "dead"
Died(b)        == [forOnBinderDied |-> TRUE, clientId |-> b]
Unlinked(b)    == [forOnBinderDied |-> FALSE, clientId |-> b]
PushEvent(e)   == /\ Len(binderEvents) < MaxEvents
                  /\ binderEvents' = Append(binderEvents, e)

\* Variant: a client that has a context is taken to be alive.
Monitored_Trusting(b) ==
    \/ b \in contexts /\ UNCHANGED <<binder, recipient, contexts, binderEvents>>
    \/ /\ b \notin contexts
       /\ ~LinkFails(b)
       /\ contexts' = contexts \union {b}
       /\ recipient' = [recipient EXCEPT ![b] = "linked"]
       /\ UNCHANGED <<binder, binderEvents>>

\* monitorBinderLifeCycleLocked returns true.
Monitored(b) ==
    \/ /\ b \in contexts
       /\ IsAlive(b)
       /\ UNCHANGED <<binder, recipient, contexts, binderEvents>>
    \/ /\ b \notin contexts
       /\ ~LinkFails(b)
       /\ contexts' = contexts \union {b}
       /\ recipient' = [recipient EXCEPT ![b] = "linked"]
       /\ UNCHANGED <<binder, binderEvents>>

\* It returns false; a failed linkToDeath calls onBinderUnlinked.
NotMonitored(b) ==
    \/ /\ b \in contexts
       /\ ~IsAlive(b)
       /\ UNCHANGED <<binder, recipient, contexts, binderEvents>>
    \/ /\ b \notin contexts
       /\ LinkFails(b)
       /\ contexts' = contexts \union {b}
       /\ PushEvent(Unlinked(b))
       /\ UNCHANGED <<binder, recipient>>

\* The client's process is gone: calls through the binder start to fail.
Dies(b) ==
    /\ b \in Mortal
    /\ binder[b] = "alive"
    /\ binder' = [binder EXCEPT ![b] = "dying"]
    /\ UNCHANGED <<recipient, contexts, binderEvents>>

\* The obituary arrives; a linked recipient has onBinderDied called.
OnBinderDied(b) ==
    /\ binder[b] = "dying"
    /\ binder' = [binder EXCEPT ![b] = "dead"]
    /\ IF recipient[b] = "linked"
       THEN /\ recipient' = [recipient EXCEPT ![b] = "died"]
            /\ PushEvent(Died(b))
       ELSE UNCHANGED <<recipient, binderEvents>>
    /\ UNCHANGED contexts

\* ... and onBinderUnlinked after that.
OnBinderUnlinked(b) ==
    /\ recipient[b] = "died"
    /\ recipient' = [recipient EXCEPT ![b] = "none"]
    /\ PushEvent(Unlinked(b))
    /\ UNCHANGED <<binder, contexts>>

\* onBinderDiedUnlinkedHandler takes the next event.
NextEventIs(e) ==
    /\ binderEvents # <<>>
    /\ e = Head(binderEvents)
    /\ binderEvents' = Tail(binderEvents)

\* onBinderDiedWithContext keeps the context: its cookie is still in use ...
HandleDied(b) == NextEventIs(Died(b)) /\ UNCHANGED <<binder, recipient, contexts>>

\* ... until the recipient is unlinked.
HandleUnlinked(b) ==
    /\ NextEventIs(Unlinked(b))
    /\ contexts' = contexts \ {b}
    /\ UNCHANGED <<binder, recipient>>
-----------------------------------------------------------------------------
TypeOK ==
    /\ binder \in [Binders -> {"alive", "dying", "dead"}]
    /\ recipient \in [Binders -> {"none", "linked", "died"}]
    /\ contexts \subseteq Binders

\* The HAL hears of b's death: its recipient is linked, or the event is on its
\* way.
Watched(b) == \/ recipient[b] = "linked"
              \/ \E n \in DOMAIN binderEvents : binderEvents[n] = Died(b)

\* The context a death recipient's cookie points to is not freed while
\* onBinderDied or onBinderUnlinked may still be called with it.
CookiesAreAlive == \A b \in Binders : recipient[b] # "none" => b \in contexts
=============================================================================
