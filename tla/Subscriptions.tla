---------------------------- MODULE Subscriptions ----------------------------
(***************************************************************************)
(* Who is subscribed to which resource: resourceSubscriptions of           *)
(* mcp/resources.go and the notifierHub whose remove closure clears it.    *)
(* Each action is one critical section.  The reference count per URI is    *)
(* the answer HasResourceSubscription gives to the tool handlers; the sets *)
(* per notifier decide who is told.                                        *)
(***************************************************************************)
EXTENDS Integers, FiniteSets

CONSTANTS Notifier,   \* streams that can be registered with the hub
          Broadcast,  \* the sentinel for a subscriber without a stream
          Uri         \* resource URIs

ASSUME NotifierAssumption == IsFiniteSet(Notifier) /\ Broadcast \notin Notifier

VARIABLES hub,         \* notifiers registered with the hub
          leaving,     \* removed from the hub, onRemove not yet called
          byNotifier,  \* the URIs each subscriber holds ({}: no map entry)
          refcount     \* subscribers per URI (0: no map entry)

subVars == <<hub, leaving, byNotifier, refcount>>

Subscriber == Notifier \cup {Broadcast}

SubsTypeOK ==
    /\ hub \subseteq Notifier
    /\ leaving \subseteq Notifier
    /\ byNotifier \in [Subscriber -> SUBSET Uri]
    /\ refcount \in [Uri -> Nat]

SubsInit ==
    /\ hub = {}
    /\ leaving = {}
    /\ byNotifier = [s \in Subscriber |-> {}]
    /\ refcount = [u \in Uri |-> 0]

\* HasResourceSubscription, the gate of the emit helpers.
HasAnyURI(u) == refcount[u] > 0

\* Whom NotifyResourceUpdated reaches: with the sentinel subscribed the hub
\* fans out to every stream, else the subscribed notifiers.
TargetsFor(u) ==
    IF refcount[u] = 0 THEN {}
    ELSE IF u \in byNotifier[Broadcast] THEN hub
    ELSE {n \in Notifier : u \in byNotifier[n]}

Decremented(count) == IF count > 0 THEN count - 1 ELSE 0

\* SetNotifier at the start of a session, once the previous one is removed.
AddNotifier(n) ==
    /\ n \notin hub \cup leaving
    /\ hub' = hub \cup {n}
    /\ UNCHANGED <<leaving, byNotifier, refcount>>

\* The remove closure, under the hub's lock ...
RemoveNotifier(n) ==
    /\ n \in hub
    /\ hub' = hub \ {n}
    /\ leaving' = leaving \cup {n}
    /\ UNCHANGED <<byNotifier, refcount>>

\* mutant: the set goes, the counts stay
DropSetOnly(n) ==
    /\ n \in leaving
    /\ leaving' = leaving \ {n}
    /\ byNotifier' = [byNotifier EXCEPT ![n] = {}]
    /\ UNCHANGED <<hub, refcount>>

\* ... and its callback, after the lock is released.
DropNotifier(n) ==
    /\ n \in leaving
    /\ leaving' = leaving \ {n}
    /\ byNotifier' = [byNotifier EXCEPT ![n] = {}]
    /\ refcount' = [u \in Uri |-> IF u \in byNotifier[n]
                                  THEN Decremented(refcount[u]) ELSE refcount[u]]
    /\ UNCHANGED hub

\* resources/subscribe; a stream that has left reads no more requests.
AddSubscription(s, u) ==
    /\ s \in hub \cup {Broadcast}
    /\ u \notin byNotifier[s]
    /\ byNotifier' = [byNotifier EXCEPT ![s] = @ \cup {u}]
    /\ refcount' = [refcount EXCEPT ![u] = @ + 1]
    /\ UNCHANGED <<hub, leaving>>

\* mutant: no test that the URI is held, no floor
RemoveAlways(s, u) ==
    /\ s \in hub \cup {Broadcast}
    /\ byNotifier' = [byNotifier EXCEPT ![s] = @ \ {u}]
    /\ refcount' = [refcount EXCEPT ![u] = @ - 1]
    /\ UNCHANGED <<hub, leaving>>

\* resources/unsubscribe
RemoveSubscription(s, u) ==
    /\ s \in hub \cup {Broadcast}
    /\ u \in byNotifier[s]
    /\ byNotifier' = [byNotifier EXCEPT ![s] = @ \ {u}]
    /\ refcount' = [refcount EXCEPT ![u] = Decremented(@)]
    /\ UNCHANGED <<hub, leaving>>

-----------------------------------------------------------------------------
(* The count the handlers are gated by is the number of subscribers, so no *)
(* mutation is kept from a subscriber and none is fetched for nobody, when *)
(* streams come and go and the sentinel holds the same URI                 *)
(* (resources.go: add, remove, dropNotifier).                              *)
RefcountExact ==
    \A u \in Uri : refcount[u] = Cardinality({s \in Subscriber : u \in byNotifier[s]})
=============================================================================
