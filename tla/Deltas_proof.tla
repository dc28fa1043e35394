----------------------------- MODULE Deltas_proof -----------------------------
(***************************************************************************)
(* The reference counts of the subscriptions, for any set of streams and   *)
(* URIs and whatever the calls and clients of Deltas do in between.        *)
(***************************************************************************)
EXTENDS Deltas, FiniteSetTheorems, TLAPS

\* The subscribers that hold u in the map b.
Holders(b, u) == {s \in Subscriber : u \in b[s]}

SubsInv == SubsTypeOK /\ RefcountExact

-----------------------------------------------------------------------------
LEMMA HoldersFinite ==
    ASSUME NEW b, NEW u
    PROVE  IsFiniteSet(Holders(b, u)) /\ Cardinality(Holders(b, u)) \in Nat
<1>1. IsFiniteSet(Subscriber)
  BY NotifierAssumption, FS_AddElement DEF Subscriber
<1>2. Holders(b, u) \subseteq Subscriber
  BY DEF Holders
<1>. QED BY <1>1, <1>2, FS_Subset, FS_CardinalityType

\* Whoever holds u is counted, so the gate for u is open.
LEMMA HolderIsCounted ==
    ASSUME RefcountExact, NEW s \in Subscriber, NEW u \in Uri, u \in byNotifier[s]
    PROVE  HasAnyURI(u)
<1>1. refcount[u] = Cardinality(Holders(byNotifier, u))
  BY DEF RefcountExact, Holders
<1>2. Holders(byNotifier, u) # {}
  BY DEF Holders
<1>3. Cardinality(Holders(byNotifier, u)) # 0
  BY <1>2, HoldersFinite, FS_EmptySet
<1>. QED BY <1>1, <1>3, HoldersFinite DEF HasAnyURI

\* One holder more, or one less, is one in the cardinality.
LEMMA HoldersGrow ==
    ASSUME NEW b, NEW c, NEW u, NEW s \in Subscriber,
           u \notin b[s], u \in c[s],
           \A t \in Subscriber \ {s} : u \in c[t] <=> u \in b[t]
    PROVE  Cardinality(Holders(c, u)) = Cardinality(Holders(b, u)) + 1
<1>1. Holders(c, u) = Holders(b, u) \cup {s}
  BY DEF Holders
<1>2. s \notin Holders(b, u)
  BY DEF Holders
<1>. QED BY <1>1, <1>2, HoldersFinite, FS_AddElement

LEMMA SubsInitially ==
    ASSUME SubsInit
    PROVE  SubsInv
<1>1. SubsTypeOK
  BY DEF SubsInit, SubsTypeOK
<1>2. ASSUME NEW u \in Uri
      PROVE  refcount[u] = Cardinality({s \in Subscriber : u \in byNotifier[s]})
  <2>1. {s \in Subscriber : u \in byNotifier[s]} = {}
    BY DEF SubsInit
  <2>. QED BY <2>1, FS_EmptySet DEF SubsInit
<1>. QED BY <1>1, <1>2 DEF SubsInv, RefcountExact

\* A subscription adds its subscriber to the holders of its URI only.
LEMMA AddKeepsCount ==
    ASSUME SubsInv, NEW s \in Subscriber, NEW v \in Uri, AddSubscription(s, v)
    PROVE  SubsInv'
<1>. USE DEF SubsInv, SubsTypeOK
<1>1. SubsTypeOK'
  BY DEF AddSubscription
<1>2. ASSUME NEW u \in Uri
      PROVE  refcount'[u] = Cardinality(Holders(byNotifier', u))
  <2>0. refcount[u] = Cardinality(Holders(byNotifier, u))
    BY DEF RefcountExact, Holders
  <2>1. CASE u = v
    <3>1. u \notin byNotifier[s] /\ u \in byNotifier'[s]
      BY <2>1 DEF AddSubscription
    <3>2. \A t \in Subscriber \ {s} : u \in byNotifier'[t] <=> u \in byNotifier[t]
      BY DEF AddSubscription
    <3>3. Cardinality(Holders(byNotifier', u)) = Cardinality(Holders(byNotifier, u)) + 1
      BY <3>1, <3>2, HoldersGrow
    <3>. QED BY <2>0, <2>1, <3>3 DEF AddSubscription
  <2>2. CASE u # v
    <3>1. Holders(byNotifier', u) = Holders(byNotifier, u)
      BY <2>2 DEF AddSubscription, Holders
    <3>. QED BY <2>0, <2>2, <3>1 DEF AddSubscription
  <2>. QED BY <2>1, <2>2
<1>. QED BY <1>1, <1>2 DEF RefcountExact, Holders

\* The floor of a decrement is never reached: who leaves was counted.
LEMMA DecrementIsExact ==
    ASSUME SubsInv, NEW s \in Subscriber, NEW u \in Uri, u \in byNotifier[s], NEW c,
           u \notin c[s],
           \A t \in Subscriber \ {s} : u \in c[t] <=> u \in byNotifier[t]
    PROVE  Decremented(refcount[u]) = Cardinality(Holders(c, u))
<1>1. refcount[u] = Cardinality(Holders(byNotifier, u))
  BY DEF SubsInv, RefcountExact, Holders
<1>2. \A t \in Subscriber \ {s} : u \in byNotifier[t] <=> u \in c[t]
  OBVIOUS
<1>3. Cardinality(Holders(byNotifier, u)) = Cardinality(Holders(c, u)) + 1
  BY <1>2, HoldersGrow
<1>4. Cardinality(Holders(c, u)) \in Nat
  BY HoldersFinite
<1>. QED BY <1>1, <1>3, <1>4 DEF Decremented

LEMMA RemoveKeepsCount ==
    ASSUME SubsInv, NEW s \in Subscriber, NEW v \in Uri, RemoveSubscription(s, v)
    PROVE  SubsInv'
<1>. USE DEF SubsInv, SubsTypeOK
<1>1. SubsTypeOK'
  BY DEF RemoveSubscription, Decremented
<1>2. ASSUME NEW u \in Uri
      PROVE  refcount'[u] = Cardinality(Holders(byNotifier', u))
  <2>1. CASE u = v
    <3>1. u \in byNotifier[s] /\ u \notin byNotifier'[s]
      BY <2>1 DEF RemoveSubscription
    <3>2. \A t \in Subscriber \ {s} : u \in byNotifier'[t] <=> u \in byNotifier[t]
      BY DEF RemoveSubscription
    <3>3. Decremented(refcount[u]) = Cardinality(Holders(byNotifier', u))
      BY <3>1, <3>2, DecrementIsExact
    <3>. QED BY <2>1, <3>3 DEF RemoveSubscription
  <2>2. CASE u # v
    <3>0. refcount[u] = Cardinality(Holders(byNotifier, u))
      BY DEF RefcountExact, Holders
    <3>1. Holders(byNotifier', u) = Holders(byNotifier, u)
      BY <2>2 DEF RemoveSubscription, Holders
    <3>. QED BY <2>2, <3>0, <3>1 DEF RemoveSubscription
  <2>. QED BY <2>1, <2>2
<1>. QED BY <1>1, <1>2 DEF RefcountExact, Holders

LEMMA DropKeepsCount ==
    ASSUME SubsInv, NEW n \in Notifier, DropNotifier(n)
    PROVE  SubsInv'
<1>. USE DEF SubsInv, SubsTypeOK
<1>0. n \in Subscriber
  BY DEF Subscriber
<1>1. SubsTypeOK'
  <2>1. \A count \in Nat : Decremented(count) \in Nat
    BY DEF Decremented
  <2>2. refcount' \in [Uri -> Nat]
    BY <2>1 DEF DropNotifier
  <2>. QED BY <2>2 DEF DropNotifier
<1>2. ASSUME NEW u \in Uri
      PROVE  refcount'[u] = Cardinality(Holders(byNotifier', u))
  <2>1. u \notin byNotifier'[n]
    BY <1>0 DEF DropNotifier
  <2>2. \A t \in Subscriber \ {n} : u \in byNotifier'[t] <=> u \in byNotifier[t]
    BY DEF DropNotifier
  <2>3. CASE u \in byNotifier[n]
    <3>1. Decremented(refcount[u]) = Cardinality(Holders(byNotifier', u))
      BY <1>0, <2>1, <2>2, <2>3, DecrementIsExact
    <3>. QED BY <2>3, <3>1 DEF DropNotifier
  <2>4. CASE u \notin byNotifier[n]
    <3>0. refcount[u] = Cardinality(Holders(byNotifier, u))
      BY DEF RefcountExact, Holders
    <3>1. Holders(byNotifier', u) = Holders(byNotifier, u)
      BY <2>1, <2>2, <2>4 DEF Holders
    <3>. QED BY <2>4, <3>0, <3>1 DEF DropNotifier
  <2>. QED BY <2>3, <2>4
<1>. QED BY <1>1, <1>2 DEF RefcountExact, Holders

\* The hub and the set of leaving streams are not in the count.
LEMMA HubKeepsCount ==
    ASSUME SubsInv, NEW n \in Notifier, AddNotifier(n) \/ RemoveNotifier(n)
    PROVE  SubsInv'
BY DEF SubsInv, SubsTypeOK, RefcountExact, AddNotifier, RemoveNotifier

LEMMA OthersKeepCount ==
    ASSUME SubsInv, UNCHANGED subVars
    PROVE  SubsInv'
BY DEF SubsInv, SubsTypeOK, RefcountExact, subVars

LEMMA StepKeepsCount ==
    ASSUME SubsInv, [Next]_vars
    PROVE  SubsInv'
<1>1. ASSUME NEW c \in Call, StartCall(c) \/ WriteRefused(c) \/ Emit(c)
      PROVE  UNCHANGED subVars
  BY <1>1 DEF StartCall, WriteRefused, Emit, EmitWeekly, Gate, GateClosed, EmitDeleted,
              Fetch, FetchFails, CacheGet, CachePut, Send, Finish
<1>2. ASSUME NEW c \in Call, NEW quiet \in BOOLEAN, Write(c, quiet)
      PROVE  UNCHANGED subVars
  BY <1>2 DEF Write
<1>3. ASSUME NEW p \in Interest, Subscribe(p[1], p[2]) \/ Unsubscribe(p[1], p[2])
      PROVE  SubsInv'
  <2>1. p[1] \in Subscriber /\ p[2] \in Uri
    BY ResourceAssumption
  <2>2. AddSubscription(p[1], p[2]) \/ RemoveSubscription(p[1], p[2])
    BY <1>3 DEF Subscribe, Unsubscribe
  <2>. QED BY <2>1, <2>2, AddKeepsCount, RemoveKeepsCount
<1>4. ASSUME NEW n \in Notifier, (\E u \in Uri : StartRead(n, u)) \/ EndRead(n)
      PROVE  UNCHANGED subVars
  BY <1>4 DEF StartRead, EndRead
<1>5. ASSUME Streams
      PROVE  SubsInv'
  <2>1. PICK n \in Notifier : AddNotifier(n) \/ RemoveNotifier(n) \/ DropNotifier(n)
    BY <1>5 DEF Streams
  <2>. QED BY <2>1, HubKeepsCount, DropKeepsCount
<1>6. ASSUME UNCHANGED vars
      PROVE  UNCHANGED subVars
  BY <1>6 DEF vars
<1>. QED BY <1>1, <1>2, <1>3, <1>4, <1>5, <1>6, OthersKeepCount DEF Next

-----------------------------------------------------------------------------
(* The count by which the handlers decide whether anybody listens is the   *)
(* number of subscribers in every reachable state, for any number of       *)
(* streams, URIs and calls (resources.go: add, remove, dropNotifier).      *)
THEOREM CountsAreExact == Spec => []RefcountExact
<1>1. Init => SubsInv
  BY SubsInitially DEF Init
<1>2. SubsInv /\ [Next]_vars => SubsInv'
  BY StepKeepsCount
<1>3. SubsInv => RefcountExact
  BY DEF SubsInv
<1>. QED BY <1>1, <1>2, <1>3, PTL DEF Spec

(* While a subscriber holds a URI the handlers' gate for it is open.       *)
THEOREM SubscribersAreNotGated ==
    Spec => [](\A s \in Subscriber : \A u \in byNotifier[s] \cap Uri : HasAnyURI(u))
<1>. DEFINE Heard == \A s \in Subscriber : \A u \in byNotifier[s] \cap Uri : HasAnyURI(u)
<1>1. RefcountExact => Heard
  BY HolderIsCounted
<1>2. Spec => [](RefcountExact)
  BY CountsAreExact
<1>. QED BY <1>1, <1>2, PTL
=============================================================================
