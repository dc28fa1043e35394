------------------------------ MODULE Sync_proof ------------------------------
(***************************************************************************)
(* A client that patches its copy with every delta has what is upstream    *)
(* once the server is quiet, for any number of clients, calls, entries,    *)
(* weeks and any capacity of the cache.                                    *)
(*                                                                         *)
(* The invariant says, of each URI that no change has slipped past, where  *)
(* its cached document and the copies stand: at the document upstream, or, *)
(* while one call has still to publish it, at the one before that call.    *)
(***************************************************************************)
EXTENDS Deltas_proof, MergePatch_proof, SequenceTheorems

-----------------------------------------------------------------------------
(* The LRU list.                                                           *)

CacheSlots == [uri : Uri, doc : Document]

GoodCache(list) ==
    /\ list \in Seq(CacheSlots)
    /\ Len(list) <= CacheCap
    /\ \A i, j \in 1..Len(list) : list[i].uri = list[j].uri => i = j
    /\ \A i \in 1..Len(list) : list[i].doc \in Documents(list[i].uri)

LEMMA RemovedAt ==
    ASSUME NEW S, NEW list \in Seq(S), NEW k \in 1..Len(list)
    PROVE  /\ RemoveAt(list, k) \in Seq(S)
           /\ Len(RemoveAt(list, k)) = Len(list) - 1
           /\ \A i \in 1..(Len(list) - 1) :
                 RemoveAt(list, k)[i] = IF i < k THEN list[i] ELSE list[i + 1]
<1> DEFINE front == SubSeq(list, 1, k - 1)
           back == SubSeq(list, k + 1, Len(list))
<1>1. /\ front \in Seq(S) /\ Len(front) = k - 1
      /\ \A i \in 1..(k - 1) : front[i] = list[i]
  BY SubSeqProperties
<1>2. /\ back \in Seq(S) /\ Len(back) = Len(list) - k
      /\ \A i \in 1..(Len(list) - k) : back[i] = list[k + i]
  BY SubSeqProperties
<1>3. RemoveAt(list, k) = front \o back
  BY DEF RemoveAt
<1> HIDE DEF front, back
<1>4. /\ front \o back \in Seq(S)
      /\ Len(front \o back) = Len(front) + Len(back)
      /\ \A i \in 1..(Len(front) + Len(back)) :
            (front \o back)[i] = IF i <= Len(front) THEN front[i] ELSE back[i - Len(front)]
  BY <1>1, <1>2, ConcatProperties
<1>5. Len(front) + Len(back) = Len(list) - 1
  BY <1>1, <1>2
<1>6. ASSUME NEW i \in 1..(Len(list) - 1)
      PROVE  RemoveAt(list, k)[i] = IF i < k THEN list[i] ELSE list[i + 1]
  <2>1. CASE i < k
    BY <1>1, <1>3, <1>4, <1>5, <2>1
  <2>2. CASE ~(i < k)
    <3>1. i - (k - 1) \in 1..(Len(list) - k)
      BY <2>2
    <3>2. back[i - (k - 1)] = list[k + (i - (k - 1))]
      BY <1>2, <3>1
    <3>. QED BY <1>1, <1>3, <1>4, <1>5, <2>2, <3>2
  <2>. QED BY <2>1, <2>2
<1> QED BY <1>3, <1>4, <1>5, <1>6

\* drop: the slot of u goes, the others stay.
LEMMA WithoutFacts ==
    ASSUME GoodCache(cache), NEW u
    PROVE  /\ GoodCache(Without(u))
           /\ \A i \in 1..Len(Without(u)) :
                 /\ Without(u)[i].uri # u
                 /\ \E j \in 1..Len(cache) : Without(u)[i] = cache[j]
           /\ Cached(u) => Len(Without(u)) = Len(cache) - 1
<1>. USE DEF GoodCache
<1>1. CASE ~Cached(u)
  BY <1>1 DEF Cached, Without
<1>2. CASE Cached(u)
  <2>1. Slot(u) \in 1..Len(cache) /\ cache[Slot(u)].uri = u
    BY <1>2 DEF Cached, Slot
  <2>2. Without(u) = RemoveAt(cache, Slot(u))
    BY <1>2 DEF Without
  <2>3. /\ Without(u) \in Seq(CacheSlots)
        /\ Len(Without(u)) = Len(cache) - 1
        /\ \A i \in 1..(Len(cache) - 1) :
              Without(u)[i] = IF i < Slot(u) THEN cache[i] ELSE cache[i + 1]
    <3>. PICK k \in 1..Len(cache) : k = Slot(u)
      BY <2>1
    <3>1. /\ RemoveAt(cache, k) \in Seq(CacheSlots)
          /\ Len(RemoveAt(cache, k)) = Len(cache) - 1
          /\ \A i \in 1..(Len(cache) - 1) :
                RemoveAt(cache, k)[i] = IF i < k THEN cache[i] ELSE cache[i + 1]
      BY RemovedAt
    <3>. QED BY <2>2, <3>1
  <2>4. PICK k \in 1..Len(cache) : k = Slot(u)
    BY <2>1
  <2>5. \A i \in 1..(Len(cache) - 1) :
           /\ i < k => Without(u)[i] = cache[i] /\ i # k /\ i \in 1..Len(cache)
           /\ ~(i < k) => Without(u)[i] = cache[i + 1] /\ i + 1 # k /\ i + 1 \in 1..Len(cache)
    BY <2>3, <2>4
  <2>6. \A i \in 1..(Len(cache) - 1) :
           \E j \in 1..Len(cache) : Without(u)[i] = cache[j] /\ j # k
    BY <2>5
  <2>7. \A i, j \in 1..(Len(cache) - 1) : Without(u)[i].uri = Without(u)[j].uri => i = j
    BY <2>5
  <2>8. Len(Without(u)) <= CacheCap
    BY <2>3, ResourceAssumption
  <2>. QED BY <2>1, <2>3, <2>4, <2>6, <2>7, <2>8
<1>. QED BY <1>1, <1>2

\* A slot put in front of a list without its URI.
LEMMA PushedFront ==
    ASSUME NEW list \in Seq(CacheSlots), NEW s \in CacheSlots,
           s.doc \in Documents(s.uri),
           \A i, j \in 1..Len(list) : list[i].uri = list[j].uri => i = j,
           \A i \in 1..Len(list) : /\ list[i].doc \in Documents(list[i].uri)
                                   /\ list[i].uri # s.uri
    PROVE  /\ <<s>> \o list \in Seq(CacheSlots)
           /\ Len(<<s>> \o list) = Len(list) + 1
           /\ \A i, j \in 1..(Len(list) + 1) :
                 (<<s>> \o list)[i].uri = (<<s>> \o list)[j].uri => i = j
           /\ \A i \in 1..(Len(list) + 1) :
                 /\ (<<s>> \o list)[i].doc \in Documents((<<s>> \o list)[i].uri)
                 /\ \/ (<<s>> \o list)[i] = s
                    \/ \E j \in 1..Len(list) : (<<s>> \o list)[i] = list[j]
<1>1. <<s>> \in Seq(CacheSlots) /\ Len(<<s>>) = 1 /\ <<s>>[1] = s
  OBVIOUS
<1>2. PICK q : q = <<s>> \o list
  OBVIOUS
<1>3. /\ q \in Seq(CacheSlots)
      /\ Len(q) = Len(list) + 1
      /\ \A i \in 1..(Len(list) + 1) : q[i] = IF i <= 1 THEN <<s>>[i] ELSE list[i - 1]
  BY <1>1, <1>2, ConcatProperties
<1>4. q[1] = s
  BY <1>1, <1>3
<1>5. ASSUME NEW i \in 2..(Len(list) + 1)
      PROVE  i - 1 \in 1..Len(list) /\ q[i] = list[i - 1]
  BY <1>3
<1>6. ASSUME NEW i \in 1..(Len(list) + 1), NEW j \in 1..(Len(list) + 1), q[i].uri = q[j].uri
      PROVE  i = j
  <2>1. CASE i = 1
    <3>1. j \notin 2..(Len(list) + 1)
      BY <1>4, <1>5, <1>6, <2>1
    <3>. QED BY <2>1, <3>1
  <2>2. CASE j = 1
    <3>1. i \notin 2..(Len(list) + 1)
      BY <1>4, <1>5, <1>6, <2>2
    <3>. QED BY <2>2, <3>1
  <2>3. CASE i \in 2..(Len(list) + 1) /\ j \in 2..(Len(list) + 1)
    <3>1. i - 1 = j - 1
      BY <1>5, <1>6, <2>3
    <3>. QED BY <3>1
  <2>. QED BY <2>1, <2>2, <2>3
<1>7. ASSUME NEW i \in 1..(Len(list) + 1)
      PROVE  /\ q[i].doc \in Documents(q[i].uri)
             /\ q[i] = s \/ \E j \in 1..Len(list) : q[i] = list[j]
  <2>1. CASE i = 1
    BY <1>4, <2>1
  <2>2. CASE i \in 2..(Len(list) + 1)
    BY <1>5, <2>2
  <2>. QED BY <2>1, <2>2
<1>. QED BY <1>2, <1>3, <1>6, <1>7

\* get: nothing goes and nothing comes.
LEMMA TouchedFacts ==
    ASSUME GoodCache(cache), NEW u \in Uri
    PROVE  /\ GoodCache(Touched(u))
           /\ \A i \in 1..Len(Touched(u)) : \E j \in 1..Len(cache) : Touched(u)[i] = cache[j]
<1>. USE DEF GoodCache
<1>1. CASE ~Cached(u)
  BY <1>1 DEF Touched
<1>2. CASE Cached(u)
  <2>. DEFINE rest == Without(u)
              s == [uri |-> u, doc |-> Lookup(u)]
  <2>1. Slot(u) \in 1..Len(cache) /\ cache[Slot(u)].uri = u
    BY <1>2 DEF Cached, Slot
  <2>2. s = cache[Slot(u)]
    <3>1. cache[Slot(u)] \in CacheSlots
      BY <2>1, ElementOfSeq
    <3>. QED BY <1>2, <2>1, <3>1 DEF Lookup, CacheSlots
  <2>3. s \in CacheSlots /\ s.doc \in Documents(u)
    BY <2>1, <2>2
  <2>4. /\ rest \in Seq(CacheSlots) /\ Len(rest) = Len(cache) - 1
        /\ \A i, j \in 1..Len(rest) : rest[i].uri = rest[j].uri => i = j
        /\ \A i \in 1..Len(rest) : /\ rest[i].doc \in Documents(rest[i].uri)
                                   /\ rest[i].uri # u
                                   /\ \E j \in 1..Len(cache) : rest[i] = cache[j]
    BY <1>2, WithoutFacts
  <2>5. Touched(u) = <<s>> \o rest
    BY <1>2 DEF Touched
  <2>. HIDE DEF rest, s
  <2>6. s.uri = u
    BY DEF s
  <2>7. /\ Touched(u) \in Seq(CacheSlots)
        /\ Len(Touched(u)) = Len(cache)
        /\ \A i, j \in 1..Len(cache) : Touched(u)[i].uri = Touched(u)[j].uri => i = j
        /\ \A i \in 1..Len(cache) :
              /\ Touched(u)[i].doc \in Documents(Touched(u)[i].uri)
              /\ Touched(u)[i] = s \/ \E j \in 1..Len(rest) : Touched(u)[i] = rest[j]
    <3>1. PICK q : q = <<s>> \o rest
      OBVIOUS
    <3>2. /\ q \in Seq(CacheSlots)
          /\ Len(q) = Len(rest) + 1
          /\ \A i, j \in 1..(Len(rest) + 1) : q[i].uri = q[j].uri => i = j
          /\ \A i \in 1..(Len(rest) + 1) :
                /\ q[i].doc \in Documents(q[i].uri)
                /\ q[i] = s \/ \E j \in 1..Len(rest) : q[i] = rest[j]
      BY <2>3, <2>4, <2>6, <3>1, PushedFront
    <3>3. Len(rest) + 1 = Len(cache)
      BY <2>4
    <3>4. Touched(u) = q
      BY <2>5, <3>1
    <3>. QED BY <3>2, <3>3, <3>4
  <2>8. ASSUME NEW i \in 1..Len(cache)
        PROVE  \E j \in 1..Len(cache) : Touched(u)[i] = cache[j]
    <3>1. CASE Touched(u)[i] = s
      BY <2>1, <2>2, <3>1
    <3>2. CASE \E j \in 1..Len(rest) : Touched(u)[i] = rest[j]
      BY <2>4, <3>2
    <3>. QED BY <2>7, <3>1, <3>2
  <2>. QED BY <2>7, <2>8
<1>. QED BY <1>1, <1>2

\* put: the new slot comes, and the oldest goes if the list was full.
LEMMA StoredFacts ==
    ASSUME GoodCache(cache), NEW u \in Uri, NEW doc \in Documents(u)
    PROVE  /\ GoodCache(Stored(u, doc))
           /\ \A i \in 1..Len(Stored(u, doc)) :
                 \/ Stored(u, doc)[i] = [uri |-> u, doc |-> doc]
                 \/ /\ Stored(u, doc)[i].uri # u
                    /\ \E j \in 1..Len(cache) : Stored(u, doc)[i] = cache[j]
<1>. USE DEF GoodCache
<1>. DEFINE s == [uri |-> u, doc |-> doc]
            rest == Without(u)
            slots == <<s>> \o rest
<1>1. s \in CacheSlots /\ s.uri = u /\ s.doc = doc
  BY DEF CacheSlots, Documents, Document
<1>2. /\ rest \in Seq(CacheSlots) /\ Len(rest) <= CacheCap
      /\ \A i, j \in 1..Len(rest) : rest[i].uri = rest[j].uri => i = j
      /\ \A i \in 1..Len(rest) : /\ rest[i].doc \in Documents(rest[i].uri)
                                 /\ rest[i].uri # u
                                 /\ \E j \in 1..Len(cache) : rest[i] = cache[j]
  BY WithoutFacts
<1>3. Stored(u, doc) = IF Len(slots) > CacheCap THEN Front(slots) ELSE slots
  BY DEF Stored
<1>. HIDE DEF s, rest
<1>4. /\ slots \in Seq(CacheSlots)
      /\ Len(slots) = Len(rest) + 1
      /\ \A i, j \in 1..(Len(rest) + 1) : slots[i].uri = slots[j].uri => i = j
      /\ \A i \in 1..(Len(rest) + 1) :
            /\ slots[i].doc \in Documents(slots[i].uri)
            /\ slots[i] = s \/ \E j \in 1..Len(rest) : slots[i] = rest[j]
  BY <1>1, <1>2, PushedFront
<1>. HIDE DEF slots
<1>5. \A i \in 1..Len(slots) :
         slots[i] = s \/ (slots[i].uri # u /\ \E j \in 1..Len(cache) : slots[i] = cache[j])
  BY <1>2, <1>4
<1>6. Len(rest) \in Nat /\ CacheCap \in Nat
  BY <1>2, ResourceAssumption
<1>7. PICK list : list = Stored(u, doc)
  OBVIOUS
<1>8. CASE Len(slots) > CacheCap
  <2>1. list = Front(slots)
    BY <1>3, <1>7, <1>8
  <2>2. /\ list \in Seq(CacheSlots)
        /\ Len(list) = Len(slots) - 1
        /\ \A i \in 1..(Len(slots) - 1) : list[i] = slots[i]
    BY <1>4, <1>6, <2>1, SubSeqProperties DEF Front
  <2>3. Len(slots) - 1 <= CacheCap /\ \A i \in 1..Len(list) : i \in 1..Len(slots)
    BY <1>2, <1>4, <1>6, <2>2
  <2>4. GoodCache(list)
    BY <1>4, <2>2, <2>3
  <2>5. \A i \in 1..Len(list) : list[i] = slots[i]
    BY <2>2
  <2>. QED BY <1>5, <1>7, <2>3, <2>4, <2>5 DEF s
<1>9. CASE ~(Len(slots) > CacheCap)
  <2>1. list = slots
    BY <1>3, <1>7, <1>9
  <2>2. GoodCache(list)
    BY <1>4, <1>6, <1>9, <2>1
  <2>. QED BY <1>5, <1>7, <2>1, <2>2 DEF s
<1>. QED BY <1>8, <1>9

-----------------------------------------------------------------------------
(* Documents.                                                              *)

LEMMA DocumentFacts ==
    ASSUME NEW d \in Document
    PROVE  /\ d # Absent /\ d # Unknown
           /\ d = Members(d) /\ \A k \in DOMAIN d : d[k] # Null
BY DocumentAssumption DEF Members

LEMMA ReadType ==
    ASSUME NEW s \in Workspaces, NEW u \in Uri
    PROVE  /\ ReadResource(s, u) \in Documents(u) \cup {Absent}
           /\ u \in Week => ReadResource(s, u) \in Documents(u)
           /\ Documents(u) \subseteq Document
<1>1. CASE u \in Week
  BY <1>1 DEF ReadResource, Documents, Document, Reports
<1>2. CASE u \in Entry
  BY <1>2, ResourceAssumption DEF ReadResource, Documents, Document, Workspaces
<1>. QED BY <1>1, <1>2, ResourceAssumption

\* emitWeeklyReportDeltaFromCache declines whatever the cache holds.
LEMMA NoRange ==
    ASSUME NEW d \in Reports
    PROVE  ~WeeklyDeltaApplies(d)
<1>1. PICK s \in Workspaces, w \in Week : d = WeeklyReport(s, w)
  BY DEF Reports
<1>2. DOMAIN d = {"rollups", "total"}
  BY <1>1 DEF WeeklyReport
<1>. QED BY <1>2 DEF WeeklyDeltaApplies

\* A change of the entry e shows in e and in the weeks it is in, before or
\* after, and nowhere else.
LEMMA ReadUnchanged ==
    ASSUME NEW s \in Workspaces, NEW t \in Workspaces, NEW e \in Entry,
           \A d \in Entry \ {e} : s[d] = t[d],
           NEW u \in Uri, u # e, u \notin WeeksOf(s[e], t[e])
    PROVE  ReadResource(s, u) = ReadResource(t, u)
<1>1. CASE u \notin Week
  BY <1>1, ResourceAssumption DEF ReadResource
<1>2. CASE u \in Week
  <2>. DEFINE worked(ws) == {d \in Entry : ws[d] # Absent /\ ws[d].week = u}
              secs(ws, es) == SumFunction([d \in es |-> ws[d].secs])
  <2>1. e \notin worked(s) /\ e \notin worked(t)
    BY <1>2 DEF WeeksOf
  <2>2. worked(s) = worked(t) /\ \A d \in worked(s) : s[d] = t[d]
    BY <2>1
  <2>3. ASSUME NEW es \in SUBSET worked(s)
        PROVE  secs(s, es) = secs(t, es)
    <3>1. [d \in es |-> s[d].secs] = [d \in es |-> t[d].secs]
      BY <2>2
    <3>. QED BY <3>1
  <2>4. secs(s, worked(s)) = secs(t, worked(t))
    BY <2>2, <2>3
  <2>5. \A p : secs(s, {d \in worked(s) : s[d].project = p})
                  = secs(t, {d \in worked(t) : t[d].project = p})
    <3>. SUFFICES ASSUME NEW p
                  PROVE  secs(s, {d \in worked(s) : s[d].project = p})
                            = secs(t, {d \in worked(t) : t[d].project = p})
      OBVIOUS
    <3>1. {d \in worked(s) : s[d].project = p} = {d \in worked(t) : t[d].project = p}
      BY <2>2
    <3>. QED BY <2>3, <3>1
  <2>6. \A ws : WeeklyReport(ws, u) =
           [rollups |-> [p \in {sh.project : sh \in Shape} |->
                            secs(ws, {d \in worked(ws) : ws[d].project = p})],
            total   |-> secs(ws, worked(ws))]
    BY DEF WeeklyReport
  <2>. HIDE DEF worked, secs
  <2>7. WeeklyReport(s, u) = WeeklyReport(t, u)
    BY <2>4, <2>5, <2>6
  <2>. QED BY <1>2, <2>7 DEF ReadResource
<1>. QED BY <1>1, <1>2

-----------------------------------------------------------------------------
(* What a call has to publish.                                             *)

UrisOf(items) == {items[i].uri : i \in 1..Len(items)}
DistinctUris(items) == \A i, j \in 1..Len(items) : items[i].uri = items[j].uri => i = j

LEMMA TailFacts ==
    ASSUME NEW items \in Seq(Items), items # <<>>, DistinctUris(items)
    PROVE  /\ Tail(items) \in Seq(Items) /\ DistinctUris(Tail(items))
           /\ UrisOf(Tail(items)) = UrisOf(items) \ {Head(items).uri}
           /\ \A i \in 1..Len(Tail(items)) : \E j \in 1..Len(items) : Tail(items)[i] = items[j]
           /\ Head(items) = items[1] /\ 1 \in 1..Len(items) /\ Head(items) \in Items
<1>1. PICK tail : tail = Tail(items)
  OBVIOUS
<1>2. /\ tail \in Seq(Items) /\ Len(tail) = Len(items) - 1
      /\ \A i \in 1..Len(tail) : tail[i] = items[i + 1]
      /\ Head(items) \in Items
  BY <1>1, HeadTailProperties
<1>3. Len(items) \in Nat \ {0} /\ Head(items) = items[1]
  BY EmptySeq
<1>4. \A i \in 1..Len(tail) : i + 1 \in 2..Len(items)
  BY <1>2, <1>3
<1>5. DistinctUris(tail)
  <2>. SUFFICES ASSUME NEW i \in 1..Len(tail), NEW j \in 1..Len(tail),
                       tail[i].uri = tail[j].uri
                PROVE  i = j
    BY DEF DistinctUris
  <2>1. i + 1 = j + 1
    BY <1>2, <1>3, <1>4 DEF DistinctUris
  <2>. QED BY <1>2, <2>1
<1>6. ASSUME NEW u \in UrisOf(tail) PROVE u \in UrisOf(items) /\ u # items[1].uri
  <2>1. PICK i \in 1..Len(tail) : u = items[i + 1].uri
    BY <1>2 DEF UrisOf
  <2>2. i + 1 \in 1..Len(items) /\ i + 1 # 1
    BY <1>3, <1>4
  <2>. QED BY <1>3, <2>1, <2>2 DEF UrisOf, DistinctUris
<1>7. ASSUME NEW u \in UrisOf(items), u # items[1].uri PROVE u \in UrisOf(tail)
  <2>1. PICK j \in 1..Len(items) : u = items[j].uri
    BY DEF UrisOf
  <2>2. j - 1 \in 1..Len(tail) /\ (j - 1) + 1 = j
    BY <1>2, <1>3, <1>7, <2>1
  <2>3. u = tail[j - 1].uri
    BY <1>2, <2>1, <2>2
  <2>. QED BY <2>2, <2>3 DEF UrisOf
<1>8. \A i \in 1..Len(tail) : \E j \in 1..Len(items) : tail[i] = items[j]
  BY <1>2, <1>3, <1>4
<1>. QED BY <1>1, <1>2, <1>3, <1>5, <1>6, <1>7, <1>8

\* The item at hand replaced by another of its URI.
LEMMA ReplacedFacts ==
    ASSUME NEW items \in Seq(Items), items # <<>>, DistinctUris(items),
           NEW item \in Items, item.uri = Head(items).uri
    PROVE  /\ <<item>> \o Tail(items) \in Seq(Items)
           /\ <<item>> \o Tail(items) # <<>>
           /\ DistinctUris(<<item>> \o Tail(items))
           /\ UrisOf(<<item>> \o Tail(items)) = UrisOf(items)
           /\ Head(<<item>> \o Tail(items)) = item
           /\ \A i \in 1..Len(<<item>> \o Tail(items)) :
                 \/ (<<item>> \o Tail(items))[i] = item
                 \/ \E j \in 1..Len(items) : (<<item>> \o Tail(items))[i] = items[j]
<1>1. PICK new : new = <<item>> \o Tail(items)
  OBVIOUS
<1>2. /\ Tail(items) \in Seq(Items) /\ Len(Tail(items)) = Len(items) - 1
      /\ \A i \in 1..Len(Tail(items)) : Tail(items)[i] = items[i + 1]
  BY HeadTailProperties
<1>3. Len(items) \in Nat \ {0} /\ Head(items) = items[1]
  BY EmptySeq
<1>4. <<item>> \in Seq(Items) /\ Len(<<item>>) = 1 /\ <<item>>[1] = item
  OBVIOUS
<1>5. /\ new \in Seq(Items) /\ Len(new) = Len(items)
      /\ \A i \in 1..Len(items) : new[i] = IF i <= 1 THEN <<item>>[i] ELSE Tail(items)[i - 1]
  BY <1>1, <1>2, <1>3, <1>4, ConcatProperties
<1>6. new[1] = item
  BY <1>3, <1>4, <1>5
<1>7. ASSUME NEW i \in 2..Len(items) PROVE new[i] = items[i]
  <2>1. i - 1 \in 1..Len(Tail(items)) /\ (i - 1) + 1 = i
    BY <1>2, <1>3
  <2>. QED BY <1>2, <1>3, <1>5, <2>1
<1>8. \A i \in 1..Len(items) : i = 1 \/ i \in 2..Len(items)
  BY <1>3
<1>9. \A i \in 1..Len(items) : new[i].uri = items[i].uri
  BY <1>3, <1>6, <1>7, <1>8
<1>10. DistinctUris(new) /\ UrisOf(new) = UrisOf(items)
  BY <1>5, <1>9 DEF DistinctUris, UrisOf
<1>11. \A i \in 1..Len(new) : new[i] = item \/ \E j \in 1..Len(items) : new[i] = items[j]
  BY <1>5, <1>6, <1>7, <1>8
<1>12. new # <<>> /\ Head(new) = item
  BY <1>3, <1>5, <1>6, EmptySeq
<1>. QED BY <1>1, <1>5, <1>10, <1>11, <1>12

\* A change lies in no week, in one, or in two.
LEMMA FewWeeks ==
    ASSUME NEW b, NEW a
    PROVE  \/ WeeksOf(b, a) = {}
           \/ \E w \in Week : WeeksOf(b, a) = {w}
           \/ \E v, w \in Week : v < w /\ WeeksOf(b, a) = {v, w}
<1>. DEFINE weeks == WeeksOf(b, a)
<1>1. weeks \subseteq Week /\ \A w \in weeks : w = b.week \/ w = a.week
  BY DEF WeeksOf
<1>2. CASE b.week \in weeks /\ a.week \in weeks /\ b.week # a.week
  <2>. HIDE DEF weeks
  <2>1. PICK v \in Week, w \in Week : v = b.week /\ w = a.week
    BY <1>1, <1>2
  <2>2. weeks = {v, w} /\ v # w
    BY <1>1, <1>2, <2>1
  <2>3. v < w \/ w < v
    BY <2>2, ResourceAssumption
  <2>. QED BY <2>2, <2>3 DEF weeks
<1>3. CASE ~(b.week \in weeks /\ a.week \in weeks /\ b.week # a.week)
  BY <1>1, <1>3
<1>. QED BY <1>2, <1>3

LEMMA FunctionIsSeq ==
    ASSUME NEW n \in Nat, NEW S, NEW seq \in [1..n -> S]
    PROVE  seq \in Seq(S) /\ Len(seq) = n
BY SeqDef, LenProperties

\* WeeksOf and the order in which its reports are emitted.
LEMMA InOrderFacts ==
    ASSUME NEW b, NEW a, NEW weeks, weeks = WeeksOf(b, a)
    PROVE  /\ InOrder(weeks) \in Seq(weeks)
           /\ \A i, j \in 1..Len(InOrder(weeks)) :
                 InOrder(weeks)[i] = InOrder(weeks)[j] => i = j
           /\ {InOrder(weeks)[i] : i \in 1..Len(InOrder(weeks))} = weeks
<1>. DEFINE Sorted(seq) == \A i, j \in DOMAIN seq : i < j => seq[i] < seq[j]
            Orders == [1..Cardinality(weeks) -> weeks]
<1>1. InOrder(weeks) = CHOOSE seq \in Orders : Sorted(seq)
  BY DEF InOrder
<1>. PICK seq : seq = InOrder(weeks)
  OBVIOUS
<1>. SUFFICES /\ seq \in Seq(weeks)
              /\ \A i, j \in 1..Len(seq) : seq[i] = seq[j] => i = j
              /\ {seq[i] : i \in 1..Len(seq)} = weeks
  OBVIOUS
<1>2. CASE weeks = {}
  <2>1. Cardinality(weeks) = 0
    BY <1>2, FS_EmptySet
  <2>2. <<>> \in Orders /\ Sorted(<<>>)
    BY <1>2, <2>1
  <2>3. seq \in Orders
    BY <1>1, <2>2
  <2>4. seq \in Seq(weeks) /\ Len(seq) = 0
    BY <2>1, <2>3, FunctionIsSeq
  <2>. QED BY <1>2, <2>4
<1>3. CASE \E w \in Week : weeks = {w}
  <2>1. PICK w \in Week : weeks = {w}
    BY <1>3
  <2>2. Cardinality(weeks) = 1
    BY <2>1, FS_Singleton
  <2>3. <<w>> \in Orders /\ Sorted(<<w>>)
    BY <2>1, <2>2
  <2>4. seq \in Orders
    BY <1>1, <2>3
  <2>5. seq \in Seq(weeks) /\ Len(seq) = 1
    BY <2>2, <2>4, FunctionIsSeq
  <2>6. seq[1] = w
    BY <2>1, <2>2, <2>4
  <2>7. 1..Len(seq) = {1}
    BY <2>5
  <2>8. {seq[i] : i \in 1..Len(seq)} = weeks
    BY <2>1, <2>6, <2>7
  <2>. QED BY <2>5, <2>7, <2>8
<1>4. CASE \E v, w \in Week : v < w /\ weeks = {v, w}
  <2>1. PICK v \in Week, w \in Week : v < w /\ weeks = {v, w}
    BY <1>4
  <2>2. v # w /\ v \in Int /\ w \in Int
    BY <2>1, ResourceAssumption
  <2>3. Cardinality(weeks) = 2
    <3>1. IsFiniteSet({v}) /\ Cardinality({v}) = 1 /\ w \notin {v} /\ weeks = {v} \cup {w}
      BY <2>1, <2>2, FS_Singleton
    <3>. QED BY <3>1, FS_AddElement
  <2>4. <<v, w>> \in Orders /\ Sorted(<<v, w>>)
    BY <2>1, <2>2, <2>3
  <2>5. seq \in Orders /\ Sorted(seq)
    BY <1>1, <2>4
  <2>6. seq \in Seq(weeks) /\ Len(seq) = 2
    BY <2>3, <2>5, FunctionIsSeq
  <2>7. seq[1] \in weeks /\ seq[2] \in weeks /\ seq[1] < seq[2]
    BY <2>3, <2>5
  <2>8. seq[1] = v /\ seq[2] = w
    BY <2>1, <2>2, <2>7
  <2>9. 1..Len(seq) = {1, 2}
    BY <2>6
  <2>10. {seq[i] : i \in 1..Len(seq)} = weeks
    BY <2>1, <2>8, <2>9
  <2>. QED BY <2>2, <2>6, <2>8, <2>9, <2>10
<1>5. weeks = {} \/ (\E w \in Week : weeks = {w})
         \/ \E v, w \in Week : v < w /\ weeks = {v, w}
  BY FewWeeks
<1>. QED BY <1>2, <1>3, <1>4, <1>5

AffectedBy(x) == {x.entry} \cup WeeksOf(x.before, x.after)

\* What a call knows of what it has to publish.
GoodTodo(x) ==
    /\ DistinctUris(x.todo)
    /\ UrisOf(x.todo) \subseteq AffectedBy(x)
    /\ \A i \in 1..Len(x.todo) :
          /\ x.todo[i].kind = "state" => x.todo[i].uri = x.entry /\ x.todo[i].doc = x.after
          /\ x.todo[i].kind = "deleted" => x.todo[i].uri = x.entry /\ x.after = Absent

Emitting == {"emit", "fetch", "get", "put", "send"}

GoodCall(x) ==
    /\ x \in CallStates
    /\ x.pc \notin {"idle", "done"} => x.entry \in Entry
    /\ x.pc \in Emitting => GoodTodo(x)
    /\ x.pc \in Emitting \ {"emit"} => x.todo # <<>>
    /\ x.pc = "fetch" => Head(x.todo).kind = "read"
    /\ x.pc \in {"get", "put"} => x.doc \in Documents(Head(x.todo).uri)
    /\ x.pc = "send" /\ x.format = "merge" => x.doc \in Document /\ x.prev \in Document
    /\ x.pc = "send" /\ x.format = "deleted" => Head(x.todo).kind = "deleted"

\* A mutation is published for its entry and each of its weeks, once.
LEMMA EmissionsOf ==
    ASSUME NEW x, x.entry \in Entry, x.before \in Shape \cup {Absent},
           x.after \in Shape \cup {Absent},
           NEW todo, todo = Emissions(x.entry, x.before, x.after)
    PROVE  /\ todo \in Seq(Items) /\ DistinctUris(todo)
           /\ UrisOf(todo) = AffectedBy(x)
           /\ \A i \in 1..Len(todo) :
                 /\ todo[i].kind = "state" => todo[i].uri = x.entry /\ todo[i].doc = x.after
                 /\ todo[i].kind = "deleted" => todo[i].uri = x.entry /\ x.after = Absent
<1>. PICK e \in Entry, b \in Shape \cup {Absent}, a \in Shape \cup {Absent} :
        e = x.entry /\ b = x.before /\ a = x.after
  OBVIOUS
<1>. DEFINE head == IF a = Absent THEN Item("deleted", e, Absent) ELSE Item("state", e, a)
            weeks == WeeksOf(b, a)
            order == InOrder(weeks)
            weekly == [i \in DOMAIN order |-> Item("weekly", order[i], Absent)]
<1>1. weeks \subseteq Week
  BY DEF WeeksOf
<1>2. /\ order \in Seq(weeks) /\ Len(order) \in Nat /\ DOMAIN order = 1..Len(order)
      /\ \A i, j \in 1..Len(order) : order[i] = order[j] => i = j
      /\ {order[i] : i \in 1..Len(order)} = weeks
  BY InOrderFacts, LenProperties
<1>3. todo = <<head>> \o weekly
  BY DEF Emissions
<1>. HIDE DEF order
<1>4. \A i \in 1..Len(order) : order[i] \in Week
  BY <1>1, <1>2
<1>. HIDE DEF weeks
<1>5. /\ \A i \in 1..Len(order) : /\ weekly[i].kind = "weekly" /\ weekly[i].uri = order[i]
                                  /\ weekly[i] \in Items
      /\ weekly \in [1..Len(order) -> Items]
  BY <1>2, <1>4 DEF Item, Items
<1>6. /\ head \in Items /\ head.uri = e
      /\ head.kind = "state" => head.doc = a
      /\ head.kind = "deleted" => a = Absent
  BY DEF Item, Items
<1>. HIDE DEF head, weekly
<1>7. weekly \in Seq(Items) /\ Len(weekly) = Len(order)
  BY <1>2, <1>5, FunctionIsSeq
<1>8. <<head>> \in Seq(Items) /\ Len(<<head>>) = 1 /\ <<head>>[1] = head
  BY <1>6
<1>9. /\ todo \in Seq(Items) /\ Len(todo) = Len(order) + 1
      /\ \A i \in 1..(Len(order) + 1) : todo[i] = IF i <= 1 THEN <<head>>[i] ELSE weekly[i - 1]
  BY <1>2, <1>3, <1>7, <1>8, ConcatProperties
<1>10. todo[1] = head
  BY <1>2, <1>8, <1>9
<1>11. ASSUME NEW i \in 2..(Len(order) + 1)
       PROVE  /\ i - 1 \in 1..Len(order)
              /\ todo[i].kind = "weekly" /\ todo[i].uri = order[i - 1] /\ todo[i].uri # e
  <2>1. i - 1 \in 1..Len(order)
    BY <1>2
  <2>2. todo[i] = weekly[i - 1]
    BY <1>2, <1>9
  <2>. QED BY <1>4, <1>5, <2>1, <2>2, ResourceAssumption
<1>12. \A i \in 1..Len(todo) : i = 1 \/ i \in 2..(Len(order) + 1)
  BY <1>2, <1>9
<1>13. DistinctUris(todo)
  <2>. SUFFICES ASSUME NEW i \in 1..Len(todo), NEW j \in 1..Len(todo), todo[i].uri = todo[j].uri
                PROVE  i = j
    BY DEF DistinctUris
  <2>1. CASE i \in 2..(Len(order) + 1) /\ j \in 2..(Len(order) + 1)
    <3>1. i - 1 = j - 1
      BY <1>2, <1>11, <2>1
    <3>. QED BY <1>2, <2>1, <3>1
  <2>2. CASE ~(i \in 2..(Len(order) + 1) /\ j \in 2..(Len(order) + 1))
    BY <1>6, <1>10, <1>11, <1>12, <2>2
  <2>. QED BY <2>1, <2>2
<1>14. UrisOf(todo) \subseteq {e} \cup weeks
  <2>. SUFFICES ASSUME NEW i \in 1..Len(todo) PROVE todo[i].uri \in {e} \cup weeks
    BY DEF UrisOf
  <2>1. CASE i = 1
    BY <1>6, <1>10, <2>1
  <2>2. CASE i \in 2..(Len(order) + 1)
    BY <1>2, <1>11, <2>2
  <2>. QED BY <1>12, <2>1, <2>2
<1>15. {e} \cup weeks \subseteq UrisOf(todo)
  <2>1. e \in UrisOf(todo)
    <3>1. 1 \in 1..Len(todo)
      BY <1>2, <1>9
    <3>. QED BY <1>6, <1>10, <3>1 DEF UrisOf
  <2>2. ASSUME NEW w \in weeks PROVE w \in UrisOf(todo)
    <3>1. PICK i \in 1..Len(order) : w = order[i]
      BY <1>2
    <3>2. i + 1 \in 2..(Len(order) + 1) /\ (i + 1) - 1 = i /\ i + 1 \in 1..Len(todo)
      BY <1>2, <1>9
    <3>3. w = todo[i + 1].uri
      BY <1>11, <3>1, <3>2
    <3>. QED BY <3>2, <3>3 DEF UrisOf
  <2>. QED BY <2>1, <2>2
<1>16. ASSUME NEW i \in 1..Len(todo)
       PROVE  /\ todo[i].kind = "state" => todo[i].uri = e /\ todo[i].doc = a
              /\ todo[i].kind = "deleted" => todo[i].uri = e /\ a = Absent
  BY <1>6, <1>10, <1>11, <1>12
<1>. QED BY <1>9, <1>13, <1>14, <1>15, <1>16 DEF weeks, AffectedBy

-----------------------------------------------------------------------------
(* The types, with what every call knows of its work.                      *)

Typed ==
    /\ SubsInv
    /\ server \in Workspaces
    /\ GoodCache(cache)
    /\ call \in [Call -> CallStates] /\ \A c \in Call : GoodCall(call[c])
    /\ DOMAIN copy = Notifier /\ \A n \in Notifier : DOMAIN copy[n] = Uri
    /\ reading \in [Notifier -> [uri : Uri \cup {Absent},
                                 doc : Document \cup {Absent, Unknown}]]
    /\ fresh \subseteq Notifier \X Uri /\ gap \subseteq Uri

\* The URI at hand; there is none once everything is published.
AtHand(c, u) == call[c].todo # <<>> /\ Head(call[c].todo).uri = u

\* A step of c's emission leaves everything about the URI u alone.
Aside(c, u) ==
    /\ call'[c].pc \in Emitting /\ u \in UrisOf(call'[c].todo) <=> u \in UrisOf(call[c].todo)
    /\ call'[c].pc \in Emitting \ {"emit"} => Head(call'[c].todo).uri # u
    /\ \A i \in 1..Len(cache') :
          cache'[i].uri = u => \E j \in 1..Len(cache) : cache'[i] = cache[j]
    /\ \A n \in Notifier : copy'[n][u] = copy[n][u] /\ (reading'[n].uri = u => reading'[n] = reading[n])

\* What the steps of an emission have in common.
EmitShape(c) ==
    /\ call[c].pc \in Emitting
    /\ call' = [call EXCEPT ![c] = call'[c]] /\ GoodCall(call'[c])
    /\ call'[c].pc \in Emitting \cup {"done"}
    /\ call'[c].pc \in Emitting => /\ call'[c].entry = call[c].entry
                                   /\ call'[c].before = call[c].before
                                   /\ call'[c].after = call[c].after
    /\ GoodCache(cache')
    /\ UNCHANGED <<subVars, server>>
    /\ DOMAIN copy' = Notifier /\ \A n \in Notifier : DOMAIN copy'[n] = Uri
    /\ reading' \in [Notifier -> [uri : Uri \cup {Absent},
                                  doc : Document \cup {Absent, Unknown}]]
    /\ \A n \in Notifier : /\ reading'[n].uri = reading[n].uri
                           /\ reading[n] = NoRead => reading'[n] = NoRead
    /\ fresh' \subseteq fresh /\ gap \subseteq gap' /\ gap' \subseteq Uri
    /\ \A u \in Uri : ~AtHand(c, u) => Aside(c, u)

LEMMA HeadFacts ==
    ASSUME NEW x, GoodCall(x), x.pc \in Emitting, x.todo # <<>>
    PROVE  /\ x.todo \in Seq(Items) /\ Head(x.todo) \in Items
           /\ Head(x.todo).uri \in Uri /\ Head(x.todo).uri \in UrisOf(x.todo)
           /\ UrisOf(x.todo) \subseteq AffectedBy(x)
           /\ Head(x.todo).kind = "state" =>
                 Head(x.todo).uri = x.entry /\ Head(x.todo).doc = x.after
           /\ Head(x.todo).kind = "deleted" => Head(x.todo).uri = x.entry /\ x.after = Absent
           /\ Head(x.todo).kind \in {"weekly", "read"} =>
                 Head(x.todo).uri \in Week /\ Head(x.todo).doc = Absent
           /\ Head(x.todo).kind = "state" =>
                 Head(x.todo).doc \in Documents(Head(x.todo).uri)
<1>1. x.todo \in Seq(Items) /\ GoodTodo(x)
  BY DEF GoodCall, CallStates
<1>2. 1 \in 1..Len(x.todo) /\ Head(x.todo) = x.todo[1] /\ Head(x.todo) \in Items
  BY <1>1, TailFacts DEF GoodTodo
<1>3. /\ Head(x.todo).kind = "state" => Head(x.todo).uri = x.entry /\ Head(x.todo).doc = x.after
      /\ Head(x.todo).kind = "deleted" => Head(x.todo).uri = x.entry /\ x.after = Absent
  BY <1>1, <1>2 DEF GoodTodo
<1>4. Head(x.todo).uri \in UrisOf(x.todo) /\ UrisOf(x.todo) \subseteq AffectedBy(x)
  BY <1>1, <1>2 DEF GoodTodo, UrisOf
<1>5. /\ Head(x.todo).uri \in Uri
      /\ Head(x.todo).kind \in {"weekly", "read"} =>
            Head(x.todo).uri \in Week /\ Head(x.todo).doc = Absent
      /\ Head(x.todo).kind = "state" => Head(x.todo).uri \in Entry /\ Head(x.todo).doc \in Shape
  BY <1>2, ResourceAssumption DEF Items
<1>6. Head(x.todo).kind = "state" => Head(x.todo).doc \in Documents(Head(x.todo).uri)
  BY <1>5, ResourceAssumption DEF Documents
<1>. QED BY <1>1, <1>2, <1>3, <1>4, <1>5, <1>6

\* A step that leaves what is left to publish as it is.
LEMMA SameTodo ==
    ASSUME NEW x, NEW y, GoodCall(x), x.pc \in Emitting, y \in CallStates,
           y.todo = x.todo, y.entry = x.entry, y.before = x.before, y.after = x.after
    PROVE  GoodTodo(y) /\ y.entry \in Entry
BY DEF GoodCall, GoodTodo, AffectedBy, Emitting

\* A step that is done with the URI at hand.
LEMMA NextTodo ==
    ASSUME NEW x, NEW y, GoodCall(x), x.pc \in Emitting, x.todo # <<>>,
           y.todo = Tail(x.todo), y.entry = x.entry, y.before = x.before, y.after = x.after
    PROVE  /\ GoodTodo(y) /\ y.entry \in Entry /\ y.todo \in Seq(Items)
           /\ UrisOf(y.todo) = UrisOf(x.todo) \ {Head(x.todo).uri}
<1>1. x.todo \in Seq(Items) /\ GoodTodo(x) /\ x.entry \in Entry
  BY DEF GoodCall, CallStates, Emitting
<1>2. /\ Tail(x.todo) \in Seq(Items) /\ DistinctUris(Tail(x.todo))
      /\ UrisOf(Tail(x.todo)) = UrisOf(x.todo) \ {Head(x.todo).uri}
      /\ \A i \in 1..Len(Tail(x.todo)) : \E j \in 1..Len(x.todo) : Tail(x.todo)[i] = x.todo[j]
  BY <1>1, TailFacts DEF GoodTodo
<1>3. \A i \in 1..Len(Tail(x.todo)) :
         /\ Tail(x.todo)[i].kind = "state" =>
               Tail(x.todo)[i].uri = x.entry /\ Tail(x.todo)[i].doc = x.after
         /\ Tail(x.todo)[i].kind = "deleted" => Tail(x.todo)[i].uri = x.entry /\ x.after = Absent
  BY <1>1, <1>2 DEF GoodTodo
<1>. QED BY <1>1, <1>2, <1>3 DEF GoodTodo, AffectedBy

\* The steps that tell nobody anything.
LEMMA InnerStep ==
    ASSUME Typed, NEW c \in Call, call[c].pc \in Emitting,
           NEW y, GoodCall(y), call' = [call EXCEPT ![c] = y],
           y.pc \in Emitting \cup {"done"},
           y.pc \in Emitting => /\ y.entry = call[c].entry
                                /\ y.before = call[c].before /\ y.after = call[c].after,
           GoodCache(cache'), UNCHANGED <<subVars, server, copy, reading, fresh>>,
           gap \subseteq gap', gap' \subseteq Uri,
           \A u \in Uri : ~AtHand(c, u) =>
              /\ y.pc \in Emitting /\ u \in UrisOf(y.todo) <=> u \in UrisOf(call[c].todo)
              /\ y.pc \in Emitting \ {"emit"} => Head(y.todo).uri # u
              /\ \A i \in 1..Len(cache') :
                    cache'[i].uri = u => \E j \in 1..Len(cache) : cache'[i] = cache[j]
    PROVE  EmitShape(c)
<1>1. call'[c] = y
  BY DEF Typed
<1>2. \A u \in Uri : ~AtHand(c, u) => Aside(c, u)
  BY <1>1 DEF Aside
<1>. QED BY <1>1, <1>2 DEF EmitShape, Typed

LEMMA EmitWeeklyShape ==
    ASSUME Typed, NEW c \in Call, EmitWeekly(c)
    PROVE  /\ EmitShape(c)
           /\ call'[c].pc = "emit" /\ UrisOf(call'[c].todo) = UrisOf(call[c].todo)
           /\ \A i \in 1..Len(cache') : \E j \in 1..Len(cache) : cache'[i] = cache[j]
<1>. DEFINE x == call[c]
            u == Head(x.todo).uri
            item == Item("read", u, Absent)
            y == [x EXCEPT !.todo = <<item>> \o Tail(@)]
<1>1. x.pc = "emit" /\ x.todo # <<>> /\ Head(x.todo).kind = "weekly"
  BY DEF EmitWeekly
<1>2. GoodCall(x) /\ x \in CallStates /\ GoodCache(cache)
  BY DEF Typed
<1>3. /\ x.todo \in Seq(Items) /\ u \in Uri /\ u \in Week
      /\ GoodTodo(x) /\ x.entry \in Entry /\ DistinctUris(x.todo)
  BY <1>1, <1>2, HeadFacts DEF Emitting, GoodCall, GoodTodo
<1>4. Lookup(u) \in Reports \cup {Absent}
  <2>1. CASE Cached(u)
    BY <1>2, <1>3, <2>1 DEF Cached, Slot, Lookup, GoodCache, Documents
  <2>2. CASE ~Cached(u)
    BY <2>2 DEF Lookup
  <2>. QED BY <2>1, <2>2
<1>5. ~WeeklyDeltaApplies(Lookup(u))
  BY <1>4, NoRange DEF WeeklyDeltaApplies
<1>6. call' = [call EXCEPT ![c] = y]
  BY <1>5 DEF EmitWeekly
<1>7. item \in Items /\ item.uri = u /\ item.kind = "read"
  BY <1>3 DEF Item, Items
<1>. HIDE DEF item
<1>8. /\ y.todo \in Seq(Items) /\ DistinctUris(y.todo) /\ UrisOf(y.todo) = UrisOf(x.todo)
      /\ \A i \in 1..Len(y.todo) : y.todo[i] = item \/ \E j \in 1..Len(x.todo) : y.todo[i] = x.todo[j]
  <2>1. y.todo = <<item>> \o Tail(x.todo)
    BY <1>2 DEF CallStates
  <2>. HIDE DEF y
  <2>. QED BY <1>1, <1>3, <1>7, <2>1, ReplacedFacts
<1>9. y \in CallStates /\ y.pc = "emit"
  BY <1>1, <1>2, <1>8 DEF CallStates
<1>10. y.entry = x.entry /\ y.before = x.before /\ y.after = x.after
  BY <1>2 DEF CallStates
<1>. HIDE DEF y
<1>11. GoodTodo(y)
  BY <1>3, <1>7, <1>8, <1>10 DEF GoodTodo, AffectedBy
<1>12. GoodCall(y)
  BY <1>3, <1>9, <1>10, <1>11 DEF GoodCall
<1>13. /\ GoodCache(cache')
       /\ \A i \in 1..Len(cache') : \E j \in 1..Len(cache) : cache'[i] = cache[j]
  BY <1>2, <1>3, TouchedFacts DEF EmitWeekly
<1>14. EmitShape(c)
  <2>1. UNCHANGED <<subVars, server, copy, reading, fresh, gap>> /\ gap \subseteq Uri
    BY DEF EmitWeekly, Typed
  <2>. QED BY <1>1, <1>6, <1>8, <1>9, <1>10, <1>12, <1>13, <2>1, InnerStep DEF Emitting
<1>15. call'[c] = y
  BY <1>6 DEF Typed
<1>. QED BY <1>8, <1>9, <1>13, <1>14, <1>15

LEMMA GateShape ==
    ASSUME Typed, NEW c \in Call, Gate(c)
    PROVE  /\ EmitShape(c) /\ UNCHANGED cache
           /\ call[c].todo # <<>> /\ call'[c].todo = call[c].todo
           /\ call'[c].pc \in {"get", "fetch"}
           /\ call'[c].pc = "get" => /\ Head(call[c].todo).uri = call[c].entry
                                     /\ call'[c].doc = call[c].after
                                     /\ Head(call[c].todo).kind = "state"
<1>. DEFINE x == call[c]
            item == Head(x.todo)
            y == [x EXCEPT !.pc = IF item.kind = "state" THEN "get" ELSE "fetch",
                           !.doc = item.doc]
<1>1. /\ x.pc = "emit" /\ x.todo # <<>> /\ item.kind \in {"state", "read"}
      /\ call' = [call EXCEPT ![c] = y]
      /\ UNCHANGED <<subVars, server, cache, copy, reading, fresh, gap>>
  BY DEF Gate
<1>2. GoodCall(x) /\ x \in CallStates /\ GoodCache(cache) /\ gap \subseteq Uri
  BY DEF Typed, GoodCall
<1>3. /\ x.todo \in Seq(Items) /\ GoodTodo(x) /\ x.entry \in Entry /\ item.uri \in Uri
      /\ item.kind = "state" =>
            item.uri = x.entry /\ item.doc = x.after /\ item.doc \in Documents(item.uri)
      /\ item.kind = "read" => item.doc = Absent
  BY <1>1, <1>2, HeadFacts DEF Emitting, GoodCall
<1>. HIDE DEF item
<1>4. item.doc \in Document \cup {Absent}
  BY <1>1, <1>2, <1>3, ReadType DEF Typed
<1>5. /\ y \in CallStates /\ y.doc = item.doc /\ y.todo = x.todo /\ y.entry = x.entry
      /\ y.before = x.before /\ y.after = x.after
      /\ y.pc = IF item.kind = "state" THEN "get" ELSE "fetch"
  BY <1>1, <1>2, <1>4 DEF CallStates
<1>. HIDE DEF y
<1>6. GoodTodo(y) /\ y.entry \in Entry
  BY <1>1, <1>2, <1>5, SameTodo DEF Emitting
<1>7. GoodCall(y)
  BY <1>1, <1>3, <1>5, <1>6 DEF GoodCall, item
<1>8. EmitShape(c)
  BY <1>1, <1>2, <1>5, <1>7, InnerStep DEF Emitting, AtHand
<1>9. call'[c] = y
  BY <1>1 DEF Typed
<1>. QED BY <1>1, <1>3, <1>5, <1>8, <1>9 DEF item

LEMMA GateClosedShape ==
    ASSUME Typed, NEW c \in Call, GateClosed(c)
    PROVE  /\ EmitShape(c) /\ UNCHANGED <<cache, copy, reading>>
           /\ call[c].todo # <<>> /\ ~HasAnyURI(Head(call[c].todo).uri)
           /\ Cached(Head(call[c].todo).uri) => Head(call[c].todo).uri \in gap'
<1>. DEFINE x == call[c]
            item == Head(x.todo)
            y == [x EXCEPT !.todo = Tail(@)]
<1>1. /\ x.pc = "emit" /\ x.todo # <<>>
      /\ call' = [call EXCEPT ![c] = y]
      /\ UNCHANGED <<subVars, server, cache, copy, reading, fresh>>
      /\ gap' = gap \cup (IF Cached(item.uri) THEN {item.uri} ELSE {})
      /\ ~HasAnyURI(item.uri)
  BY DEF GateClosed
<1>2. GoodCall(x) /\ x \in CallStates /\ GoodCache(cache) /\ gap \subseteq Uri
  BY DEF Typed, GoodCall
<1>3. item.uri \in Uri
  BY <1>1, <1>2, HeadFacts DEF Emitting
<1>4. /\ y.todo = Tail(x.todo) /\ y.entry = x.entry /\ y.pc = "emit"
      /\ y.before = x.before /\ y.after = x.after
  BY <1>1, <1>2 DEF CallStates
<1>5. /\ GoodTodo(y) /\ y.entry \in Entry /\ y.todo \in Seq(Items)
      /\ UrisOf(y.todo) = UrisOf(x.todo) \ {item.uri}
  <2>. HIDE DEF y
  <2>. QED BY <1>1, <1>2, <1>4, NextTodo DEF Emitting
<1>6. y \in CallStates
  BY <1>2, <1>4, <1>5 DEF CallStates
<1>. HIDE DEF y
<1>7. GoodCall(y)
  BY <1>4, <1>5, <1>6 DEF GoodCall
<1>8. gap \subseteq gap' /\ gap' \subseteq Uri
  BY <1>1, <1>2, <1>3
<1>9. EmitShape(c)
  <2>1. \A u \in Uri : ~AtHand(c, u) => u # item.uri
    BY <1>1 DEF AtHand
  <2>. HIDE DEF item
  <2>. QED BY <1>1, <1>2, <1>4, <1>5, <1>7, <1>8, <2>1, InnerStep DEF Emitting
<1>. QED BY <1>1, <1>9

LEMMA LookupFacts ==
    ASSUME GoodCache(cache), NEW u \in Uri
    PROVE  \/ Lookup(u) = Absent
           \/ /\ Lookup(u) \in Documents(u)
              /\ \E i \in 1..Len(cache) : cache[i].uri = u /\ Lookup(u) = cache[i].doc
BY DEF Cached, Slot, Lookup, GoodCache

LEMMA EmitDeletedShape ==
    ASSUME Typed, NEW c \in Call, EmitDeleted(c)
    PROVE  /\ EmitShape(c)
           /\ call[c].todo # <<>> /\ call'[c].todo = call[c].todo
           /\ call'[c].pc = "send" /\ call'[c].format = "deleted"
           /\ \A i \in 1..Len(cache') : cache'[i].uri # Head(call[c].todo).uri
<1>. DEFINE x == call[c]
            item == Head(x.todo)
            y == [x EXCEPT !.pc = "send", !.format = "deleted"]
<1>1. /\ x.pc = "emit" /\ x.todo # <<>> /\ item.kind = "deleted"
      /\ call' = [call EXCEPT ![c] = y] /\ cache' = Without(item.uri)
      /\ UNCHANGED <<subVars, server, copy, reading, fresh, gap>>
  BY DEF EmitDeleted
<1>2. GoodCall(x) /\ x \in CallStates /\ GoodCache(cache) /\ gap \subseteq Uri
  BY DEF Typed, GoodCall
<1>3. /\ y \in CallStates /\ y.todo = x.todo /\ y.entry = x.entry /\ y.pc = "send"
      /\ y.before = x.before /\ y.after = x.after /\ y.format = "deleted"
  BY <1>1, <1>2 DEF CallStates
<1>. HIDE DEF y
<1>4. GoodTodo(y) /\ y.entry \in Entry
  BY <1>1, <1>2, <1>3, SameTodo DEF Emitting
<1>5. GoodCall(y)
  BY <1>1, <1>3, <1>4 DEF GoodCall
<1>6. /\ GoodCache(cache')
      /\ \A i \in 1..Len(cache') : /\ cache'[i].uri # item.uri
                                   /\ \E j \in 1..Len(cache) : cache'[i] = cache[j]
  BY <1>1, <1>2, WithoutFacts
<1>7. EmitShape(c)
  BY <1>1, <1>2, <1>3, <1>5, <1>6, InnerStep DEF Emitting, AtHand
<1>8. call'[c] = y
  BY <1>1 DEF Typed
<1>. QED BY <1>1, <1>3, <1>6, <1>7, <1>8

LEMMA FetchShape ==
    ASSUME Typed, NEW c \in Call, Fetch(c)
    PROVE  /\ EmitShape(c) /\ UNCHANGED cache
           /\ call[c].todo # <<>> /\ call'[c].todo = call[c].todo
           /\ call'[c].pc = "get" /\ call'[c].doc = ReadResource(server, Head(call[c].todo).uri)
<1>. DEFINE x == call[c]
            u == Head(x.todo).uri
            doc == ReadResource(server, u)
            y == [x EXCEPT !.pc = "get", !.doc = doc]
<1>1. /\ x.pc = "fetch" /\ doc # Absent
      /\ call' = [call EXCEPT ![c] = y]
      /\ UNCHANGED <<subVars, server, cache, copy, reading, fresh, gap>>
  BY DEF Fetch
<1>2. /\ GoodCall(x) /\ x \in CallStates /\ GoodCache(cache) /\ gap \subseteq Uri
      /\ x.todo # <<>> /\ server \in Workspaces
  BY <1>1 DEF Typed, GoodCall, Emitting
<1>3. u \in Uri
  BY <1>1, <1>2, HeadFacts DEF Emitting
<1>4. doc \in Documents(u) /\ doc \in Document
  BY <1>1, <1>2, <1>3, ReadType
<1>. HIDE DEF doc
<1>5. /\ y \in CallStates /\ y.todo = x.todo /\ y.entry = x.entry /\ y.pc = "get"
      /\ y.before = x.before /\ y.after = x.after /\ y.doc = doc
  BY <1>1, <1>2, <1>4 DEF CallStates
<1>. HIDE DEF y
<1>6. GoodTodo(y) /\ y.entry \in Entry
  BY <1>1, <1>2, <1>5, SameTodo DEF Emitting
<1>7. GoodCall(y)
  BY <1>2, <1>4, <1>5, <1>6 DEF GoodCall
<1>8. EmitShape(c)
  BY <1>1, <1>2, <1>5, <1>7, InnerStep DEF Emitting, AtHand
<1>9. call'[c] = y
  BY <1>1 DEF Typed
<1>. QED BY <1>2, <1>1, <1>5, <1>8, <1>9 DEF doc

LEMMA FetchFailsShape ==
    ASSUME Typed, NEW c \in Call, FetchFails(c)
    PROVE  /\ EmitShape(c)
           /\ call[c].todo # <<>> /\ call'[c].todo = call[c].todo
           /\ call'[c].pc = "send" /\ call'[c].format = "none"
           /\ \A i \in 1..Len(cache') : cache'[i].uri # Head(call[c].todo).uri
<1>. DEFINE x == call[c]
            u == Head(x.todo).uri
            y == [x EXCEPT !.pc = "send", !.format = "none"]
<1>1. /\ x.pc = "fetch" /\ call' = [call EXCEPT ![c] = y] /\ cache' = Without(u)
      /\ UNCHANGED <<subVars, server, copy, reading, fresh, gap>>
  BY DEF FetchFails
<1>2. /\ GoodCall(x) /\ x \in CallStates /\ GoodCache(cache) /\ gap \subseteq Uri
      /\ x.todo # <<>>
  BY <1>1 DEF Typed, GoodCall, Emitting
<1>3. /\ y \in CallStates /\ y.todo = x.todo /\ y.entry = x.entry /\ y.pc = "send"
      /\ y.before = x.before /\ y.after = x.after /\ y.format = "none"
  BY <1>1, <1>2 DEF CallStates
<1>. HIDE DEF y
<1>4. GoodTodo(y) /\ y.entry \in Entry
  BY <1>1, <1>2, <1>3, SameTodo DEF Emitting
<1>5. GoodCall(y)
  BY <1>2, <1>3, <1>4 DEF GoodCall
<1>6. /\ GoodCache(cache')
      /\ \A i \in 1..Len(cache') : /\ cache'[i].uri # u
                                   /\ \E j \in 1..Len(cache) : cache'[i] = cache[j]
  BY <1>1, <1>2, WithoutFacts
<1>7. EmitShape(c)
  BY <1>1, <1>2, <1>3, <1>5, <1>6, InnerStep DEF Emitting, AtHand
<1>8. call'[c] = y
  BY <1>1 DEF Typed
<1>. QED BY <1>2, <1>3, <1>6, <1>7, <1>8

LEMMA CacheGetShape ==
    ASSUME Typed, NEW c \in Call, CacheGet(c)
    PROVE  /\ EmitShape(c)
           /\ call[c].todo # <<>> /\ call'[c].todo = call[c].todo
           /\ call'[c].pc = "put" /\ call'[c].doc = call[c].doc
           /\ call'[c].prev = Lookup(Head(call[c].todo).uri)
           /\ \A i \in 1..Len(cache') : \E j \in 1..Len(cache) : cache'[i] = cache[j]
<1>. DEFINE x == call[c]
            u == Head(x.todo).uri
            y == [x EXCEPT !.pc = "put", !.prev = Lookup(u)]
<1>1. /\ x.pc = "get" /\ call' = [call EXCEPT ![c] = y] /\ cache' = Touched(u)
      /\ UNCHANGED <<subVars, server, copy, reading, fresh, gap>>
  BY DEF CacheGet
<1>2. /\ GoodCall(x) /\ x \in CallStates /\ GoodCache(cache) /\ gap \subseteq Uri
      /\ x.todo # <<>> /\ x.doc \in Documents(u) /\ server \in Workspaces
  BY <1>1 DEF Typed, GoodCall, Emitting
<1>3. u \in Uri
  BY <1>1, <1>2, HeadFacts DEF Emitting
<1>4. Lookup(u) \in Document \cup {Absent}
  BY <1>2, <1>3, LookupFacts, ReadType
<1>5. /\ y \in CallStates /\ y.todo = x.todo /\ y.entry = x.entry /\ y.pc = "put"
      /\ y.before = x.before /\ y.after = x.after /\ y.doc = x.doc /\ y.prev = Lookup(u)
  BY <1>1, <1>2, <1>4 DEF CallStates
<1>. HIDE DEF y
<1>6. GoodTodo(y) /\ y.entry \in Entry
  BY <1>1, <1>2, <1>5, SameTodo DEF Emitting
<1>7. GoodCall(y)
  BY <1>2, <1>5, <1>6 DEF GoodCall
<1>8. /\ GoodCache(cache')
      /\ \A i \in 1..Len(cache') : \E j \in 1..Len(cache) : cache'[i] = cache[j]
  BY <1>1, <1>2, <1>3, TouchedFacts
<1>9. EmitShape(c)
  BY <1>1, <1>2, <1>5, <1>7, <1>8, InnerStep DEF Emitting, AtHand
<1>10. call'[c] = y
  BY <1>1 DEF Typed
<1>. QED BY <1>2, <1>5, <1>8, <1>9, <1>10

LEMMA CachePutShape ==
    ASSUME Typed, NEW c \in Call, CachePut(c)
    PROVE  /\ EmitShape(c)
           /\ call[c].todo # <<>> /\ call'[c].todo = call[c].todo
           /\ call'[c].pc = "send" /\ call'[c].doc = call[c].doc
           /\ call'[c].prev = call[c].prev
           /\ call'[c].format = IF call[c].prev = Absent THEN "none" ELSE "merge"
           /\ \A i \in 1..Len(cache') :
                 cache'[i].uri = Head(call[c].todo).uri => cache'[i].doc = call[c].doc
<1>. DEFINE x == call[c]
            u == Head(x.todo).uri
            y == [x EXCEPT !.pc = "send",
                           !.format = IF x.prev = Absent THEN "none" ELSE "merge"]
<1>1. /\ x.pc = "put" /\ call' = [call EXCEPT ![c] = y] /\ cache' = Stored(u, x.doc)
      /\ UNCHANGED <<subVars, server, copy, reading, fresh, gap>>
  BY DEF CachePut
<1>2. /\ GoodCall(x) /\ x \in CallStates /\ GoodCache(cache) /\ gap \subseteq Uri
      /\ x.todo # <<>> /\ x.doc \in Documents(u) /\ server \in Workspaces
  BY <1>1 DEF Typed, GoodCall, Emitting
<1>3. u \in Uri
  BY <1>1, <1>2, HeadFacts DEF Emitting
<1>4. x.doc \in Document
  BY <1>2, <1>3, ReadType
<1>5. /\ y \in CallStates /\ y.todo = x.todo /\ y.entry = x.entry /\ y.pc = "send"
      /\ y.before = x.before /\ y.after = x.after /\ y.doc = x.doc /\ y.prev = x.prev
      /\ y.format = IF x.prev = Absent THEN "none" ELSE "merge"
      /\ y.prev \in Document \cup {Absent}
  BY <1>1, <1>2 DEF CallStates
<1>. HIDE DEF y
<1>6. GoodTodo(y) /\ y.entry \in Entry
  BY <1>1, <1>2, <1>5, SameTodo DEF Emitting
<1>7. GoodCall(y)
  BY <1>2, <1>4, <1>5, <1>6 DEF GoodCall
<1>8. /\ GoodCache(cache')
      /\ \A i \in 1..Len(cache') :
            \/ cache'[i] = [uri |-> u, doc |-> x.doc]
            \/ cache'[i].uri # u /\ \E j \in 1..Len(cache) : cache'[i] = cache[j]
  BY <1>1, <1>2, <1>3, StoredFacts
<1>9. EmitShape(c)
  <2>1. \A v \in Uri : ~AtHand(c, v) => v # u
    BY <1>2 DEF AtHand
  <2>2. \A v \in Uri : ~AtHand(c, v) =>
           \A i \in 1..Len(cache') :
              cache'[i].uri = v => \E j \in 1..Len(cache) : cache'[i] = cache[j]
    BY <1>8, <2>1
  <2>3. x.pc \in Emitting /\ y.pc \in Emitting
    BY <1>1, <1>5 DEF Emitting
  <2>. HIDE DEF x, u
  <2>4. \A v \in Uri : ~AtHand(c, v) => Head(y.todo).uri # v
    BY <1>5, <2>1 DEF u
  <2>. QED BY <1>1, <1>2, <1>5, <1>7, <1>8, <2>2, <2>3, <2>4, InnerStep DEF x
<1>10. call'[c] = y
  BY <1>1 DEF Typed
<1>. QED BY <1>2, <1>5, <1>8, <1>9, <1>10

LEMMA SendShape ==
    ASSUME Typed, NEW c \in Call, Send(c)
    PROVE  /\ EmitShape(c) /\ UNCHANGED <<cache, gap>>
           /\ call[c].todo # <<>> /\ call'[c].pc = "emit"
           /\ Head(call[c].todo).uri \notin UrisOf(call'[c].todo)
<1>. DEFINE x == call[c]
            u == Head(x.todo).uri
            told == TargetsFor(u)
            y == [x EXCEPT !.pc = "emit", !.todo = Tail(@),
                           !.doc = Absent, !.prev = Absent, !.format = "none"]
<1>1. /\ x.pc = "send" /\ call' = [call EXCEPT ![c] = y]
      /\ copy' = [n \in Notifier |->
            IF n \in told THEN [copy[n] EXCEPT ![u] = Updated(@, x)] ELSE copy[n]]
      /\ reading' = [n \in Notifier |->
            IF n \in told /\ reading[n].uri = u
            THEN [reading[n] EXCEPT !.doc = Unknown] ELSE reading[n]]
      /\ fresh' \subseteq fresh
      /\ UNCHANGED <<subVars, server, cache, gap>>
  BY DEF Send
<1>2. /\ GoodCall(x) /\ x \in CallStates /\ GoodCache(cache) /\ gap \subseteq Uri
      /\ x.todo # <<>>
  BY <1>1 DEF Typed, GoodCall, Emitting
<1>3. u \in Uri
  BY <1>1, <1>2, HeadFacts DEF Emitting
<1>4. /\ y.todo = Tail(x.todo) /\ y.entry = x.entry /\ y.pc = "emit"
      /\ y.before = x.before /\ y.after = x.after
      /\ y.doc = Absent /\ y.prev = Absent /\ y.format = "none"
  BY <1>1, <1>2 DEF CallStates
<1>5. /\ GoodTodo(y) /\ y.entry \in Entry /\ y.todo \in Seq(Items)
      /\ UrisOf(y.todo) = UrisOf(x.todo) \ {u}
  <2>. HIDE DEF y
  <2>. QED BY <1>1, <1>2, <1>4, NextTodo DEF Emitting
<1>6. y \in CallStates
  <2>1. Tail(x.todo) \in Seq(Items)
    BY <1>4, <1>5
  <2>. QED BY <1>2, <2>1 DEF CallStates
<1>. HIDE DEF y
<1>7. GoodCall(y)
  BY <1>4, <1>5, <1>6 DEF GoodCall
<1>8. call'[c] = y
  BY <1>1 DEF Typed
<1>. HIDE DEF told, u
<1>9. /\ DOMAIN copy' = Notifier
      /\ \A n \in Notifier : /\ DOMAIN copy'[n] = Uri
                             /\ \A v \in Uri \ {u} : copy'[n][v] = copy[n][v]
  BY <1>1 DEF Typed
<1>10. \A n \in Notifier :
          /\ reading'[n] \in [uri : Uri \cup {Absent}, doc : Document \cup {Absent, Unknown}]
          /\ reading'[n].uri = reading[n].uri
          /\ reading[n] = NoRead => reading'[n] = NoRead
          /\ reading'[n].uri # u => reading'[n] = reading[n]
  <2>. SUFFICES ASSUME NEW n \in Notifier
                PROVE  /\ reading'[n] \in [uri : Uri \cup {Absent},
                                           doc : Document \cup {Absent, Unknown}]
                       /\ reading'[n].uri = reading[n].uri
                       /\ reading[n] = NoRead => reading'[n] = NoRead
                       /\ reading'[n].uri # u => reading'[n] = reading[n]
    OBVIOUS
  <2>1. reading[n] \in [uri : Uri \cup {Absent}, doc : Document \cup {Absent, Unknown}]
    BY DEF Typed
  <2>2. CASE n \in told /\ reading[n].uri = u
    <3>1. reading'[n] = [reading[n] EXCEPT !.doc = Unknown]
      BY <1>1, <2>2
    <3>2. reading[n] # NoRead
      BY <1>3, <2>2, ResourceAssumption DEF NoRead
    <3>. QED BY <2>1, <2>2, <3>1, <3>2
  <2>3. CASE ~(n \in told /\ reading[n].uri = u)
    BY <1>1, <2>1, <2>3
  <2>. QED BY <2>2, <2>3
<1>11. reading' \in [Notifier -> [uri : Uri \cup {Absent}, doc : Document \cup {Absent, Unknown}]]
  BY <1>1, <1>10
<1>12. \A v \in Uri : ~AtHand(c, v) => v # u
  BY <1>2 DEF AtHand, u
<1>13. \A v \in Uri : ~AtHand(c, v) => Aside(c, v)
  BY <1>1, <1>4, <1>5, <1>8, <1>9, <1>10, <1>12 DEF Aside, Emitting
<1>14. EmitShape(c)
  BY <1>1, <1>2, <1>4, <1>7, <1>8, <1>9, <1>10, <1>11, <1>13 DEF EmitShape, Emitting
<1>. QED BY <1>1, <1>2, <1>4, <1>5, <1>8, <1>14 DEF u

LEMMA FinishShape ==
    ASSUME Typed, NEW c \in Call, Finish(c)
    PROVE  EmitShape(c) /\ call[c].todo = <<>>
<1>1. /\ call[c].pc = "emit" /\ call[c].todo = <<>> /\ call' = [call EXCEPT ![c] = Done]
      /\ UNCHANGED <<subVars, server, cache, copy, reading, fresh, gap>>
  BY DEF Finish
<1>2. Done.pc = "done" /\ Done \in CallStates
  <2>1. Done = [pc |-> "done", entry |-> Absent, before |-> Absent, after |-> Absent,
                todo |-> <<>>, doc |-> Absent, prev |-> Absent, format |-> "none"]
    BY DEF Done, Idle
  <2>2. <<>> \in Seq(Items)
    OBVIOUS
  <2>. QED BY <2>1, <2>2 DEF CallStates
<1>3. GoodCall(Done)
  BY <1>2 DEF GoodCall, Emitting
<1>4. UrisOf(call[c].todo) = {}
  <2>1. Len(<<>>) = 0 /\ 1..0 = {}
    OBVIOUS
  <2>. QED BY <1>1, <2>1 DEF UrisOf
<1>5. GoodCache(cache) /\ gap \subseteq Uri
  BY DEF Typed
<1>6. EmitShape(c)
  BY <1>1, <1>2, <1>3, <1>4, <1>5, InnerStep DEF Emitting
<1>. QED BY <1>1, <1>6

LEMMA EmitStep ==
    ASSUME Typed, NEW c \in Call, Emit(c)
    PROVE  EmitShape(c)
BY EmitWeeklyShape, GateShape, GateClosedShape, EmitDeletedShape, FetchShape, FetchFailsShape,
   CacheGetShape, CachePutShape, SendShape, FinishShape DEF Emit

\* One call moves, the others stay.
LEMMA OneCall ==
    ASSUME Typed, NEW c \in Call, NEW y, GoodCall(y), call' = [call EXCEPT ![c] = y]
    PROVE  /\ call' \in [Call -> CallStates] /\ \A d \in Call : GoodCall(call'[d])
           /\ call'[c] = y /\ \A d \in Call \ {c} : call'[d] = call[d]
<1>1. y \in CallStates
  BY DEF GoodCall
<1>. QED BY <1>1 DEF Typed

LEMMA TypedInitially ==
    ASSUME Init
    PROVE  Typed
<1>1. SubsInv
  BY SubsInitially DEF Init
<1>2. GoodCache(cache)
  BY ResourceAssumption DEF Init, GoodCache
<1>3. GoodCall(Idle)
  <2>1. <<>> \in Seq(Items)
    OBVIOUS
  <2>2. Idle \in CallStates /\ Idle.pc = "idle"
    BY <2>1 DEF Idle, CallStates
  <2>. QED BY <2>2 DEF GoodCall, Emitting
<1>4. call \in [Call -> CallStates] /\ \A c \in Call : GoodCall(call[c])
  BY <1>3 DEF Init, GoodCall
<1>5. reading \in [Notifier -> [uri : Uri \cup {Absent}, doc : Document \cup {Absent, Unknown}]]
  BY DEF Init, NoRead
<1>. QED BY <1>1, <1>2, <1>4, <1>5 DEF Init, Typed

LEMMA StartCallFacts ==
    ASSUME Typed, NEW c \in Call, StartCall(c)
    PROVE  /\ call[c].pc = "idle"
           /\ call' = [call EXCEPT ![c] = call'[c]] /\ GoodCall(call'[c])
           /\ call'[c].pc = "write" /\ call'[c].before = server[call'[c].entry]
           /\ UNCHANGED <<subVars, server, cache, copy, reading, fresh, gap>>
<1>1. PICK e \in Entry, a \in Shape \cup {Absent} :
         call' = [call EXCEPT ![c].pc = "write", ![c].entry = e,
                              ![c].before = server[e], ![c].after = a]
  BY DEF StartCall
<1>. DEFINE x == call[c]
            y == [x EXCEPT !.pc = "write", !.entry = e, !.before = server[e], !.after = a]
<1>2. x \in CallStates /\ x.pc = "idle" /\ server[e] \in Shape \cup {Absent}
  BY DEF Typed, StartCall, Workspaces
<1>3. call' = [call EXCEPT ![c] = y]
  BY <1>1, <1>2 DEF Typed
<1>4. y \in CallStates /\ y.pc = "write" /\ y.entry = e /\ y.before = server[e]
  BY <1>2 DEF CallStates
<1>. HIDE DEF y
<1>5. GoodCall(y)
  BY <1>4 DEF GoodCall, Emitting
<1>6. call'[c] = y
  BY <1>3, <1>5, OneCall
<1>. QED BY <1>2, <1>3, <1>4, <1>5, <1>6 DEF StartCall

LEMMA DoneIsGood ==
    GoodCall(Done) /\ Done.pc = "done"
<1>1. <<>> \in Seq(Items)
  OBVIOUS
<1>2. Done \in CallStates /\ Done.pc = "done"
  BY <1>1 DEF Done, Idle, CallStates
<1>. QED BY <1>2 DEF GoodCall, Emitting

LEMMA WriteFacts ==
    ASSUME Typed, NEW c \in Call, NEW quiet \in BOOLEAN, Write(c, quiet)
    PROVE  /\ call[c].pc = "write" /\ call[c].entry \in Entry
           /\ server' = [server EXCEPT ![call[c].entry] = call[c].after]
           /\ server' \in Workspaces
           /\ call' = [call EXCEPT ![c] = call'[c]] /\ GoodCall(call'[c])
           /\ quiet => call'[c].pc = "done"
           /\ ~quiet => /\ call'[c].pc = "emit" /\ call'[c].entry = call[c].entry
                        /\ call'[c].before = call[c].before /\ call'[c].after = call[c].after
                        /\ UrisOf(call'[c].todo) = Affected(c)
           /\ gap' = gap \cup (IF quiet THEN Affected(c) ELSE {})
                         \cup (IF Mixed(c) = {} THEN {} ELSE Mixed(c) \cup Affected(c))
           /\ UNCHANGED <<subVars, cache, copy, reading, fresh>>
<1>. DEFINE x == call[c]
            todo == Emissions(x.entry, x.before, x.after)
            y == [x EXCEPT !.pc = "emit", !.todo = todo]
<1>1. /\ x \in CallStates /\ x.pc = "write" /\ x.entry \in Entry
      /\ x.before \in Shape \cup {Absent} /\ x.after \in Shape \cup {Absent}
  BY DEF Typed, GoodCall, CallStates, Write
<1>2. /\ todo \in Seq(Items) /\ DistinctUris(todo)
      /\ UrisOf(todo) = AffectedBy(x)
      /\ \A i \in 1..Len(todo) :
            /\ todo[i].kind = "state" => todo[i].uri = x.entry /\ todo[i].doc = x.after
            /\ todo[i].kind = "deleted" => todo[i].uri = x.entry /\ x.after = Absent
  <2>. HIDE DEF x
  <2>. QED BY <1>1, EmissionsOf
<1>3. call' = [call EXCEPT ![c] = IF quiet THEN Done ELSE y]
  BY DEF Write
<1>. HIDE DEF todo
<1>4. /\ y \in CallStates /\ y.pc = "emit" /\ y.entry = x.entry /\ y.todo = todo
      /\ y.before = x.before /\ y.after = x.after
  BY <1>1, <1>2 DEF CallStates
<1>. HIDE DEF y
<1>5. GoodCall(y)
  <2>1. GoodTodo(y)
    BY <1>2, <1>4 DEF GoodTodo, AffectedBy
  <2>. QED BY <1>1, <1>4, <2>1 DEF GoodCall
<1>6. call'[c] = IF quiet THEN Done ELSE y
  BY <1>3, <1>5, DoneIsGood, OneCall
<1>7. server' \in Workspaces
  BY <1>1 DEF Write, Typed, Workspaces
<1>8. UrisOf(y.todo) = Affected(c)
  BY <1>2, <1>4 DEF AffectedBy, Affected
<1>. QED BY <1>1, <1>3, <1>4, <1>5, <1>6, <1>7, <1>8, DoneIsGood DEF Write

\* The steps of the clients and of the streams leave the calls alone.
ClientStep ==
    \/ \E p \in Interest : Subscribe(p[1], p[2]) \/ Unsubscribe(p[1], p[2])
    \/ \E n \in Notifier, u \in Uri : StartRead(n, u)
    \/ \E n \in Notifier : EndRead(n)
    \/ Streams

LEMMA ClientTyped ==
    ASSUME Typed, ClientStep
    PROVE  /\ UNCHANGED <<server, cache, call, gap>>
           /\ DOMAIN copy' = Notifier /\ \A n \in Notifier : DOMAIN copy'[n] = Uri
           /\ reading' \in [Notifier -> [uri : Uri \cup {Absent},
                                         doc : Document \cup {Absent, Unknown}]]
           /\ fresh' \subseteq Notifier \X Uri
<1>1. ASSUME NEW p \in Interest, Subscribe(p[1], p[2]) \/ Unsubscribe(p[1], p[2])
      PROVE  /\ UNCHANGED <<server, cache, call, reading, gap>>
             /\ DOMAIN copy' = Notifier /\ \A n \in Notifier : DOMAIN copy'[n] = Uri
             /\ fresh' \subseteq Notifier \X Uri
  <2>1. p[1] \in Subscriber /\ p[2] \in Uri
    BY ResourceAssumption
  <2>. QED BY <1>1, <2>1 DEF Subscribe, Unsubscribe, Typed
<1>2. ASSUME NEW n \in Notifier, NEW u \in Uri, StartRead(n, u)
      PROVE  /\ UNCHANGED <<server, cache, call, copy, fresh, gap>>
             /\ reading' \in [Notifier -> [uri : Uri \cup {Absent},
                                           doc : Document \cup {Absent, Unknown}]]
  <2>1. ReadResource(server, u) \in Document \cup {Absent}
    BY ReadType DEF Typed
  <2>. QED BY <1>2, <2>1 DEF StartRead, Typed
<1>3. ASSUME NEW n \in Notifier, EndRead(n)
      PROVE  /\ UNCHANGED <<server, cache, call, fresh, gap>>
             /\ DOMAIN copy' = Notifier /\ \A m \in Notifier : DOMAIN copy'[m] = Uri
             /\ reading' \in [Notifier -> [uri : Uri \cup {Absent},
                                           doc : Document \cup {Absent, Unknown}]]
  BY <1>3 DEF EndRead, Typed, NoRead
<1>4. ASSUME Streams
      PROVE  /\ UNCHANGED <<server, cache, call, copy, reading, gap>>
             /\ fresh' \subseteq Notifier \X Uri
  BY <1>4 DEF Streams, Typed
<1>. QED BY <1>1, <1>2, <1>3, <1>4 DEF ClientStep, Typed

\* Next, sorted by who moves.
LEMMA NextCases ==
    ASSUME Next
    PROVE  \/ \E c \in Call : StartCall(c) \/ WriteRefused(c) \/ Emit(c)
           \/ \E c \in Call, quiet \in BOOLEAN : Write(c, quiet)
           \/ ClientStep
BY DEF Next, ClientStep

LEMMA TypedStep ==
    ASSUME Typed, [Next]_vars
    PROVE  Typed'
<1>1. SubsInv'
  BY StepKeepsCount DEF Typed
<1>2. ASSUME NEW c \in Call, StartCall(c)
      PROVE  Typed'
  <2>1. call' \in [Call -> CallStates] /\ \A d \in Call : GoodCall(call'[d])
    BY <1>2, StartCallFacts, OneCall
  <2>. QED BY <1>1, <1>2, <2>1, StartCallFacts DEF Typed
<1>3. ASSUME NEW c \in Call, WriteRefused(c)
      PROVE  Typed'
  <2>1. call' \in [Call -> CallStates] /\ \A d \in Call : GoodCall(call'[d])
    BY <1>3, DoneIsGood, OneCall DEF WriteRefused
  <2>. QED BY <1>1, <1>3, <2>1 DEF Typed, WriteRefused
<1>4. ASSUME NEW c \in Call, Emit(c)
      PROVE  Typed'
  <2>1. EmitShape(c)
    BY <1>4, EmitStep
  <2>2. call' \in [Call -> CallStates] /\ \A d \in Call : GoodCall(call'[d])
    BY <2>1, OneCall DEF EmitShape
  <2>. QED BY <1>1, <2>1, <2>2 DEF Typed, EmitShape
<1>5. ASSUME NEW c \in Call, NEW quiet \in BOOLEAN, Write(c, quiet)
      PROVE  Typed'
  <2>1. call' \in [Call -> CallStates] /\ \A d \in Call : GoodCall(call'[d])
    BY <1>5, WriteFacts, OneCall
  <2>2. gap' \subseteq Uri
    <3>1. \A d \in Call : InFlight(d) => Affected(d) \subseteq Uri
      BY ResourceAssumption DEF InFlight, Typed, GoodCall, Affected, WeeksOf
    <3>2. Mixed(c) \subseteq Uri
      BY <3>1 DEF Mixed
    <3>3. Affected(c) \subseteq Uri
      BY <1>5, <3>1, WriteFacts DEF InFlight
    <3>. QED BY <1>5, <3>2, <3>3, WriteFacts DEF Typed
  <2>. QED BY <1>1, <1>5, <2>1, <2>2, WriteFacts DEF Typed
<1>6. ASSUME ClientStep
      PROVE  Typed'
  BY <1>1, <1>6, ClientTyped DEF Typed
<1>7. ASSUME UNCHANGED vars
      PROVE  Typed'
  BY <1>1, <1>7 DEF Typed, vars, dataVars
<1>. QED BY <1>2, <1>3, <1>4, <1>5, <1>6, <1>7, NextCases

(* What every variable of the delta path holds in every reachable state:   *)
(* above all, that a "read" and a "weekly" are of a week, a "state" and a  *)
(* "deleted" of an entry, and that a delta is never of a lack of document. *)
THEOREM TypeCorrect == Spec => []TypeOK
<1>1. Init => Typed
  BY TypedInitially
<1>2. Typed /\ [Next]_vars => Typed'
  BY TypedStep
<1>3. Typed => TypeOK
  <2>1. GoodCache(cache) => cache \in Seq([uri : Uri, doc : Document])
    BY DEF GoodCache, CacheSlots
  <2>. QED BY <2>1 DEF Typed, TypeOK, SubsInv
<1>. QED BY <1>1, <1>2, <1>3, PTL DEF Spec

(* The cache holds no more than its capacity and no URI twice, for any     *)
(* capacity and whichever of get, put and drop the calls interleave        *)
(* (resource_cache.go).                                                    *)
THEOREM CacheBounded == Spec => []CacheIsBounded
<1>1. Init => Typed
  BY TypedInitially
<1>2. Typed /\ [Next]_vars => Typed'
  BY TypedStep
<1>3. Typed => CacheIsBounded
  <2>1. GoodCache(cache) => DOMAIN cache = 1..Len(cache)
    BY LenProperties DEF GoodCache
  <2>. QED BY <2>1 DEF Typed, GoodCache, CacheIsBounded
<1>. QED BY <1>1, <1>2, <1>3, PTL DEF Spec

-----------------------------------------------------------------------------
(* Where the documents stand.                                              *)

Written(c) == call[c].pc \in Emitting

\* What the call has still to publish.
Owes(c, u) == Written(c) /\ u \in UrisOf(call[c].todo)

\* A stream that is not there holds nothing, a client that reads a URI
\* holds it.
HubOK ==
    /\ hub \cap leaving = {}
    /\ \A n \in Notifier :
          /\ n \notin hub \cup leaving => byNotifier[n] = {}
          /\ reading[n] = NoRead \/ (n \in hub /\ reading[n].uri \in byNotifier[n])

\* Whoever publishes what is not in gap is alone at it.
AloneInv ==
    \A c \in Call :
        Written(c) /\ ~(Affected(c) \subseteq gap)
          => /\ server[call[c].entry] = call[c].after
             /\ \A d \in Call \ {c} : ~Written(d)

\* A call whose state before has gone stale knows that by gap.
StaleInv ==
    \A c \in Call : call[c].pc = "write" =>
        \/ server[call[c].entry] = call[c].before
        \/ Affected(c) \cup WeeksOf(server[call[c].entry], Absent) \subseteq gap

Now(u) == ReadResource(server, u)
Before(c, u) == ReadResource([server EXCEPT ![call[c].entry] = call[c].before], u)

CachedIn(u, docs) == \A i \in 1..Len(cache) : cache[i].uri = u => cache[i].doc \in docs

HeldIn(u, docs) ==
    \A n \in hub : u \in byNotifier[n] =>
        /\ copy[n][u] \in docs \cup {Unknown}
        /\ reading[n].uri = u => reading[n].doc \in docs \cup {Unknown}

Settled(u) == CachedIn(u, {Now(u)}) /\ HeldIn(u, {Now(u)})

Underway(c, u) ==
    /\ HeldIn(u, {Before(c, u), Now(u)})
    /\ CachedIn(u, {IF AtHand(c, u) /\ call[c].pc = "send" THEN Now(u) ELSE Before(c, u)})
    /\ AtHand(c, u) =>
          /\ call[c].pc \in {"get", "put"} => call[c].doc = Now(u)
          /\ call[c].pc = "put" => call[c].prev \in {Absent, Before(c, u)}
          /\ call[c].pc = "send" /\ call[c].format = "merge" =>
                call[c].doc = Now(u) /\ call[c].prev = Before(c, u)

SyncAt(u) ==
    /\ (\A c \in Call : ~Owes(c, u)) => Settled(u)
    /\ \A c \in Call : Owes(c, u) => Underway(c, u)

SyncInv == \A u \in Uri \ gap : SyncAt(u)

IInv == Typed /\ HubOK /\ AloneInv /\ StaleInv /\ SyncInv

LEMMA HubStep ==
    ASSUME Typed, HubOK, [Next]_vars
    PROVE  HubOK'
<1>1. ASSUME UNCHANGED subVars,
             \A n \in Notifier : /\ reading'[n].uri = reading[n].uri
                                 /\ reading[n] = NoRead => reading'[n] = NoRead
      PROVE  HubOK'
  BY <1>1 DEF HubOK, subVars
<1>2. ASSUME UNCHANGED <<subVars, reading>>
      PROVE  HubOK'
  BY <1>1, <1>2
<1>3. ASSUME NEW c \in Call, StartCall(c) \/ WriteRefused(c) \/ Emit(c)
      PROVE  HubOK'
  <2>1. CASE StartCall(c) \/ WriteRefused(c)
    BY <1>2, <2>1 DEF StartCall, WriteRefused
  <2>2. CASE Emit(c)
    BY <1>1, <2>2, EmitStep DEF EmitShape
  <2>. QED BY <1>3, <2>1, <2>2
<1>4. ASSUME NEW c \in Call, NEW quiet \in BOOLEAN, Write(c, quiet)
      PROVE  HubOK'
  BY <1>2, <1>4 DEF Write
<1>5. ASSUME NEW p \in Interest, Subscribe(p[1], p[2]) \/ Unsubscribe(p[1], p[2])
      PROVE  HubOK'
  <2>. PICK s \in Subscriber, u \in Uri : s = p[1] /\ u = p[2]
    BY ResourceAssumption
  <2>1. Subscribe(s, u) \/ Unsubscribe(s, u)
    BY <1>5
  <2>2. /\ s \in Notifier => reading[s] = NoRead
        /\ s \in hub \cup {Broadcast}
        /\ UNCHANGED <<hub, leaving, reading>>
        /\ \A n \in Notifier \ {s} : byNotifier'[n] = byNotifier[n]
    BY <2>1 DEF Subscribe, Unsubscribe, AddSubscription, RemoveSubscription, Reading,
                Typed, SubsInv, SubsTypeOK, Subscriber
  <2>3. s = Broadcast => s \notin Notifier
    BY NotifierAssumption
  <2>. QED BY <2>2, <2>3 DEF HubOK
<1>6. ASSUME NEW n \in Notifier, NEW u \in Uri, StartRead(n, u)
      PROVE  HubOK'
  BY <1>6 DEF StartRead, HubOK, subVars, Typed
<1>7. ASSUME NEW n \in Notifier, EndRead(n)
      PROVE  HubOK'
  BY <1>7 DEF EndRead, HubOK, subVars, Typed
<1>8. ASSUME Streams
      PROVE  HubOK'
  <2>1. PICK n \in Notifier : AddNotifier(n) \/ (~Reading(n) /\ RemoveNotifier(n)) \/ DropNotifier(n)
    BY <1>8 DEF Streams
  <2>2. UNCHANGED reading
    BY <1>8 DEF Streams
  <2>3. CASE AddNotifier(n)
    BY <2>2, <2>3 DEF AddNotifier, HubOK
  <2>4. CASE ~Reading(n) /\ RemoveNotifier(n)
    BY <2>2, <2>4 DEF RemoveNotifier, Reading, HubOK
  <2>5. CASE DropNotifier(n)
    BY <2>2, <2>5 DEF DropNotifier, HubOK, Typed, SubsInv, SubsTypeOK, Subscriber
  <2>. QED BY <2>1, <2>3, <2>4, <2>5
<1>9. ASSUME UNCHANGED vars
      PROVE  HubOK'
  BY <1>2, <1>9 DEF vars, dataVars
<1>. QED BY <1>3, <1>4, <1>5, <1>6, <1>7, <1>8, <1>9, NextCases DEF ClientStep

LEMMA AloneStep ==
    ASSUME Typed, AloneInv, [Next]_vars
    PROVE  AloneInv'
<1>1. ASSUME NEW c \in Call, UNCHANGED server, gap \subseteq gap',
             call' = [call EXCEPT ![c] = call'[c]],
             call'[c].pc \in Emitting => /\ call[c].pc \in Emitting
                                         /\ call'[c].entry = call[c].entry
                                         /\ call'[c].before = call[c].before
                                         /\ call'[c].after = call[c].after
      PROVE  AloneInv'
  <2>1. \A d \in Call : call'[d].pc \in Emitting => /\ call[d].pc \in Emitting
                                                    /\ call'[d].entry = call[d].entry
                                                    /\ call'[d].before = call[d].before
                                                    /\ call'[d].after = call[d].after
    BY <1>1 DEF Typed
  <2>. QED BY <1>1, <2>1 DEF AloneInv, Written, Affected
<1>2. ASSUME NEW c \in Call, StartCall(c) \/ WriteRefused(c) \/ Emit(c)
      PROVE  AloneInv'
  <2>1. CASE StartCall(c)
    BY <1>1, <2>1, StartCallFacts DEF Emitting
  <2>2. CASE WriteRefused(c)
    <3>1. call'[c] = Done
      BY <2>2 DEF WriteRefused, Typed
    <3>. QED BY <1>1, <2>2, <3>1, DoneIsGood DEF WriteRefused, Emitting
  <2>3. CASE Emit(c)
    BY <1>1, <2>3, EmitStep DEF EmitShape
  <2>. QED BY <1>2, <2>1, <2>2, <2>3
<1>3. ASSUME NEW c \in Call, NEW quiet \in BOOLEAN, Write(c, quiet)
      PROVE  AloneInv'
  <2>. SUFFICES ASSUME NEW d \in Call, Written(d)', ~(Affected(d)' \subseteq gap')
                PROVE  /\ server'[call'[d].entry] = call'[d].after
                       /\ \A e \in Call \ {d} : ~Written(e)'
    BY DEF AloneInv
  <2>1. \A e \in Call \ {c} : call'[e] = call[e]
    BY <1>3, WriteFacts DEF Typed
  <2>2. \A e \in Call \ {c} : Written(e) => Affected(e) \subseteq Mixed(c)
    BY DEF Mixed, Written, InFlight, Emitting
  <2>3. d = c
    <3>. SUFFICES ASSUME d # c PROVE FALSE
      OBVIOUS
    <3>1. Written(d) /\ Affected(d)' = Affected(d)
      BY <2>1 DEF Written, Affected
    <3>. QED BY <1>3, <2>2, <3>1, WriteFacts
  <2>4. ~quiet
    BY <1>3, <2>3, WriteFacts DEF Written, Emitting
  <2>5. Affected(c)' = Affected(c)
    BY <1>3, <2>4, WriteFacts DEF Affected
  <2>6. Mixed(c) = {}
    BY <1>3, <2>3, <2>5, WriteFacts
  <2>7. \A e \in Call \ {c} : ~Written(e)
    BY <2>2, <2>6 DEF Affected
  <2>8. server'[call[c].entry] = call[c].after
    BY <1>3, WriteFacts DEF Typed, Workspaces
  <2>. QED BY <1>3, <2>1, <2>3, <2>4, <2>7, <2>8, WriteFacts DEF Written
<1>4. ASSUME UNCHANGED <<server, call, gap>>
      PROVE  AloneInv'
  BY <1>4 DEF AloneInv, Written, Affected
<1>. QED BY <1>2, <1>3, <1>4, ClientTyped, NextCases DEF vars, dataVars

LEMMA StaleStep ==
    ASSUME Typed, StaleInv, [Next]_vars
    PROVE  StaleInv'
<1>1. ASSUME NEW c \in Call, UNCHANGED server, gap \subseteq gap',
             call' = [call EXCEPT ![c] = call'[c]], call'[c].pc # "write"
      PROVE  StaleInv'
  <2>1. \A d \in Call : call'[d].pc = "write" => call'[d] = call[d]
    BY <1>1 DEF Typed
  <2>. QED BY <1>1, <2>1 DEF StaleInv, Affected
<1>2. ASSUME NEW c \in Call, StartCall(c) \/ WriteRefused(c) \/ Emit(c)
      PROVE  StaleInv'
  <2>1. CASE StartCall(c)
    <3>1. /\ \A d \in Call \ {c} : call'[d] = call[d]
          /\ call'[c].before = server[call'[c].entry]
          /\ UNCHANGED <<server, gap>>
      BY <2>1, StartCallFacts DEF Typed
    <3>. QED BY <3>1 DEF StaleInv, Affected
  <2>2. CASE WriteRefused(c)
    <3>1. call'[c] = Done
      BY <2>2 DEF WriteRefused, Typed
    <3>. QED BY <1>1, <2>2, <3>1, DoneIsGood DEF WriteRefused
  <2>3. CASE Emit(c)
    <3>1. EmitShape(c)
      BY <2>3, EmitStep
    <3>. QED BY <1>1, <3>1 DEF EmitShape, Emitting
  <2>. QED BY <1>2, <2>1, <2>2, <2>3
<1>3. ASSUME NEW c \in Call, NEW quiet \in BOOLEAN, Write(c, quiet)
      PROVE  StaleInv'
  <2>. SUFFICES ASSUME NEW d \in Call, call'[d].pc = "write"
                PROVE  \/ server'[call'[d].entry] = call'[d].before
                       \/ Affected(d)' \cup WeeksOf(server'[call'[d].entry], Absent) \subseteq gap'
    BY DEF StaleInv
  <2>1. d # c
    BY <1>3, WriteFacts
  <2>2. call'[d] = call[d] /\ Affected(d)' = Affected(d)
    BY <1>3, <2>1, WriteFacts DEF Typed, Affected
  <2>3. Affected(d) \subseteq Mixed(c) /\ Affected(d) # {}
    BY <2>1, <2>2 DEF Mixed, InFlight, Affected
  <2>4. gap \cup Affected(c) \cup Affected(d) \subseteq gap'
    BY <1>3, <2>3, WriteFacts
  <2>5. CASE call[d].entry = call[c].entry
    <3>1. server'[call[d].entry] = call[c].after
      BY <1>3, <2>5, WriteFacts DEF Typed, Workspaces
    <3>2. WeeksOf(call[c].after, Absent) \subseteq Affected(c)
      BY DEF WeeksOf, Affected
    <3>. QED BY <2>2, <2>4, <3>1, <3>2
  <2>6. CASE call[d].entry # call[c].entry
    <3>1. server'[call[d].entry] = server[call[d].entry]
      BY <1>3, <2>6, WriteFacts DEF Typed, GoodCall, Workspaces
    <3>. QED BY <2>2, <2>4, <3>1 DEF StaleInv
  <2>. QED BY <2>5, <2>6
<1>4. ASSUME UNCHANGED <<server, call, gap>>
      PROVE  StaleInv'
  BY <1>4 DEF StaleInv, Affected
<1>. QED BY <1>2, <1>3, <1>4, ClientTyped, NextCases DEF vars, dataVars

-----------------------------------------------------------------------------
(* An emission and a URI that is not at hand.                              *)

LEMMA AsideKeepsSync ==
    ASSUME Typed, NEW c \in Call, EmitShape(c), NEW u \in Uri, ~AtHand(c, u), SyncAt(u)
    PROVE  SyncAt(u)'
<1>. PICK now : now = Now(u)
  OBVIOUS
<1>1. Now(u)' = now
  BY DEF EmitShape, Now
<1>2. Aside(c, u)
  BY DEF EmitShape
<1>3. ASSUME NEW docs, HeldIn(u, docs) PROVE HeldIn(u, docs)'
  <2>1. UNCHANGED <<hub, byNotifier>> /\ hub \subseteq Notifier
    BY DEF EmitShape, subVars, Typed, SubsInv, SubsTypeOK
  <2>. QED BY <1>2, <1>3, <2>1 DEF Aside, HeldIn
<1>4. ASSUME NEW docs, CachedIn(u, docs) PROVE CachedIn(u, docs)'
  BY <1>2, <1>4 DEF Aside, CachedIn
<1>5. \A d \in Call \ {c} : call'[d] = call[d]
  BY OneCall DEF EmitShape
<1>6. \A d \in Call : Owes(d, u)' <=> Owes(d, u)
  BY <1>2, <1>5 DEF Owes, Written, Aside, EmitShape
<1>7. ASSUME \A d \in Call : ~Owes(d, u)' PROVE Settled(u)'
  <2>1. CachedIn(u, {now}) /\ HeldIn(u, {now})
    BY <1>6, <1>7 DEF SyncAt, Settled
  <2>. QED BY <1>1, <1>3, <1>4, <2>1 DEF Settled, CachedIn, HeldIn
<1>8. ASSUME NEW d \in Call, Owes(d, u)' PROVE Underway(d, u)'
  <2>. PICK old : old = Before(d, u)
    OBVIOUS
  <2>1. Underway(d, u)
    BY <1>6, <1>8 DEF SyncAt
  <2>2. Before(d, u)' = old
    BY <1>5, <1>8 DEF EmitShape, Before, Owes, Written
  <2>3. HeldIn(u, {old, now})'
    BY <1>3, <2>1 DEF Underway
  <2>4. HeldIn(u, {Before(d, u), Now(u)})'
    BY <1>1, <2>2, <2>3 DEF HeldIn
  <2>5. CASE d = c
    <3>1. CachedIn(u, {old})'
      BY <1>4, <2>1, <2>5 DEF Underway
    <3>2. ~(AtHand(c, u)' /\ call'[c].pc # "emit")
      BY <1>2, <1>8, <2>5 DEF AtHand, Aside, Owes, Written
    <3>3. CachedIn(u, {Before(c, u)})'
      BY <2>2, <2>5, <3>1 DEF CachedIn
    <3>. QED BY <2>4, <2>5, <3>2, <3>3 DEF Underway
  <2>6. CASE d # c
    <3>1. AtHand(d, u)' = AtHand(d, u) /\ call'[d] = call[d]
      BY <1>5, <2>6 DEF AtHand
    <3>. PICK doc : doc = IF AtHand(d, u) /\ call[d].pc = "send" THEN now ELSE old
      OBVIOUS
    <3>2. CachedIn(u, {doc})'
      BY <1>4, <2>1 DEF Underway
    <3>3. CachedIn(u, {IF AtHand(d, u) /\ call[d].pc = "send" THEN Now(u) ELSE Before(d, u)})'
      BY <1>1, <2>2, <3>1, <3>2 DEF CachedIn
    <3>. QED BY <1>1, <2>1, <2>2, <2>4, <3>1, <3>3 DEF Underway
  <2>. QED BY <2>5, <2>6
<1>. QED BY <1>7, <1>8 DEF SyncAt

-----------------------------------------------------------------------------
(* An emission and the URI at hand.                                        *)

LEMMA AtHandFacts ==
    ASSUME Typed, AloneInv, NEW c \in Call, EmitShape(c),
           NEW u \in Uri, AtHand(c, u), u \notin gap, SyncAt(u)
    PROVE  /\ server[call[c].entry] = call[c].after
           /\ Owes(c, u) /\ Underway(c, u)
           /\ \A d \in Call \ {c} : ~Owes(d, u)'
<1>1. GoodCall(call[c]) /\ call[c].pc \in Emitting
  BY DEF Typed, EmitShape
<1>2. u \in UrisOf(call[c].todo) /\ u \in Affected(c)
  BY <1>1, HeadFacts DEF AtHand, AffectedBy, Affected
<1>3. \A d \in Call \ {c} : call'[d] = call[d]
  BY OneCall DEF EmitShape
<1>4. server[call[c].entry] = call[c].after /\ \A d \in Call \ {c} : ~Written(d)
  BY <1>1, <1>2 DEF AloneInv, Written
<1>. QED BY <1>1, <1>2, <1>3, <1>4 DEF Owes, Written, SyncAt

\* The step leaves the clients alone and the URI to be published.
LEMMA StillUnderway ==
    ASSUME Typed, AloneInv, NEW c \in Call, EmitShape(c), UNCHANGED <<copy, reading>>,
           NEW u \in Uri, AtHand(c, u), u \notin gap, SyncAt(u),
           call'[c].pc \in Emitting, u \in UrisOf(call'[c].todo),
           NEW old, old = Before(c, u), NEW now, now = Now(u),
           call'[c].pc = "send" => call'[c].todo = call[c].todo,
           \A i \in 1..Len(cache') : cache'[i].uri = u =>
              cache'[i].doc = IF call'[c].pc = "send" THEN now ELSE old,
           call'[c].pc \in {"get", "put"} => call'[c].doc = now,
           call'[c].pc = "put" => call'[c].prev \in {Absent, old},
           call'[c].pc = "send" /\ call'[c].format = "merge" =>
              call'[c].doc = now /\ call'[c].prev = old
    PROVE  SyncAt(u)'
<1>1. Now(u)' = now /\ Before(c, u)' = old
  BY DEF EmitShape, Now, Before
<1>2. Owes(c, u)' /\ \A d \in Call \ {c} : ~Owes(d, u)'
  BY AtHandFacts DEF Owes, Written
<1>3. HeldIn(u, {old, now})
  BY AtHandFacts DEF Underway
<1>4. HeldIn(u, {Before(c, u), Now(u)})'
  <2>1. UNCHANGED <<hub, byNotifier, copy, reading>>
    BY DEF EmitShape, subVars
  <2>. QED BY <1>1, <1>3, <2>1 DEF HeldIn
<1>5. call'[c].pc = "send" => AtHand(c, u)'
  BY DEF AtHand
<1>6. CachedIn(u, {IF AtHand(c, u) /\ call[c].pc = "send" THEN Now(u) ELSE Before(c, u)})'
  BY <1>1, <1>5 DEF CachedIn
<1>7. Underway(c, u)'
  BY <1>1, <1>4, <1>6 DEF Underway
<1>. QED BY <1>2, <1>7 DEF SyncAt

\* The step was the last at the URI.
LEMMA NowSettled ==
    ASSUME Typed, AloneInv, NEW c \in Call, EmitShape(c),
           NEW u \in Uri, AtHand(c, u), u \notin gap, SyncAt(u),
           u \notin UrisOf(call'[c].todo),
           NEW now, now = Now(u), CachedIn(u, {now})', HeldIn(u, {now})'
    PROVE  SyncAt(u)'
<1>1. Now(u)' = now
  BY DEF EmitShape, Now
<1>2. \A d \in Call : ~Owes(d, u)'
  BY AtHandFacts DEF Owes
<1>3. Settled(u)'
  BY <1>1 DEF Settled, CachedIn, HeldIn
<1>. QED BY <1>2, <1>3 DEF SyncAt

\* What a client has once it is told.
LEMMA UpdatedFacts ==
    ASSUME NEW x, NEW old, NEW now, NEW doc \in {old, now, Unknown},
           x.format \in {"none", "merge", "deleted"},
           x.format = "deleted" => now = Absent,
           x.format = "merge" => /\ x.doc = now /\ x.prev = old /\ now \in Document
    PROVE  Updated(doc, x) \in {now, Unknown}
<1>1. CASE x.format # "merge"
  BY <1>1 DEF Updated
<1>2. CASE x.format = "merge" /\ doc \in {Unknown, Absent}
  BY <1>2 DEF Updated
<1>3. CASE x.format = "merge" /\ doc \notin {Unknown, Absent}
  <2>1. now = Members(now) /\ \A k \in DOMAIN now : now[k] # Null
    BY <1>3, DocumentFacts
  <2>2. Updated(doc, x) = ApplyAny0(doc, DiffObjects0(old, now))
    BY <1>3 DEF Updated
  <2>3. ApplyAny0(old, DiffObjects0(old, now)) = now
    BY <2>1, FlatRoundTrip
  <2>4. ApplyAny0(now, DiffObjects0(old, now)) = now
    BY <2>1, FlatLate
  <2>. QED BY <1>3, <2>2, <2>3, <2>4
<1>. QED BY <1>1, <1>2, <1>3

LEMMA AtHandKeepsSync ==
    ASSUME Typed, AloneInv, NEW c \in Call, Emit(c),
           NEW u \in Uri, AtHand(c, u), u \notin gap', SyncAt(u)
    PROVE  SyncAt(u)'
<1>. DEFINE x == call[c]
<1>. PICK old, now : old = Before(c, u) /\ now = Now(u)
  OBVIOUS
<1>1. EmitShape(c) /\ u \notin gap
  BY EmitStep DEF EmitShape
<1>2. /\ server[x.entry] = x.after
      /\ Underway(c, u) /\ u \in UrisOf(x.todo)
      /\ x.todo # <<>> /\ Head(x.todo).uri = u /\ x.pc \in Emitting
  BY <1>1, AtHandFacts DEF AtHand, Owes, EmitShape
<1>3. GoodCall(x) /\ GoodCache(cache)
  BY DEF Typed
<1>4. /\ HeldIn(u, {old, now})
      /\ x.pc # "send" => CachedIn(u, {old})
      /\ x.pc = "send" => CachedIn(u, {now})
      /\ x.pc \in {"get", "put"} => x.doc = now
      /\ x.pc = "put" => x.prev \in {Absent, old}
      /\ x.pc = "send" /\ x.format = "merge" => x.doc = now /\ x.prev = old
  BY <1>2 DEF Underway, AtHand
\* What is published of an entry is what is upstream.
<1>5. u = x.entry => u \notin Week
  BY <1>2, <1>3, ResourceAssumption DEF GoodCall, Emitting
<1>6. u = x.entry => now = x.after
  BY <1>2, <1>5 DEF Now, ReadResource
<1>. HIDE DEF x
<1>7. CASE EmitWeekly(c)
  <2>1. /\ call'[c].pc = "emit" /\ u \in UrisOf(call'[c].todo) /\ x.pc = "emit"
        /\ \A i \in 1..Len(cache') : \E j \in 1..Len(cache) : cache'[i] = cache[j]
        /\ UNCHANGED <<copy, reading>>
    BY <1>2, <1>7, EmitWeeklyShape DEF x, EmitWeekly
  <2>2. \A i \in 1..Len(cache') : cache'[i].uri = u => cache'[i].doc = old
    BY <1>4, <2>1 DEF CachedIn
  <2>. QED BY <1>1, <2>1, <2>2, StillUnderway DEF Emitting
<1>8. CASE Gate(c)
  <2>1. /\ UNCHANGED cache /\ call'[c].todo = x.todo /\ call'[c].pc \in {"get", "fetch"}
        /\ call'[c].pc = "get" => u = x.entry /\ call'[c].doc = x.after
        /\ UNCHANGED <<copy, reading>> /\ x.pc = "emit"
    BY <1>2, <1>8, GateShape DEF x, Gate
  <2>2. \A i \in 1..Len(cache') : cache'[i].uri = u => cache'[i].doc = old
    BY <1>4, <2>1 DEF CachedIn
  <2>. QED BY <1>1, <1>2, <1>6, <2>1, <2>2, StillUnderway DEF Emitting
<1>9. CASE GateClosed(c)
  <2>1. /\ UNCHANGED <<cache, copy, reading>> /\ ~HasAnyURI(u) /\ ~Cached(u)
        /\ call'[c].todo = Tail(x.todo)
    BY <1>2, <1>9, GateClosedShape DEF x, GateClosed, Typed, CallStates
  <2>2. u \notin UrisOf(call'[c].todo)
    BY <1>2, <1>3, <2>1, TailFacts DEF GoodCall, GoodTodo, CallStates
  <2>3. CachedIn(u, {now})'
    BY <2>1 DEF Cached, CachedIn
  <2>4. HeldIn(u, {now})'
    <3>1. \A n \in hub : u \notin byNotifier[n]
      BY <2>1, HolderIsCounted DEF Typed, SubsInv, SubsTypeOK, Subscriber
    <3>. QED BY <1>1, <3>1 DEF EmitShape, subVars, HeldIn
  <2>. QED BY <1>1, <2>2, <2>3, <2>4, NowSettled
<1>10. CASE EmitDeleted(c)
  <2>1. /\ call'[c].todo = x.todo /\ call'[c].pc = "send" /\ call'[c].format = "deleted"
        /\ \A i \in 1..Len(cache') : cache'[i].uri # u
        /\ UNCHANGED <<copy, reading>>
    BY <1>2, <1>10, EmitDeletedShape DEF x, EmitDeleted
  <2>. QED BY <1>1, <1>2, <2>1, StillUnderway DEF Emitting, x
<1>11. CASE Fetch(c)
  <2>1. /\ UNCHANGED cache /\ call'[c].todo = x.todo /\ call'[c].pc = "get"
        /\ call'[c].doc = now /\ UNCHANGED <<copy, reading>> /\ x.pc = "fetch"
    BY <1>2, <1>11, FetchShape DEF x, Fetch, Now
  <2>2. \A i \in 1..Len(cache') : cache'[i].uri = u => cache'[i].doc = old
    BY <1>4, <2>1 DEF CachedIn
  <2>. QED BY <1>1, <1>2, <2>1, <2>2, StillUnderway DEF Emitting
<1>12. CASE FetchFails(c)
  <2>1. /\ call'[c].todo = x.todo /\ call'[c].pc = "send" /\ call'[c].format = "none"
        /\ \A i \in 1..Len(cache') : cache'[i].uri # u
        /\ UNCHANGED <<copy, reading>>
    BY <1>2, <1>12, FetchFailsShape DEF x, FetchFails
  <2>. QED BY <1>1, <1>2, <2>1, StillUnderway DEF Emitting, x
<1>13. CASE CacheGet(c)
  <2>1. /\ call'[c].todo = x.todo /\ call'[c].pc = "put" /\ call'[c].doc = x.doc
        /\ call'[c].prev = Lookup(u)
        /\ \A i \in 1..Len(cache') : \E j \in 1..Len(cache) : cache'[i] = cache[j]
        /\ UNCHANGED <<copy, reading>> /\ x.pc = "get"
    BY <1>2, <1>13, CacheGetShape DEF x, CacheGet
  <2>2. \A i \in 1..Len(cache') : cache'[i].uri = u => cache'[i].doc = old
    BY <1>4, <2>1 DEF CachedIn
  <2>3. call'[c].prev \in {Absent, old}
    BY <1>3, <1>4, <2>1, LookupFacts DEF CachedIn
  <2>. QED BY <1>1, <1>2, <1>4, <2>1, <2>2, <2>3, StillUnderway DEF Emitting
<1>14. CASE CachePut(c)
  <2>1. /\ call'[c].todo = x.todo /\ call'[c].pc = "send" /\ call'[c].doc = x.doc
        /\ call'[c].prev = x.prev
        /\ call'[c].format = IF x.prev = Absent THEN "none" ELSE "merge"
        /\ \A i \in 1..Len(cache') : cache'[i].uri = u => cache'[i].doc = x.doc
        /\ UNCHANGED <<copy, reading>> /\ x.pc = "put"
    BY <1>2, <1>14, CachePutShape DEF x, CachePut
  <2>2. call'[c].format = "merge" => call'[c].doc = now /\ call'[c].prev = old
    BY <1>4, <2>1
  <2>. QED BY <1>1, <1>2, <1>4, <2>1, <2>2, StillUnderway DEF Emitting, x
<1>15. CASE Send(c)
  <2>1. /\ UNCHANGED cache /\ u \notin UrisOf(call'[c].todo) /\ x.pc = "send"
        /\ UNCHANGED <<hub, byNotifier>>
    BY <1>1, <1>2, <1>15, SendShape DEF x, Send, EmitShape, subVars
  <2>2. CachedIn(u, {now})'
    BY <1>4, <2>1 DEF CachedIn
  <2>3. /\ x.format \in {"none", "merge", "deleted"}
        /\ x.format = "deleted" => now = Absent
        /\ x.format = "merge" => x.doc = now /\ x.prev = old /\ now \in Document
    <3>1. x.format = "deleted" => u = x.entry /\ x.after = Absent
      BY <1>2, <1>3, <2>1, HeadFacts DEF GoodCall
    <3>. QED BY <1>3, <1>4, <1>6, <2>1, <3>1 DEF GoodCall, CallStates
  <2>4. ASSUME NEW n \in hub, u \in byNotifier[n]
        PROVE  /\ copy'[n][u] \in {now, Unknown}
               /\ reading'[n].uri = u => reading'[n].doc \in {now, Unknown}
    <3>1. n \in Notifier /\ n \in TargetsFor(u)
      <4>1. n \in Subscriber /\ n \in Notifier
        BY DEF Typed, SubsInv, SubsTypeOK, Subscriber
      <4>2. HasAnyURI(u)
        BY <2>4, <4>1, HolderIsCounted DEF Typed, SubsInv
      <4>. QED BY <2>4, <4>1, <4>2 DEF HasAnyURI, TargetsFor
    <3>2. copy[n][u] \in {old, now, Unknown}
      BY <1>4, <2>4 DEF HeldIn
    <3>3. Updated(copy[n][u], x) \in {now, Unknown}
      BY <2>3, <3>2, UpdatedFacts
    <3>4. copy'[n][u] = Updated(copy[n][u], x)
      BY <1>2, <1>15, <3>1 DEF Send, Typed, x
    <3>5. reading'[n].uri = u => reading'[n].doc = Unknown
      <4>1. reading[n] \in [uri : Uri \cup {Absent}, doc : Document \cup {Absent, Unknown}]
        BY <3>1 DEF Typed
      <4>2. reading'[n] = IF reading[n].uri = u THEN [reading[n] EXCEPT !.doc = Unknown]
                          ELSE reading[n]
        BY <1>2, <1>15, <3>1 DEF Send, x
      <4>. QED BY <4>1, <4>2
    <3>. QED BY <3>3, <3>4, <3>5
  <2>5. HeldIn(u, {now})'
    BY <2>1, <2>4 DEF HeldIn
  <2>. QED BY <1>1, <2>1, <2>2, <2>5, NowSettled
<1>16. ~Finish(c)
  BY <1>2 DEF Finish, x
<1>. QED BY <1>7, <1>8, <1>9, <1>10, <1>11, <1>12, <1>13, <1>14, <1>15, <1>16 DEF Emit

-----------------------------------------------------------------------------
(* The clients.  What they take up themselves is the document upstream.    *)

LEMMA ClientHolds ==
    ASSUME Typed, HubOK, ClientStep, NEW u \in Uri,
           NEW docs, Now(u) \in docs, HeldIn(u, docs)
    PROVE  HeldIn(u, docs)'
<1>. DEFINE good(n) == /\ copy'[n][u] \in docs \cup {Unknown}
                       /\ reading'[n].uri = u => reading'[n].doc \in docs \cup {Unknown}
<1>. SUFFICES ASSUME NEW n \in hub', u \in byNotifier'[n]
              PROVE  good(n)
  BY DEF HeldIn
<1>1. u \in byNotifier[n] /\ n \in hub => /\ copy[n][u] \in docs \cup {Unknown}
                                          /\ reading[n].uri = u => reading[n].doc \in docs \cup {Unknown}
  BY DEF HeldIn
<1>2. hub \subseteq Notifier /\ Broadcast \notin Notifier /\ byNotifier \in [Subscriber -> SUBSET Uri]
  BY NotifierAssumption DEF Typed, SubsInv, SubsTypeOK
<1>3. NoRead.uri # u
  BY ResourceAssumption DEF NoRead
<1>4. ASSUME NEW p \in Interest, Subscribe(p[1], p[2]) \/ Unsubscribe(p[1], p[2])
      PROVE  good(n)
  <2>. PICK s \in Subscriber, v \in Uri : s = p[1] /\ v = p[2]
    BY ResourceAssumption
  <2>1. UNCHANGED <<hub, reading>> /\ (s \in Notifier => reading[s] = NoRead)
    BY <1>4 DEF Subscribe, Unsubscribe, AddSubscription, RemoveSubscription, Reading
  <2>2. n \in Notifier /\ n \in hub
    BY <1>2, <2>1
  <2>3. CASE Subscribe(s, v)
    <3>1. byNotifier' = [byNotifier EXCEPT ![s] = @ \cup {v}]
      BY <2>3 DEF Subscribe, AddSubscription
    <3>2. CASE s = n /\ v = u
      <4>1. copy'[n][u] = Unknown
        BY <2>2, <2>3, <3>2 DEF Subscribe, Typed
      <4>. QED BY <1>3, <2>1, <2>2, <3>2, <4>1
    <3>3. CASE ~(s = n /\ v = u)
      <4>1. u \in byNotifier[n]
        BY <1>2, <2>2, <3>1, <3>3 DEF Subscriber
      <4>2. copy'[n][u] = copy[n][u]
        BY <2>2, <2>3, <3>3 DEF Subscribe, Typed
      <4>. QED BY <1>1, <2>1, <2>2, <4>1, <4>2
    <3>. QED BY <3>2, <3>3
  <2>4. CASE Unsubscribe(s, v)
    <3>1. /\ byNotifier' = [byNotifier EXCEPT ![s] = @ \ {v}] /\ UNCHANGED copy
      BY <2>4 DEF Unsubscribe, RemoveSubscription
    <3>2. u \in byNotifier[n]
      BY <1>2, <2>2, <3>1 DEF Subscriber
    <3>. QED BY <1>1, <2>1, <2>2, <3>1, <3>2
  <2>. QED BY <1>4, <2>3, <2>4
<1>5. ASSUME NEW m \in Notifier, NEW v \in Uri, StartRead(m, v)
      PROVE  good(n)
  <2>1. /\ UNCHANGED <<hub, byNotifier, copy>>
        /\ reading' = [reading EXCEPT ![m] = [uri |-> v, doc |-> Now(v)]]
    BY <1>5 DEF StartRead, subVars, Now
  <2>2. n \in Notifier /\ n \in hub /\ u \in byNotifier[n]
    BY <1>2, <2>1
  <2>3. CASE m = n
    <3>1. reading'[n] = [uri |-> v, doc |-> Now(v)]
      BY <2>1, <2>2, <2>3 DEF Typed
    <3>. QED BY <1>1, <2>1, <2>2, <3>1
  <2>4. CASE m # n
    <3>1. reading'[n] = reading[n]
      BY <2>1, <2>2, <2>4 DEF Typed
    <3>. QED BY <1>1, <2>1, <2>2, <3>1
  <2>. QED BY <2>3, <2>4
<1>6. ASSUME NEW m \in Notifier, EndRead(m)
      PROVE  good(n)
  <2>1. /\ UNCHANGED <<hub, byNotifier>>
        /\ reading' = [reading EXCEPT ![m] = NoRead]
        /\ copy' = [copy EXCEPT ![m][reading[m].uri] = reading[m].doc]
    BY <1>6 DEF EndRead, subVars
  <2>2. n \in Notifier /\ n \in hub /\ u \in byNotifier[n]
    BY <1>2, <2>1
  <2>3. reading'[n] = reading[n] \/ reading'[n] = NoRead
    BY <2>1, <2>2 DEF Typed
  <2>4. copy'[n][u] = copy[n][u] \/ (reading[n].uri = u /\ copy'[n][u] = reading[n].doc)
    <3>1. CASE m = n /\ reading[n].uri = u
      BY <2>1, <2>2, <3>1 DEF Typed
    <3>2. CASE ~(m = n /\ reading[n].uri = u)
      BY <2>1, <2>2, <3>2 DEF Typed
    <3>. QED BY <3>1, <3>2
  <2>. QED BY <1>1, <1>3, <2>2, <2>3, <2>4
<1>7. ASSUME Streams
      PROVE  good(n)
  <2>1. UNCHANGED <<copy, reading>>
    BY <1>7 DEF Streams
  <2>2. PICK m \in Notifier : AddNotifier(m) \/ RemoveNotifier(m) \/ DropNotifier(m)
    BY <1>7 DEF Streams
  <2>3. u \in byNotifier[n] /\ n \in hub
    <3>1. CASE AddNotifier(m)
      BY <3>1 DEF AddNotifier, HubOK
    <3>2. CASE RemoveNotifier(m)
      BY <3>2 DEF RemoveNotifier
    <3>3. CASE DropNotifier(m)
      BY <1>2, <3>3 DEF DropNotifier, Subscriber
    <3>. QED BY <2>2, <3>1, <3>2, <3>3
  <2>. QED BY <1>1, <2>1, <2>3
<1>. QED BY <1>4, <1>5, <1>6, <1>7 DEF ClientStep

LEMMA ClientKeepsSync ==
    ASSUME Typed, HubOK, ClientStep, NEW u \in Uri, SyncAt(u)
    PROVE  SyncAt(u)'
<1>. PICK now : now = Now(u)
  OBVIOUS
<1>1. UNCHANGED <<server, cache, call, gap>>
  BY ClientTyped
<1>2. Now(u)' = now /\ \A d \in Call : Owes(d, u)' <=> Owes(d, u)
  BY <1>1 DEF Now, Owes, Written
<1>3. ASSUME \A d \in Call : ~Owes(d, u)' PROVE Settled(u)'
  <2>1. CachedIn(u, {now}) /\ HeldIn(u, {now})
    BY <1>2, <1>3 DEF SyncAt, Settled
  <2>2. HeldIn(u, {now})'
    BY <2>1, ClientHolds
  <2>. QED BY <1>1, <1>2, <2>1, <2>2 DEF Settled, CachedIn, HeldIn
<1>4. ASSUME NEW d \in Call, Owes(d, u)' PROVE Underway(d, u)'
  <2>. PICK old : old = Before(d, u)
    OBVIOUS
  <2>1. Underway(d, u) /\ HeldIn(u, {old, now})
    BY <1>2, <1>4 DEF SyncAt, Underway
  <2>2. HeldIn(u, {old, now})'
    BY <2>1, ClientHolds
  <2>3. Before(d, u)' = old /\ AtHand(d, u)' = AtHand(d, u)
    BY <1>1 DEF Before, AtHand
  <2>4. HeldIn(u, {Before(d, u), Now(u)})'
    BY <1>2, <2>2, <2>3 DEF HeldIn
  <2>5. CachedIn(u, {IF AtHand(d, u) /\ call[d].pc = "send" THEN Now(u) ELSE Before(d, u)})'
    BY <1>1, <1>2, <2>1, <2>3 DEF CachedIn, Underway
  <2>. QED BY <1>1, <1>2, <2>1, <2>3, <2>4, <2>5 DEF Underway
<1>. QED BY <1>3, <1>4 DEF SyncAt

-----------------------------------------------------------------------------
(* The mutation itself.                                                    *)

LEMMA WriteKeepsSync ==
    ASSUME IInv, NEW c \in Call, NEW quiet \in BOOLEAN, Write(c, quiet),
           NEW u \in Uri \ gap'
    PROVE  SyncAt(u)'
<1>. DEFINE e == call[c].entry
            b == call[c].before
            a == call[c].after
<1>. PICK now : now = Now(u)
  OBVIOUS
<1>1. /\ Typed /\ StaleInv /\ u \notin gap /\ SyncAt(u)
      /\ call[c].pc = "write" /\ e \in Entry /\ UNCHANGED <<subVars, cache, copy, reading>>
      /\ server' = [server EXCEPT ![e] = a] /\ server \in Workspaces /\ server' \in Workspaces
      /\ \A d \in Call \ {c} : call'[d] = call[d]
  BY WriteFacts, OneCall DEF IInv, SyncInv, Typed
<1>2. server'[e] = a /\ \A d \in Entry \ {e} : server'[d] = server[d]
  BY <1>1 DEF Workspaces
<1>3. ~Written(c)
  BY <1>1 DEF Written, Emitting
\* Another call in flight and what it changes are in gap.
<1>4. \A d \in Call \ {c} : InFlight(d) => u \notin Affected(d) /\ Affected(c) \subseteq gap'
  <2>1. \A d \in Call \ {c} : InFlight(d) => Affected(d) \subseteq Mixed(c) /\ Affected(d) # {}
    BY DEF Mixed, Affected
  <2>. QED BY <2>1, WriteFacts DEF IInv
<1>5. \A d \in Call : ~Owes(d, u)
  <2>. SUFFICES ASSUME NEW d \in Call, Owes(d, u) PROVE FALSE
    OBVIOUS
  <2>1. GoodCall(call[d]) /\ Written(d) /\ d # c
    BY <1>1, <1>3 DEF Owes, Typed
  <2>2. u \in Affected(d) /\ InFlight(d)
    BY <2>1 DEF Owes, Written, GoodCall, GoodTodo, AffectedBy, Affected, InFlight, Emitting
  <2>. QED BY <1>4, <2>1, <2>2
<1>6. CachedIn(u, {now}) /\ HeldIn(u, {now})
  BY <1>1, <1>5 DEF SyncAt, Settled
<1>7. CachedIn(u, {now})' /\ HeldIn(u, {now})'
  BY <1>1, <1>6 DEF CachedIn, HeldIn, subVars
<1>8. CASE u \notin Affected(c)
  <2>1. u \notin WeeksOf(server[e], a)
    BY <1>1, <1>8 DEF StaleInv, WeeksOf, Affected
  <2>2. Now(u)' = now
    <3>. PICK s \in Workspaces, t \in Workspaces, d \in Entry :
            s = server /\ t = server' /\ d = e
      BY <1>1
    <3>1. /\ \A f \in Entry \ {d} : s[f] = t[f]
          /\ u \in Uri /\ u # d /\ u \notin WeeksOf(s[d], t[d])
      BY <1>2, <1>8, <2>1 DEF Affected
    <3>2. ReadResource(s, u) = ReadResource(t, u)
      BY <3>1, ReadUnchanged
    <3>. QED BY <3>2 DEF Now
  <2>3. ~Owes(c, u)'
    BY <1>1, <1>8, WriteFacts DEF IInv, Owes, Written, Emitting
  <2>4. \A d \in Call : ~Owes(d, u)'
    BY <1>1, <1>5, <2>3 DEF Owes, Written
  <2>5. Settled(u)'
    BY <1>7, <2>2 DEF Settled, CachedIn, HeldIn
  <2>. QED BY <2>4, <2>5 DEF SyncAt
<1>9. CASE u \in Affected(c)
  <2>1. /\ ~quiet /\ call'[c].pc = "emit" /\ UrisOf(call'[c].todo) = Affected(c)
        /\ call'[c].entry = e /\ call'[c].before = b
    BY <1>1, <1>9, WriteFacts DEF IInv
  <2>2. Owes(c, u)' /\ \A d \in Call \ {c} : ~Owes(d, u)'
    BY <1>1, <1>5, <1>9, <2>1 DEF Owes, Written, Emitting
  <2>3. server[e] = b
    BY <1>1, <1>9 DEF StaleInv
  <2>4. [server' EXCEPT ![e] = b] = server
    BY <1>1, <1>2, <2>3 DEF Workspaces
  <2>5. Before(c, u)' = now
    BY <2>1, <2>4 DEF Before, Now
  <2>6. HeldIn(u, {Before(c, u), Now(u)})'
    BY <1>7, <2>5 DEF HeldIn
  <2>7. CachedIn(u, {IF AtHand(c, u) /\ call[c].pc = "send" THEN Now(u) ELSE Before(c, u)})'
    BY <1>7, <2>1, <2>5 DEF CachedIn
  <2>8. Underway(c, u)'
    BY <2>1, <2>6, <2>7 DEF Underway
  <2>. QED BY <2>2, <2>8 DEF SyncAt
<1>. QED BY <1>8, <1>9

LEMMA SyncStep ==
    ASSUME IInv, [Next]_vars
    PROVE  SyncInv'
<1>. SUFFICES ASSUME NEW u \in Uri \ gap' PROVE SyncAt(u)'
  BY DEF SyncInv
<1>0. Typed /\ HubOK /\ AloneInv /\ (u \notin gap => SyncAt(u))
  BY DEF IInv, SyncInv
<1>1. ASSUME UNCHANGED <<subVars, server, cache, copy, reading, gap>>,
             \A d \in Call : Written(d)' <=> Written(d),
             \A d \in Call : Written(d) => call'[d] = call[d]
      PROVE  SyncAt(u)'
  <2>1. SyncAt(u)
    BY <1>0, <1>1
  <2>2. \A d \in Call : Owes(d, u)' <=> Owes(d, u)
    BY <1>1 DEF Owes
  <2>3. Settled(u)' <=> Settled(u)
    BY <1>1 DEF Settled, CachedIn, HeldIn, Now, subVars
  <2>4. ASSUME NEW d \in Call, Owes(d, u) PROVE Underway(d, u)'
    <3>1. Underway(d, u) /\ call'[d] = call[d]
      BY <1>1, <2>1, <2>4 DEF SyncAt, Owes
    <3>2. /\ Before(d, u)' = Before(d, u) /\ Now(u)' = Now(u)
          /\ AtHand(d, u)' = AtHand(d, u)
      BY <1>1, <3>1 DEF Before, Now, AtHand
    <3>3. HeldIn(u, {Before(d, u), Now(u)})'
      BY <1>1, <3>1, <3>2 DEF Underway, HeldIn, subVars
    <3>4. CachedIn(u, {IF AtHand(d, u) /\ call[d].pc = "send" THEN Now(u) ELSE Before(d, u)})'
      BY <1>1, <3>1, <3>2 DEF Underway, CachedIn
    <3>. QED BY <3>1, <3>2, <3>3, <3>4 DEF Underway
  <2>. QED BY <2>1, <2>2, <2>3, <2>4 DEF SyncAt
<1>2. ASSUME NEW c \in Call, StartCall(c)
      PROVE  SyncAt(u)'
  <2>1. /\ call[c].pc = "idle" /\ call'[c].pc = "write"
        /\ \A d \in Call \ {c} : call'[d] = call[d]
        /\ UNCHANGED <<subVars, server, cache, copy, reading, gap>>
    BY <1>0, <1>2, StartCallFacts, OneCall
  <2>. QED BY <1>1, <2>1 DEF Written, Emitting
<1>3. ASSUME NEW c \in Call, WriteRefused(c)
      PROVE  SyncAt(u)'
  <2>1. /\ call[c].pc = "write" /\ call'[c].pc = "done"
        /\ \A d \in Call \ {c} : call'[d] = call[d]
        /\ UNCHANGED <<subVars, server, cache, copy, reading, gap>>
    BY <1>0, <1>3, DoneIsGood, OneCall DEF WriteRefused
  <2>. QED BY <1>1, <2>1 DEF Written, Emitting
<1>4. ASSUME NEW c \in Call, Emit(c)
      PROVE  SyncAt(u)'
  <2>1. EmitShape(c) /\ SyncAt(u)
    BY <1>0, <1>4, EmitStep DEF EmitShape
  <2>. QED BY <1>0, <1>4, <2>1, AsideKeepsSync, AtHandKeepsSync
<1>5. ASSUME NEW c \in Call, NEW quiet \in BOOLEAN, Write(c, quiet)
      PROVE  SyncAt(u)'
  BY <1>5, WriteKeepsSync
<1>6. ASSUME ClientStep
      PROVE  SyncAt(u)'
  <2>1. UNCHANGED gap
    BY <1>0, <1>6, ClientTyped
  <2>. QED BY <1>0, <1>6, <2>1, ClientKeepsSync
<1>7. ASSUME UNCHANGED vars
      PROVE  SyncAt(u)'
  BY <1>1, <1>7 DEF vars, dataVars, Written
<1>. QED BY <1>2, <1>3, <1>4, <1>5, <1>6, <1>7, NextCases

LEMMA IInvInitially ==
    ASSUME Init
    PROVE  IInv
<1>1. Typed
  BY TypedInitially
<1>2. HubOK
  BY DEF Init, SubsInit, HubOK, Subscriber
<1>3. \A c \in Call : call[c].pc = "idle"
  BY DEF Init, Idle
<1>4. AloneInv /\ StaleInv
  BY <1>3 DEF AloneInv, StaleInv, Written, Emitting
<1>5. SyncInv
  <2>. SUFFICES ASSUME NEW u \in Uri PROVE SyncAt(u)
    BY DEF SyncInv
  <2>1. \A c \in Call : ~Owes(c, u)
    BY <1>3 DEF Owes, Written, Emitting
  <2>2. Settled(u)
    BY DEF Init, SubsInit, Settled, CachedIn, HeldIn
  <2>. QED BY <2>1, <2>2 DEF SyncAt
<1>. QED BY <1>1, <1>2, <1>4, <1>5 DEF IInv

LEMMA IInvStep ==
    ASSUME IInv, [Next]_vars
    PROVE  IInv'
BY TypedStep, HubStep, AloneStep, StaleStep, SyncStep DEF IInv

(* A client that applies every delta it is sent has, once the server is    *)
(* quiet, what a read would give it, for any number of clients, calls,     *)
(* entries and weeks, any capacity of the cache and any documents, unless  *)
(* an emission of the URI was lost or mixed up (resources.go, emission).   *)
THEOREM InSync == Spec => []SettledInSync
<1>1. Init => IInv
  BY IInvInitially
<1>2. IInv /\ [Next]_vars => IInv'
  BY IInvStep
<1>3. IInv => SettledInSync
  <2>. SUFFICES ASSUME IInv, NEW n \in hub, NEW u \in byNotifier[n] \ gap,
                       Quiet(n), copy[n][u] # Unknown
                PROVE  copy[n][u] = ReadResource(server, u)
    BY DEF SettledInSync
  <2>1. u \in Uri
    BY DEF IInv, Typed, SubsInv, SubsTypeOK, Subscriber
  <2>2. \A c \in Call : ~Owes(c, u)
    BY DEF Quiet, InFlight, Owes, Written, Emitting
  <2>3. HeldIn(u, {Now(u)})
    BY <2>1, <2>2 DEF IInv, SyncInv, SyncAt, Settled
  <2>. QED BY <2>3 DEF HeldIn, Now
<1>. QED BY <1>1, <1>2, <1>3, PTL DEF Spec

(* The deltas themselves are right, whatever the documents (merge_patch.go,*)
(* DiffOrFull and Apply).                                                  *)
THEOREM DeltasRoundTrip == Spec => []DeltaRoundTrips
<1>1. DeltaRoundTrips
  BY RoundTrip DEF DeltaRoundTrips
<1>. QED BY <1>1, PTL
=============================================================================
