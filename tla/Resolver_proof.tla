---------------------------- MODULE Resolver_proof ----------------------------
(***************************************************************************)
(* What a resolved name is worth, for any lifetime, page size and number   *)
(* of callers, objects and names, whatever searches list besides them.     *)
(***************************************************************************)
EXTENDS Resolver, FiniteSetTheorems, TLAPS

\* Whom upstream lists, and who matches, when the names are nm.
ListedBy(nm, n) == {o \in Object : nm[o] \in Lists[n]}
BearersBy(nm, n) == {o \in Object : nm[o] = n}

\* An id that rests on a sighting: it was a bearer then, and the only one if the
\* rows of the search stayed in their places.
RestsOn(o, seen) == o \in seen.bearers /\ (seen.steady => seen.bearers = {o})

\* A cached id rests on what was seen, and expires in time.
EntryInv ==
    \A n \in Name : entries[n] # None =>
        /\ n \notin Email
        /\ RestsOn(entries[n].id, entries[n].seen)
        /\ entries[n].expires <= entries[n].seen.at + TTL

\* What a search has matched so far bore the name when it was read.
MatchOf(x) ==
    /\ x.count > 0 => x.seen.bearers # {}
    /\ x.count = 1 => x.first \in Object /\ x.first \in x.seen.bearers
    /\ ~x.seen.steady => x.read = {}

\* While its rows stay in their places, a search has counted exactly the bearers
\* among them.
TallyOf(x, nm) ==
    x.seen.steady =>
        /\ x.read \subseteq ListedBy(nm, x.name)
        /\ x.count = Cardinality(x.read \cap BearersBy(nm, x.name))
        /\ x.count = 1 => x.read \cap BearersBy(nm, x.name) = {x.first}

\* A search between two pages.
SearchOf(x, t, nm) ==
    x.pc = "search" =>
        /\ x.start <= t /\ x.outcome = None
        /\ MatchOf(x) /\ TallyOf(x, nm)
        /\ x.page = 1 => x.count = 0 /\ x.read = {} /\ x.seen.steady
        /\ x.page # 1 => x.seen.at >= x.start
        /\ x.page # 1 /\ x.seen.steady => x.seen.bearers = BearersBy(nm, x.name)
        /\ x.seen.steady => Cardinality(x.read) = (x.page - 1) * PageSize

GetOf(x, t) ==
    x.pc = "get" => /\ x.start <= t /\ x.outcome = None /\ x.read = {} /\ x.seen = Nothing
                    /\ x.page = 1 /\ x.count = 0 /\ x.name \notin Email

StoreOf(x) ==
    x.pc = "store" => /\ x.name \notin Email /\ x.outcome \in Object
                      /\ RestsOn(x.outcome, x.seen) /\ x.seen.at >= x.start

AnswerOf(x) ==
    x.outcome \in Object =>
        /\ RestsOn(x.outcome, x.seen)
        /\ x.start < x.seen.at + IF x.name \in Email THEN 1 ELSE TTL

\* "not found" and "several", as far as they can be relied on.
Refuses(verdict, seen) ==
    /\ verdict = "none" /\ seen.steady => seen.bearers = {}
    /\ verdict = "several" => seen.bearers # {}
    /\ verdict = "several" /\ seen.steady => \A o \in Object : seen.bearers # {o}

RefusalOf(x) ==
    x.outcome \in {"none", "several"} => Refuses(x.outcome, x.seen) /\ x.seen.at >= x.start

CallOf(x, t, nm) ==
    SearchOf(x, t, nm) /\ GetOf(x, t) /\ StoreOf(x) /\ AnswerOf(x) /\ RefusalOf(x)

CallInv == \A c \in Caller : CallOf(call[c], now, named)

IInv == TypeOK /\ EntryInv /\ CallInv

-----------------------------------------------------------------------------
(* Pages.                                                                  *)

LEMMA NoRowsRead == IsFiniteSet({}) /\ Cardinality({}) = 0
BY FS_EmptySet

LEMMA RowsFinite ==
    ASSUME NEW R \in SUBSET Object
    PROVE  IsFiniteSet(R) /\ Cardinality(R) \in Nat
BY NameAssumption, FS_Subset, FS_CardinalityType

\* Two lots of rows without a common one.
LEMMA RowsAdd ==
    ASSUME NEW R \in SUBSET Object, NEW S \in SUBSET Object, R \cap S = {}
    PROVE  Cardinality(R \cup S) = Cardinality(R) + Cardinality(S)
<1>1. Cardinality(R \cup S) = Cardinality(R) + Cardinality(S) - Cardinality(R \cap S)
  BY RowsFinite, FS_Union
<1>2. Cardinality(R \cap S) = 0
  BY NoRowsRead
<1>3. Cardinality(R) \in Nat /\ Cardinality(S) \in Nat
  BY RowsFinite
<1>. QED BY <1>1, <1>2, <1>3

\* A page that comes right behind the pages before it: if it is full, so many
\* rows have been read; if it is not, all.
LEMMA PagesAddUp ==
    ASSUME NEW k \in Nat \ {0}, NEW L \in SUBSET Object, NEW R \in SUBSET L,
           Cardinality(R) = (k - 1) * PageSize,
           NEW B \in SUBSET (L \ R), Cardinality(B) = RowsOn(k, Cardinality(L))
    PROVE  /\ Cardinality(B) < PageSize => R \cup B = L
           /\ Cardinality(B) >= PageSize => Cardinality(R \cup B) = k * PageSize
<1>. DEFINE m == (k - 1) * PageSize
            total == Cardinality(L)
<1>1. m \in Nat /\ k * PageSize = m + PageSize /\ PageSize \in Nat /\ PageSize > 0
  BY PageAssumption
<1>2. Cardinality(B) = IF total <= m THEN 0
                       ELSE IF total >= m + PageSize THEN PageSize ELSE total - m
  BY <1>1 DEF RowsOn
<1>3. Cardinality(R \cup B) = m + Cardinality(B)
  BY RowsAdd
<1>4. total \in Nat /\ IsFiniteSet(L) /\ Cardinality(B) \in Nat /\ Cardinality(R \cup B) \in Nat
  BY RowsFinite
<1>. HIDE DEF m
<1>5. R \cup B \in SUBSET L
  OBVIOUS
<1>6. Cardinality(R \cup B) <= total
  BY <1>4, <1>5, FS_Subset
<1>7. Cardinality(B) < PageSize => Cardinality(R \cup B) = total
  BY <1>1, <1>2, <1>3, <1>4, <1>6
<1>8. Cardinality(R \cup B) = total => R \cup B = L
  BY <1>4, <1>5, FS_Subset
<1>9. Cardinality(B) >= PageSize => Cardinality(B) = PageSize
  BY <1>1, <1>2, <1>4
<1>. QED BY <1>1, <1>3, <1>7, <1>8, <1>9

-----------------------------------------------------------------------------
(* Searches.                                                               *)

LEMMA OverKeeps ==
    ASSUME NEW x \in Calling, NEW t \in 0..MaxTime, NEW nm, NEW next \in {"store", "done"},
           NEW b \in Object \cup {"none", "several", "failed"},
           b \in Object => RestsOn(b, x.seen),
           b \in {"none", "several"} => Refuses(b, x.seen),
           b = "failed" \/ x.seen.at >= x.start,
           next = "store" => b \in Object /\ x.name \notin Email
    PROVE  Over(x, next, b) \in Calling /\ CallOf(Over(x, next, b), t, nm)
<1>. DEFINE y == Over(x, next, b)
<1>1. /\ y.pc = next /\ y.name = x.name /\ y.start = x.start
      /\ y.outcome = b /\ y.seen = x.seen
  BY DEF Over
<1>2. y \in Calling
  <2>1. /\ x.name \in Name /\ x.start \in 0..MaxTime /\ x.seen \in Sighting
        /\ b \in Object \cup {"none", "several", "failed", None}
    BY DEF Calling
  <2>2. y = [pc |-> next, name |-> x.name, start |-> x.start, page |-> 1, count |-> 0,
             first |-> None, outcome |-> b, read |-> {}, seen |-> x.seen]
    BY DEF Over
  <2>. HIDE DEF y
  <2>. QED BY <2>1, <2>2 DEF Calling
<1>3. x.seen.at \in Int /\ x.start \in Int /\ TTL \in Int /\ TTL > 0
  BY PageAssumption DEF Calling, Sighting
<1>4. b = "failed" => b \notin Object /\ b \notin {"none", "several"}
  BY NameAssumption
<1>5. b \in Object => x.start < x.seen.at + IF x.name \in Email THEN 1 ELSE TTL
  BY <1>3, <1>4
<1>. HIDE DEF y
<1>6. SearchOf(y, t, nm) /\ GetOf(y, t)
  BY <1>1 DEF SearchOf, GetOf
<1>7. StoreOf(y)
  BY <1>1, <1>4 DEF StoreOf
<1>8. AnswerOf(y)
  BY <1>1, <1>5 DEF AnswerOf
<1>9. RefusalOf(y)
  BY <1>1, <1>4 DEF RefusalOf
<1>10. CallOf(y, t, nm)
  BY <1>6, <1>7, <1>8, <1>9 DEF CallOf
<1>. QED BY <1>2, <1>10 DEF y

\* What is known of a search when a page of so many rows has been gone through.
PageOf(x, rows, nm) ==
    /\ MatchOf(x) /\ TallyOf(x, nm)
    /\ x.seen.steady => x.seen.bearers = BearersBy(nm, x.name)
    /\ x.seen.steady /\ rows < PageSize => x.read = ListedBy(nm, x.name)
    /\ x.seen.steady /\ rows >= PageSize => Cardinality(x.read) = x.page * PageSize

\* What it decides on is true.
LEMMA DecidedKeeps ==
    ASSUME NEW x \in Calling, NEW t \in 0..MaxTime, NEW rows \in Nat, NEW nm,
           x.seen.at >= x.start, PageOf(x, rows, nm), rows < PageSize \/ x.count > 1
    PROVE  Decided(x) \in Calling /\ CallOf(Decided(x), t, nm)
<1>. DEFINE bearers == BearersBy(nm, x.name)
<1>0. x.count \in Nat /\ x.name \in Name
  BY DEF Calling
<1>1. bearers \in SUBSET Object /\ x.read \in SUBSET Object /\ x.read \cap bearers \in SUBSET Object
  BY DEF BearersBy, Calling
<1>2. bearers \subseteq ListedBy(nm, x.name)
  BY <1>0, NameAssumption DEF BearersBy, ListedBy
<1>. HIDE DEF bearers
<1>3. x.seen.steady /\ rows < PageSize => x.read \cap bearers = bearers
  BY <1>2 DEF PageOf
<1>4. x.seen.steady => x.seen.bearers = bearers /\ x.count = Cardinality(x.read \cap bearers)
  BY DEF PageOf, TallyOf, bearers
<1>5. CASE x.count = 0
  <2>1. Decided(x) = Over(x, "done", "none")
    BY <1>5 DEF Decided
  <2>2. x.read \cap bearers = {} <=> Cardinality(x.read \cap bearers) = 0
    BY <1>1, RowsFinite, FS_EmptySet
  <2>3. Refuses("none", x.seen)
    BY <1>3, <1>4, <1>5, <2>2 DEF Refuses
  <2>. QED BY <2>1, <2>3, OverKeeps, NameAssumption
<1>6. CASE x.count > 1
  <2>1. Decided(x) = Over(x, "done", "several")
    BY <1>0, <1>6 DEF Decided
  <2>2. \A o \in Object : bearers = {o} => Cardinality(x.read \cap bearers) <= 1
    <3>1. SUFFICES ASSUME NEW o \in Object, bearers = {o}
                   PROVE  Cardinality(x.read \cap bearers) <= 1
      OBVIOUS
    <3>2. Cardinality({o}) = 1 /\ IsFiniteSet({o})
      BY FS_Singleton
    <3>3. x.read \cap bearers \in SUBSET {o}
      BY <3>1
    <3>. QED BY <3>2, <3>3, FS_Subset
  <2>3. x.seen.bearers # {}
    BY <1>0, <1>6 DEF PageOf, MatchOf
  <2>4. x.seen.steady => \A o \in Object : x.seen.bearers # {o}
    BY <1>0, <1>4, <1>6, <2>2
  <2>5. Refuses("several", x.seen)
    BY <2>3, <2>4 DEF Refuses
  <2>. QED BY <2>1, <2>5, OverKeeps, NameAssumption
<1>7. CASE x.count = 1
  <2>1. x.first \in Object /\ x.first \in x.seen.bearers
    BY <1>7 DEF PageOf, MatchOf
  <2>2. x.seen.steady => bearers = {x.first}
    BY <1>3, <1>7 DEF PageOf, TallyOf, bearers
  <2>3. RestsOn(x.first, x.seen)
    BY <1>4, <2>1, <2>2 DEF RestsOn
  <2>4. Decided(x) = Over(x, IF x.name \in Email THEN "done" ELSE "store", x.first)
    BY <1>7 DEF Decided
  <2>5. x.first \notin {"none", "several"}
    BY <2>1, NameAssumption
  <2>6. CASE x.name \in Email
    BY <2>1, <2>3, <2>4, <2>5, <2>6, OverKeeps
  <2>7. CASE x.name \notin Email
    BY <2>1, <2>3, <2>4, <2>5, <2>7, OverKeeps
  <2>. QED BY <2>6, <2>7
<1>. QED BY <1>0, <1>5, <1>6, <1>7

LEMMA PagedKeeps ==
    ASSUME NEW x \in Calling, NEW t \in 0..MaxTime, NEW rows \in Nat, NEW nm,
           x.pc = "search", x.outcome = None, x.start <= t, x.seen.at >= x.start,
           PageOf(x, rows, nm)
    PROVE  Paged(x, rows) \in Calling /\ CallOf(Paged(x, rows), t, nm)
<1>1. Over(x, "done", "failed") \in Calling /\ CallOf(Over(x, "done", "failed"), t, nm)
  BY OverKeeps, NameAssumption
<1>2. ASSUME rows < PageSize \/ x.count > 1
      PROVE  Decided(x) \in Calling /\ CallOf(Decided(x), t, nm)
  BY <1>2, DecidedKeeps
<1>3. ASSUME rows >= PageSize
      PROVE  LET y == [x EXCEPT !.page = @ + 1] IN y \in Calling /\ CallOf(y, t, nm)
  <2>. DEFINE y == [x EXCEPT !.page = @ + 1]
  <2>1. /\ y.pc = "search" /\ y.name = x.name /\ y.start = x.start /\ y.page = x.page + 1
        /\ y.count = x.count /\ y.first = x.first /\ y.outcome = None /\ y.read = x.read
        /\ y.seen = x.seen
    BY DEF Calling
  <2>2. y \in Calling
    BY DEF Calling
  <2>3. x.page \in Nat \ {0}
    BY DEF Calling
  <2>. HIDE DEF y
  <2>4. MatchOf(y) /\ TallyOf(y, nm)
    BY <2>1 DEF PageOf, MatchOf, TallyOf
  <2>5. x.seen.steady => Cardinality(y.read) = (y.page - 1) * PageSize
    <3>1. y.page - 1 = x.page
      BY <2>1, <2>3
    <3>. QED BY <1>3, <2>1, <3>1 DEF PageOf
  <2>6. y.page # 1
    BY <2>1, <2>3
  <2>7. SearchOf(y, t, nm)
    BY <2>1, <2>4, <2>5, <2>6 DEF SearchOf, PageOf
  <2>8. GetOf(y, t) /\ StoreOf(y) /\ AnswerOf(y) /\ RefusalOf(y)
    BY <2>1, NameAssumption DEF GetOf, StoreOf, AnswerOf, RefusalOf
  <2>. QED BY <2>2, <2>7, <2>8 DEF CallOf, y
<1>. QED BY <1>1, <1>2, <1>3, PageAssumption DEF Paged

\* Going through the rows of a page.
LEMMA ScannedKeeps ==
    ASSUME NEW x \in Calling, now \in 0..MaxTime, x.pc = "search",
           SearchOf(x, now, named),
           NEW batch \in SUBSET (Listed(x.name) \ x.read),
           Cardinality(batch) = RowsOn(x.page, Cardinality(Listed(x.name)))
    PROVE  LET y == Scanned(x, batch)
           IN /\ y \in Calling /\ y.pc = "search" /\ y.outcome = None
              /\ y.start <= now /\ y.seen.at >= y.start
              /\ PageOf(y, Cardinality(batch), named)
<1>. DEFINE y == Scanned(x, batch)
            matches == Matches(x, batch)
            bearers == BearersBy(named, x.name)
            listed == ListedBy(named, x.name)
            only == IF Cardinality(matches) = 1 THEN CHOOSE o \in matches : TRUE ELSE x.first
            rows == IF x.seen.steady THEN x.read \cup batch ELSE {}
            sight == IF x.count > 0 THEN x.seen
                     ELSE [at |-> now, steady |-> x.seen.steady,
                           bearers |-> IF x.seen.steady THEN Bearers(x.name) ELSE matches]
<1>1. Listed(x.name) = listed /\ Bearers(x.name) = bearers
  BY DEF Listed, Bearers, ListedBy, BearersBy
<1>2. batch \in SUBSET Object /\ listed \in SUBSET Object /\ bearers \in SUBSET Object
  BY <1>1 DEF ListedBy, BearersBy
<1>3. matches = batch \cap bearers /\ matches \in SUBSET Object
  BY <1>2 DEF Matches, BearersBy
<1>4. /\ x.name \in Name /\ x.start \in 0..MaxTime /\ x.page \in Nat \ {0} /\ x.count \in Nat
      /\ x.first \in Object \cup {None} /\ x.read \in SUBSET Object /\ x.seen \in Sighting
      /\ x.seen.steady \in BOOLEAN
  BY DEF Calling, Sighting
<1>5. /\ x.start <= now /\ x.outcome = None /\ MatchOf(x) /\ TallyOf(x, named)
      /\ x.page = 1 => x.count = 0 /\ x.read = {} /\ x.seen.steady
      /\ x.page # 1 => x.seen.at >= x.start
      /\ x.page # 1 /\ x.seen.steady => x.seen.bearers = bearers
      /\ x.seen.steady => Cardinality(x.read) = (x.page - 1) * PageSize
  BY DEF SearchOf
<1>6. Cardinality(matches) \in Nat /\ (Cardinality(matches) = 0 <=> matches = {})
  BY <1>3, RowsFinite, FS_EmptySet
<1>7. Cardinality(matches) = 1 => only \in Object /\ matches = {only}
  <2>1. Cardinality(matches) = 1 => \E o : matches = {o}
    BY <1>3, RowsFinite, FS_Singleton
  <2>. QED BY <1>3, <2>1
<1>8. only \in Object \cup {None} /\ rows \in SUBSET Object
  BY <1>2, <1>4, <1>7
<1>9. sight \in Sighting /\ sight.steady = x.seen.steady
  BY <1>1, <1>2, <1>3, <1>4 DEF Sighting
<1>. HIDE DEF matches, bearers, listed, only, rows, sight
<1>10. /\ y \in Calling /\ y.pc = "search" /\ y.outcome = None /\ y.name = x.name
       /\ y.start = x.start /\ y.page = x.page /\ y.count = x.count + Cardinality(matches)
       /\ y.first = only /\ y.read = rows /\ y.seen = sight
  <2>. DEFINE r1 == [x EXCEPT !.count = @ + Cardinality(matches)]
              r2 == [r1 EXCEPT !.first = only]
              r3 == [r2 EXCEPT !.read = rows]
              r4 == [r3 EXCEPT !.seen = sight]
  <2>1. /\ r1 \in Calling /\ r1.pc = "search" /\ r1.outcome = None /\ r1.name = x.name
        /\ r1.start = x.start /\ r1.page = x.page /\ r1.count = x.count + Cardinality(matches)
    BY <1>4, <1>5, <1>6 DEF Calling
  <2>. HIDE DEF r1
  <2>2. /\ r2 \in Calling /\ r2.pc = r1.pc /\ r2.outcome = r1.outcome /\ r2.name = r1.name
        /\ r2.start = r1.start /\ r2.page = r1.page /\ r2.count = r1.count /\ r2.first = only
    BY <2>1, <1>8 DEF Calling
  <2>. HIDE DEF r2
  <2>3. /\ r3 \in Calling /\ r3.pc = r2.pc /\ r3.outcome = r2.outcome /\ r3.name = r2.name
        /\ r3.start = r2.start /\ r3.page = r2.page /\ r3.count = r2.count
        /\ r3.first = r2.first /\ r3.read = rows
    BY <2>2, <1>8 DEF Calling
  <2>. HIDE DEF r3
  <2>4. /\ r4 \in Calling /\ r4.pc = r3.pc /\ r4.outcome = r3.outcome /\ r4.name = r3.name
        /\ r4.start = r3.start /\ r4.page = r3.page /\ r4.count = r3.count
        /\ r4.first = r3.first /\ r4.read = r3.read /\ r4.seen = sight
    BY <2>3, <1>9 DEF Calling
  <2>5. y = r4
    BY DEF Scanned, r1, r2, r3, matches, only, rows, sight
  <2>. QED BY <2>1, <2>2, <2>3, <2>4, <2>5
<1>. HIDE DEF y
<1>11. sight.at >= x.start
  BY <1>4, <1>5 DEF sight
<1>12. MatchOf(y)
  <2>1. CASE x.count > 0
    <3>1. sight = x.seen
      BY <2>1 DEF sight
    <3>2. y.count = 1 => matches = {} /\ x.count = 1 /\ only = x.first
      BY <1>4, <1>6, <1>10, <2>1 DEF only
    <3>3. x.seen.bearers # {}
      BY <2>1, <1>5 DEF MatchOf
    <3>. QED BY <1>5, <1>10, <3>1, <3>2, <3>3 DEF MatchOf, rows
  <2>2. CASE x.count = 0
    <3>1. sight.bearers = IF x.seen.steady THEN bearers ELSE matches
      BY <1>1, <2>2 DEF sight
    <3>2. y.count = Cardinality(matches)
      BY <1>6, <1>10, <2>2
    <3>3. matches \subseteq sight.bearers
      BY <1>3, <3>1
    <3>. QED BY <1>6, <1>7, <1>9, <1>10, <3>2, <3>3 DEF MatchOf, rows
  <2>. QED BY <1>4, <2>1, <2>2
<1>13. ASSUME x.seen.steady
       PROVE  /\ y.read = x.read \cup batch
              /\ y.read \cap bearers = (x.read \cap bearers) \cup matches
              /\ (x.read \cap bearers) \cap matches = {}
              /\ x.count = Cardinality(x.read \cap bearers)
              /\ x.count = 1 => x.read \cap bearers = {x.first}
              /\ x.read \subseteq listed
  <2>1. y.read = x.read \cup batch
    BY <1>10, <1>13 DEF rows
  <2>2. TallyOf(x, named)
    BY <1>5
  <2>. QED BY <1>3, <1>13, <2>1, <2>2 DEF TallyOf, bearers, listed
<1>14. TallyOf(y, named)
  <2>. SUFFICES ASSUME x.seen.steady
                PROVE  /\ y.read \subseteq listed
                       /\ y.count = Cardinality(y.read \cap bearers)
                       /\ y.count = 1 => y.read \cap bearers = {y.first}
    BY <1>9, <1>10 DEF TallyOf, bearers, listed
  <2>1. y.read \subseteq listed
    BY <1>1, <1>13
  <2>2. y.count = Cardinality(y.read \cap bearers)
    <3>1. x.read \cap bearers \in SUBSET Object
      BY <1>4
    <3>. QED BY <1>3, <1>10, <1>13, <3>1, RowsAdd
  <2>3. ASSUME y.count = 1
        PROVE  y.read \cap bearers = {y.first}
    <3>1. CASE x.count = 1
      <4>1. matches = {} /\ only = x.first
        BY <1>4, <1>6, <1>10, <2>3, <3>1 DEF only
      <4>. QED BY <1>10, <1>13, <3>1, <4>1
    <3>2. CASE x.count = 0
      <4>1. Cardinality(matches) = 1
        BY <1>6, <1>10, <2>3, <3>2
      <4>2. x.read \cap bearers = {}
        <5>1. x.read \cap bearers \in SUBSET Object
          BY <1>4
        <5>. QED BY <1>13, <3>2, <5>1, RowsFinite, FS_EmptySet
      <4>. QED BY <1>7, <1>10, <1>13, <4>1, <4>2
    <3>. QED BY <1>4, <1>6, <1>10, <2>3, <3>1, <3>2
  <2>. QED BY <2>1, <2>2, <2>3
<1>15. x.seen.steady => sight.bearers = bearers
  BY <1>1, <1>4, <1>5 DEF sight
<1>16. x.seen.steady =>
          /\ Cardinality(batch) < PageSize => y.read = listed
          /\ Cardinality(batch) >= PageSize => Cardinality(y.read) = x.page * PageSize
  <2>. SUFFICES ASSUME x.seen.steady
                PROVE  /\ Cardinality(batch) < PageSize => y.read = listed
                       /\ Cardinality(batch) >= PageSize => Cardinality(y.read) = x.page * PageSize
    OBVIOUS
  <2>1. /\ x.read \in SUBSET listed /\ batch \in SUBSET (listed \ x.read)
        /\ Cardinality(batch) = RowsOn(x.page, Cardinality(listed))
        /\ y.read = x.read \cup batch
    BY <1>1, <1>13
  <2>. QED BY <1>2, <1>4, <1>5, <2>1, PagesAddUp
<1>17. PageOf(y, Cardinality(batch), named)
  BY <1>9, <1>10, <1>12, <1>14, <1>15, <1>16 DEF PageOf, bearers, listed
<1>. QED BY <1>5, <1>10, <1>11, <1>17 DEF y

\* A page read keeps the invariant of its call.
LEMMA SearchKeeps ==
    ASSUME IInv, NEW c \in Caller, Search(c)
    PROVE  call'[c] \in Calling /\ CallOf(call'[c], now, named)
<1>. DEFINE x == call[c]
            rows == RowsOn(x.page, Cardinality(Listed(x.name)))
<1>1. x.pc = "search" /\ x \in Calling /\ now \in 0..MaxTime
  BY DEF Search, IInv, TypeOK, Idle
<1>2. SearchOf(x, now, named)
  BY DEF IInv, CallInv, CallOf
<1>3. PICK batch \in SUBSET (Listed(x.name) \ x.read) :
        /\ Cardinality(batch) = rows
        /\ call' = [call EXCEPT ![c] = Paged(Scanned(x, batch), rows)]
  BY DEF Search
<1>4. call'[c] = Paged(Scanned(x, batch), rows)
  BY <1>3 DEF IInv, TypeOK
<1>5. rows \in Nat
  <2>1. batch \in SUBSET Object
    BY DEF Listed
  <2>. QED BY <1>3, <2>1, RowsFinite
<1>. DEFINE y == Scanned(x, batch)
<1>. HIDE DEF x, rows
<1>6. /\ y \in Calling /\ y.pc = "search" /\ y.outcome = None
      /\ y.start <= now /\ y.seen.at >= y.start /\ PageOf(y, rows, named)
  BY <1>1, <1>2, <1>3, ScannedKeeps DEF rows
<1>. HIDE DEF y
<1>7. Paged(y, rows) \in Calling /\ CallOf(Paged(y, rows), now, named)
  BY <1>1, <1>5, <1>6, PagedKeeps
<1>. QED BY <1>4, <1>7 DEF y

-----------------------------------------------------------------------------
(* Steps.                                                                  *)

\* A caller's step that leaves the rest alone.
LEMMA CallerStep ==
    ASSUME IInv, NEW c \in Caller, NEW y \in Calling, CallOf(y, now, named),
           call' = [call EXCEPT ![c] = y], UNCHANGED <<now, named, entries>>
    PROVE  IInv'
<1>1. TypeOK'
  BY DEF IInv, TypeOK
<1>2. EntryInv'
  BY DEF IInv, EntryInv
<1>3. CallInv'
  <2>. SUFFICES ASSUME NEW d \in Caller PROVE CallOf(call'[d], now, named)
    BY DEF CallInv
  <2>1. CASE d = c
    BY <2>1 DEF IInv, TypeOK
  <2>2. CASE d # c
    BY <2>2 DEF IInv, TypeOK, CallInv
  <2>. QED BY <2>1, <2>2
<1>. QED BY <1>1, <1>2, <1>3 DEF IInv

\* A search that has yet to read its first page.
LEMMA NothingRead ==
    ASSUME NEW x, NEW t, NEW nm, x.start <= t, x.outcome = None, x.page = 1, x.count = 0,
           x.read = {}, x.seen.steady
    PROVE  SearchOf(x, t, nm)
<1>1. x.read \cap BearersBy(nm, x.name) = {}
  OBVIOUS
<1>2. (x.page - 1) * PageSize = 0
  BY PageAssumption
<1>3. MatchOf(x) /\ TallyOf(x, nm)
  BY <1>1, NoRowsRead DEF MatchOf, TallyOf
<1>. QED BY <1>2, <1>3, NoRowsRead DEF SearchOf

LEMMA StartStep ==
    ASSUME IInv, NEW c \in Caller, NEW n \in Name, Start(c, n)
    PROVE  IInv'
<1>. DEFINE y == Begun(n)
            pc == IF n \in Email THEN "search" ELSE "get"
<1>1. now \in 0..MaxTime /\ now \in Nat
  BY PageAssumption DEF IInv, TypeOK
<1>2. y = [pc |-> pc, name |-> n, start |-> now, page |-> 1, count |-> 0,
           first |-> None, outcome |-> None, read |-> {}, seen |-> Nothing]
  BY DEF Begun
<1>3. Nothing \in Sighting /\ Nothing.steady
  BY <1>1, PageAssumption DEF Nothing, Sighting
<1>4. /\ pc \in {"get", "search", "store", "done"}
      /\ pc = "get" => n \notin Email
      /\ pc # "store"
  OBVIOUS
<1>. HIDE DEF pc, y
<1>5. y \in Calling
  BY <1>1, <1>2, <1>3, <1>4 DEF Calling
<1>6. /\ y.pc = pc /\ y.name = n /\ y.start = now /\ y.page = 1 /\ y.count = 0
      /\ y.outcome = None /\ y.read = {} /\ y.seen = Nothing
  BY <1>2
<1>7. SearchOf(y, now, named)
  BY <1>1, <1>3, <1>6, NothingRead
<1>8. CallOf(y, now, named)
  BY <1>1, <1>4, <1>6, <1>7, NameAssumption DEF CallOf, GetOf, StoreOf, AnswerOf, RefusalOf
<1>9. call' = [call EXCEPT ![c] = y] /\ UNCHANGED <<now, named, entries>>
  BY DEF Start, y
<1>. QED BY <1>5, <1>8, <1>9, CallerStep

LEMMA GetStep ==
    ASSUME IInv, NEW c \in Caller, Get(c)
    PROVE  IInv'
<1>. DEFINE x == call[c]
<1>1. x.pc = "get" /\ x \in Calling
  BY DEF Get, IInv, TypeOK, Idle
<1>2. GetOf(x, now)
  BY DEF IInv, CallInv, CallOf
<1>3. CASE Live(x.name, x.start)
  <2>. DEFINE e == entries[x.name]
              y == [x EXCEPT !.pc = "done", !.outcome = e.id, !.seen = e.seen]
  <2>1. e \in Entry /\ x.start < e.expires
    BY <1>1, <1>3 DEF Live, IInv, TypeOK, Calling
  <2>2. RestsOn(e.id, e.seen) /\ e.expires <= e.seen.at + TTL
    BY <1>1, <1>3 DEF Live, IInv, EntryInv, Calling
  <2>3. call' = [call EXCEPT ![c] = y] /\ UNCHANGED <<now, named, entries>>
    BY <1>3 DEF Get
  <2>4. /\ y \in Calling /\ y.pc = "done" /\ y.name = x.name /\ y.start = x.start
        /\ y.outcome = e.id /\ y.seen = e.seen
    BY <1>1, <2>1 DEF Calling, Entry
  <2>5. e.id \in Object /\ x.start \in Int /\ e.seen.at \in Int /\ e.expires \in Int
    BY <1>1, <2>1 DEF Entry, Sighting, Calling
  <2>. HIDE DEF y, e, x
  <2>6. AnswerOf(y)
    BY <1>1, <1>2, <2>1, <2>2, <2>4, <2>5, PageAssumption DEF AnswerOf, GetOf
  <2>7. SearchOf(y, now, named) /\ GetOf(y, now) /\ StoreOf(y)
    BY <2>4 DEF SearchOf, GetOf, StoreOf
  <2>8. RefusalOf(y)
    BY <2>4, <2>5, NameAssumption DEF RefusalOf
  <2>. QED BY <2>3, <2>4, <2>6, <2>7, <2>8, CallerStep DEF CallOf
<1>4. CASE ~Live(x.name, x.start)
  <2>. DEFINE y == [x EXCEPT !.pc = "search"]
  <2>1. call' = [call EXCEPT ![c] = y] /\ UNCHANGED <<now, named, entries>>
    BY <1>4 DEF Get
  <2>2. /\ y \in Calling /\ y.pc = "search" /\ y.start = x.start /\ y.page = x.page
        /\ y.count = x.count /\ y.outcome = x.outcome /\ y.read = x.read /\ y.seen = x.seen
    BY <1>1 DEF Calling
  <2>. HIDE DEF y, x
  <2>3. SearchOf(y, now, named)
    BY <1>1, <1>2, <2>2, NothingRead DEF GetOf, Nothing
  <2>4. CallOf(y, now, named)
    BY <1>1, <1>2, <2>2, <2>3, NameAssumption
       DEF GetOf, CallOf, StoreOf, AnswerOf, RefusalOf
  <2>. QED BY <2>1, <2>2, <2>4, CallerStep
<1>. QED BY <1>3, <1>4

LEMMA SearchStep ==
    ASSUME IInv, NEW c \in Caller, Search(c)
    PROVE  IInv'
<1>1. call'[c] \in Calling /\ CallOf(call'[c], now, named)
  BY SearchKeeps
<1>2. PICK y : call' = [call EXCEPT ![c] = y]
  BY DEF Search
<1>3. call'[c] = y
  BY <1>2 DEF IInv, TypeOK
<1>. QED BY <1>1, <1>2, <1>3, CallerStep DEF Search

LEMMA SearchFailsStep ==
    ASSUME IInv, NEW c \in Caller, SearchFails(c)
    PROVE  IInv'
<1>. DEFINE y == Over(call[c], "done", "failed")
<1>1. call[c].pc = "search" /\ call[c] \in Calling
  BY DEF SearchFails, IInv, TypeOK, Idle
<1>2. call' = [call EXCEPT ![c] = y] /\ UNCHANGED <<now, named, entries>>
  BY DEF SearchFails
<1>3. /\ y \in Calling /\ y.pc = "done" /\ y.outcome = "failed"
  BY <1>1, PageAssumption DEF Over, Calling
<1>4. CallOf(y, now, named)
  BY <1>3, NameAssumption DEF CallOf, SearchOf, GetOf, StoreOf, AnswerOf, RefusalOf
<1>. QED BY <1>2, <1>3, <1>4, CallerStep

LEMMA StoreStep ==
    ASSUME IInv, NEW c \in Caller, Store(c)
    PROVE  IInv'
<1>. DEFINE x == call[c]
            y == [x EXCEPT !.pc = "done"]
            e == [id |-> x.outcome, expires |-> x.start + TTL, seen |-> x.seen]
<1>1. x.pc = "store" /\ x \in Calling /\ StoreOf(x) /\ AnswerOf(x) /\ RefusalOf(x)
  BY DEF Store, IInv, TypeOK, Idle, CallInv, CallOf
<1>2. /\ call' = [call EXCEPT ![c] = y] /\ UNCHANGED <<now, named>>
      /\ entries' = [n \in Name |-> IF n = x.name THEN e ELSE Kept(n)]
  BY DEF Store
<1>3. /\ y \in Calling /\ y.pc = "done" /\ y.name = x.name /\ y.start = x.start
      /\ y.outcome = x.outcome /\ y.seen = x.seen
  BY <1>1 DEF Calling
<1>4. CallOf(y, now, named)
  BY <1>1, <1>3 DEF CallOf, SearchOf, GetOf, StoreOf, AnswerOf, RefusalOf
<1>5. /\ e \in Entry /\ x.name \notin Email /\ RestsOn(e.id, e.seen)
      /\ e.expires <= e.seen.at + TTL
  <2>1. x.start \in Int /\ x.seen.at \in Int /\ TTL \in Int /\ x.seen \in Sighting
    BY <1>1, PageAssumption DEF Calling, Sighting
  <2>. QED BY <1>1, <2>1 DEF StoreOf, Entry
<1>6. \A n \in Name : Kept(n) = None \/ Kept(n) = entries[n]
  BY DEF Kept
<1>. HIDE DEF x, y, e
<1>7. TypeOK'
  <2>1. entries' \in [Name -> Entry \cup {None}]
    BY <1>2, <1>5, <1>6 DEF IInv, TypeOK
  <2>. QED BY <1>2, <1>3, <2>1 DEF IInv, TypeOK
<1>8. EntryInv'
  <2>. SUFFICES ASSUME NEW n \in Name, entries'[n] # None
                PROVE  /\ n \notin Email
                       /\ RestsOn(entries'[n].id, entries'[n].seen)
                       /\ entries'[n].expires <= entries'[n].seen.at + TTL
    BY DEF EntryInv
  <2>1. CASE n = x.name
    BY <1>2, <1>5, <2>1
  <2>2. CASE n # x.name
    BY <1>2, <1>6, <2>2 DEF IInv, EntryInv
  <2>. QED BY <2>1, <2>2
<1>9. CallInv'
  <2>. SUFFICES ASSUME NEW d \in Caller PROVE CallOf(call'[d], now, named)
    BY <1>2 DEF CallInv
  <2>1. CASE d = c
    BY <1>2, <1>4, <2>1 DEF IInv, TypeOK
  <2>2. CASE d # c
    BY <1>2, <2>2 DEF IInv, TypeOK, CallInv
  <2>. QED BY <2>1, <2>2
<1>. QED BY <1>7, <1>8, <1>9 DEF IInv

\* A change to what a search lists leaves it what it read itself.
LEMMA ShuffledKeeps ==
    ASSUME NEW x \in Calling, NEW t, NEW nm, NEW nm2, x.pc = "search", x.page # 1,
           SearchOf(x, t, nm)
    PROVE  Shuffled(x) \in Calling /\ CallOf(Shuffled(x), t, nm2)
<1>. DEFINE y == Shuffled(x)
            sight == IF x.seen.steady
                     THEN [at |-> x.seen.at, steady |-> FALSE,
                           bearers |-> x.seen.bearers \cap x.read]
                     ELSE x.seen
<1>1. x.seen \in Sighting /\ x.read \in SUBSET Object /\ x.count \in Nat
  BY DEF Calling
<1>2. sight \in Sighting /\ ~sight.steady /\ sight.at = x.seen.at
  BY <1>1 DEF Sighting
<1>3. MatchOf(x) /\ TallyOf(x, nm) /\ x.seen.at >= x.start /\ x.start <= t /\ x.outcome = None
      /\ (x.seen.steady => x.seen.bearers = BearersBy(nm, x.name))
  BY DEF SearchOf
<1>4. x.count > 0 => sight.bearers # {}
  <2>1. CASE x.seen.steady
    <3>1. sight.bearers = x.read \cap BearersBy(nm, x.name)
      BY <1>3, <2>1
    <3>2. x.count = Cardinality(x.read \cap BearersBy(nm, x.name))
      BY <1>3, <2>1 DEF TallyOf
    <3>. QED BY <1>1, <3>1, <3>2, NoRowsRead
  <2>2. CASE ~x.seen.steady
    BY <1>3, <2>2 DEF MatchOf
  <2>. QED BY <2>1, <2>2
<1>5. x.count = 1 => x.first \in Object /\ x.first \in sight.bearers
  <2>1. CASE x.seen.steady
    <3>1. sight.bearers = x.read \cap BearersBy(nm, x.name)
      BY <1>3, <2>1
    <3>2. x.count = 1 => x.read \cap BearersBy(nm, x.name) = {x.first}
      BY <1>3, <2>1 DEF TallyOf
    <3>. QED BY <1>3, <3>1, <3>2 DEF MatchOf
  <2>2. CASE ~x.seen.steady
    BY <1>3, <2>2 DEF MatchOf
  <2>. QED BY <2>1, <2>2
<1>. HIDE DEF sight
<1>6. /\ y \in Calling /\ y.pc = "search" /\ y.start = x.start /\ y.page = x.page
      /\ y.count = x.count /\ y.first = x.first /\ y.outcome = x.outcome /\ y.read = {}
      /\ y.seen = sight
  <2>. DEFINE r1 == [x EXCEPT !.read = {}]
              r2 == [r1 EXCEPT !.seen = sight]
  <2>1. /\ r1 \in Calling /\ r1.pc = x.pc /\ r1.start = x.start /\ r1.page = x.page
        /\ r1.count = x.count /\ r1.first = x.first /\ r1.outcome = x.outcome /\ r1.read = {}
    BY DEF Calling
  <2>. HIDE DEF r1
  <2>2. /\ r2 \in Calling /\ r2.pc = r1.pc /\ r2.start = r1.start /\ r2.page = r1.page
        /\ r2.count = r1.count /\ r2.first = r1.first /\ r2.outcome = r1.outcome
        /\ r2.read = r1.read /\ r2.seen = sight
    BY <1>2, <2>1 DEF Calling
  <2>3. y = r2
    BY DEF Shuffled, r1, sight
  <2>. QED BY <2>1, <2>2, <2>3
<1>. HIDE DEF y
<1>7. MatchOf(y) /\ TallyOf(y, nm2)
  BY <1>2, <1>4, <1>5, <1>6 DEF MatchOf, TallyOf
<1>8. SearchOf(y, t, nm2)
  BY <1>2, <1>3, <1>6, <1>7 DEF SearchOf
<1>9. GetOf(y, t) /\ StoreOf(y) /\ AnswerOf(y) /\ RefusalOf(y)
  BY <1>3, <1>6, NameAssumption DEF GetOf, StoreOf, AnswerOf, RefusalOf
<1>. QED BY <1>6, <1>8, <1>9 DEF CallOf, y

LEMMA RenameStep ==
    ASSUME IInv, NEW o \in Object, NEW n \in Born, Rename(o, n)
    PROVE  IInv'
<1>. DEFINE touched(x) == {named[o], n} \cap Lists[x.name] # {}
            turned(x) == x.pc = "search" /\ x.page > 1 /\ touched(x)
<1>1. /\ named' = [named EXCEPT ![o] = n]
      /\ \A c \in Caller : call'[c] = IF turned(call[c]) THEN Shuffled(call[c]) ELSE call[c]
      /\ DOMAIN call' = Caller /\ call' = [c \in Caller |-> call'[c]]
      /\ UNCHANGED <<now, entries>>
  BY DEF Rename
<1>2. \A c \in Caller : call[c] \in Calling \cup {Idle} /\ CallOf(call[c], now, named)
  BY DEF IInv, TypeOK, CallInv
<1>3. named \in [Object -> Born] /\ named' \in [Object -> Born]
  BY <1>1 DEF IInv, TypeOK
<1>. HIDE DEF turned
<1>4. ASSUME NEW c \in Caller
      PROVE  call'[c] \in Calling \cup {Idle} /\ CallOf(call'[c], now, named')
  <2>. DEFINE x == call[c]
  <2>1. CASE turned(x)
    <3>1. x \in Calling /\ x.pc = "search" /\ x.page # 1
      BY <1>2, <2>1 DEF turned, Idle, Calling
    <3>2. SearchOf(x, now, named)
      BY <1>2 DEF CallOf
    <3>3. call'[c] = Shuffled(x)
      BY <1>1, <2>1
    <3>. HIDE DEF x
    <3>. QED BY <3>1, <3>2, <3>3, ShuffledKeeps
  <2>2. CASE ~turned(x)
    <3>1. call'[c] = x
      BY <1>1, <2>2
    <3>2. SearchOf(x, now, named')
      <4>. SUFFICES ASSUME x.pc = "search" PROVE SearchOf(x, now, named')
        BY DEF SearchOf
      <4>1. x \in Calling /\ SearchOf(x, now, named) /\ x.page \in Nat \ {0}
        BY <1>2 DEF Idle, CallOf, Calling
      <4>2. CASE x.page = 1
        <5>1. /\ x.start <= now /\ x.outcome = None /\ x.count = 0 /\ x.read = {}
              /\ x.seen.steady
          BY <4>1, <4>2 DEF SearchOf
        <5>. HIDE DEF x
        <5>. QED BY <4>2, <5>1, NothingRead
      <4>3. CASE x.page # 1
        <5>1. named[o] \notin Lists[x.name] /\ n \notin Lists[x.name] /\ x.name \in Lists[x.name]
          BY <2>2, <4>1, <4>3, NameAssumption DEF turned, Calling
        <5>2. ListedBy(named', x.name) = ListedBy(named, x.name)
          BY <1>1, <1>3, <5>1 DEF ListedBy
        <5>3. BearersBy(named', x.name) = BearersBy(named, x.name)
          BY <1>1, <1>3, <5>1 DEF BearersBy
        <5>. HIDE DEF x
        <5>. QED BY <4>1, <5>2, <5>3 DEF SearchOf, TallyOf
      <4>. QED BY <4>2, <4>3
    <3>. QED BY <1>2, <3>1, <3>2 DEF CallOf
  <2>. QED BY <2>1, <2>2
<1>5. TypeOK'
  BY <1>1, <1>3, <1>4 DEF IInv, TypeOK
<1>6. EntryInv'
  BY <1>1 DEF IInv, EntryInv
<1>7. CallInv'
  BY <1>1, <1>4 DEF CallInv
<1>. QED BY <1>5, <1>6, <1>7 DEF IInv

LEMMA TickStep ==
    ASSUME IInv, Tick
    PROVE  IInv'
<1>1. TypeOK' /\ now' > now /\ now \in Int /\ now' \in Int
  BY PageAssumption DEF IInv, TypeOK, Tick
<1>2. EntryInv'
  BY DEF IInv, EntryInv, Tick
<1>3. CallInv'
  <2>. SUFFICES ASSUME NEW c \in Caller PROVE CallOf(call[c], now', named)
    BY DEF CallInv, Tick
  <2>1. CallOf(call[c], now, named)
    BY DEF IInv, CallInv
  <2>2. call[c].start \in Int
    BY PageAssumption DEF IInv, TypeOK, Calling, Idle
  <2>3. SearchOf(call[c], now', named) /\ GetOf(call[c], now')
    BY <1>1, <2>1, <2>2 DEF CallOf, SearchOf, GetOf
  <2>. QED BY <2>1, <2>3 DEF CallOf
<1>. QED BY <1>1, <1>2, <1>3 DEF IInv

-----------------------------------------------------------------------------
(* The inductive invariant: a search has counted the bearers among the rows*)
(* it has read, and what is cached rests on a sighting of them             *)
(* (resolveCached, resolveByNameOrID, UserID).                             *)
THEOREM Invariance == Spec => []IInv
<1>1. ASSUME Init
      PROVE  IInv
  <2>1. TypeOK
    BY <1>1, PageAssumption DEF Init, TypeOK
  <2>2. EntryInv
    BY <1>1 DEF Init, EntryInv
  <2>3. CallInv
    BY <1>1, NameAssumption
       DEF Init, CallInv, CallOf, SearchOf, GetOf, StoreOf, AnswerOf, RefusalOf, Idle
  <2>. QED BY <2>1, <2>2, <2>3 DEF IInv
<1>2. ASSUME IInv, Next
      PROVE  IInv'
  BY <1>2, StartStep, GetStep, SearchStep, SearchFailsStep, StoreStep, RenameStep, TickStep
     DEF Next
<1>3. ASSUME IInv, UNCHANGED vars
      PROVE  IInv'
  BY <1>3 DEF vars, IInv, TypeOK, EntryInv, CallInv
<1>4. IInv /\ [Next]_vars => IInv'
  BY <1>2, <1>3
<1>. QED BY <1>1, <1>4, PTL DEF Spec

(* Times, page counts and ids stay in their types (resolveCached).         *)
THEOREM TypeCorrect == Spec => []TypeOK
<1>1. IInv => TypeOK
  BY DEF IInv
<1>. QED BY <1>1, Invariance, PTL

(* An id resolved from a name bore it less than the lifetime of a cache    *)
(* entry before the call began, or since (resolveCached), and was the only *)
(* one to do so unless rows moved between the pages of the search, however *)
(* many pages there were and whatever else they listed.                    *)
THEOREM Recent == Spec => []AnswersAreRecent
<1>1. IInv => AnswersAreRecent
  BY DEF IInv, CallInv, CallOf, AnswerOf, RestsOn, AnswersAreRecent
<1>. QED BY <1>1, Invariance, PTL

(* A name is refused as unknown or ambiguous on a search made since the    *)
(* call began (resolveCached caches no errors), and it was so unless rows  *)
(* moved between the pages of the search; an ambiguous one had a bearer.   *)
THEOREM Fresh == Spec => []RefusalsAreFresh
<1>1. IInv => RefusalsAreFresh
  BY DEF IInv, CallInv, CallOf, RefusalOf, Refuses, RefusalsAreFresh
<1>. QED BY <1>1, Invariance, PTL

-----------------------------------------------------------------------------
(* The sweep.                                                              *)

\* Only a store changes the cache, and a store that meets the threshold adds
\* at most its own name to what it keeps of the live.
LEMMA StoreKeepsLive ==
    ASSUME TypeOK, NEW c \in Caller, Store(c), Cardinality(Cached) >= Threshold,
           NEW n \in Cached, ~Live(n, now)
    PROVE  Cardinality(Cached') <= Cardinality(Cached)
<1>. DEFINE x == call[c]
<1>1. IsFiniteSet(Cached) /\ Cardinality(Cached) \in Nat /\ Cached \subseteq Name
  BY NameAssumption, FS_Subset, FS_CardinalityType DEF Cached
<1>2. \A k \in Name : k # x.name => entries'[k] = Kept(k)
  BY DEF Store
<1>3. Cached' = {k \in Name : entries'[k] # None}
  BY DEF Cached
<1>4. Kept(n) = None /\ \A k : Kept(k) # None => Kept(k) = entries[k]
  BY DEF Kept
<1>5. Cached' \subseteq Cached \cup {x.name}
  BY <1>2, <1>3, <1>4 DEF Cached
<1>6. CASE n = x.name
  <2>1. Cached' \in SUBSET Cached
    BY <1>5, <1>6
  <2>. QED BY <1>1, <2>1, FS_Subset
<1>7. CASE n # x.name
  <2>. DEFINE rest == Cached \ {n}
  <2>1. n \notin Cached'
    BY <1>1, <1>2, <1>3, <1>4, <1>7
  <2>2. Cached' \in SUBSET (rest \cup {x.name})
    BY <1>5, <2>1
  <2>3. IsFiniteSet(rest) /\ Cardinality(rest) = Cardinality(Cached) - 1
    BY <1>1, FS_RemoveElement
  <2>4. /\ IsFiniteSet(rest \cup {x.name})
        /\ Cardinality(rest \cup {x.name})
              = IF x.name \in rest THEN Cardinality(rest) ELSE Cardinality(rest) + 1
    BY <2>3, FS_AddElement
  <2>5. Cardinality(Cached') <= Cardinality(rest \cup {x.name}) /\ IsFiniteSet(Cached')
    BY <2>2, <2>4, FS_Subset
  <2>6. Cardinality(Cached') \in Nat
    BY <2>5, FS_CardinalityType
  <2>. HIDE DEF rest
  <2>. QED BY <1>1, <2>3, <2>4, <2>5, <2>6
<1>. QED BY <1>6, <1>7

(* Past the threshold the cache grows only while all it holds is live      *)
(* (resolverCacheState.set).                                               *)
THEOREM GrowthIsLive == Spec => GrowsWithLiveNamesOnly
<1>. DEFINE Growth == /\ Cardinality(Cached) >= Threshold
                      /\ Cardinality(Cached') > Cardinality(Cached)
                      => \A n \in Cached : Live(n, now)
<1>1. ASSUME IInv, Next
      PROVE  Growth
  <2>1. CASE \E c \in Caller : Store(c)
    <3>1. PICK c \in Caller : Store(c)
      BY <2>1
    <3>2. TypeOK /\ TypeOK'
      BY <1>1, <3>1, StoreStep DEF IInv
    <3>3. Cardinality(Cached) \in Int /\ Cardinality(Cached') \in Int
      <4>1. Cached \in SUBSET Name /\ Cached' \in SUBSET Name
        BY DEF Cached
      <4>. QED BY <4>1, NameAssumption, FS_Subset, FS_CardinalityType
    <3>4. Cardinality(Cached) >= Threshold =>
             \A n \in Cached : ~Live(n, now) => Cardinality(Cached') <= Cardinality(Cached)
      BY <3>1, <3>2, StoreKeepsLive
    <3>. QED BY <3>3, <3>4
  <2>2. CASE ~\E c \in Caller : Store(c)
    <3>1. UNCHANGED entries
      BY <1>1, <2>2 DEF Next, Start, Get, Search, SearchFails, Rename, Tick
    <3>2. Cached' = Cached
      BY <3>1 DEF Cached
    <3>3. Cardinality(Cached) \in Int
      <4>1. Cached \in SUBSET Name
        BY DEF Cached
      <4>. QED BY <4>1, NameAssumption, FS_Subset, FS_CardinalityType
    <3>. QED BY <3>2, <3>3
  <2>. QED BY <2>1, <2>2
<1>2. IInv /\ [Next]_vars => [Growth]_vars
  BY <1>1
<1>. QED BY <1>2, Invariance, PTL DEF Spec, GrowsWithLiveNamesOnly

=============================================================================
