------------------------------- MODULE Resolver -------------------------------
(***************************************************************************)
(* From a name to an id: resolveCached (tools/resolve_cache.go) over the   *)
(* cache of service_state.go, and the paged search of internal/resolve.    *)
(* Tool calls resolve names concurrently while objects are created,        *)
(* renamed and deleted upstream, by these calls or by anybody.             *)
(*                                                                         *)
(* A name stands for a cache key, kind and scope included: names that      *)
(* differ in case are one.  A reference with the shape of an id needs no   *)
(* search and is left out.  What a search lists is upstream's affair: it   *)
(* may ignore strict-name-search, an e-mail filter never sends it.  The    *)
(* rows that do not match fill pages and count towards the caps.  The      *)
(* order of the rows is upstream's too; only while nothing it lists is     *)
(* created, renamed or deleted does the next page begin where the last one *)
(* ended.                                                                  *)
(***************************************************************************)
EXTENDS Integers, FiniteSets

CONSTANTS Caller,    \* resolutions of a name, a tool call makes several
          Object,    \* what can bear a name
          Name,      \* what is looked for
          Other,     \* names that nobody looks for
          Lists,     \* the names a search lists, for each it looks for
          User,      \* the names looked for among the users
          Email,     \* those of them that are e-mail addresses
          TTL,       \* resolveCacheTTL
          Threshold, \* resolveCacheSweepThreshold
          PageSize, MaxRows, StopPages,
          MaxTime,   \* bound of the clock
          None

Born == Name \cup Other \cup {None}

ASSUME NameAssumption ==
    /\ IsFiniteSet(Object) /\ IsFiniteSet(Name)
    /\ Email \subseteq User /\ User \subseteq Name
    /\ \A n \in Name : n \in Lists[n] /\ Lists[n] \subseteq Name \cup Other
    /\ Object \cap {"none", "several", "failed"} = {}
    /\ None \notin Object \cup Name \cup Other \cup {"none", "several", "failed"}
ASSUME PageAssumption ==
    /\ PageSize \in Nat \ {0}
    /\ MaxRows \in Nat /\ StopPages \in Nat
    /\ TTL \in Nat \ {0} /\ Threshold \in Nat /\ MaxTime \in Nat

VARIABLES now,
          named,    \* upstream: the name each object bears, or None
          entries,  \* the cache: [id, expires, seen] of each name, or None
          call      \* each resolution

vars == <<now, named, entries, call>>

\* Whose name is n, and whom upstream lists on a search for it.
Bearers(n) == {o \in Object : named[o] = n}
Listed(n) == {o \in Object : named[o] \in Lists[n]}

\* What an answer rests on (history): the bearers of the name when the first
\* match was read, or the last page if there was none; whether what the search
\* lists has stayed as it was since its first page.  If it has not, bearers are
\* those among the rows that were read.
Sighting == [at : 0..MaxTime, bearers : SUBSET Object, steady : BOOLEAN]
Nothing == [at |-> 0, bearers |-> {}, steady |-> TRUE]

\* read are the rows the next page comes after.
Idle == [pc |-> "idle", name |-> None, start |-> 0, page |-> 1, count |-> 0,
         first |-> None, outcome |-> None, read |-> {}, seen |-> Nothing]

Entry == [id : Object, expires : Int, seen : Sighting]
Calling == [pc : {"get", "search", "store", "done"}, name : Name, start : 0..MaxTime,
            page : Nat \ {0}, count : Nat, first : Object \cup {None},
            outcome : Object \cup {"none", "several", "failed", None},
            read : SUBSET Object, seen : Sighting]

TypeOK ==
    /\ now \in 0..MaxTime
    /\ named \in [Object -> Born]
    /\ entries \in [Name -> Entry \cup {None}]
    /\ call \in [Caller -> Calling \cup {Idle}]

Init ==
    /\ now = 0
    /\ named \in [Object -> Born]
    /\ entries = [n \in Name |-> None]
    /\ call = [c \in Caller |-> Idle]

-----------------------------------------------------------------------------
Cached == {n \in Name : entries[n] # None}
Live(n, t) == entries[n] # None /\ t < entries[n].expires

\* resolveCached takes the time; an e-mail address is not cached.
Begun(n) ==
    [pc |-> IF n \in Email THEN "search" ELSE "get", name |-> n, start |-> now, page |-> 1,
     count |-> 0, first |-> None, outcome |-> None, read |-> {}, seen |-> Nothing]

Start(c, n) ==
    /\ call[c].pc = "idle"
    /\ call' = [call EXCEPT ![c] = Begun(n)]
    /\ UNCHANGED <<now, named, entries>>

Get(c) ==
    LET x == call[c]
    IN /\ x.pc = "get"
       /\ call' = [call EXCEPT ![c] =
             IF Live(x.name, x.start)
             THEN [x EXCEPT !.pc = "done", !.outcome = entries[x.name].id,
                            !.seen = entries[x.name].seen]
             ELSE [x EXCEPT !.pc = "search"]]
       /\ UNCHANGED <<now, named, entries>>

\* The rows on page k of a search.
RowsOn(k, rows) == IF rows <= (k - 1) * PageSize THEN 0
                   ELSE IF rows >= k * PageSize THEN PageSize
                   ELSE rows - (k - 1) * PageSize

\* The outcome is all that is left of a search.
Over(x, next, outcome) ==
    [pc |-> next, name |-> x.name, start |-> x.start, page |-> 1, count |-> 0,
     first |-> None, outcome |-> outcome, read |-> {}, seen |-> x.seen]

\* mutant: what was not found is cached as well
DecidedForGood(x) ==
    Over(x, IF x.name \in Email THEN "done" ELSE "store",
         IF x.count = 0 THEN "none" ELSE IF x.count > 1 THEN "several" ELSE x.first)

\* One match is the answer, and is cached.
Decided(x) ==
    IF x.count = 0 THEN Over(x, "done", "none")
    ELSE IF x.count > 1 THEN Over(x, "done", "several")
    ELSE Over(x, IF x.name \in Email THEN "done" ELSE "store", x.first)

\* A search goes on behind a full page.  ListAll gives up beyond its row cap,
\* the search for a user ends at the second match, both at the last page.
Paged(x, rows) ==
    LET user == x.name \in User
    IN IF user /\ x.count > 1 THEN Decided(x)
       ELSE IF ~user /\ (x.page - 1) * PageSize + rows > MaxRows THEN Over(x, "done", "failed")
       ELSE IF rows < PageSize THEN Decided(x)
       ELSE IF x.page >= StopPages THEN Over(x, "done", "failed")
       ELSE [x EXCEPT !.page = @ + 1]

\* exactMatches, EqualFold: the rows of the page that bear the name.
Matches(x, batch) == {o \in batch : named[o] = x.name}

\* mutant: the matches of each page are counted anew
ScannedAnew(x, batch) ==
    LET matches == Matches(x, batch)
    IN [x EXCEPT
          !.count = Cardinality(matches),
          !.first = IF Cardinality(matches) = 1 THEN CHOOSE o \in matches : TRUE ELSE @,
          !.read = IF x.seen.steady THEN @ \cup batch ELSE {},
          !.seen = IF x.count > 0 THEN @
                   ELSE [at |-> now, steady |-> x.seen.steady,
                         bearers |-> IF x.seen.steady THEN Bearers(x.name) ELSE matches]]

\* What is known when the rows of a page have been gone through.
Scanned(x, batch) ==
    LET matches == Matches(x, batch)
    IN [x EXCEPT
          !.count = @ + Cardinality(matches),
          !.first = IF Cardinality(matches) = 1 THEN CHOOSE o \in matches : TRUE ELSE @,
          !.read = IF x.seen.steady THEN @ \cup batch ELSE {},
          !.seen = IF x.count > 0 THEN @
                   ELSE [at |-> now, steady |-> x.seen.steady,
                         bearers |-> IF x.seen.steady THEN Bearers(x.name) ELSE matches]]

\* One request for the next page.
Search(c) ==
    LET x == call[c]
        rows == RowsOn(x.page, Cardinality(Listed(x.name)))
    IN /\ x.pc = "search"
       /\ \E batch \in SUBSET (Listed(x.name) \ x.read) :
            /\ Cardinality(batch) = rows
            /\ call' = [call EXCEPT ![c] = Paged(Scanned(x, batch), rows)]
       /\ UNCHANGED <<now, named, entries>>

\* The request fails: nothing is cached.
SearchFails(c) ==
    /\ call[c].pc = "search"
    /\ call' = [call EXCEPT ![c] = Over(@, "done", "failed")]
    /\ UNCHANGED <<now, named, entries>>

\* mutant: beyond the threshold only
KeptAtThreshold(n) == IF Cardinality(Cached) > Threshold /\ ~Live(n, now) THEN None ELSE entries[n]
\* resolverCacheState.set: at the threshold, what has expired goes first.
Kept(n) == IF Cardinality(Cached) >= Threshold /\ ~Live(n, now) THEN None ELSE entries[n]

\* mutant: the lifetime begins when the search has ended
StoreFromNow(c) ==
    LET x == call[c]
    IN /\ x.pc = "store"
       /\ entries' = [n \in Name |->
             IF n = x.name THEN [id |-> x.outcome, expires |-> now + TTL, seen |-> x.seen]
             ELSE Kept(n)]
       /\ call' = [call EXCEPT ![c].pc = "done"]
       /\ UNCHANGED <<now, named>>

Store(c) ==
    LET x == call[c]
    IN /\ x.pc = "store"
       /\ entries' = [n \in Name |->
             IF n = x.name THEN [id |-> x.outcome, expires |-> x.start + TTL, seen |-> x.seen]
             ELSE Kept(n)]
       /\ call' = [call EXCEPT ![c].pc = "done"]
       /\ UNCHANGED <<now, named>>

\* After a change to what a search lists its next page may begin anywhere.
Shuffled(x) ==
    [x EXCEPT !.read = {},
              !.seen = IF @.steady THEN [at |-> @.at, steady |-> FALSE, bearers |-> @.bearers \cap x.read]
                       ELSE @]

\* An object is created, renamed or deleted, by whomever.
Rename(o, n) ==
    /\ named[o] # n
    /\ named' = [named EXCEPT ![o] = n]
    /\ call' = [c \in Caller |->
          LET x == call[c]
          IN IF x.pc = "search" /\ x.page > 1 /\ {named[o], n} \cap Lists[x.name] # {}
             THEN Shuffled(x) ELSE x]
    /\ UNCHANGED <<now, entries>>

Tick ==
    /\ now < MaxTime
    /\ now' = now + 1
    /\ UNCHANGED <<named, entries, call>>

Next ==
    \/ \E c \in Caller, n \in Name : Start(c, n)
    \/ \E c \in Caller : Get(c) \/ Search(c) \/ SearchFails(c) \/ Store(c)
    \/ \E o \in Object, n \in Born : Rename(o, n)
    \/ Tick

Spec == Init /\ [][Next]_vars

-----------------------------------------------------------------------------
(* The id a call acts on bore the name less than the TTL before the call   *)
(* began, or since - for an e-mail address since - however long searches   *)
(* take, whoever stores last and whatever is renamed meanwhile, also by    *)
(* this server's own tools, which drop nothing from the cache              *)
(* (resolveCached).  It was the only one unless the rows moved between the *)
(* pages of the search: however many pages there are, and whatever else    *)
(* they list, none is skipped and none is counted twice (UserID, ListAll). *)
AnswersAreRecent ==
    \A c \in Caller :
        LET x == call[c]
        IN x.outcome \in Object =>
              /\ x.outcome \in x.seen.bearers
              /\ x.seen.steady => x.seen.bearers = {x.outcome}
              /\ x.start < x.seen.at + IF x.name \in Email THEN 1 ELSE TTL

(* "not found" and "multiple ... match" are never old news: the search was *)
(* made since the call began (TestResolveCacheDoesNotCacheErrors), and     *)
(* found nothing, or more than one thing, under the name, unless the rows  *)
(* moved between its pages; what is ambiguous was borne by something all   *)
(* the same.                                                               *)
RefusalsAreFresh ==
    \A c \in Caller :
        LET x == call[c]
        IN x.outcome \in {"none", "several"} =>
              /\ x.seen.at >= x.start
              /\ x.outcome = "none" /\ x.seen.steady => x.seen.bearers = {}
              /\ x.outcome = "several" => x.seen.bearers # {}
              /\ x.outcome = "several" /\ x.seen.steady => \A o \in Object : x.seen.bearers # {o}

(* "so a long-lived Service does not grow without bound" (set): past the   *)
(* threshold the cache grows only while all that it holds is live, so by   *)
(* no more than what is resolved within one TTL.                           *)
GrowsWithLiveNamesOnly ==
    [][/\ Cardinality(Cached) >= Threshold
       /\ Cardinality(Cached') > Cardinality(Cached)
       => \A n \in Cached : Live(n, now)]_vars
=============================================================================
