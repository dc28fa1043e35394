-------------------------------- MODULE Deltas --------------------------------
(***************************************************************************)
(* notifications/resources/updated with deltas: what a mutating tool call  *)
(* publishes (tools/resources.go), from the state cache that holds the     *)
(* last emitted document of each URI (resource_cache.go), to the clients   *)
(* subscribed to it (Subscriptions).  Calls run concurrently, one critical *)
(* section or upstream request per step; the resources are time entries    *)
(* and the weekly reports that sum them.                                   *)
(*                                                                         *)
(* A client follows the documentation of ResourceUpdateDelta: it patches   *)
(* the copy it holds, fetches after "none", and repeats a read overtaken   *)
(* by a notification, with no change of a subscription meanwhile.          *)
(***************************************************************************)
EXTENDS Subscriptions, MergePatch, Sequences, SequencesExt, Functions

CONSTANTS Entry,       \* time entries
          Week,        \* ISO weeks, each with its report
          Shape,       \* documents of an entry: [week, project, secs]
          Call,        \* tool calls, each made once
          MaxInFlight, \* tool calls that may run at a time
          Interest,    \* <<subscriber, uri>>: what is ever subscribed to
          CacheCap,    \* newResourceStateCache(capacity)
          Absent, Unknown

ASSUME ResourceAssumption ==
    /\ Uri = Entry \cup Week /\ Entry \cap Week = {}
    /\ CacheCap \in Nat \ {0} /\ MaxInFlight \in Nat \ {0}
    /\ Interest \subseteq Subscriber \X Uri
    /\ Week \subseteq Int /\ Absent \notin Uri

VARIABLES server,   \* upstream: each entry's document, or Absent
          cache,    \* the LRU list, newest first: [uri, doc]
          call,     \* the state of each call
          copy,     \* each client's document of each URI
          reading,  \* each client's resources/read in flight
          fresh,    \* <<client, uri>> subscribed and not notified since
          gap       \* ghost: URIs whose changes emission missed, or mixed up

dataVars == <<server, cache, call, copy, reading, fresh, gap>>
vars == <<subVars, dataVars>>

-----------------------------------------------------------------------------
(* Documents.                                                              *)

\* The report of a week: rollups by project and the total, no date range.
WeeklyReport(s, w) ==
    LET worked == {e \in Entry : s[e] # Absent /\ s[e].week = w}
        secs(es) == SumFunction([e \in es |-> s[e].secs])
        projects == {sh.project : sh \in Shape}
    IN [rollups |-> [p \in projects |-> secs({e \in worked : s[e].project = p})],
        total   |-> secs(worked)]

\* What ReadResource returns for u, Absent standing for its error.
ReadResource(s, u) == IF u \in Week THEN WeeklyReport(s, u) ELSE s[u]

\* The states of the server, and the documents it has.
Workspaces == [Entry -> Shape \cup {Absent}]
Reports == {WeeklyReport(s, w) : s \in Workspaces, w \in Week}
Documents(u) == IF u \in Week THEN Reports ELSE Shape
Document == Shape \cup Reports

\* A document is an object without a null (the others are sent whole:
\* MergePatch), and neither of the two that stand for its lack.
ASSUME DocumentAssumption ==
    /\ Absent # Unknown /\ {Absent, Unknown} \cap Document = {}
    /\ \A d \in Document : /\ d = [k \in DOMAIN d |-> d[k]]
                           /\ \A k \in DOMAIN d : d[k] # Null

-----------------------------------------------------------------------------
(* The LRU cache.                                                          *)

Cached(u) == \E i \in 1..Len(cache) : cache[i].uri = u
Slot(u) == CHOOSE i \in 1..Len(cache) : cache[i].uri = u
Lookup(u) == IF Cached(u) THEN cache[Slot(u)].doc ELSE Absent
Without(u) == IF Cached(u) THEN RemoveAt(cache, Slot(u)) ELSE cache

\* get: a hit moves to the front, a miss changes nothing.
Touched(u) == IF Cached(u) THEN <<[uri |-> u, doc |-> Lookup(u)]>> \o Without(u)
                           ELSE cache

\* mutant: the oldest slot stays
StoredUnbounded(u, doc) == <<[uri |-> u, doc |-> doc]>> \o Without(u)

\* put: to the front, and the oldest goes when the cache was full.
Stored(u, doc) ==
    LET slots == <<[uri |-> u, doc |-> doc]>> \o Without(u)
    IN IF Len(slots) > CacheCap THEN Front(slots) ELSE slots

\* weeklyReportDeltaEligible: the change lies within the week.
Eligible(w, b, a) == \A sh \in {b, a} : sh = Absent \/ sh.week = w

\* emitWeeklyReportDeltaFromCache patches a cached WeeklySummaryData; without
\* a date range in the cached document it declines.
WeeklyDeltaApplies(doc) == doc # Absent /\ "range" \in DOMAIN doc

\* applyCachedWeeklyEntryDelta
WeeklyDelta(doc, sh, direction) ==
    IF sh = Absent THEN doc
    ELSE [doc EXCEPT !.rollups[sh.project] = @ + direction * sh.secs,
                     !.total = @ + direction * sh.secs]

-----------------------------------------------------------------------------
(* Calls.                                                                  *)

Idle == [pc |-> "idle", entry |-> Absent, before |-> Absent, after |-> Absent,
         todo |-> <<>>, doc |-> Absent, prev |-> Absent, format |-> "none"]

Done == [Idle EXCEPT !.pc = "done"]

InFlight(c) == call[c].pc \notin {"idle", "done"}

WeeksOf(b, a) == {w \in Week : \E sh \in {b, a} : sh # Absent /\ sh.week = w}

Item(kind, u, doc) == [kind |-> kind, uri |-> u, doc |-> doc]

\* The URIs a call's mutation changes.
Affected(c) == {call[c].entry} \cup WeeksOf(call[c].before, call[c].after)

InOrder(weeks) ==
    CHOOSE seq \in [1..Cardinality(weeks) -> weeks] :
        \A i, j \in DOMAIN seq : i < j => seq[i] < seq[j]

\* mutant: only the weeks of the new state
EmissionsOfAfter(e, b, a) ==
    LET head == IF a = Absent THEN Item("deleted", e, Absent) ELSE Item("state", e, a)
        weeks == InOrder(WeeksOf(a, a))
    IN <<head>> \o [i \in DOMAIN weeks |-> Item("weekly", weeks[i], Absent)]

\* emitResourceUpdateWithState or emitResourceDeleted for the entry, then
\* emitWeeklyReportsForEntryChange in the order of the URIs.
Emissions(e, b, a) ==
    LET head == IF a = Absent THEN Item("deleted", e, Absent) ELSE Item("state", e, a)
        weeks == InOrder(WeeksOf(b, a))
    IN <<head>> \o [i \in DOMAIN weeks |-> Item("weekly", weeks[i], Absent)]

\* EntriesCreate, UpdateEntry and DeleteEntry start; the latter two read the
\* entry first and take what they read as the state before.
StartCall(c) ==
    /\ call[c].pc = "idle"
    /\ Cardinality({d \in Call : InFlight(d)}) < MaxInFlight
    /\ \E e \in Entry, a \in Shape \cup {Absent} :
        /\ server[e] # Absent \/ a # Absent
        /\ call' = [call EXCEPT ![c].pc = "write", ![c].entry = e,
                                ![c].before = server[e], ![c].after = a]
    /\ UNCHANGED <<subVars, server, cache, copy, reading, fresh, gap>>

\* Two calls in flight mix their emissions up, whichever order they go in.
Mixed(c) == UNION {Affected(d) : d \in {d \in Call : d # c /\ InFlight(d)}}

\* The request is refused, for instance because the entry has gone.
WriteRefused(c) ==
    /\ call[c].pc = "write"
    /\ call' = [call EXCEPT ![c] = Done]
    /\ UNCHANGED <<subVars, server, cache, copy, reading, fresh, gap>>

\* The mutation is applied upstream.  quiet: nothing is emitted, because the
\* response is lost and the handler returns an error, or because the tool is
\* one that never emits (clockify_fix_entry, clockify_log_work).
Write(c, quiet) ==
    LET x == call[c]
    IN /\ x.pc = "write"
       /\ (server[x.entry] = Absent) = (x.before = Absent)
       /\ server' = [server EXCEPT ![x.entry] = x.after]
       /\ gap' = gap \cup (IF quiet THEN Affected(c) ELSE {})
                     \cup (IF Mixed(c) = {} THEN {} ELSE Mixed(c) \cup Affected(c))
       /\ call' = [call EXCEPT ![c] =
              IF quiet THEN Done
              ELSE [x EXCEPT !.pc = "emit", !.todo = Emissions(x.entry, x.before, x.after)]]
       /\ UNCHANGED <<subVars, cache, copy, reading, fresh>>

\* The head of todo is a weekly report: the cached one with the change added
\* when that can be had, else a read.
EmitWeekly(c) ==
    /\ call[c].pc = "emit" /\ call[c].todo # <<>> /\ Head(call[c].todo).kind = "weekly"
    /\ LET u == Head(call[c].todo).uri
           b == call[c].before
           a == call[c].after
           eligible == Eligible(u, b, a)
           item == IF eligible /\ WeeklyDeltaApplies(Lookup(u))
                   THEN Item("state", u, WeeklyDelta(WeeklyDelta(Lookup(u), b, -1), a, 1))
                   ELSE Item("read", u, Absent)
       IN /\ cache' = IF eligible THEN Touched(u) ELSE cache
          /\ call' = [call EXCEPT ![c].todo = <<item>> \o Tail(@)]
    /\ UNCHANGED <<subVars, server, copy, reading, fresh, gap>>

\* The subscription gate, passed.
Gate(c) ==
    /\ call[c].pc = "emit" /\ call[c].todo # <<>>
    /\ LET item == Head(call[c].todo)
       IN /\ item.kind \in {"state", "read"}
          /\ HasAnyURI(item.uri)
          /\ call' = [call EXCEPT ![c].pc = IF item.kind = "state" THEN "get" ELSE "fetch",
                                  ![c].doc = item.doc]
    /\ UNCHANGED <<subVars, server, cache, copy, reading, fresh, gap>>

\* Nobody is subscribed: no fetch, no notification, and a cached document
\* stays as it is.
GateClosed(c) ==
    /\ call[c].pc = "emit" /\ call[c].todo # <<>>
    /\ LET item == Head(call[c].todo)
       IN /\ item.kind \in {"state", "read"}
          /\ ~HasAnyURI(item.uri)
          /\ gap' = gap \cup (IF Cached(item.uri) THEN {item.uri} ELSE {})
    /\ call' = [call EXCEPT ![c].todo = Tail(@)]
    /\ UNCHANGED <<subVars, server, cache, copy, reading, fresh>>

\* emitResourceDeleted has no gate.
EmitDeleted(c) ==
    /\ call[c].pc = "emit" /\ call[c].todo # <<>> /\ Head(call[c].todo).kind = "deleted"
    /\ cache' = Without(Head(call[c].todo).uri)
    /\ call' = [call EXCEPT ![c].pc = "send", ![c].format = "deleted"]
    /\ UNCHANGED <<subVars, server, copy, reading, fresh, gap>>

Fetch(c) ==
    /\ call[c].pc = "fetch"
    /\ LET doc == ReadResource(server, Head(call[c].todo).uri)
       IN /\ doc # Absent
          /\ call' = [call EXCEPT ![c].pc = "get", ![c].doc = doc]
    /\ UNCHANGED <<subVars, server, cache, copy, reading, fresh, gap>>

FetchFails(c) ==
    /\ call[c].pc = "fetch"
    /\ cache' = Without(Head(call[c].todo).uri)
    /\ call' = [call EXCEPT ![c].pc = "send", ![c].format = "none"]
    /\ UNCHANGED <<subVars, server, copy, reading, fresh, gap>>

CacheGet(c) ==
    /\ call[c].pc = "get"
    /\ LET u == Head(call[c].todo).uri
       IN /\ cache' = Touched(u)
          /\ call' = [call EXCEPT ![c].pc = "put", ![c].prev = Lookup(u)]
    /\ UNCHANGED <<subVars, server, copy, reading, fresh, gap>>

CachePut(c) ==
    /\ call[c].pc = "put"
    /\ cache' = Stored(Head(call[c].todo).uri, call[c].doc)
    /\ call' = [call EXCEPT ![c].pc = "send",
                            ![c].format = IF call[c].prev = Absent THEN "none" ELSE "merge"]
    /\ UNCHANGED <<subVars, server, copy, reading, fresh, gap>>

\* What a client makes of a notification.
Updated(doc, x) ==
    CASE x.format = "deleted" -> Absent
      [] x.format = "none" -> Unknown
      [] doc \in {Unknown, Absent} -> Unknown
      [] OTHER -> ApplyAny0(doc, DiffObjects0(x.prev, x.doc))

\* NotifyResourceUpdated
Send(c) ==
    /\ call[c].pc = "send"
    /\ LET u == Head(call[c].todo).uri
           told == TargetsFor(u)
       IN /\ copy' = [n \in Notifier |->
                 IF n \in told THEN [copy[n] EXCEPT ![u] = Updated(@, call[c])] ELSE copy[n]]
          /\ reading' = [n \in Notifier |->
                 IF n \in told /\ reading[n].uri = u
                 THEN [reading[n] EXCEPT !.doc = Unknown] ELSE reading[n]]
          /\ fresh' = fresh \ {<<n, u>> : n \in told}
    /\ call' = [call EXCEPT ![c].pc = "emit", ![c].todo = Tail(@),
                            ![c].doc = Absent, ![c].prev = Absent, ![c].format = "none"]
    /\ UNCHANGED <<subVars, server, cache, gap>>

Finish(c) ==
    /\ call[c].pc = "emit" /\ call[c].todo = <<>>
    /\ call' = [call EXCEPT ![c] = Done]
    /\ UNCHANGED <<subVars, server, cache, copy, reading, fresh, gap>>

-----------------------------------------------------------------------------
(* Clients.                                                                *)

NoRead == [uri |-> Absent, doc |-> Unknown]

\* A client changes no subscription while it waits for a read.
Reading(s) == s \in Notifier /\ reading[s] # NoRead

Subscribe(s, u) ==
    /\ ~Reading(s)
    /\ AddSubscription(s, u)
    /\ copy' = IF s \in Notifier THEN [copy EXCEPT ![s][u] = Unknown] ELSE copy
    /\ fresh' = IF s \in Notifier THEN fresh \cup {<<s, u>>} ELSE fresh
    /\ UNCHANGED <<server, cache, call, reading, gap>>

Unsubscribe(s, u) ==
    /\ ~Reading(s)
    /\ RemoveSubscription(s, u)
    /\ fresh' = fresh \ {<<s, u>>}
    /\ UNCHANGED <<server, cache, call, copy, reading, gap>>

\* handleResourcesRead: the upstream request, then the response, which the
\* client uses unless it was overtaken.
StartRead(n, u) ==
    /\ n \in hub /\ u \in byNotifier[n]
    /\ reading[n] = NoRead /\ copy[n][u] = Unknown
    /\ reading' = [reading EXCEPT ![n] = [uri |-> u, doc |-> ReadResource(server, u)]]
    /\ UNCHANGED <<subVars, server, cache, call, copy, fresh, gap>>

EndRead(n) ==
    /\ reading[n] # NoRead
    /\ copy' = [copy EXCEPT ![n][reading[n].uri] = reading[n].doc]
    /\ reading' = [reading EXCEPT ![n] = NoRead]
    /\ UNCHANGED <<subVars, server, cache, call, fresh, gap>>

Streams ==
    /\ \E n \in Notifier :
          AddNotifier(n) \/ (~Reading(n) /\ RemoveNotifier(n)) \/ DropNotifier(n)
    /\ fresh' = {p \in fresh : p[1] \in hub'}
    /\ UNCHANGED <<server, cache, call, copy, reading, gap>>

-----------------------------------------------------------------------------
Init ==
    /\ SubsInit
    /\ server \in Workspaces
    /\ cache = <<>>
    /\ call = [c \in Call |-> Idle]
    /\ copy = [n \in Notifier |-> [u \in Uri |-> Unknown]]
    /\ reading = [n \in Notifier |-> NoRead]
    /\ fresh = {}
    /\ gap = {}

Emit(c) ==
    \/ EmitWeekly(c) \/ Gate(c) \/ GateClosed(c) \/ EmitDeleted(c)
    \/ Fetch(c) \/ FetchFails(c) \/ CacheGet(c) \/ CachePut(c) \/ Send(c) \/ Finish(c)

Next ==
    \/ \E c \in Call : StartCall(c) \/ WriteRefused(c) \/ Emit(c)
    \/ \E c \in Call, quiet \in BOOLEAN : Write(c, quiet)
    \/ \E p \in Interest : Subscribe(p[1], p[2]) \/ Unsubscribe(p[1], p[2])
    \/ \E n \in Notifier, u \in Uri : StartRead(n, u)
    \/ \E n \in Notifier : EndRead(n)
    \/ Streams

Spec == Init /\ [][Next]_vars

-----------------------------------------------------------------------------
\* What is left to publish; a "state" or a "deleted" is of an entry, the
\* others are of weeks.
Items ==
    [kind : {"weekly", "read"}, uri : Week, doc : {Absent}]
        \cup [kind : {"state"}, uri : Entry, doc : Shape]
        \cup [kind : {"deleted"}, uri : Entry, doc : {Absent}]

CallStates ==
    [pc : {"idle", "write", "emit", "fetch", "get", "put", "send", "done"},
     entry : Entry \cup {Absent}, before : Shape \cup {Absent},
     after : Shape \cup {Absent}, todo : Seq(Items),
     doc : Document \cup {Absent}, prev : Document \cup {Absent},
     format : {"none", "merge", "deleted"}]

\* What a client makes of deltas it misses the base of is no document.
TypeOK ==
    /\ SubsTypeOK
    /\ server \in Workspaces
    /\ cache \in Seq([uri : Uri, doc : Document])
    /\ call \in [Call -> CallStates]
    /\ DOMAIN copy = Notifier /\ \A n \in Notifier : DOMAIN copy[n] = Uri
    /\ reading \in [Notifier -> [uri : Uri \cup {Absent},
                                doc : Document \cup {Absent, Unknown}]]
    /\ fresh \subseteq Notifier \X Uri /\ gap \subseteq Uri

(* The cache never holds more than its capacity, nor two documents of one  *)
(* URI, whichever get, put and drop of concurrent calls come in between    *)
(* (resourceStateCache).                                                   *)
CacheIsBounded ==
    /\ Len(cache) <= CacheCap
    /\ \A i, j \in DOMAIN cache : cache[i].uri = cache[j].uri => i = j

(* A client that patches its copy with every delta has, once the server is *)
(* quiet, the document upstream - also when it reads while the emission is *)
(* under way, when documents are evicted and when a read fails - unless    *)
(* the URI was changed while it was cached without an emission, or by two  *)
(* calls at a time (resources.go: emitResourceUpdate and its variants).    *)
Quiet(n) == reading[n] = NoRead /\ \A c \in Call : ~InFlight(c)

SettledInSync ==
    \A n \in hub : \A u \in byNotifier[n] \ gap :
        Quiet(n) /\ copy[n][u] # Unknown => copy[n][u] = ReadResource(server, u)

(* The deltas themselves are right whatever the documents (MergePatch).    *)
(* The statement is about operators alone: TLC need evaluate it at the     *)
(* start only.                                                             *)
DeltaRoundTrips == Init => RoundTrips

(* The first notification after resources/subscribe tells the client to    *)
(* fetch (or that the resource has gone), because no delta can be based on *)
(* a document this client has: FormatNone's comment in merge_patch.go.     *)
FreshSubscriptionFetches ==
    [][\A c \in Call, n \in Notifier :
          call[c].pc = "send" /\ call'[c].pc = "emit" =>
             LET u == Head(call[c].todo).uri
             IN <<n, u>> \in fresh /\ n \in TargetsFor(u)
                    => call[c].format \in {"none", "deleted"}]_vars
=============================================================================
