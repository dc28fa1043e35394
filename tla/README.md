# Verification of go-clockify

TLA+ modules, TLC instances and TLAPS proofs for the Clockify MCP server: a
single-user process that speaks JSON-RPC on stdin and stdout, offers some 150
tools, and calls the Clockify REST API for them. Paths below are relative to the
repository root (`src/` in `PROJECT.json`).

Contents: [the system](#the-system) · [modules](#the-modules) ·
[runs](#what-the-runs-check) · [bounds](#bounds) · [fairness](#fairness) ·
[findings](#findings) · [proofs](#what-is-proved) · [not modelled](#not-modelled)

## The system

The code's own logic is in `internal/mcp` (the session), `internal/safety` (the
confirmation tokens), `internal/clockify` (the HTTP client) and `internal/tools`
(what each tool does).

| component | state it keeps | operations | what is hard |
|---|---|---|---|
| **stdio session** `mcp/server.go` | slot semaphore `toolCallSem`, `inflight` (id → cancel func), `activeProgressTokens`, `initialized`, `outChan`, `outErr`, stdio context | read, dispatch (loop, async goroutine, call goroutine), cancel, re-initialize, reply, write, shut down | a goroutine per call racing the loop, the writer, the client's cancellations, timeouts, panics, signals; the order of the deferred calls |
| **confirmation rail** `mcp/tools.go` `callTool`, `safety/token.go` | `TokenStore.tokens`, the clock | issue (after a dry run), validate and spend, demand | calls race for one token; the token is spent before the wait for a family slot |
| **circuit breaker, retries** `clockify/circuit_breaker.go`, `client.go` | per endpoint: state, failures, openedAt, halfOpenInFlight | Before, After, attempt, back-off | requests report to a breaker that has changed state since it admitted them |
| **limits** `mcp/rate_limit.go` | token buckets, two family channels | take, acquire, release | waiting for a family slot while holding a call slot |
| **audit log** `mcp/audit_log.go` | the file, the mode | record, rotate | paths on which no record is written |
| **progress** `mcp/server.go` | last value per token | register, filter, release | values out of order, reuse of a token |
| **subscriptions, notifier hub** `mcp/resources.go`, `notifier_hub.go` | reference counts, subscribers | subscribe, unsubscribe, notify, remove | removal while a notification fans out; double unsubscribe |
| **resource deltas** `tools/resources.go`, `resource_cache.go` | last state sent per URI | get, put, emit | three critical sections per mutation; two mutations interleave |
| **tools/list cache** `mcp/tools.go` | cached page, its key | list, invalidate | a page filled from an older tool set |
| **name resolution** `internal/resolve`, `tools/resolve_cache.go` | name → id with a TTL | resolve, search page by page, sweep | an id that outlives a rename; rows that move between pages; a slow search that stores late |
| **tool handlers** `internal/tools` | none of their own: the workspace upstream | some 150 tools, each a sequence of reads, checks, writes and publications | one of several requests refused or its answer lost; dry runs; repetition |
| **timer and work sessions** `tools/timer.go`, `workflows_time_capture.go` | the running timer upstream | start, stop, switch | look, then act; the start fails after the stop |
| **merge patch** `internal/jsonmergepatch` | none | diff, apply, full replacement | nulls, members that change their type |
| **pagination of listings, size guard** | none | pure algorithms | boundaries |

How they interact. `Server.Run` (one goroutine) reads a message; a `tools/call`
waits there for a slot of `toolCallSem` and is given a goroutine, which claims
its progress token, registers its cancel func in `inflight` and runs `callTool`:
validation and rate limits, the confirmation rail, a slot of the risk family, the
handler. The handler calls the Clockify client, and every request of that passes
the breaker of its endpoint. The reply goes to `outChan`, which one writer
goroutine drains. A cancellation, a repeated initialize, the tool timeout, SIGTERM
and a failed write all end the same context from different goroutines. A handler
resolves names through the resolver and its cache, and publishes what it changed
through the emitter, whose gate asks the subscription counts and whose state cache
gives the base of each delta; the hub carries it to the subscribed streams.

What makes them correct: every request with an id is answered once unless the client
cancelled it or the session is torn down; nothing is held for a call that is
answered; limits hold whatever happened to earlier calls; a high-risk operation runs
at most once for each preview and only for what was previewed (one tool breaks this,
see Findings); a breaker that half-opens is always decided; a subscription count is
the number of subscribers, and a client that applies the deltas it is sent ends with
the document upstream; a dry run changes nothing, a success is complete, a delete is
confirmed, and a repeated call converges; an id resolved from a name is never older
than the cache lifetime, and is the only bearer unless rows moved under the search.
The hazards behind those, at the lines where they bite, are listed in
`PROJECT.json`.

## The modules

`Exchange` and `Consent` are the promises; `Dispatch` and `Confirmation` are the
code and are shown to implement them.

**`Exchange`**: one session as the client sees it. A request is unsent, open,
answered or closed; it may be closed without an answer only if it was cancelled,
carries no id, or the session is going down.

**`Dispatch`**: `Server.Run`, `handle` and the goroutines they start.

| variable | code |
|---|---|
| `mainPc`, `current`, `ret` | the read loop of `Run` and its deferred calls, the request in its hands, the value it returns |
| `pc` | where the goroutine of each request is; `queued` is a call for which the loop waits on the semaphore |
| `outcome`, `cause`, `expired` | what `callTool` gave; `context.Cause` of the call's own context; the tool timeout |
| `slots`, `family` | `toolCallSem` and the channels of `familyLimiter`, as the calls in them |
| `inflight`, `progress` | the two maps, with the call that put the entry there |
| `outq`, `delivered`, `outErr`, `ctxDone` | `outChan`, what reached stdout, the writer's failure, the stdio context |
| `client` | history: what the client last did about a call |

One action is one critical section, one channel operation or one context event;
consecutive steps of one goroutine that touch nothing another one reads are one
action. The deferred calls of `handle` (`cancel(nil)`, `unregisterInflight`,
`releaseProgressToken`) are `Unwind`; the goroutine's own (`<-toolCallSem`,
`wg.Done`) are `Exit`. `Run`'s are `Drain` (`wg.Wait`, `close(outChan)`) and
`Return` (wait for the writer, surface `outputErr`). `select` with several ready
cases is a choice: with room in the queue *and* a dead context a reply may be
enqueued or dropped. `callTool` is reduced to `Gate`, `AcquireFamily` or
`AbandonFamily`, and a handler that returns, fails or panics.

The client is constrained as JSON-RPC asks of it: two calls of one id are never
outstanding together. An id may be used again when its call was answered, was
cancelled, or belongs to the session before a repeated initialize.

**`Consent`**: offers under fresh names; an offer that is taken up entitles to one
run of the operation it was made for.

**`Confirmation`**: `callTool` over `TokenStore`. A payload is what
`safety.Payload` tells apart; whether it needs a confirmation and the family of
its tool are separate constants, as in the code (a raw DELETE is in the write
family). A third classification, `Heedless`, are the payloads of tools whose schema
takes `dry_run`, so that `callTool` leaves the preview to them, and whose handler drops
it: `clockify_users_invite`. Their dry runs act without any token. The properties set
exactly these runs aside, under the name `Slips`; the run `tools_invite` is about them.
`Validate` spends the token and decides in one step, as under the
store's mutex; the wait for a family slot, the handler and the audit record
follow as steps of their own.

**`Breaker`**: `CircuitBreaker.Before` and `After` per endpoint key, and the retry
loop of `doRequestValues`, which asks the breaker once and reports once. One HTTP
exchange has five kinds of result, by `isUpstreamFailure` and `isRetryableError`.
`age` is `now - openedAt`, saturated at `OpenDuration`. `role` is history: `late`
is a trial request whose half-open period was ended by another report.

**`Subscriptions`**: `resourceSubscriptions` and the hub. `byNotifier` and `refcount`
are the two maps of `mcp/resources.go`, `hub` the registered streams, `leaving` the
streams between the two critical sections of the remove closure (out of the hub,
then `dropNotifier`). The broadcast sentinel is a subscriber without a stream.

**`Deltas`** (extends `Subscriptions` and `MergePatch`): a mutating call writes
upstream and works off the list of what it publishes: the entry, then each week it
touches. One step is one critical section or one upstream request: the gate, the
fetch, the cache's get, its put, the send. `server` is the workspace, `cache` the LRU
list, `call` each call's progress, `copy` and `reading` what each client makes of
what it is sent, `fresh` and `gap` history. The client follows the documentation of
`ResourceUpdateDelta`: it patches the copy it holds, fetches after `none`, discards
a read that a notification overtook, and changes no subscription during a read. A
weekly report is a fold over the entries. Its document has no `range` member, as
`weeklySummary` returns none, so that `emitWeeklyReportDeltaFromCache` declines and
the report is fetched; the tests seed a document that has one.

**`MergePatch`**: `Diff`, `DiffOrFull` and `Apply`. `Key` are the names of members and
`Atom` everything that is no object, arrays and `Null` among it; `JSON` is built from
the two. An object is a function of its members and may nest one level, which is what
the resources do; arrays are atomic.

**`Steps`, `Calls` and the catalog.** A handler is a sequence of steps (`Steps`): read,
write, preview, validation, publication, each about one *slot* (the client of a
project, the entry to change, the invoice to create), with what becomes of the call
when the step fails. `TimeTools`, `ProjectTools`, `BillingTools`, `PeopleTools` and
`ConfigTools` give every tool of the registry its descriptor and its handler,
translated helper by helper under the names of the source. `Calls` runs one of them:
`Gate` is `callTool`'s, `Accepted`, `Rejected` and `Lost` are the three fates of a
write, `Answered` and `Unanswered` those of a read, and the client may make the call
again. `store` is the workspace, `base` what it was before this call, `begin` before
the first. `disturbed` and `overlooked` are history: whether anything went wrong, and
what went wrong without a word. `Undisturbed` is the reference: a function that gives,
for each step, where a handler on which nothing fails has got to; `Outcome` is the
workspace it leaves.

The theorems about `Calls` hold for any table of tools under its named assumptions, each
a condition on the text of single handlers that TLC evaluates over all of the real ones:
steps are well formed and previews come first (`CatalogAssumption`), what deletes is
high-risk (`DeletionAssumption`), what refuses comes before what writes
(`CheckAssumption`), every way on from a write leads to its publication
(`UpdateAssumption`), a step makes the claim of the result true and none undoes it
(`ClaimAssumption`), and one write of a repeatable tool, made in a workspace its guards
let through, does not change what the tool makes of that workspace
(`RepeatAssumption`). They are what a reviewer of a new tool has to look at.

Abstractions of the catalog, each on purpose: lists return archived objects too, as
the fake server of the tests does; a project's tasks go with it; the reads a preview
makes of its own and reads that only enrich a result after the write decide nothing
and are left out; all reasons to refuse the arguments are the step `Invalid`.

**`Resolver`**: `resolveCached` takes the time, looks into the cache, searches page
by page and stores; each of these is a step. `named` is who bears which name
upstream, where anybody creates, renames and deletes; `entries` is the cache. What a
search lists is upstream's affair (`Lists`): a server may ignore `strict-name-search`, a
search for an e-mail address never sends it, and the tests of `resolve.go` answer with
full pages of rows that do not match. So the code filters (`Matches`, for `exactMatches`
and `EqualFold`), while every row fills pages and counts towards the row cap
(`Paged`). `ListAll` reads to the last page; the search for a user has no row cap, ends
at its second match, and can run into the page stop. `read` are the rows the next page
comes after. `seen` is history: who bore the name when the first match was read, or the
last page if there was none, and whether the listing has stayed as it was since the
first page (`steady`). When it has not, the next page may begin anywhere, rows are read
twice or never, and `seen` holds the bearers among those that were read. Assumed of upstream: the
order of the rows does not change while nothing listed is created, renamed or deleted.
An object bears one name: the e-mail address and the display name of a user are names
of two objects.

`MCDispatch`, `MCConfirmation`, `MCBreaker`, `MCResources`, `MCTools` and `MCResolver`
hold the constants of the instances; `Dispatch_proof`, `Confirmation_proof`,
`Breaker_proof`, `Deltas_proof`, `Sync_proof`, `MergePatch_proof`, `Calls_proof` and
`Resolver_proof` the theorems. Some
modules define a variant of an action beside it (`SlotFreeOffByOne`,
`ValidateKeeping` ...): a mistake one could make at that place of the code, which
a named property is known to catch. No specification uses them.

## What the runs check

| run | question | answer |
|---|---|---|
| `dispatch_safety` | Do the limits hold, is every running call cancellable, does the end of input lose nothing and is a broken stdout reported, for calls with ids of their own? | yes, over 5 million states: two writes and a notification on two slots beside an asynchronous request, with every cancellation, timeout, panic, signal and write failure |
| `dispatch_reuse` | Two calls that use one id, after a cancellation or a repeated initialize: is each answered unless *it* was cancelled, does an answered call hold nothing, does every call end, the loop read on, and `Run` return? | yes: `Dispatch` implements `Exchange`; the last three under the fairness below |
| `dispatch_cancel` | Is a running call cancellable when its id was used before? | no, see Findings |
| `confirmation` | Three calls, two tokens: one run per preview, each token spent once and in time? | yes, but for the dry runs of `clockify_users_invite`, which run for real without a token: the rest of `Confirmation` implements `Consent` |
| `confirmation_audit` | Does every confirmed call leave a record? | no, see Findings |
| `breaker` | Is a half-open breaker always decided, and does an endpoint that heals recover? | yes |
| `breaker_trials` | Are trial requests bounded by `HalfOpenProbes`? | no, see Findings |
| `resources` | Are subscription counts exact and the cache bounded, does a client that applies the deltas end with the document upstream, and does a merge patch reproduce the new document? | yes, wherever no change went unpublished or overlapped another |
| `resources_stale` | Does the first notification of a new subscription tell the client to fetch? | no, see Findings |
| `tools` | For every tool, with failures anywhere and repeated calls: do dry runs and refusals change nothing, is a success complete and its claim true, is every delete confirmed, do repetitions converge, and is what changed, and only that, published? | yes, with the exceptions each property names |
| `tools_invite` | Does a dry run of `clockify_users_invite` change nothing? | no, see Findings |
| `resolver` | Is an answer the only bearer and never older than the cache lifetime, a refusal right and never older than the call, and does the cache grow past its threshold with live names only? | the ages and the cache: yes. "The only bearer" and "not found": yes unless rows moved between the pages of the search, see Findings |

Properties, each stated where it is defined: `ConcurrencyBounded`,
`AnsweredHoldsNothing`, `RunningIsCancellable`, `InputEndLosesNothing`,
`WriteErrorSurfaces`, `CallsEnd`, `LoopReadsOn`, `RunReturns`, `ImplementsExchange`
(Dispatch); `OneRunPerPreview`, `TokenSpentOnce`, `AcceptedInTime`,
`ConfirmedIsAudited`, `ImplementsConsent` (Confirmation); `HalfOpenIsProbed`,
`TrialsBounded`, `Recovers` (Breaker); `RefcountExact` (Subscriptions);
`CacheIsBounded`, `SettledInSync`, `FreshSubscriptionFetches` (Deltas);
`DeltaRoundTrips` (MCResources); `PureCalls`, `DryRunChangesNothing`,
`RefusedChangesNothing`, `SuccessIsComplete`, `RetryConverges`, `DeletionIsConfirmed`,
`ChangesArePublished`, `ClaimsAreTrue` (Calls); `AnswersAreRecent`,
`RefusalsAreFresh`, `GrowsWithLiveNamesOnly` (Resolver).

The exceptions in `Calls` are statements about the code too. `Silent` (MCTools) lists
the tools that change something a client can subscribe to without publishing it:
`fix_entry`, `log_work`, `start_work`, the start of `switch_work`, deletes of projects,
groups, a custom field set on a project, `entries_mark_invoiced`, the demo objects.
`Sequential` are the tools that resolve or create one thing after another and may
refuse half-way. `SwitchTools` take a 400 or 404 of the stop, to whichever of its
requests, for "no timer is running" (`isNoRunningTimer`); `switch_work` says so in a
warning (`Telling`). `timer_start` and the delete of a client go on when the request
of their check fails (`timer.go:88`, `clients.go:210`). `DryRunIgnored` is the tool of
`tools_invite`. `demo_cleanup` deletes without a confirmation.

## Bounds

* *Dispatch.* Two or three calls. Slots 2 in `dispatch_safety`, 1 in `dispatch_reuse`,
  where the loop must wait for liveness to be a question; two calls of one id that run
  side by side are in `dispatch_cancel`, and the theorem `Implementation` covers them
  for any number of slots. The default is 4 slots. Family caps 1 and 1
  (code: 2 and 1), `OutCap` 1 (code: 100). What matters is that demand exceeds
  each limit: three calls on two slots, two writes on one write slot, two replies
  for one place in the queue. `BoundedConcurrency` and the other theorems lift
  the safety part to any values. Two initializes are the least that make one of
  them a reset; two calls of one id the least that make a reuse.
* *Confirmation.* Three calls, two tokens, `TTL` 2 and `MaxTime` 3: a token issued
  at 0 can be used before, at and after its expiry and one issued at 1 or 2
  outlives it. Four payloads: a high-risk one whose handler previews, one that
  `callTool` previews, the one of `users_invite`, and one that needs no confirmation.
  Caps as in the code. Calls and tokens are interchangeable and
  treated as symmetric; no liveness is checked there.
* *Breaker.* Two callers on a GET and one on a POST, `FailureThreshold` 2,
  `HalfOpenProbes` 1 (the default), `MaxRetries` 1, `OpenDuration` 1. The default
  threshold of 5 adds states in which nothing new can happen; 2 is the least with
  a failure that does not open the breaker. No variable grows without bound: an
  open breaker's age saturates at the one value the code compares it with.
* *Resources.* One stream (stdio has one) and the sentinel, which shares a URI with it;
  one entry, which moves between two shapes, and one week; two calls in flight; a cache
  of one slot, so that the entry and its week evict each other: 3.3 million states.
  Two streams and two weeks add no step of another kind, and `CountsAreExact` holds for
  any number, `CacheBounded` and `InSync` too. `DeltaRoundTrips` ranges over all pairs of
  documents with up to two members, nested once, over four atoms: a null, an array with
  a null, one without, and another.
* *Tools.* Every tool of the catalog, three calls of it (enough for a lost answer, a
  repetition that fails and one that succeeds) and three failures in all; one slot for
  each thing a handler touches, in every state it may be found in. `clockify_users_invite` is
  there for one address and for two. The assumptions are evaluated over every tool, and
  `RepeatAssumption` over every workspace of its slots.
* *Resolver.* Two resolutions, three objects, two names and an e-mail address, every
  search listing one name besides the one it is for. Pages of one row, a row cap of
  two, a stop at the third page: three rows are the least with which a bearer on the first
  page is followed by a page that does not match and by another bearer, the cap is
  passed, and the search for a user, which has no cap, is stopped (code: 200, 5000 and 1000).
  A lifetime of one tick and a clock of two values, so that every entry is met both live
  and expired; a threshold of one. Callers and objects are symmetric: no liveness is
  checked there.

`CHECK_DEADLOCK FALSE` is set for `confirmation*`, `resources*`, `tools*` and
`resolver`: the clock is bounded, or the calls are finitely many, so an instance
ends. `Dispatch` has an explicit `Stopped` step instead.

## Fairness

`Dispatch`: goroutines that can run do run (weak fairness of each step of a call,
of the loop's reply, of the drain and of the writer); the tool timeout fires; a
handler *whose context is done* returns, which the code has from passing the
context to `net/http`; a write to stdout ends, well or badly. Nothing is assumed of the
client, of signals, or of a handler whose context is alive: that it ends comes
from the timeout. `AcquireSlot \/ AbandonSlot` needs weak fairness only, because
one loop waits for it. `AcquireFamily` is given weak fairness together with
`AbandonFamily`: a call that never gets a slot leaves with its timeout. In the liveness
run a single call goroutine lives at a time, so that no family slot is contended there:
several calls that wait for one, each with a call slot in its hand, are met in
`dispatch_safety` only, for the caps. That none waits for a call that waits itself is
`FamilyInv` of the proofs: the slots of a family are held by running handlers, and by
nobody else.

`Breaker`: time passes, an exchange ends (the HTTP client has a timeout), back-offs
end, reports are made, and callers keep asking: `Recovers` is conditional on the
last, since the breaker half-opens only when asked.

## Findings

* `dispatch_cancel` (server.go:420). The in-flight map is keyed by id and
  `unregisterInflight` deletes by key. If the id of a cancelled call is used again
  while the older goroutine is still returning, its deferred delete takes the newer
  call's entry and the newer call cannot be cancelled any more. `Cancellable`
  proves that the reuse is the only way to get there.
* `confirmation_audit` (tools.go:462). The token is spent before the wait for a
  family slot. When that wait ends with the timeout, `callTool` returns without a
  record, and so does a handler that panics, in every audit mode.
* `breaker_trials` (circuit_breaker.go:151). `After` does not know which requests
  are trials. A failure of a request that was admitted before the breaker opened
  re-opens it while a trial is under way, and the next half-open period admits
  another.
* `resources_stale` (tools/resources.go:627). Nothing clears a cached document when its
  last subscriber leaves, and nothing updates it while nobody is subscribed. The first
  notification of the next subscriber is a delta against a document it never had,
  where the comments promise `none`.
* `tools_invite` (oneuser_result_helpers.go:96). `UsersInvite` builds the inner
  handler's arguments without `dry_run`; since its schema declares `dry_run`, `callTool`
  makes no central preview either. A dry run sends the invitations.

Observed while modelling, with no promise in the repository to hold against it: a call
registers in the in-flight map on its own goroutine, so that a repeated initialize read
before that does not reach it (server.go:1063; the comment at 527 speaks of best
effort). `resources/read` and the prompts run in goroutines that take no call slot
(server.go:737). A 4xx or a cancelled request closes a half-open breaker
(circuit_breaker.go:153). A search for a name reads its pages one after the other and
takes no notice of rows that move meanwhile (resolve.go:188, client.go:550): a bearer is
missed when a row before it goes, so that "not found" is said of a name borne
throughout and an id is returned as the only one of two, and is counted twice when a
row comes in before it. `RefusalsAreFresh` and `AnswersAreRecent` without their
condition `steady` are refuted so. Names that differ in case share a cache key. Two overlapping
changes of one resource send deltas that do not compose (tools/resources.go:642).

## What is proved

All for every value of the constants that satisfies the named assumptions of the
module (disjoint kinds of request, functions of the right type, limits that are
numbers; `MaxInFlight = 0` is "no bound", as in the code).

**`Dispatch_proof`.** `TypeCorrect`; `Invariance` (`Spec => []IInv`); from it
`BoundedConcurrency`, `NothingHeldAfterAnswer`, `BrokenOutputReported`,
`EverythingAnswered`, `Cancellable`, and `Implementation`
(`Spec => ImplementsExchange`). None of the properties is inductive alone.
`IInv` adds what they rest on:

* `LoopInv`: the loop holds one request, and a queued call is the one it holds;
* `SlotsInv`, `FamilyInv`: the slots of the semaphore are *exactly* the live
  goroutines, and the channels of the family limiter exactly the running
  handlers. The bound alone is not kept by a step: a step that takes a slot
  needs to know that no live call is without one;
* `HeldInv`: what the two maps point at is between its registration and its unwind
  and has that id or token;
* `AnsweredInv`: what is queued or written has ended;
* `EndInv`: after `wg.Wait` no goroutine is left, after the writer nothing is queued;
* `SilenceInv`: a call is silenced by its own client's cancellation only, although
  causes are set through an id;
* `NothingLostInv`: while the context lives, what ended was answered or may be silent.

The refinement has one lemma per shape of an abstract step (stutter, send, close,
end of a request) and one step per action. The status of a request is a function
of `pc`, `delivered` and `outq`; `AnsweredInv` makes the four cases disjoint.
`Cancellable` assumes that no id is used twice and adds `EntryInv`: the entry
under the id of a running call is its own.

**`Confirmation_proof`.** `TypeCorrect`, `Invariance`, `SpentOnce`, `InTime`,
`OneRun`, `Implementation` (`Spec => ImplementsConsent`), for any set of tools that drop
their `dry_run`, the dry runs of which are not performances in the refinement
(`performed <- Acted \ Slips`); `RanInv` says that nothing else acts on a high-risk
payload without having been accepted. The core is
`AcceptedInv`: an accepted call holds a token that is out of the store, was issued
for its payload, and is no other accepted call's. `OneRun` is then a counting
argument: the accepted calls for a payload inject into the tokens issued for it
that are no longer in the store.

**`Breaker_proof`.** `TypeCorrect`, `Invariance`, `HalfOpenProbed`. `TypeOK` is not
inductive (a retry counter could pass its bound) without `RetryInv`; `CountInv`
equates `halfOpenInFlight` with the number of trial requests of the current
half-open period, and `ProbeInv` says that they are all under way.

**`Deltas_proof`.** `CountsAreExact` and `SubscribersAreNotGated`. `RefcountExact` is
inductive with the types beside it; what takes the work is counting: the lemmas say
what adding a subscription, removing one and dropping a stream's do to the number of
holders of each URI, and one frame lemma covers the steps that leave them alone.

**`MergePatch_proof`.** `RoundTrip`: `Received(prev, DiffOrFull(prev, curr)) = curr` for
any members and atoms, first for flat objects, then for objects that nest them.

**`Sync_proof`.** `TypeCorrect`, `CacheBounded`, `InSync`, `DeltasRoundTrip`, for any
entries, weeks, documents, clients, calls, limits and capacity; `DocumentAssumption` says
that a document is an object without nulls, as the two views are. `SettledInSync` speaks
of quiet moments only and says nothing of what leads there. `IInv` does:

* `Typed`: the types, with what a call knows of its own work: the list it works off
  names each URI once and only what the mutation affects, and the document in its hand
  is one of the URI at hand. `GoodCache` is what bounds the LRU list: `get`, `put` and
  `drop` keep it without two slots of one URI, so that a `put` adds one at most;
* `HubOK`: a stream that has left holds no subscription, and a client reads only what
  it is subscribed to;
* `AloneInv`, `StaleInv`: a call that publishes what is not in `gap` is the only one
  that publishes, and has the last word on its entry. This is where overlapping calls
  are set aside, and why nothing weaker than `gap` would do;
* `SyncInv`: for each URI outside `gap`, either no call owes its publication, and the
  cached document and every copy are the document upstream; or one does, the cache
  still has the document *before* the call, every copy has that one, the new one or
  none, and the base of the delta that is about to be sent is the one before.

A step of an emission either leaves a URI aside (`AsideKeepsSync`, one argument for all
of them) or has it at hand (`AtHandKeepsSync`); the send is where `RoundTrip`'s lemma on
flat objects comes in: a copy of the document before becomes the document upstream, and
one that had been fetched in between already stays what it is. `WriteKeepsSync` is the
mutation: URIs it does not affect keep their documents, because a report is made of the
entries of its week alone.

**`Calls_proof`.** One theorem for each property of `Calls`, for *every* catalog that
satisfies the assumptions above, any number of calls and any number of faults. But for
`TypeOK` none of the properties is inductive; each needs to know what a running call has behind it or
still ahead:

| theorem | what the invariant adds |
|---|---|
| `DryRunsArePure`, `DeletionsAreConfirmed` | `BeforePreview`: a dry run that is under way has its preview ahead, with no write and no jump before it |
| `RefusalsArePure` | `Untouched`: where the store has changed, no refusing step is ahead |
| `UpdatesAreSent` | `PublishInv`: of what is written, the publication is ahead on every way on (`Due`), or made; a publication ahead has its write ahead too, or made (`WritesFirst`) |
| `ResultsAreTrue` | `ClaimInv`: the step that makes the claim true is ahead, or the claim holds |
| `SuccessesAreComplete` | `SteadyInv`: a call that has nothing to tell of is where the reference is |
| `RetriesConverge` | `QuietInv`: a call without a failure is where the reference is, and ends with its outcome; `GuardInv`: the reads that had to let the call past would let it past still; `SameInv`: whatever has been done so far, the outcome of the workspace is that of the first |

`RetryConverges` is the one that no test of the handlers approaches: it is about
sequences of calls. `SameInv` reduces it to single writes, `GuardInv` to those a call
can get to; the rest is `RepeatAssumption`. What is a failure for the reference too, a
refusal or a request about a thing that is not there, ends both at the same place.

The reference is a recursive function over the steps of a handler, and what it computes
is proved by induction after all: over a set of numbers (`SetInduction`), which follows
from the library's well-foundedness of `<` by its theorem on minimal elements, neither of
which has a parameter the provers could not instantiate. `FollowersAgree` and
`FollowersExist` are the two inductions that give the function its equation.

**`Resolver_proof`.** `Invariance`, `TypeCorrect`, `Recent`, `Fresh`, `GrowthIsLive`, for
any lifetime, threshold, page size, row cap, page stop and number of callers, and whatever
the searches list. `EntryInv`: an entry expires within the lifetime of the sighting it
rests on. `SearchOf` is about a search between two pages: while nothing it lists changes,
the rows it has read are as many as its pages hold and are still listed, and its count
is the number of bearers among them (`TallyOf`); once something has changed, what is
left is that the match it has in hand bore the name when it was read (`MatchOf`).
`PagesAddUp` is the arithmetic of it: a page that is not full, behind pages that were, has
the last of the rows. `ShuffledKeeps` is the step at which the one half of the invariant
gives way to the other.

Every safety property that a run checks and does not refute is a theorem. Only
model-checked: the liveness properties (`CallsEnd`, `LoopReadsOn`, `RunReturns`,
`Recovers`), since TLAPS has no rule for fairness or `ENABLED` here. The properties of
the runs that expect a violation are false, as the findings say. No module here declares
a `RECURSIVE` operator.

## Not modelled

* Wording, JSON, logging, argument schemas and the REST payloads of the tools. What a
  handler validates again behind the schema, as `invoice_client_work` does with
  `project_ids` after its POST (workflows_business.go:189), cannot refuse any more.
* `allow_overlap` of `log_work` and `upsert=false` of the tools that have it: `RetryConverges`
  is about the defaults.
* The refill of the token buckets and the progress filter compare floating-point
  values; a refused call is one of the outcomes of `Gate` and `TurnAway`.
* The response size guard, schema validation and time parsing are string work without
  state. The tools/list page is cached over a registry that is fixed at start.
* The pages of listings returned to the client: no snapshot is promised.
* Configuration: the catalog is run in the confirmation mode production sets
  (`runtime/build.go:88,119`); the mode that disables it is for local tests.
* Handlers that no tool of the registry reaches (`ArchiveProjects`,
  `CreateProjectFromTemplate`, `UpdateProjectTemplate`, `AssignProjectMemberships`,
  `UpdateMemberProfile`, `ListUserManagers`, `AssignmentReport`, `GetProjectTemplate`,
  `UnbilledForClient`, `CreateUserGroup`, `UpdateUserGroup`, `DeleteUserGroup`).
* Two tool calls that change one thing upstream at the same time: `Calls` runs one call
  at a time from any state it may find; interleaved calls are in `Deltas` and
  `Resolver`. A second timer started between the look and the start is upstream's to
  refuse.
* Two argument maps with one SHA-256 hash, and two equal random tokens.
* A client that uses the number 1 and the string "1" as different ids: `rpcIDKey`
  maps them to one key, and `Ids` are keys.
* `net/http` and `context`: that a handler whose context is done returns is an
  assumption about them, stated as the fairness of `HandlerReturns`.
* Components with status `not_modelled` in `PROJECT.json`, each with its reason.

Where the code has one more thing to say than the bounds allow, the theorems say it for
every value; what is neither checked nor proved is in the list above.
