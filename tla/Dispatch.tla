------------------------------ MODULE Dispatch ------------------------------
(***************************************************************************)
(* The stdio session of internal/mcp/server.go: Server.Run reads one       *)
(* message at a time, answers the cheap methods itself, hands resources/*  *)
(* and prompts/* to a goroutine, and tools/call to a goroutine that holds  *)
(* a slot of toolCallSem.  A single writer goroutine drains outChan.       *)
(*                                                                         *)
(* callTool is reduced to what the session sees of it: it may end before   *)
(* the handler (Gate), it waits for a slot of its risk family              *)
(* (rate_limit.go), the handler runs under the tool timeout, and it        *)
(* returns a result, returns an error or panics.  The confirmation gate    *)
(* inside it is Confirmation.tla.                                          *)
(*                                                                         *)
(* A step is one critical section, channel operation or context event;     *)
(* consecutive steps of one goroutine that touch nothing another one reads *)
(* in between are one action.                                              *)
(***************************************************************************)
EXTENDS Naturals, FiniteSets, Sequences

CONSTANTS
    Calls,        \* tools/call requests
    Async,        \* resources/list, resources/read, prompts/get ... requests
    Sync,         \* requests the read loop answers itself (ping, subscribe ...)
    Initializes,  \* the initialize requests among Sync
    Ids,          \* JSON-RPC ids, as rpcIDKey sees them
    IdOf,         \* id of each call, None for a notification
    Tokens,       \* progress tokens
    TokenOf,      \* progress token of each call, None if it asks for none
    FamilyOf,     \* risk family of the called tool
    MaxInFlight,  \* Server.MaxInFlightToolCalls; 0 means no bound
    WriteCap, HighCap,  \* newFamilyLimiter: 2 and 1
    OutCap,       \* capacity of outChan (100)
    None

Families == {"read", "write", "high"}
Requests == Calls \cup Async \cup Sync

ASSUME KindsAssumption ==
    /\ Calls \cap Async = {} /\ Calls \cap Sync = {} /\ Async \cap Sync = {}
    /\ Initializes \subseteq Sync
    /\ IsFiniteSet(Calls)
ASSUME CallAssumption ==
    /\ None \notin Calls /\ None \notin Ids /\ None \notin Tokens
    /\ IdOf \in [Calls -> Ids \cup {None}]
    /\ TokenOf \in [Calls -> Tokens \cup {None}]
    /\ FamilyOf \in [Calls -> Families]
ASSUME LimitAssumption ==
    /\ MaxInFlight \in Nat
    /\ WriteCap \in Nat \ {0} /\ HighCap \in Nat \ {0} /\ OutCap \in Nat \ {0}

VARIABLES
    mainPc,       \* where the read loop of Run is
    current,      \* the request the read loop holds, or None
    ret,          \* what Run has decided to return
    pc,           \* where each request is
    outcome,      \* what callTool gave for each call
    cause,        \* cancellation cause of each call's own context
    expired,      \* calls in callTool whose CLOCKIFY_TOOL_TIMEOUT has passed
    slots,        \* calls holding a slot of toolCallSem
    family,       \* calls holding a slot of each capped risk family
    inflight,     \* Server.inflight: id -> the call whose cancel func it holds
    progress,     \* Server.activeProgressTokens, with the call that registered
    initialized,  \* Server.initialized
    outq,         \* outChan
    delivered,    \* responses written to stdout
    outErr,       \* the writer goroutine failed and is gone (outErr, outDone)
    ctxDone,      \* stdioCtx is done
    client        \* what the client last did about each call (history)

mainVars == <<mainPc, current, ret>>
callVars == <<outcome, cause, expired>>
lockVars == <<slots, family, inflight, progress>>
outVars  == <<outq, delivered, outErr, ctxDone>>
vars == <<mainVars, pc, callVars, lockVars, initialized, outVars, client>>

PC == {"unsent", "queued", "spawned", "named", "gate", "acquiring", "running",
       "returned", "unwinding", "replying", "exiting", "done"}
Outcomes == {"none", "ok", "err", "panic", "silent"}

TypeOK ==
    /\ mainPc \in {"select", "acquire", "reply", "drain", "flush", "returned"}
    /\ current \in Requests \cup {None}
    /\ ret \in {"nil", "err"}
    /\ pc \in [Requests -> PC]
    /\ outcome \in [Calls -> Outcomes]
    /\ cause \in [Calls -> {"none", "explicit", "reset"}]
    /\ expired \subseteq Calls
    /\ slots \subseteq Calls
    /\ family \in [Families -> SUBSET Calls]
    /\ inflight \in [Ids -> Calls \cup {None}]
    /\ progress \in [Tokens -> Calls \cup {None}]
    /\ initialized \in BOOLEAN
    /\ outq \in Seq(Requests)
    /\ delivered \subseteq Requests
    /\ outErr \in BOOLEAN /\ ctxDone \in BOOLEAN
    /\ client \in [Calls -> {"idle", "waiting", "cancelled", "reset"}]

Init ==
    /\ mainPc = "select" /\ current = None /\ ret = "nil"
    /\ pc = [r \in Requests |-> "unsent"]
    /\ outcome = [r \in Calls |-> "none"]
    /\ cause = [r \in Calls |-> "none"]
    /\ expired = {} /\ slots = {}
    /\ family = [f \in Families |-> {}]
    /\ inflight = [i \in Ids |-> None]
    /\ progress = [t \in Tokens |-> None]
    /\ initialized = FALSE
    /\ outq = <<>> /\ delivered = {} /\ outErr = FALSE /\ ctxDone = FALSE
    /\ client = [r \in Calls |-> "idle"]
-----------------------------------------------------------------------------
(***************************************************************************)
(* The client.  It never has two calls with one id outstanding, but may    *)
(* use an id again once it has the answer, has cancelled the call, or has  *)
(* re-initialized the session.                                             *)
(***************************************************************************)
Unanswered(r) == client[r] # "idle" /\ r \notin delivered
Outstanding(r) == client[r] = "waiting" /\ r \notin delivered

MaySend(r) ==
    \A q \in Calls \ {r} : IdOf[q] = IdOf[r] /\ IdOf[q] # None => ~Outstanding(q)

\* The context a call's handler runs under is done.
CallCtxDone(r) == cause[r] # "none" \/ r \in expired \/ ctxDone

\* cancel(cause) on each call of S: the first cause of a context stays.
CauseAfter(S, c) ==
    [r \in Calls |-> IF r \in S /\ cause[r] = "none" /\ ~ctxDone THEN c ELSE cause[r]]
-----------------------------------------------------------------------------
(***************************************************************************)
(* The read loop.                                                          *)
(***************************************************************************)
ReadCall(r) ==
    /\ mainPc = "select" /\ pc[r] = "unsent" /\ MaySend(r)
    /\ mainPc' = "acquire" /\ current' = r
    /\ pc' = [pc EXCEPT ![r] = "queued"]
    /\ client' = [client EXCEPT ![r] = "waiting"]
    /\ UNCHANGED <<ret, callVars, lockVars, initialized, outVars>>

SlotFreeOffByOne == MaxInFlight = 0 \/ Cardinality(slots) <= MaxInFlight
SlotFree == MaxInFlight = 0 \/ Cardinality(slots) < MaxInFlight

\* A slot is free: the call gets it and its goroutine, the loop reads on.
AcquireSlot(r) ==
    /\ mainPc = "acquire" /\ current = r /\ SlotFree
    /\ mainPc' = "select" /\ current' = None
    /\ pc' = [pc EXCEPT ![r] = "spawned"]
    /\ slots' = IF MaxInFlight = 0 THEN slots ELSE slots \cup {r}
    /\ UNCHANGED <<ret, callVars, family, inflight, progress, initialized,
                   outVars, client>>

\* stdioCtx ended while the loop waited for a slot: Run returns nil.
AbandonSlot(r) ==
    /\ mainPc = "acquire" /\ current = r /\ MaxInFlight # 0 /\ ctxDone
    /\ mainPc' = "drain" /\ current' = None
    /\ pc' = [pc EXCEPT ![r] = "done"]
    /\ UNCHANGED <<ret, callVars, lockVars, initialized, outVars, client>>

ReadAsync(r) ==
    /\ mainPc = "select" /\ pc[r] = "unsent"
    /\ pc' = [pc EXCEPT ![r] = "running"]
    /\ UNCHANGED <<mainVars, callVars, lockVars, initialized, outVars, client>>

\* cancelAllInflight: the calls of the map are cancelled and forgotten.
ResetInflight ==
    LET held == {inflight[i] : i \in Ids} \ {None}
    IN  /\ cause' = CauseAfter(held, "reset")
        /\ inflight' = [i \in Ids |-> None]
        /\ client' = [r \in Calls |->
                        IF Outstanding(r) THEN "reset" ELSE client[r]]

\* A request the loop handles itself.  A repeated initialize resets the calls.
ReadSync(r) ==
    /\ mainPc = "select" /\ pc[r] = "unsent"
    /\ mainPc' = "reply" /\ current' = r
    /\ pc' = [pc EXCEPT ![r] = "replying"]
    /\ IF r \in Initializes /\ initialized
         THEN ResetInflight
         ELSE UNCHANGED <<cause, inflight, client>>
    /\ initialized' = (initialized \/ r \in Initializes)
    /\ UNCHANGED <<ret, outcome, expired, slots, family, progress, outVars>>

\* notifications/cancelled for an id the client waits on (cancelInflight).  The
\* cancellation names every call of that id that has no answer yet, those of
\* before a reset included.
ReadCancel(i) ==
    /\ mainPc = "select"
    /\ \E r \in Calls : Outstanding(r) /\ IdOf[r] = i
    /\ cause' = CauseAfter({inflight[i]}, "explicit")
    /\ inflight' = [inflight EXCEPT ![i] = None]
    /\ client' = [r \in Calls |-> IF Unanswered(r) /\ IdOf[r] = i
                                     THEN "cancelled" ELSE client[r]]
    /\ UNCHANGED <<mainVars, pc, outcome, expired, slots, family, progress,
                   initialized, outVars>>

\* End of input, or a scanner error.
ReadEOF ==
    /\ mainPc = "select"
    /\ mainPc' = "drain"
    /\ ret' \in {"nil", "err"}
    /\ UNCHANGED <<current, pc, callVars, lockVars, initialized, outVars, client>>

LoopSeesCtxDone ==
    /\ mainPc = "select" /\ ctxDone
    /\ mainPc' = "drain"
    /\ ret' = IF outErr THEN "err" ELSE "nil"
    /\ UNCHANGED <<current, pc, callVars, lockVars, initialized, outVars, client>>
-----------------------------------------------------------------------------
(***************************************************************************)
(* enqueueResponseBytes: the response goes to outChan when there is room   *)
(* and the writer has not failed; it is dropped once the writer has failed *)
(* or stdioCtx is done.  With room and a done context Go picks either.     *)
(***************************************************************************)
CanEnqueue == ~outErr /\ Len(outq) < OutCap
CanDropNever == FALSE
CanDrop == outErr \/ ctxDone

Enqueue(r) == CanEnqueue /\ outq' = Append(outq, r)
Drop == CanDrop /\ UNCHANGED outq

LoopReplies(r) ==
    /\ mainPc = "reply" /\ current = r
    /\ \/ Enqueue(r) /\ mainPc' = "select" /\ UNCHANGED ret
       \/ Drop /\ mainPc' = "drain" /\ ret' = "err"
    /\ current' = None
    /\ pc' = [pc EXCEPT ![r] = "done"]
    /\ UNCHANGED <<callVars, lockVars, initialized, delivered, outErr, ctxDone, client>>
-----------------------------------------------------------------------------
(***************************************************************************)
(* The goroutine of a tools/call: handle, then callTool, then the deferred *)
(* calls in reverse order.                                                 *)
(***************************************************************************)
\* Rejected before anything is registered: not initialized, invalid params, or
\* a progress token that another call in flight holds.
Refuse(r) ==
    /\ pc[r] = "spawned"
    /\ pc' = [pc EXCEPT ![r] = "replying"]
    /\ outcome' = [outcome EXCEPT ![r] = "ok"]
    /\ UNCHANGED <<mainVars, cause, expired, lockVars, initialized, outVars, client>>

\* registerProgressToken.
ClaimToken(r) ==
    /\ pc[r] = "spawned" /\ initialized
    /\ TokenOf[r] # None => progress[TokenOf[r]] = None
    /\ progress' = [t \in Tokens |-> IF t = TokenOf[r] THEN r ELSE progress[t]]
    /\ pc' = [pc EXCEPT ![r] = "named"]
    /\ UNCHANGED <<mainVars, callVars, slots, family, inflight, initialized,
                   outVars, client>>

\* registerInflight without its test for a nil id.
RegisterInflightAnyId(r) ==
    /\ pc[r] = "named"
    /\ inflight' = [i \in Ids \cup {IdOf[r]} |-> IF i = IdOf[r] THEN r ELSE inflight[i]]
    /\ pc' = [pc EXCEPT ![r] = "gate"]
    /\ UNCHANGED <<mainVars, callVars, slots, family, progress, initialized,
                   outVars, client>>

\* registerInflight: an entry under the same key is overwritten.
RegisterInflight(r) ==
    /\ pc[r] = "named"
    /\ inflight' = [i \in Ids |-> IF i = IdOf[r] THEN r ELSE inflight[i]]
    /\ pc' = [pc EXCEPT ![r] = "gate"]
    /\ UNCHANGED <<mainVars, callVars, slots, family, progress, initialized,
                   outVars, client>>

\* callTool before the handler: unknown tool and invalid arguments are errors;
\* rate limiting and the confirmation gate answer with an ordinary result.
Gate(r) ==
    /\ pc[r] = "gate"
    /\ \/ /\ pc' = [pc EXCEPT ![r] = "acquiring"]
          /\ UNCHANGED outcome
       \/ /\ pc' = [pc EXCEPT ![r] = "returned"]
          /\ outcome' \in {[outcome EXCEPT ![r] = o] : o \in {"ok", "err"}}
    /\ UNCHANGED <<mainVars, cause, expired, lockVars, initialized, outVars, client>>

FamilyFree(r) ==
    CASE FamilyOf[r] = "write" -> Cardinality(family["write"]) < WriteCap
      [] FamilyOf[r] = "high"  -> Cardinality(family["high"]) < HighCap
      [] OTHER -> TRUE

\* familyLimiter.acquire got a slot; a read takes none.
AcquireFamily(r) ==
    /\ pc[r] = "acquiring" /\ FamilyFree(r)
    /\ family' = IF FamilyOf[r] = "read" THEN family
                 ELSE [family EXCEPT ![FamilyOf[r]] = @ \cup {r}]
    /\ pc' = [pc EXCEPT ![r] = "running"]
    /\ UNCHANGED <<mainVars, callVars, slots, inflight, progress, initialized,
                   outVars, client>>

\* familyLimiter.acquire gave up: its context ended first.
AbandonFamily(r) ==
    /\ pc[r] = "acquiring" /\ FamilyOf[r] # "read" /\ CallCtxDone(r)
    /\ pc' = [pc EXCEPT ![r] = "returned"]
    /\ outcome' = [outcome EXCEPT ![r] = "err"]
    /\ expired' = expired \ {r}
    /\ UNCHANGED <<mainVars, cause, lockVars, initialized, outVars, client>>

\* The tool timeout fires in a context that was not done before.
Expire(r) ==
    /\ pc[r] \in {"acquiring", "running"} /\ r \in Calls /\ ~CallCtxDone(r)
    /\ expired' = expired \cup {r}
    /\ UNCHANGED <<mainVars, pc, outcome, cause, lockVars, initialized, outVars, client>>

ReleasedFamily(r) == [f \in Families |-> family[f] \ {r}]

\* The handler, and with it callTool, returns; a handler may succeed although
\* its context is done.
HandlerReturns(r, o) ==
    /\ pc[r] = "running" /\ r \in Calls
    /\ pc' = [pc EXCEPT ![r] = "returned"]
    /\ outcome' = [outcome EXCEPT ![r] = o]
    /\ family' = ReleasedFamily(r)
    /\ expired' = expired \ {r}
    /\ UNCHANGED <<mainVars, cause, slots, inflight, progress,
                   initialized, outVars, client>>

\* The handler panics without the family slot being released on the way out.
HandlerPanicsKeepingSlot(r) ==
    /\ pc[r] = "running" /\ r \in Calls
    /\ pc' = [pc EXCEPT ![r] = "unwinding"]
    /\ outcome' = [outcome EXCEPT ![r] = "panic"]
    /\ expired' = expired \ {r}
    /\ UNCHANGED <<mainVars, cause, lockVars, initialized, outVars, client>>

\* The handler panics: the deferred calls run, then RecoverDispatch replies.
HandlerPanics(r) ==
    /\ pc[r] = "running" /\ r \in Calls
    /\ pc' = [pc EXCEPT ![r] = "unwinding"]
    /\ outcome' = [outcome EXCEPT ![r] = "panic"]
    /\ family' = ReleasedFamily(r)
    /\ expired' = expired \ {r}
    /\ UNCHANGED <<mainVars, cause, slots, inflight, progress,
                   initialized, outVars, client>>

\* As below, with the repeat-initialize reset taken for a client's cancellation.
ClassifyAnyCancel(r) ==
    /\ pc[r] = "returned"
    /\ outcome' = IF outcome[r] = "err" /\ cause[r] # "none"
                    THEN [outcome EXCEPT ![r] = "silent"] ELSE outcome
    /\ pc' = [pc EXCEPT ![r] = "unwinding"]
    /\ UNCHANGED <<mainVars, cause, expired, lockVars, initialized, outVars, client>>

\* handle after callTool: an error of a call whose own context was cancelled
\* by the client is not answered.
Classify(r) ==
    /\ pc[r] = "returned"
    /\ outcome' = IF outcome[r] = "err" /\ cause[r] = "explicit"
                    THEN [outcome EXCEPT ![r] = "silent"] ELSE outcome
    /\ pc' = [pc EXCEPT ![r] = "unwinding"]
    /\ UNCHANGED <<mainVars, cause, expired, lockVars, initialized, outVars, client>>

\* As below, with unregisterInflight replacing the map as cancelAllInflight does.
UnwindDroppingAll(r) ==
    /\ pc[r] = "unwinding"
    /\ inflight' = [i \in Ids |-> None]
    /\ progress' = [t \in Tokens |-> IF t = TokenOf[r] THEN None ELSE progress[t]]
    /\ cause' = [cause EXCEPT ![r] = "none"]
    /\ pc' = [pc EXCEPT ![r] = "replying"]
    /\ UNCHANGED <<mainVars, outcome, expired, slots, family, initialized,
                   outVars, client>>

\* The deferred cancel(nil), after which the context is no one's,
\* unregisterInflight, which deletes by key, and releaseProgressToken.
Unwind(r) ==
    /\ pc[r] = "unwinding"
    /\ inflight' = [i \in Ids |-> IF i = IdOf[r] THEN None ELSE inflight[i]]
    /\ progress' = [t \in Tokens |-> IF t = TokenOf[r] THEN None ELSE progress[t]]
    /\ cause' = [cause EXCEPT ![r] = "none"]
    /\ pc' = [pc EXCEPT ![r] = "replying"]
    /\ UNCHANGED <<mainVars, outcome, expired, slots, family, initialized,
                   outVars, client>>

\* Run's goroutine writes the reply, unless there is nothing to say; the panic
\* path does not look at the id.
NothingToSay(r) ==
    outcome[r] = "silent" \/ (IdOf[r] = None /\ outcome[r] # "panic")

Reply(r) ==
    /\ pc[r] = "replying" /\ r \in Calls
    /\ \/ NothingToSay(r) /\ UNCHANGED outq
       \/ ~NothingToSay(r) /\ (Enqueue(r) \/ Drop)
    /\ pc' = [pc EXCEPT ![r] = "exiting"]
    /\ UNCHANGED <<mainVars, callVars, lockVars, initialized, delivered, outErr,
                   ctxDone, client>>

\* A goroutine that ends without giving its slot back.
ExitKeepingSlot(r) ==
    /\ pc[r] = "exiting"
    /\ pc' = [pc EXCEPT ![r] = "done"]
    /\ UNCHANGED <<mainVars, callVars, lockVars, initialized, outVars, client>>

\* The deferred release of the slot, then wg.Done.
Exit(r) ==
    /\ pc[r] = "exiting"
    /\ slots' = slots \ {r}
    /\ pc' = [pc EXCEPT ![r] = "done"]
    /\ UNCHANGED <<mainVars, callVars, family, inflight, progress, initialized,
                   outVars, client>>

\* The goroutine of a resources/* or prompts/* request answers (or panics and
\* answers): nothing is registered for it.
AsyncReplies(r) ==
    /\ pc[r] = "running" /\ r \in Async
    /\ Enqueue(r) \/ Drop
    /\ pc' = [pc EXCEPT ![r] = "done"]
    /\ UNCHANGED <<mainVars, callVars, lockVars, initialized, delivered, outErr,
                   ctxDone, client>>
-----------------------------------------------------------------------------
(***************************************************************************)
(* The writer goroutine and the end of Run.                                *)
(***************************************************************************)
WriterGone == outErr \/ (mainPc = "flush" /\ outq = <<>>) \/ mainPc = "returned"

Write ==
    /\ ~outErr /\ outq # <<>>
    /\ delivered' = delivered \cup {Head(outq)}
    /\ outq' = Tail(outq)
    /\ UNCHANGED <<mainVars, pc, callVars, lockVars, initialized, outErr, ctxDone, client>>

\* A write fails: setOutputErr, cancelStdio, and the writer is gone.  What it
\* had taken from the channel is lost like what is still in it.
WriteFails ==
    /\ ~outErr /\ outq # <<>>
    /\ outErr' = TRUE /\ ctxDone' = TRUE
    /\ UNCHANGED <<mainVars, pc, callVars, lockVars, initialized, outq, delivered, client>>

\* SIGINT or SIGTERM cancels the context Run was given.
Shutdown ==
    /\ ~ctxDone /\ mainPc # "returned"
    /\ ctxDone' = TRUE
    /\ UNCHANGED <<mainVars, pc, callVars, lockVars, initialized, outq, delivered,
                   outErr, client>>

\* wg.Add for requests that were never read.
GoroutinesDoneMiscounted == \A r \in Calls \cup Async : pc[r] = "done"

GoroutinesDone == \A r \in Calls \cup Async : pc[r] \in {"unsent", "done"}

\* Run's deferred calls in another order: the channel is closed and flushed
\* without waiting for the goroutines.
DrainWithoutWaiting ==
    /\ mainPc = "drain"
    /\ mainPc' = "flush"
    /\ UNCHANGED <<current, ret, pc, callVars, lockVars, initialized, outVars, client>>

\* wg.Wait, then close(outChan).
Drain ==
    /\ mainPc = "drain" /\ GoroutinesDone
    /\ mainPc' = "flush"
    /\ UNCHANGED <<current, ret, pc, callVars, lockVars, initialized, outVars, client>>

\* Run without the deferred function that surfaces a write error.
ReturnHidingWriteError ==
    /\ mainPc = "flush" /\ WriterGone
    /\ mainPc' = "returned"
    /\ UNCHANGED <<current, ret, pc, callVars, lockVars, initialized, outVars, client>>

\* writerWG.Wait, then the deferred function that surfaces a write error.
Return ==
    /\ mainPc = "flush" /\ WriterGone
    /\ mainPc' = "returned"
    /\ ret' = IF outErr THEN "err" ELSE ret
    /\ UNCHANGED <<current, pc, callVars, lockVars, initialized, outVars, client>>

\* Run has returned: nothing is left to do.
Stopped == mainPc = "returned" /\ UNCHANGED vars
-----------------------------------------------------------------------------
CallStep(r) ==
    \/ Refuse(r) \/ ClaimToken(r) \/ RegisterInflight(r) \/ Gate(r)
    \/ AcquireFamily(r) \/ AbandonFamily(r) \/ Expire(r)
    \/ HandlerReturns(r, "ok") \/ HandlerReturns(r, "err") \/ HandlerPanics(r)
    \/ Classify(r) \/ Unwind(r) \/ Reply(r) \/ Exit(r)

Next ==
    \/ \E r \in Calls : ReadCall(r) \/ AcquireSlot(r) \/ AbandonSlot(r) \/ CallStep(r)
    \/ \E r \in Async : ReadAsync(r) \/ AsyncReplies(r)
    \/ \E r \in Sync : ReadSync(r) \/ LoopReplies(r)
    \/ \E i \in Ids : ReadCancel(i)
    \/ ReadEOF \/ LoopSeesCtxDone
    \/ Write \/ WriteFails \/ Shutdown
    \/ Drain \/ Return \/ Stopped

Spec == Init /\ [][Next]_vars

(***************************************************************************)
(* Fairness.  Goroutines that can run do run; a timer fires; a handler     *)
(* whose context is done returns (the Clockify client passes the context   *)
(* to net/http); stdout is read, or a write to it fails.  Nothing is       *)
(* assumed of the client, of signals, or of a handler that is left alone.  *)
(***************************************************************************)
CallFairness(r) ==
    /\ WF_vars(AcquireSlot(r) \/ AbandonSlot(r))
    /\ WF_vars(Refuse(r) \/ ClaimToken(r))
    /\ WF_vars(RegisterInflight(r))
    /\ WF_vars(Gate(r))
    /\ WF_vars(AcquireFamily(r) \/ AbandonFamily(r))
    /\ WF_vars(Expire(r))
    /\ WF_vars(CallCtxDone(r) /\ HandlerReturns(r, "err"))
    /\ WF_vars(Classify(r))
    /\ WF_vars(Unwind(r))
    /\ WF_vars(Reply(r))
    /\ WF_vars(Exit(r))

Fairness ==
    /\ \A r \in Calls : CallFairness(r)
    /\ \A r \in Async : WF_vars(AsyncReplies(r))
    /\ \A r \in Sync : WF_vars(LoopReplies(r))
    /\ WF_vars(LoopSeesCtxDone) /\ WF_vars(Drain) /\ WF_vars(Return)
    /\ WF_vars(Write \/ WriteFails)

FairSpec == Spec /\ Fairness
-----------------------------------------------------------------------------
(***************************************************************************)
(* Properties.                                                             *)
(***************************************************************************)
\* The calls between the spawn and the end of their goroutine.
Live == {r \in Calls : pc[r] \notin {"unsent", "queued", "done"}}
Running(f) == {r \in Calls : pc[r] = "running" /\ FamilyOf[r] = f}

\* No more tools/call goroutines than MaxInFlightToolCalls, and no more
\* handlers of a risk family than newFamilyLimiter allows, whichever of
\* them panicked, were cancelled or timed out before.
ConcurrencyBounded ==
    /\ MaxInFlight # 0 => Cardinality(Live) <= MaxInFlight
    /\ Cardinality(Running("write")) <= WriteCap
    /\ Cardinality(Running("high")) <= HighCap

\* When the client can have seen a call's response, nothing of the call is
\* left: its progress token and its id can be used again at once, and its
\* risk family has its slot back.
Answered == delivered \cup {outq[k] : k \in DOMAIN outq}

AnsweredHoldsNothing ==
    \A r \in Answered \cap Calls :
        /\ \A t \in Tokens : progress[t] # r
        /\ \A i \in Ids : inflight[i] # r
        /\ \A f \in Families : r \notin family[f]

\* A running call that the client waits for can be cancelled: the cancel func
\* the map holds under its id is its own ("notifications/cancelled looks up the
\* ID and aborts the in-flight tool handler"), and an earlier cancellation of
\* that id never affects it (errExplicitCancellation's comment).
RunningIsCancellable ==
    \A r \in Calls :
        /\ pc[r] \in {"gate", "acquiring", "running"} /\ IdOf[r] # None
        /\ client[r] = "waiting" /\ cause[r] = "none" /\ ~ctxDone
        => inflight[IdOf[r]] = r

\* A session that ended because its input did has answered every request it
\* read, but for calls the client cancelled and notifications: Run waits for
\* its goroutines, and then for the writer.
InputEndLosesNothing ==
    mainPc = "returned" /\ ~ctxDone =>
        \A r \in Requests :
            \/ pc[r] = "unsent" \/ r \in delivered
            \/ r \in Calls /\ (client[r] = "cancelled" \/ IdOf[r] = None)

\* Run never reports success for a session whose output broke.
WriteErrorSurfaces == mainPc = "returned" /\ outErr => ret = "err"

\* Every call that got a goroutine ends it, whatever its handler does.
CallsEnd == \A r \in Calls : pc[r] = "spawned" ~> pc[r] = "done"

\* The loop that waits for a slot reads on (or stops): one call that hangs, is
\* cancelled or panics does not stop the session for good.
LoopReadsOn == mainPc = "acquire" ~> mainPc # "acquire"

\* Once the loop has stopped, Run returns: no goroutine is left behind on a
\* full channel, a lost slot or a dead writer.
RunReturns == mainPc = "drain" ~> mainPc = "returned"

\* Dispatch implements Exchange.
StatusOf(r) ==
    CASE pc[r] = "unsent" -> "unsent"
      [] r \in delivered -> "answered"
      [] pc[r] \in {"exiting", "done"} /\ r \notin Answered -> "closed"
      [] OTHER -> "open"

Session == INSTANCE Exchange WITH
    Silent    <- {r \in Calls : IdOf[r] = None},
    status    <- [r \in Requests |-> StatusOf(r)],
    cancelled <- {r \in Calls : client[r] = "cancelled"},
    down      <- ctxDone

\* A request ends unanswered only if the client cancelled that very request
\* (the cause is bound to the call, not to its id), if it is a notification,
\* or if the session is torn down; and what has ended stays as it ended.
ImplementsExchange == Session!Spec
=============================================================================
