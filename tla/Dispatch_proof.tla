--------------------------- MODULE Dispatch_proof ---------------------------
(***************************************************************************)
(* Proofs about Dispatch for every number of requests, ids and tokens and  *)
(* every value of the limits.                                              *)
(***************************************************************************)
EXTENDS Dispatch, TLAPS, FiniteSetTheorems

\* A call that waits for a slot is the one the read loop holds, and a request
\* the loop answers itself is; before it is read, nothing is known of a call.
LoopInv ==
    /\ mainPc \in {"acquire", "reply"} => current \in Requests
    /\ mainPc = "acquire" => current \in Calls /\ pc[current] = "queued"
    /\ \A r \in Calls : pc[r] = "queued" => mainPc = "acquire" /\ current = r
    /\ \A r \in Sync : pc[r] \in {"unsent", "replying", "done"}
    /\ \A r \in Sync : pc[r] = "replying" => mainPc = "reply" /\ current = r
    /\ mainPc = "reply" => current \in Sync /\ pc[current] = "replying"
    /\ \A r \in Calls : client[r] = "idle" <=> pc[r] = "unsent"

\* toolCallSem has one slot per live goroutine.
SlotsInv ==
    MaxInFlight # 0 => slots = Live /\ Cardinality(slots) <= MaxInFlight

\* The channels of familyLimiter have one element per running handler.
FamilyInv ==
    /\ \A f \in {"write", "high"} : family[f] = Running(f)
    /\ family["read"] = {}
    /\ Cardinality(family["write"]) <= WriteCap
    /\ Cardinality(family["high"]) <= HighCap

\* The states between registerInflight and the deferred unregisterInflight.
Registered == {"gate", "acquiring", "running", "returned", "unwinding"}

\* What the in-flight map and the progress tokens point at is still running.
HeldInv ==
    /\ \A i \in Ids : inflight[i] # None =>
        IdOf[inflight[i]] = i /\ pc[inflight[i]] \in Registered
    /\ \A t \in Tokens : progress[t] # None =>
        TokenOf[progress[t]] = t /\ pc[progress[t]] \in Registered \cup {"named"}

\* A request is answered at its end.
AnsweredInv == \A r \in Answered : r \in Requests /\ pc[r] \in {"exiting", "done"}

\* When Run has waited for its goroutines none is left, and once it has waited
\* for the writer nothing is left to write.
EndInv ==
    /\ mainPc \in {"flush", "returned"} =>
        \A r \in Calls \cup Async : pc[r] \in {"unsent", "done"}
    /\ mainPc = "returned" => IF outErr THEN ret = "err" ELSE outq = <<>>

\* Only the client's own cancellation silences a call.
SilenceInv ==
    /\ outErr => ctxDone
    /\ \A r \in Calls :
        /\ cause[r] = "explicit" => client[r] = "cancelled"
        /\ outcome[r] = "silent" => client[r] = "cancelled"
        /\ pc[r] \in {"unsent", "queued"} => cause[r] = "none" /\ outcome[r] = "none"

\* While the session lives, a request that ended was answered or may be silent.
NothingLostInv ==
    ~ctxDone => \A r \in Requests :
        pc[r] \in {"exiting", "done"} =>
            r \in Answered \/ (r \in Calls /\ (client[r] = "cancelled" \/ IdOf[r] = None))

IInv ==
    /\ TypeOK /\ LoopInv /\ SlotsInv /\ FamilyInv /\ HeldInv
    /\ AnsweredInv /\ EndInv /\ SilenceInv /\ NothingLostInv
-----------------------------------------------------------------------------
\* The session starts well typed.
LEMMA TypeInit == Init => TypeOK
<1> SUFFICES ASSUME Init PROVE TypeOK
  OBVIOUS
<1>1. pc \in [Requests -> PC] /\ current \in Requests \cup {None}
  BY DEF Init, PC
<1>2. outcome \in [Calls -> Outcomes] /\ cause \in [Calls -> {"none", "explicit", "reset"}]
  BY DEF Init, Outcomes
<1>3. client \in [Calls -> {"idle", "waiting", "cancelled", "reset"}]
  BY DEF Init
<1>4. family \in [Families -> SUBSET Calls]
  BY DEF Init
<1>5. inflight \in [Ids -> Calls \cup {None}] /\ progress \in [Tokens -> Calls \cup {None}]
  BY DEF Init
<1>6. outq \in Seq(Requests)
  BY DEF Init
<1> QED
  BY <1>1, <1>2, <1>3, <1>4, <1>5, <1>6 DEF Init, TypeOK

\* What an enqueued or dropped response does to the output queue.
LEMMA QueueType ==
    ASSUME NEW r \in Requests, outq \in Seq(Requests), Enqueue(r) \/ Drop
    PROVE  outq' \in Seq(Requests)
<1>1. CASE Enqueue(r)
  BY <1>1 DEF Enqueue
<1>2. CASE Drop
  BY <1>2 DEF Drop
<1> QED
  BY <1>1, <1>2

\* Every step keeps the type invariant.
LEMMA TypeStep == TypeOK /\ [Next]_vars => TypeOK'
<1> SUFFICES ASSUME TypeOK, [Next]_vars PROVE TypeOK'
  OBVIOUS
<1> USE DEF TypeOK, Requests
<1>1. ASSUME NEW r \in Calls, ReadCall(r) PROVE TypeOK'
  BY <1>1 DEF ReadCall, PC, callVars, lockVars, outVars
<1>2. ASSUME NEW r \in Calls, AcquireSlot(r) PROVE TypeOK'
  BY <1>2 DEF AcquireSlot, PC, callVars, outVars
<1>3. ASSUME NEW r \in Calls, AbandonSlot(r) PROVE TypeOK'
  BY <1>3 DEF AbandonSlot, PC, callVars, lockVars, outVars
<1>4. ASSUME NEW r \in Calls, CallStep(r) PROVE TypeOK'
  <2>1. CASE Refuse(r)
    BY <2>1 DEF Refuse, PC, Outcomes, mainVars, lockVars, outVars
  <2>2. CASE ClaimToken(r)
    BY <2>2 DEF ClaimToken, PC, mainVars, callVars, outVars
  <2>3. CASE RegisterInflight(r)
    BY <2>3 DEF RegisterInflight, PC, mainVars, callVars, outVars
  <2>4. CASE Gate(r)
    BY <2>4 DEF Gate, PC, Outcomes, mainVars, lockVars, outVars
  <2>5. CASE AcquireFamily(r)
    BY <2>5, CallAssumption DEF AcquireFamily, PC, Families, mainVars, callVars, outVars
  <2>6. CASE AbandonFamily(r)
    BY <2>6 DEF AbandonFamily, PC, Outcomes, mainVars, lockVars, outVars
  <2>7. CASE Expire(r)
    BY <2>7 DEF Expire, mainVars, lockVars, outVars
  <2>8. ASSUME NEW o \in {"ok", "err"}, HandlerReturns(r, o) PROVE TypeOK'
    BY <2>8 DEF HandlerReturns, ReleasedFamily, PC, Outcomes, mainVars, outVars
  <2>9. CASE HandlerPanics(r)
    BY <2>9 DEF HandlerPanics, ReleasedFamily, PC, Outcomes, mainVars, outVars
  <2>10. CASE Classify(r)
    BY <2>10 DEF Classify, PC, Outcomes, mainVars, lockVars, outVars
  <2>11. CASE Unwind(r)
    BY <2>11 DEF Unwind, PC, mainVars, outVars
  <2>12. CASE Reply(r)
    <3>1. outq' \in Seq(Requests)
      BY <2>12, QueueType DEF Reply
    <3> QED
      BY <2>12, <3>1 DEF Reply, PC, mainVars, callVars, lockVars
  <2>13. CASE Exit(r)
    BY <2>13 DEF Exit, PC, mainVars, callVars, outVars
  <2> QED
    BY <1>4, <2>1, <2>2, <2>3, <2>4, <2>5, <2>6, <2>7, <2>8, <2>9, <2>10, <2>11, <2>12, <2>13
    DEF CallStep
<1>5. ASSUME NEW r \in Async, ReadAsync(r) PROVE TypeOK'
  BY <1>5 DEF ReadAsync, PC, mainVars, callVars, lockVars, outVars
<1>6. ASSUME NEW r \in Async, AsyncReplies(r) PROVE TypeOK'
  <2>1. outq' \in Seq(Requests)
    BY <1>6, QueueType DEF AsyncReplies
  <2> QED
    BY <1>6, <2>1 DEF AsyncReplies, PC, mainVars, callVars, lockVars
<1>7. ASSUME NEW r \in Sync, ReadSync(r) PROVE TypeOK'
  BY <1>7 DEF ReadSync, ResetInflight, CauseAfter, PC, outVars
<1>8. ASSUME NEW r \in Sync, LoopReplies(r) PROVE TypeOK'
  <2>1. outq' \in Seq(Requests)
    BY <1>8, QueueType DEF LoopReplies
  <2> QED
    BY <1>8, <2>1 DEF LoopReplies, PC, callVars, lockVars
<1>9. ASSUME NEW i \in Ids, ReadCancel(i) PROVE TypeOK'
  BY <1>9 DEF ReadCancel, CauseAfter, mainVars, outVars
<1>10. CASE ReadEOF
  BY <1>10 DEF ReadEOF, callVars, lockVars, outVars
<1>11. CASE LoopSeesCtxDone
  BY <1>11 DEF LoopSeesCtxDone, callVars, lockVars, outVars
<1>12. CASE Write
  BY <1>12 DEF Write, mainVars, callVars, lockVars
<1>13. CASE WriteFails
  BY <1>13 DEF WriteFails, mainVars, callVars, lockVars
<1>14. CASE Shutdown
  BY <1>14 DEF Shutdown, mainVars, callVars, lockVars
<1>15. CASE Drain
  BY <1>15 DEF Drain, callVars, lockVars, outVars
<1>16. CASE Return
  BY <1>16 DEF Return, callVars, lockVars, outVars
<1>17. CASE UNCHANGED vars
  BY <1>17 DEF vars, mainVars, callVars, lockVars, outVars
<1> QED
  BY <1>1, <1>2, <1>3, <1>4, <1>5, <1>6, <1>7, <1>8, <1>9, <1>10, <1>11, <1>12, <1>13,
     <1>14, <1>15, <1>16, <1>17
  DEF Next, Stopped

\* The state of the session is well typed in every run, for any number of
\* requests and any limits.
THEOREM TypeCorrect == Spec => []TypeOK
<1> QED
  BY TypeInit, TypeStep, PTL DEF Spec
-----------------------------------------------------------------------------
\* A call's own step moves that call only, between the spawn and the end, and
\* leaves the read loop, the client and the writer alone.  The slot goes with
\* the last step, and only Reply touches the output queue.
LEMMA CallFrame ==
    ASSUME TypeOK, NEW r \in Calls, CallStep(r)
    PROVE  /\ UNCHANGED <<mainVars, initialized, delivered, outErr, ctxDone, client>>
           /\ pc[r] \notin {"unsent", "queued", "done"}
           /\ pc'[r] \notin {"unsent", "queued"}
           /\ \A q \in Requests : q # r => pc'[q] = pc[q]
           /\ pc'[r] = "done" => pc[r] = "exiting" /\ slots' = slots \ {r}
           /\ pc'[r] # "done" => slots' = slots
           /\ pc[r] = "exiting" => pc'[r] = "done" /\ outq' = outq
           /\ pc'[r] = "exiting" => Reply(r)
           /\ outq' = outq \/ Reply(r)
<1> USE DEF TypeOK, Requests, PC, mainVars
<1>1. CASE Refuse(r)
  BY <1>1 DEF Refuse, callVars, lockVars, outVars
<1>2. CASE ClaimToken(r)
  BY <1>2 DEF ClaimToken, callVars, lockVars, outVars
<1>3. CASE RegisterInflight(r)
  BY <1>3 DEF RegisterInflight, callVars, lockVars, outVars
<1>4. CASE Gate(r)
  BY <1>4 DEF Gate, callVars, lockVars, outVars
<1>5. CASE AcquireFamily(r)
  BY <1>5 DEF AcquireFamily, callVars, lockVars, outVars
<1>6. CASE AbandonFamily(r)
  BY <1>6 DEF AbandonFamily, callVars, lockVars, outVars
<1>7. CASE Expire(r)
  BY <1>7 DEF Expire, callVars, lockVars, outVars
<1>8. CASE HandlerReturns(r, "ok")
  BY <1>8 DEF HandlerReturns, callVars, lockVars, outVars
<1>9. CASE HandlerReturns(r, "err")
  BY <1>9 DEF HandlerReturns, callVars, lockVars, outVars
<1>10. CASE HandlerPanics(r)
  BY <1>10 DEF HandlerPanics, callVars, lockVars, outVars
<1>11. CASE Classify(r)
  BY <1>11 DEF Classify, callVars, lockVars, outVars
<1>12. CASE Unwind(r)
  BY <1>12 DEF Unwind, callVars, lockVars, outVars
<1>13. CASE Reply(r)
  BY <1>13 DEF Reply, callVars, lockVars, outVars
<1>14. CASE Exit(r)
  BY <1>14 DEF Exit, callVars, lockVars, outVars
<1> QED
  BY <1>1, <1>2, <1>3, <1>4, <1>5, <1>6, <1>7, <1>8, <1>9, <1>10, <1>11, <1>12, <1>13, <1>14 DEF CallStep
-----------------------------------------------------------------------------
\* The read loop starts with no request in hand.
LEMMA LoopInit == Init => LoopInv
<1> QED
  BY KindsAssumption DEF Init, LoopInv, Requests

\* The read loop holds one request at a time.
LEMMA LoopStep == TypeOK /\ LoopInv /\ [Next]_vars => LoopInv'
<1> SUFFICES ASSUME TypeOK, LoopInv, [Next]_vars PROVE LoopInv'
  OBVIOUS
<1> USE KindsAssumption, CallAssumption DEF TypeOK, LoopInv, Requests
<1>1. ASSUME NEW r \in Calls, ReadCall(r) PROVE LoopInv'
  BY <1>1 DEF ReadCall
<1>2. ASSUME NEW r \in Calls, AcquireSlot(r) PROVE LoopInv'
  BY <1>2 DEF AcquireSlot
<1>3. ASSUME NEW r \in Calls, AbandonSlot(r) PROVE LoopInv'
  BY <1>3 DEF AbandonSlot
<1>4. ASSUME NEW r \in Calls, CallStep(r) PROVE LoopInv'
  <2>1. mainPc' = mainPc /\ current' = current /\ client' = client
    BY <1>4, CallFrame DEF mainVars
  <2>2. /\ pc[r] \notin {"unsent", "queued"} /\ pc'[r] \notin {"unsent", "queued"}
        /\ \A q \in Requests : q # r => pc'[q] = pc[q]
    BY <1>4, CallFrame
  <2>3. \A q \in Sync : pc'[q] = pc[q]
    BY <2>2
  <2> QED
    BY <2>1, <2>2, <2>3
<1>5. ASSUME NEW r \in Async, ReadAsync(r) \/ AsyncReplies(r) PROVE LoopInv'
  BY <1>5 DEF ReadAsync, AsyncReplies, mainVars
<1>6. ASSUME NEW r \in Sync, ReadSync(r) PROVE LoopInv'
  BY <1>6 DEF ReadSync, ResetInflight, Outstanding
<1>7. ASSUME NEW r \in Sync, LoopReplies(r) PROVE LoopInv'
  BY <1>7 DEF LoopReplies
<1>8. ASSUME NEW i \in Ids, ReadCancel(i) PROVE LoopInv'
  BY <1>8 DEF ReadCancel, Unanswered, mainVars
<1>9. CASE ReadEOF \/ LoopSeesCtxDone \/ Drain \/ Return
  BY <1>9 DEF ReadEOF, LoopSeesCtxDone, Drain, Return
<1>10. CASE Write \/ WriteFails \/ Shutdown \/ UNCHANGED vars
  BY <1>10 DEF Write, WriteFails, Shutdown, vars, mainVars
<1> QED
  BY <1>1, <1>2, <1>3, <1>4, <1>5, <1>6, <1>7, <1>8, <1>9, <1>10 DEF Next, Stopped
-----------------------------------------------------------------------------
\* No slot of toolCallSem is taken at the start.
LEMMA SlotsInit == Init => SlotsInv
<1> SUFFICES ASSUME Init PROVE slots = Live /\ Cardinality(slots) <= MaxInFlight
  BY DEF SlotsInv
<1>1. slots = Live
  BY DEF Init, Live, Requests
<1>2. Cardinality(slots) = 0
  BY FS_EmptySet DEF Init
<1> QED
  BY <1>1, <1>2, LimitAssumption

\* A slot is taken under the bound by a call that was not live, and given back
\* by one that no longer is.
LEMMA SlotsStep == TypeOK /\ LoopInv /\ SlotsInv /\ [Next]_vars => SlotsInv'
<1> SUFFICES ASSUME TypeOK, LoopInv, SlotsInv, [Next]_vars, MaxInFlight # 0
             PROVE  slots' = Live' /\ Cardinality(slots') <= MaxInFlight
  BY DEF SlotsInv
<1> USE KindsAssumption, LimitAssumption DEF TypeOK, SlotsInv, Live, Requests
<1>0. IsFiniteSet(slots) /\ Cardinality(slots) \in Nat
  BY FS_Subset, FS_CardinalityType
<1>1. ASSUME NEW r \in Calls, AcquireSlot(r)
      PROVE  slots' = Live' /\ Cardinality(slots') <= MaxInFlight
  <2>1. r \notin slots /\ slots' = slots \cup {r}
    BY <1>1 DEF AcquireSlot, LoopInv
  <2>2. Cardinality(slots') = Cardinality(slots) + 1
    BY <2>1, <1>0, FS_AddElement
  <2>3. Cardinality(slots) < MaxInFlight
    BY <1>1 DEF AcquireSlot, SlotFree
  <2> QED
    BY <1>0, <1>1, <2>1, <2>2, <2>3 DEF AcquireSlot
<1>2. ASSUME NEW r \in Calls, CallStep(r)
      PROVE  slots' = Live' /\ Cardinality(slots') <= MaxInFlight
  <2>1. CASE pc'[r] = "done"
    <3>1. slots' = slots \ {r} /\ slots' = Live'
      BY <1>2, <2>1, CallFrame
    <3>2. Cardinality(slots') <= Cardinality(slots)
      BY <3>1, <1>0, FS_Subset
    <3>3. Cardinality(slots') \in Nat
      BY <3>1, <1>0, FS_Subset, FS_CardinalityType
    <3> QED
      BY <1>0, <3>1, <3>2, <3>3
  <2>2. CASE pc'[r] # "done"
    BY <1>2, <2>2, CallFrame
  <2> QED
    BY <2>1, <2>2
<1>3. ASSUME NEW r \in Calls, ReadCall(r) \/ AbandonSlot(r)
      PROVE  slots' = Live' /\ Cardinality(slots') <= MaxInFlight
  BY <1>3 DEF ReadCall, AbandonSlot, LoopInv, lockVars
<1>4. ASSUME NEW r \in Async \cup Sync,
             ReadAsync(r) \/ AsyncReplies(r) \/ ReadSync(r) \/ LoopReplies(r)
      PROVE  slots' = Live' /\ Cardinality(slots') <= MaxInFlight
  BY <1>4 DEF ReadAsync, AsyncReplies, ReadSync, LoopReplies, lockVars
<1>5. CASE UNCHANGED <<pc, slots>>
  BY <1>5
<1> QED
  BY <1>1, <1>2, <1>3, <1>4, <1>5 DEF Next, Stopped, ReadCancel, ReadEOF,
     LoopSeesCtxDone, Write, WriteFails, Shutdown, Drain, Return, vars, lockVars
-----------------------------------------------------------------------------
\* No risk family has a handler at the start.
LEMMA FamilyInit == Init => FamilyInv
<1> SUFFICES ASSUME Init PROVE FamilyInv
  OBVIOUS
<1>1. \A f \in Families : family[f] = {} /\ Running(f) = {}
  BY DEF Init, Running, Requests
<1>2. Cardinality({}) = 0
  BY FS_EmptySet
<1> QED
  BY <1>1, <1>2, LimitAssumption DEF FamilyInv, Families

\* The calls that hold a slot of a capped family are its running handlers.
LEMMA FamilyStep == TypeOK /\ LoopInv /\ FamilyInv /\ [Next]_vars => FamilyInv'
<1> SUFFICES ASSUME TypeOK, LoopInv, FamilyInv, [Next]_vars PROVE FamilyInv'
  OBVIOUS
<1> USE KindsAssumption, CallAssumption, LimitAssumption DEF TypeOK, Requests, Families
<1>0. \A f \in Families : IsFiniteSet(family[f]) /\ Cardinality(family[f]) \in Nat
  BY FS_Subset, FS_CardinalityType
\* Steps that start no handler and end none.
<1>1. ASSUME family' = family, \A r \in Calls : pc'[r] = "running" <=> pc[r] = "running"
      PROVE  FamilyInv'
  BY <1>1 DEF FamilyInv, Running
<1>2. ASSUME NEW r \in Calls, AcquireFamily(r) PROVE FamilyInv'
  <2>1. CASE FamilyOf[r] = "read"
    BY <1>2, <2>1 DEF AcquireFamily, FamilyInv, Running
  <2>2. ASSUME NEW f \in {"write", "high"}, FamilyOf[r] = f PROVE FamilyInv'
    <3>1. family' = [family EXCEPT ![f] = @ \cup {r}] /\ pc' = [pc EXCEPT ![r] = "running"]
      BY <1>2, <2>2 DEF AcquireFamily
    <3>2. r \notin family[f]
      BY <1>2, <2>2 DEF AcquireFamily, FamilyInv, Running
    <3>3. Cardinality(family'[f]) = Cardinality(family[f]) + 1
      BY <3>1, <3>2, <1>0, FS_AddElement
    <3>4. /\ f = "write" => Cardinality(family["write"]) < WriteCap
          /\ f = "high" => Cardinality(family["high"]) < HighCap
      BY <1>2, <2>2 DEF AcquireFamily, FamilyFree
    <3>5. \A g \in {"write", "high"} : family'[g] = Running(g)'
      BY <2>2, <3>1 DEF FamilyInv, Running
    <3>6. \A g \in Families : g # f => family'[g] = family[g]
      BY <3>1
    <3> QED
      BY <1>0, <3>3, <3>4, <3>5, <3>6 DEF FamilyInv
  <2> QED
    BY <2>1, <2>2
<1>3. ASSUME NEW r \in Calls, pc[r] = "running", pc'[r] # "running",
             \A q \in Calls : q # r => pc'[q] = pc[q], family' = ReleasedFamily(r)
      PROVE  FamilyInv'
  <2>1. \A f \in Families : family'[f] = family[f] \ {r}
    BY <1>3 DEF ReleasedFamily
  <2>2. \A f \in {"write", "high"} : family'[f] = Running(f)'
    BY <1>3, <2>1 DEF FamilyInv, Running
  <2>3. \A f \in Families : /\ Cardinality(family'[f]) <= Cardinality(family[f])
                            /\ Cardinality(family'[f]) \in Nat
    BY <2>1, <1>0, FS_Subset, FS_CardinalityType
  <2> QED
    BY <1>0, <2>1, <2>2, <2>3 DEF FamilyInv
<1>4. ASSUME NEW r \in Calls, CallStep(r) PROVE FamilyInv'
  <2>1. CASE AcquireFamily(r)
    BY <1>2, <2>1
  <2>2. CASE HandlerReturns(r, "ok") \/ HandlerReturns(r, "err") \/ HandlerPanics(r)
    BY <1>3, <2>2 DEF HandlerReturns, HandlerPanics
  <2>3. CASE Expire(r)
    BY <1>1, <2>3 DEF Expire, lockVars
  <2>4. CASE Refuse(r) \/ ClaimToken(r) \/ RegisterInflight(r) \/ Gate(r) \/ AbandonFamily(r)
    BY <1>1, <2>4 DEF Refuse, ClaimToken, RegisterInflight, Gate, AbandonFamily, lockVars
  <2>5. CASE Classify(r) \/ Unwind(r) \/ Reply(r) \/ Exit(r)
    BY <1>1, <2>5 DEF Classify, Unwind, Reply, Exit, lockVars
  <2> QED
    BY <1>4, <2>1, <2>2, <2>3, <2>4, <2>5 DEF CallStep
<1>5. ASSUME NEW r \in Calls, ReadCall(r) \/ AcquireSlot(r) \/ AbandonSlot(r) PROVE FamilyInv'
  BY <1>1, <1>5 DEF ReadCall, AcquireSlot, AbandonSlot, LoopInv, lockVars
<1>6. ASSUME NEW r \in Async \cup Sync,
             ReadAsync(r) \/ AsyncReplies(r) \/ ReadSync(r) \/ LoopReplies(r)
      PROVE  FamilyInv'
  BY <1>1, <1>6 DEF ReadAsync, AsyncReplies, ReadSync, LoopReplies, lockVars
<1>7. CASE UNCHANGED <<pc, family>>
  BY <1>1, <1>7
<1> QED
  BY <1>4, <1>5, <1>6, <1>7 DEF Next, Stopped, ReadCancel, ReadEOF,
     LoopSeesCtxDone, Write, WriteFails, Shutdown, Drain, Return, vars, lockVars
-----------------------------------------------------------------------------
\* Nothing is registered at the start.
LEMMA HeldInit == Init => HeldInv
<1> QED
  BY DEF Init, HeldInv

\* Entries of the in-flight map and progress tokens come with the call and go
\* before its answer.
LEMMA HeldStep == TypeOK /\ LoopInv /\ HeldInv /\ [Next]_vars => HeldInv'
<1> SUFFICES ASSUME TypeOK, LoopInv, HeldInv, [Next]_vars PROVE HeldInv'
  OBVIOUS
<1> USE KindsAssumption, CallAssumption DEF TypeOK, Requests
\* Steps that leave the two maps alone and take no call out of the states in
\* which it may be held.
<1>1. ASSUME UNCHANGED <<inflight, progress>>,
             \A q \in Calls : /\ pc[q] \in Registered => pc'[q] \in Registered
                              /\ pc[q] = "named" => pc'[q] = "named"
      PROVE  HeldInv'
  BY <1>1 DEF HeldInv
<1>2. ASSUME NEW r \in Calls, CallStep(r) PROVE HeldInv'
  <2>0. \A q \in Calls : q # r => pc'[q] = pc[q]
    BY <1>2, CallFrame
  <2>1. CASE Refuse(r) \/ Gate(r) \/ AcquireFamily(r) \/ AbandonFamily(r)
    BY <1>1, <2>0, <2>1 DEF Refuse, Gate, AcquireFamily, AbandonFamily, Registered, lockVars
  <2>2. CASE Expire(r) \/ HandlerReturns(r, "ok") \/ HandlerReturns(r, "err") \/ HandlerPanics(r)
    BY <1>1, <2>0, <2>2 DEF Expire, HandlerReturns, HandlerPanics, Registered, lockVars
  <2>3. CASE Classify(r) \/ Reply(r) \/ Exit(r)
    BY <1>1, <2>0, <2>3 DEF Classify, Reply, Exit, Registered, lockVars
  <2>4. CASE ClaimToken(r)
    BY <2>0, <2>4 DEF ClaimToken, HeldInv, Registered
  <2>5. CASE RegisterInflight(r)
    BY <2>0, <2>5 DEF RegisterInflight, HeldInv, Registered
  <2>6. CASE Unwind(r)
    BY <2>0, <2>6 DEF Unwind, HeldInv, Registered
  <2> QED
    BY <1>2, <2>1, <2>2, <2>3, <2>4, <2>5, <2>6 DEF CallStep
<1>3. ASSUME NEW r \in Calls, ReadCall(r) \/ AcquireSlot(r) \/ AbandonSlot(r) PROVE HeldInv'
  BY <1>1, <1>3 DEF ReadCall, AcquireSlot, AbandonSlot, LoopInv, Registered, lockVars
<1>4. ASSUME NEW r \in Async, ReadAsync(r) \/ AsyncReplies(r) PROVE HeldInv'
  BY <1>1, <1>4 DEF ReadAsync, AsyncReplies, lockVars
<1>5. ASSUME NEW r \in Sync, LoopReplies(r) PROVE HeldInv'
  BY <1>1, <1>5 DEF LoopReplies, lockVars
<1>6. ASSUME NEW r \in Sync, ReadSync(r) PROVE HeldInv'
  <2>1. \A q \in Calls : pc'[q] = pc[q]
    BY <1>6 DEF ReadSync
  <2>2. CASE UNCHANGED inflight
    BY <1>1, <1>6, <2>1, <2>2 DEF ReadSync
  <2>3. CASE ResetInflight
    BY <1>6, <2>1, <2>3 DEF ReadSync, ResetInflight, HeldInv
  <2> QED
    BY <1>6, <2>2, <2>3 DEF ReadSync
<1>7. ASSUME NEW i \in Ids, ReadCancel(i) PROVE HeldInv'
  BY <1>7 DEF ReadCancel, HeldInv
<1>8. CASE UNCHANGED <<pc, inflight, progress>>
  BY <1>1, <1>8
<1> QED
  BY <1>2, <1>3, <1>4, <1>5, <1>6, <1>7, <1>8 DEF Next, Stopped, ReadEOF,
     LoopSeesCtxDone, Write, WriteFails, Shutdown, Drain, Return, vars, lockVars
-----------------------------------------------------------------------------
\* What is in the output queue after a response was appended or the first one
\* taken out.
LEMMA InQueue ==
    ASSUME NEW S, NEW s \in Seq(S), NEW e \in S
    PROVE  /\ {Append(s, e)[k] : k \in DOMAIN Append(s, e)} = {s[k] : k \in DOMAIN s} \cup {e}
           /\ s # <<>> => {Tail(s)[k] : k \in DOMAIN Tail(s)} \cup {Head(s)}
                            = {s[k] : k \in DOMAIN s}
<1> DEFINE a == Append(s, e)  t == Tail(s)
<1>0. DOMAIN s = 1..Len(s) /\ Len(s) \in Nat
  OBVIOUS
<1>1. DOMAIN a = 1..(Len(s) + 1) /\ a[Len(s) + 1] = e /\ \A k \in 1..Len(s) : a[k] = s[k]
  OBVIOUS
<1>2. {a[k] : k \in DOMAIN a} = {s[k] : k \in DOMAIN s} \cup {e}
  <2>1. \A k \in DOMAIN a : k \in DOMAIN s \/ k = Len(s) + 1
    BY <1>0, <1>1
  <2>2. \A k \in DOMAIN s : k \in DOMAIN a
    BY <1>0, <1>1
  <2>3. Len(s) + 1 \in DOMAIN a
    BY <1>0, <1>1
  <2> HIDE DEF a
  <2> QED
    BY <1>0, <1>1, <2>1, <2>2, <2>3
<1>3. ASSUME s # <<>> PROVE {t[k] : k \in DOMAIN t} \cup {Head(s)} = {s[k] : k \in DOMAIN s}
  <2>1. /\ Len(s) >= 1 /\ Head(s) = s[1]
        /\ DOMAIN t = 1..(Len(s) - 1) /\ \A k \in DOMAIN t : t[k] = s[k + 1]
    BY <1>3
  <2>2. \A k \in DOMAIN t : k + 1 \in DOMAIN s
    BY <1>0, <2>1
  <2>3. \A k \in DOMAIN s : k = 1 \/ (k - 1 \in DOMAIN t /\ t[k - 1] = s[k])
    <3> SUFFICES ASSUME NEW k \in DOMAIN s, k # 1 PROVE k - 1 \in DOMAIN t /\ t[k - 1] = s[k]
      OBVIOUS
    <3>1. k - 1 \in 1..(Len(s) - 1) /\ (k - 1) + 1 = k
      BY <1>0
    <3> QED
      BY <2>1, <3>1
  <2>4. 1 \in DOMAIN s
    BY <1>0, <2>1
  <2> HIDE DEF t
  <2> QED
    BY <2>1, <2>2, <2>3, <2>4
<1> QED
  BY <1>2, <1>3

\* Only an enqueued response is one more answer; the writer moves answers on.
LEMMA AnsweredChange ==
    ASSUME TypeOK
    PROVE  /\ \A r \in Requests : Enqueue(r) /\ delivered' = delivered
                => Answered' = Answered \cup {r}
           /\ UNCHANGED <<outq, delivered>> => Answered' = Answered
           /\ Write => Answered' = Answered
<1> USE DEF TypeOK
<1>1. ASSUME NEW r \in Requests, Enqueue(r), delivered' = delivered
      PROVE  Answered' = Answered \cup {r}
  <2>1. outq' = Append(outq, r)
    BY <1>1 DEF Enqueue
  <2>2. {outq'[k] : k \in DOMAIN outq'} = {outq[k] : k \in DOMAIN outq} \cup {r}
    BY <2>1, InQueue
  <2> QED
    BY <1>1, <2>2 DEF Answered
<1>2. ASSUME Write PROVE Answered' = Answered
  <2>1. outq # <<>> /\ outq' = Tail(outq) /\ delivered' = delivered \cup {Head(outq)}
    BY <1>2 DEF Write
  <2>2. Head(outq) \in Requests
    BY <2>1
  <2>3. {outq'[k] : k \in DOMAIN outq'} \cup {Head(outq)} = {outq[k] : k \in DOMAIN outq}
    BY <2>1, <2>2, InQueue
  <2> QED
    BY <2>1, <2>3 DEF Answered
<1> QED
  BY <1>1, <1>2 DEF Answered

\* Nothing is answered at the start.
LEMMA AnsweredInit == Init => AnsweredInv
<1> QED
  BY DEF Init, AnsweredInv, Answered

\* A request is answered by the step that takes it to its end.
LEMMA AnsweredStep == TypeOK /\ LoopInv /\ AnsweredInv /\ [Next]_vars => AnsweredInv'
<1> SUFFICES ASSUME TypeOK, LoopInv, AnsweredInv, [Next]_vars PROVE AnsweredInv'
  OBVIOUS
<1> USE KindsAssumption DEF AnsweredInv
<1>1. ASSUME Answered' = Answered,
             \A q \in Requests :
                pc[q] \in {"exiting", "done"} => pc'[q] \in {"exiting", "done"}
      PROVE  AnsweredInv'
  BY <1>1
<1>2. ASSUME NEW r \in Requests, Answered' \subseteq Answered \cup {r},
             pc'[r] \in {"exiting", "done"}, \A q \in Requests : q # r => pc'[q] = pc[q]
      PROVE  AnsweredInv'
  BY <1>2
<1>3. ASSUME NEW r \in Calls, CallStep(r) PROVE AnsweredInv'
  <2>0. /\ r \in Requests /\ \A q \in Requests : q # r => pc'[q] = pc[q]
        /\ pc[r] = "exiting" => pc'[r] = "done"
        /\ pc[r] # "done" /\ delivered' = delivered
    BY <1>3, CallFrame DEF Requests
  <2>1. CASE Reply(r)
    <3>1. pc'[r] = "exiting" /\ (outq' = outq \/ Enqueue(r))
      BY <2>0, <2>1 DEF Reply, Drop, TypeOK
    <3>2. Answered' \subseteq Answered \cup {r}
      BY <2>0, <3>1, AnsweredChange
    <3> QED
      BY <1>2, <2>0, <3>1, <3>2
  <2>2. CASE outq' = outq
    BY <1>1, <2>0, <2>2, AnsweredChange
  <2> QED
    BY <1>3, <2>1, <2>2, CallFrame
<1>4. ASSUME NEW r \in Calls, ReadCall(r) \/ AcquireSlot(r) \/ AbandonSlot(r) PROVE AnsweredInv'
  <2>1. /\ UNCHANGED <<outq, delivered>> /\ pc[r] \in {"unsent", "queued"}
        /\ \A q \in Requests : q # r => pc'[q] = pc[q]
    BY <1>4 DEF ReadCall, AcquireSlot, AbandonSlot, LoopInv, TypeOK, Requests, outVars
  <2> QED
    BY <1>1, <2>1, AnsweredChange
<1>5. ASSUME NEW r \in Async \cup Sync, AsyncReplies(r) \/ LoopReplies(r) PROVE AnsweredInv'
  <2>1. /\ r \in Requests /\ delivered' = delivered /\ pc'[r] = "done"
        /\ outq' = outq \/ Enqueue(r)
        /\ \A q \in Requests : q # r => pc'[q] = pc[q]
    BY <1>5 DEF AsyncReplies, LoopReplies, Drop, Requests, TypeOK
  <2>2. Answered' \subseteq Answered \cup {r}
    BY <2>1, AnsweredChange
  <2> QED
    BY <1>2, <2>1, <2>2
<1>6. ASSUME NEW r \in Async \cup Sync, ReadAsync(r) \/ ReadSync(r) PROVE AnsweredInv'
  <2>1. /\ UNCHANGED <<outq, delivered>> /\ pc[r] = "unsent"
        /\ \A q \in Requests : q # r => pc'[q] = pc[q]
    BY <1>6 DEF ReadAsync, ReadSync, TypeOK, Requests, outVars
  <2> QED
    BY <1>1, <2>1, AnsweredChange
<1>7. CASE Write
  BY <1>1, <1>7, AnsweredChange DEF Write
<1>8. CASE UNCHANGED <<pc, outq, delivered>>
  BY <1>1, <1>8, AnsweredChange
<1> QED
  BY <1>3, <1>4, <1>5, <1>6, <1>7, <1>8 DEF Next, Stopped, ReadCancel, ReadEOF,
     LoopSeesCtxDone, WriteFails, Shutdown, Drain, Return, vars, outVars
-----------------------------------------------------------------------------
\* Run does not start at its end.
LEMMA EndInit == Init => EndInv
<1> QED
  BY DEF Init, EndInv

\* The end of Run is final: nothing moves after wg.Wait but the writer.
LEMMA EndStep == TypeOK /\ LoopInv /\ EndInv /\ [Next]_vars => EndInv'
<1> SUFFICES ASSUME TypeOK, LoopInv, EndInv, [Next]_vars PROVE EndInv'
  OBVIOUS
<1> USE KindsAssumption DEF EndInv, Requests
<1>1. ASSUME NEW r \in Calls, CallStep(r) PROVE EndInv'
  <2>1. mainPc' = mainPc /\ pc[r] \notin {"unsent", "done"}
    BY <1>1, CallFrame DEF mainVars
  <2> QED
    BY <2>1
<1>2. ASSUME NEW r \in Calls, ReadCall(r) \/ AcquireSlot(r) \/ AbandonSlot(r) PROVE EndInv'
  BY <1>2 DEF ReadCall, AcquireSlot, AbandonSlot
<1>3. ASSUME NEW r \in Async, ReadAsync(r) \/ AsyncReplies(r) PROVE EndInv'
  BY <1>3 DEF ReadAsync, AsyncReplies, mainVars
<1>4. ASSUME NEW r \in Sync, ReadSync(r) \/ LoopReplies(r) PROVE EndInv'
  BY <1>4 DEF ReadSync, LoopReplies
<1>5. CASE ReadEOF \/ LoopSeesCtxDone
  BY <1>5 DEF ReadEOF, LoopSeesCtxDone
<1>6. CASE Drain
  BY <1>6 DEF Drain, GoroutinesDone
<1>7. CASE Return
  BY <1>7 DEF Return, WriterGone, outVars, TypeOK
<1>8. CASE Write \/ WriteFails
  BY <1>8 DEF Write, WriteFails, mainVars
<1>9. CASE UNCHANGED <<mainVars, pc, outq, outErr>>
  BY <1>9 DEF mainVars
<1> QED
  BY <1>1, <1>2, <1>3, <1>4, <1>5, <1>6, <1>7, <1>8, <1>9
  DEF Next, Stopped, ReadCancel, Shutdown, vars, outVars
-----------------------------------------------------------------------------
\* No call starts cancelled.
LEMMA SilenceInit == Init => SilenceInv
<1> QED
  BY DEF Init, SilenceInv, Requests

\* The cause errExplicitCancellation reaches a call only from a cancellation
\* that the client sent while it had no answer to that very call.
LEMMA SilenceStep ==
    TypeOK /\ LoopInv /\ HeldInv /\ AnsweredInv /\ SilenceInv /\ [Next]_vars => SilenceInv'
<1> SUFFICES ASSUME TypeOK, LoopInv, HeldInv, AnsweredInv, SilenceInv, [Next]_vars
             PROVE  SilenceInv'
  OBVIOUS
<1> USE KindsAssumption, CallAssumption DEF TypeOK, Requests, SilenceInv
<1>1. ASSUME NEW r \in Calls, CallStep(r) PROVE SilenceInv'
  <2>0. /\ UNCHANGED <<outErr, ctxDone, client>>
        /\ pc'[r] \notin {"unsent", "queued"} /\ \A q \in Calls : q # r => pc'[q] = pc[q]
    BY <1>1, CallFrame
  <2>1. CASE Refuse(r) \/ Gate(r) \/ AbandonFamily(r)
    BY <2>0, <2>1 DEF Refuse, Gate, AbandonFamily
  <2>2. CASE HandlerReturns(r, "ok") \/ HandlerReturns(r, "err") \/ HandlerPanics(r)
    BY <2>0, <2>2 DEF HandlerReturns, HandlerPanics
  <2>3. CASE Classify(r)
    BY <2>0, <2>3 DEF Classify
  <2>4. CASE Unwind(r)
    BY <2>0, <2>4 DEF Unwind
  <2>5. CASE ClaimToken(r) \/ RegisterInflight(r) \/ AcquireFamily(r) \/ Expire(r)
             \/ Reply(r) \/ Exit(r)
    BY <2>0, <2>5 DEF ClaimToken, RegisterInflight, AcquireFamily, Expire, Reply, Exit, callVars
  <2> QED
    BY <1>1, <2>1, <2>2, <2>3, <2>4, <2>5 DEF CallStep
<1>2. ASSUME NEW r \in Calls, ReadCall(r) \/ AcquireSlot(r) \/ AbandonSlot(r) PROVE SilenceInv'
  BY <1>2 DEF ReadCall, AcquireSlot, AbandonSlot, callVars, outVars
<1>3. ASSUME NEW r \in Async, ReadAsync(r) \/ AsyncReplies(r) PROVE SilenceInv'
  BY <1>3 DEF ReadAsync, AsyncReplies, callVars, outVars
<1>4. ASSUME NEW r \in Sync, LoopReplies(r) PROVE SilenceInv'
  BY <1>4 DEF LoopReplies, callVars
<1>5. ASSUME NEW r \in Sync, ReadSync(r) PROVE SilenceInv'
  <2>1. UNCHANGED <<outcome, outErr, ctxDone>> /\ \A q \in Calls : pc'[q] = pc[q]
    BY <1>5 DEF ReadSync, outVars
  <2>2. CASE UNCHANGED <<cause, client>>
    BY <2>1, <2>2
  <2>3. CASE ResetInflight
    <3>1. \A q \in Calls : cause'[q] = "explicit" => cause[q] = "explicit"
      BY <2>3 DEF ResetInflight, CauseAfter
    <3>2. \A q \in Calls : client[q] = "cancelled" => client'[q] = "cancelled"
      BY <2>3 DEF ResetInflight, Outstanding
    <3>3. \A q \in Calls : pc[q] \in {"unsent", "queued"} => cause'[q] = cause[q]
      BY <2>3 DEF ResetInflight, CauseAfter, HeldInv, Registered
    <3> QED
      BY <2>1, <3>1, <3>2, <3>3
  <2> QED
    BY <1>5, <2>2, <2>3 DEF ReadSync
<1>6. ASSUME NEW i \in Ids, ReadCancel(i) PROVE SilenceInv'
  <2>1. UNCHANGED <<outcome, outErr, ctxDone, pc>>
    BY <1>6 DEF ReadCancel, outVars
  <2>2. \A q \in Calls : client[q] = "cancelled" => client'[q] = "cancelled"
    BY <1>6 DEF ReadCancel
  <2>3. ASSUME NEW q \in Calls, q = inflight[i]
        PROVE  client'[q] = "cancelled" /\ pc[q] \notin {"unsent", "queued"}
    <3>1. IdOf[q] = i /\ pc[q] \in Registered
      BY <2>3 DEF HeldInv
    <3>2. client[q] # "idle" /\ q \notin delivered
      BY <3>1 DEF LoopInv, AnsweredInv, Answered, Registered
    <3> QED
      BY <1>6, <3>1, <3>2 DEF ReadCancel, Unanswered, Registered
  <2>4. \A q \in Calls : q # inflight[i] => cause'[q] = cause[q]
    BY <1>6 DEF ReadCancel, CauseAfter
  <2> QED
    BY <2>1, <2>2, <2>3, <2>4
<1>7. CASE WriteFails \/ Shutdown
  BY <1>7 DEF WriteFails, Shutdown, callVars
<1>8. CASE UNCHANGED <<pc, callVars, client, outErr, ctxDone>>
  BY <1>8 DEF callVars
<1> QED
  BY <1>1, <1>2, <1>3, <1>4, <1>5, <1>6, <1>7, <1>8
  DEF Next, Stopped, ReadEOF, LoopSeesCtxDone, Write, Drain, Return, vars, outVars
-----------------------------------------------------------------------------
\* No request has ended at the start.
LEMMA NothingLostInit == Init => NothingLostInv
<1> QED
  BY DEF Init, NothingLostInv

\* While stdioCtx lives no response is dropped, and a call that has nothing to
\* say is one the client cancelled or a notification.
LEMMA NothingLostStep ==
    TypeOK /\ LoopInv /\ SilenceInv /\ NothingLostInv /\ [Next]_vars => NothingLostInv'
<1> SUFFICES ASSUME TypeOK, LoopInv, SilenceInv, NothingLostInv, [Next]_vars, ~ctxDone'
             PROVE  NothingLostInv'
  BY DEF NothingLostInv
<1> USE KindsAssumption, CallAssumption DEF TypeOK, Requests
<1>0. ~ctxDone /\ ~outErr
  BY DEF SilenceInv, Next, CallStep, ReadCall, AcquireSlot, AbandonSlot, ReadAsync,
     AsyncReplies, ReadSync, LoopReplies, ReadCancel, ReadEOF, LoopSeesCtxDone, Write,
     WriteFails, Shutdown, Drain, Return, Stopped, vars, outVars, Refuse, ClaimToken,
     RegisterInflight, Gate, AcquireFamily, AbandonFamily, Expire, HandlerReturns,
     HandlerPanics, Classify, Unwind, Reply, Exit
\* Steps that end no request and take no answer and no cancellation back.
<1>1. ASSUME Answered \subseteq Answered',
             \A q \in Requests : pc'[q] \in {"exiting", "done"} => pc[q] \in {"exiting", "done"},
             \A q \in Calls : client[q] = "cancelled" => client'[q] = "cancelled"
      PROVE  NothingLostInv'
  BY <1>0, <1>1 DEF NothingLostInv
\* The step that answers a request.
<1>2. ASSUME NEW r \in Requests, Answered' = Answered \cup {r},
             \A q \in Requests : q # r => pc'[q] = pc[q], client' = client
      PROVE  NothingLostInv'
  BY <1>0, <1>2 DEF NothingLostInv
<1>3. ASSUME NEW r \in Calls, CallStep(r) PROVE NothingLostInv'
  <2>0. /\ UNCHANGED <<delivered, client>> /\ \A q \in Requests : q # r => pc'[q] = pc[q]
        /\ pc'[r] = "exiting" => Reply(r)
        /\ pc'[r] = "done" => pc[r] = "exiting"
        /\ outq' = outq \/ Reply(r)
    BY <1>3, CallFrame
  <2>1. CASE Reply(r)
    <3>1. CASE Enqueue(r)
      BY <1>2, <2>0, <3>1, AnsweredChange
    <3>2. CASE NothingToSay(r) /\ UNCHANGED outq
      <4>1. Answered' = Answered
        BY <2>0, <3>2, AnsweredChange
      <4>2. client[r] = "cancelled" \/ IdOf[r] = None
        BY <3>2 DEF NothingToSay, SilenceInv
      <4> QED
        BY <1>0, <2>0, <4>1, <4>2 DEF NothingLostInv
    <3> QED
      BY <1>0, <2>1, <3>1, <3>2 DEF Reply, Drop, CanDrop
  <2>2. CASE ~Reply(r)
    <3>1. Answered' = Answered
      BY <2>0, <2>2, AnsweredChange
    <3> QED
      BY <1>1, <2>0, <2>2, <3>1
  <2> QED
    BY <2>1, <2>2
<1>4. ASSUME NEW r \in Calls, ReadCall(r) PROVE NothingLostInv'
  <2>1. UNCHANGED <<outq, delivered>> /\ pc' = [pc EXCEPT ![r] = "queued"] /\ pc[r] = "unsent"
        /\ client' = [client EXCEPT ![r] = "waiting"]
    BY <1>4 DEF ReadCall, outVars
  <2>2. Answered' = Answered
    BY <2>1, AnsweredChange
  <2> QED
    BY <1>0, <2>1, <2>2 DEF NothingLostInv
<1>5. ASSUME NEW r \in Calls, AcquireSlot(r) \/ AbandonSlot(r) PROVE NothingLostInv'
  <2>1. AcquireSlot(r)
    BY <1>0, <1>5 DEF AbandonSlot
  <2>2. Answered' = Answered
    BY <2>1, AnsweredChange DEF AcquireSlot, outVars
  <2> QED
    BY <1>1, <2>1, <2>2 DEF AcquireSlot
<1>6. ASSUME NEW r \in Async \cup Sync, AsyncReplies(r) \/ LoopReplies(r) PROVE NothingLostInv'
  <2>1. /\ r \in Requests /\ Enqueue(r) /\ UNCHANGED <<delivered, client>>
        /\ \A q \in Requests : q # r => pc'[q] = pc[q]
    BY <1>0, <1>6 DEF AsyncReplies, LoopReplies, Drop, CanDrop
  <2> QED
    BY <1>2, <2>1, AnsweredChange
<1>7. ASSUME NEW r \in Async \cup Sync, ReadAsync(r) \/ ReadSync(r) PROVE NothingLostInv'
  <2>1. /\ UNCHANGED <<outq, delivered>>
        /\ \A q \in Requests : pc'[q] = pc[q] \/ pc'[q] \in {"running", "replying"}
        /\ \A q \in Calls : client[q] = "cancelled" => client'[q] = "cancelled"
    BY <1>7 DEF ReadAsync, ReadSync, ResetInflight, Outstanding, outVars
  <2>2. Answered' = Answered
    BY <2>1, AnsweredChange
  <2> QED
    BY <1>1, <2>1, <2>2
<1>8. ASSUME NEW i \in Ids, ReadCancel(i) PROVE NothingLostInv'
  <2>1. Answered' = Answered
    BY <1>8, AnsweredChange DEF ReadCancel, outVars
  <2> QED
    BY <1>1, <1>8, <2>1 DEF ReadCancel
<1>9. CASE Write
  <2>1. Answered' = Answered
    BY <1>9, AnsweredChange
  <2> QED
    BY <1>1, <1>9, <2>1 DEF Write
<1>10. CASE UNCHANGED <<pc, outq, delivered, client>>
  <2>1. Answered' = Answered
    BY <1>10, AnsweredChange
  <2> QED
    BY <1>1, <1>10, <2>1
<1> QED
  BY <1>3, <1>4, <1>5, <1>6, <1>7, <1>8, <1>9, <1>10
  DEF Next, Stopped, ReadEOF, LoopSeesCtxDone, WriteFails, Shutdown, Drain, Return,
      vars, outVars
-----------------------------------------------------------------------------
(***************************************************************************)
(* The theorems.                                                           *)
(***************************************************************************)
\* The inductive invariant: the bookkeeping of the session is exact in every
\* run, whatever the numbers of requests and the limits are.
THEOREM Invariance == Spec => []IInv
<1>1. Init => IInv
  BY TypeInit, LoopInit, SlotsInit, FamilyInit, HeldInit, AnsweredInit, EndInit,
     SilenceInit, NothingLostInit DEF IInv
<1>2. IInv /\ [Next]_vars => IInv'
  BY TypeStep, LoopStep, SlotsStep, FamilyStep, HeldStep, AnsweredStep, EndStep,
     SilenceStep, NothingLostStep DEF IInv
<1> QED
  BY <1>1, <1>2, PTL DEF Spec

\* Never more tools/call goroutines than MaxInFlightToolCalls nor more handlers
\* of a risk family than familyLimiter has room for, for every value of both.
THEOREM BoundedConcurrency == Spec => []ConcurrencyBounded
<1>1. IInv => ConcurrencyBounded
  BY DEF IInv, SlotsInv, FamilyInv, ConcurrencyBounded
<1> QED
  BY <1>1, Invariance, PTL

\* When an answer can be seen, the call it answers holds no progress token, no
\* in-flight entry and no family slot.
THEOREM NothingHeldAfterAnswer == Spec => []AnsweredHoldsNothing
<1>1. IInv => AnsweredHoldsNothing
  <2> SUFFICES ASSUME IInv, NEW r \in Answered \cap Calls
               PROVE  /\ \A t \in Tokens : progress[t] # r
                      /\ \A i \in Ids : inflight[i] # r
                      /\ \A f \in Families : r \notin family[f]
    BY DEF AnsweredHoldsNothing
  <2>1. pc[r] \in {"exiting", "done"} /\ r # None
    BY CallAssumption DEF IInv, AnsweredInv
  <2>2. \A t \in Tokens : progress[t] # r
    BY <2>1 DEF IInv, HeldInv, Registered
  <2>3. \A i \in Ids : inflight[i] # r
    BY <2>1 DEF IInv, HeldInv, Registered
  <2>4. \A f \in Families : r \notin family[f]
    BY <2>1 DEF IInv, FamilyInv, Running, Families
  <2> QED
    BY <2>2, <2>3, <2>4
<1> QED
  BY <1>1, Invariance, PTL

\* Run does not report success when its output broke, even if the break comes
\* after the last goroutine ended.
THEOREM BrokenOutputReported == Spec => []WriteErrorSurfaces
<1>1. IInv => WriteErrorSurfaces
  BY DEF IInv, EndInv, WriteErrorSurfaces
<1> QED
  BY <1>1, Invariance, PTL

\* A session that ends with its input has delivered the answer to every request
\* it read, but for calls the client cancelled and notifications.
THEOREM EverythingAnswered == Spec => []InputEndLosesNothing
<1>1. IInv => InputEndLosesNothing
  <2> SUFFICES ASSUME IInv, mainPc = "returned", ~ctxDone, NEW r \in Requests,
                      pc[r] # "unsent"
               PROVE  r \in delivered \/ (r \in Calls /\ (client[r] = "cancelled" \/ IdOf[r] = None))
    BY DEF InputEndLosesNothing
  <2>1. pc[r] = "done"
    <3>1. CASE r \in Calls \cup Async
      BY <3>1 DEF IInv, EndInv
    <3>2. CASE r \in Sync
      BY <3>2 DEF IInv, LoopInv
    <3> QED
      BY <3>1, <3>2 DEF Requests
  <2>2. outq = <<>>
    BY DEF IInv, EndInv, SilenceInv
  <2>3. Answered = delivered
    BY <2>2 DEF Answered
  <2> QED
    BY <2>1, <2>3 DEF IInv, NothingLostInv
<1> QED
  BY <1>1, Invariance, PTL
-----------------------------------------------------------------------------
(***************************************************************************)
(* A client that never uses an id twice can cancel what it waits for.      *)
(***************************************************************************)
DistinctIds == \A q, r \in Calls : IdOf[q] = IdOf[r] /\ IdOf[q] # None => q = r

\* The call that a running call's id leads to is that call.
EntryInv == \A r \in Calls :
    pc[r] \in {"gate", "acquiring", "running"} /\ IdOf[r] # None /\ client[r] = "waiting"
        => inflight[IdOf[r]] = r

\* Only the call itself, its cancellation or a reset touches its entry.
LEMMA EntryStep == DistinctIds /\ IInv /\ EntryInv /\ [Next]_vars => EntryInv'
<1> SUFFICES ASSUME DistinctIds, IInv, EntryInv, [Next]_vars PROVE EntryInv'
  OBVIOUS
<1> USE KindsAssumption, CallAssumption DEF Requests
<1>0. TypeOK /\ LoopInv /\ AnsweredInv
  BY DEF IInv
<1> USE DEF TypeOK
<1>1. ASSUME UNCHANGED inflight, \A q \in Calls :
                pc'[q] \in {"gate", "acquiring", "running"} /\ client'[q] = "waiting" =>
                    pc[q] \in {"gate", "acquiring", "running"} /\ client[q] = "waiting"
      PROVE  EntryInv'
  BY <1>1 DEF EntryInv
<1>2. ASSUME NEW r \in Calls, CallStep(r) PROVE EntryInv'
  <2>0. UNCHANGED client /\ \A q \in Calls : q # r => pc'[q] = pc[q]
    BY <1>0, <1>2, CallFrame
  <2>1. CASE Refuse(r) \/ ClaimToken(r) \/ Gate(r) \/ AcquireFamily(r) \/ AbandonFamily(r)
    BY <1>0, <1>1, <2>0, <2>1 DEF Refuse, ClaimToken, Gate, AcquireFamily, AbandonFamily,
       lockVars
  <2>2. CASE Expire(r) \/ HandlerReturns(r, "ok") \/ HandlerReturns(r, "err") \/ HandlerPanics(r)
    BY <1>0, <1>1, <2>0, <2>2 DEF Expire, HandlerReturns, HandlerPanics, lockVars
  <2>3. CASE Classify(r) \/ Reply(r) \/ Exit(r)
    BY <1>0, <1>1, <2>0, <2>3 DEF Classify, Reply, Exit, lockVars
  <2>4. CASE RegisterInflight(r)
    BY <1>0, <2>0, <2>4 DEF RegisterInflight, EntryInv, DistinctIds
  <2>5. CASE Unwind(r)
    BY <1>0, <2>0, <2>5 DEF Unwind, EntryInv, DistinctIds
  <2> QED
    BY <1>2, <2>1, <2>2, <2>3, <2>4, <2>5 DEF CallStep
<1>3. ASSUME NEW r \in Calls, ReadCall(r) \/ AcquireSlot(r) \/ AbandonSlot(r) PROVE EntryInv'
  BY <1>0, <1>1, <1>3 DEF ReadCall, AcquireSlot, AbandonSlot, lockVars
<1>4. ASSUME NEW r \in Async, ReadAsync(r) \/ AsyncReplies(r) PROVE EntryInv'
  BY <1>0, <1>1, <1>4 DEF ReadAsync, AsyncReplies, lockVars
<1>5. ASSUME NEW r \in Sync, LoopReplies(r) PROVE EntryInv'
  BY <1>0, <1>1, <1>5 DEF LoopReplies, lockVars
<1>6. \A q \in Calls : pc[q] \in {"gate", "acquiring", "running"} => q \notin delivered
  BY <1>0 DEF AnsweredInv, Answered
<1>7. ASSUME NEW r \in Sync, ReadSync(r) PROVE EntryInv'
  <2>1. \A q \in Calls : pc'[q] = pc[q]
    BY <1>0, <1>7 DEF ReadSync
  <2>2. CASE UNCHANGED <<inflight, client>>
    BY <1>1, <2>1, <2>2
  <2>3. CASE ResetInflight
    BY <1>0, <1>6, <2>1, <2>3 DEF ResetInflight, Outstanding, EntryInv
  <2> QED
    BY <1>7, <2>2, <2>3 DEF ReadSync
<1>8. ASSUME NEW i \in Ids, ReadCancel(i) PROVE EntryInv'
  BY <1>0, <1>6, <1>8 DEF ReadCancel, Unanswered, EntryInv
<1>9. CASE UNCHANGED <<pc, inflight, client>>
  BY <1>1, <1>9
<1> QED
  BY <1>2, <1>3, <1>4, <1>5, <1>7, <1>8, <1>9 DEF Next, Stopped, ReadEOF,
     LoopSeesCtxDone, Write, WriteFails, Shutdown, Drain, Return, vars, lockVars

\* As long as no id is used twice in the session, a running call that the client
\* waits for is the one its id cancels.
THEOREM Cancellable == DistinctIds => (Spec => []RunningIsCancellable)
<1>1. Init => EntryInv
  BY DEF Init, EntryInv, Requests
<1>2. EntryInv => RunningIsCancellable
  BY DEF EntryInv, RunningIsCancellable
<1> SUFFICES ASSUME DistinctIds PROVE Spec => []RunningIsCancellable
  OBVIOUS
<1>3. IInv /\ EntryInv /\ [Next]_vars => EntryInv'
  BY EntryStep
<1> QED
  BY <1>1, <1>2, <1>3, Invariance, PTL DEF Spec
-----------------------------------------------------------------------------
(***************************************************************************)
(* Dispatch implements Exchange, step by step.                             *)
(***************************************************************************)
CancelledSet == {r \in Calls : client[r] = "cancelled"}

\* The three shapes a step can have in Exchange's eyes, but for Cancel.
LEMMA SimulatedStutter ==
    ASSUME \A q \in Requests : StatusOf(q)' = StatusOf(q),
           CancelledSet' = CancelledSet, ctxDone' = ctxDone
    PROVE  UNCHANGED Session!vars
<1> QED
  BY DEF Session!vars, CancelledSet

\* One request changes its status and no other does.
LEMMA SimulatedMove ==
    ASSUME NEW r \in Requests, NEW s,
           \A q \in Requests : q # r => StatusOf(q)' = StatusOf(q), StatusOf(r)' = s
    PROVE  [q \in Requests |-> StatusOf(q)]'
             = [[q \in Requests |-> StatusOf(q)] EXCEPT ![r] = s]
<1> QED
  OBVIOUS

\* A request that is read.
LEMMA SimulatedSend ==
    ASSUME NEW r \in Requests, StatusOf(r) = "unsent", StatusOf(r)' = "open",
           \A q \in Requests : q # r => StatusOf(q)' = StatusOf(q),
           CancelledSet' = CancelledSet, ctxDone' = ctxDone
    PROVE  Session!Next
<1>1. Session!Send(r)
  BY SimulatedMove DEF Session!Send, CancelledSet
<1> QED
  BY <1>1 DEF Session!Next

\* A request that ends with no answer, for one of the reasons Exchange allows.
LEMMA SimulatedClose ==
    ASSUME NEW r \in Requests, StatusOf(r) = "open", StatusOf(r)' = "closed",
           r \in CancelledSet \/ (r \in Calls /\ IdOf[r] = None) \/ ctxDone,
           \A q \in Requests : q # r => StatusOf(q)' = StatusOf(q),
           CancelledSet' = CancelledSet, ctxDone' = ctxDone
    PROVE  Session!Next
<1>1. Session!Close(r)
  BY SimulatedMove DEF Session!Close, CancelledSet
<1> QED
  BY <1>1 DEF Session!Next

\* A request that ends in a step: answered, it is open to the client until the
\* writer delivers the answer; unanswered, it is closed.
LEMMA SimulatedEnd ==
    ASSUME IInv, NEW r \in Requests, pc[r] \notin {"unsent", "exiting", "done"},
           pc'[r] \in {"exiting", "done"}, \A q \in Requests : q # r => pc'[q] = pc[q],
           UNCHANGED <<delivered, client, ctxDone>>,
           Enqueue(r) \/ (outq' = outq /\
              (r \in CancelledSet \/ (r \in Calls /\ IdOf[r] = None) \/ ctxDone))
    PROVE  [Session!Next]_(Session!vars)
<1>1. r \notin Answered /\ r \notin delivered /\ CancelledSet' = CancelledSet
  BY DEF IInv, AnsweredInv, Answered, CancelledSet
<1>2. StatusOf(r) = "open"
  BY <1>1 DEF StatusOf
<1>3. CASE Enqueue(r)
  <2>1. Answered' = Answered \cup {r}
    BY <1>3, AnsweredChange DEF IInv
  <2>2. \A q \in Requests : StatusOf(q)' = StatusOf(q)
    BY <1>1, <1>2, <2>1 DEF StatusOf
  <2> QED
    BY <1>1, <2>2, SimulatedStutter
<1>4. CASE outq' = outq /\ (r \in CancelledSet \/ (r \in Calls /\ IdOf[r] = None) \/ ctxDone)
  <2>1. Answered' = Answered
    BY <1>4, AnsweredChange DEF IInv
  <2>2. StatusOf(r)' = "closed" /\ \A q \in Requests : q # r => StatusOf(q)' = StatusOf(q)
    BY <1>1, <2>1 DEF StatusOf
  <2> QED
    BY <1>1, <1>2, <1>4, <2>2, SimulatedClose
<1> QED
  BY <1>3, <1>4

\* A step that neither reads nor ends a request and delivers nothing.
LEMMA SimulatedSame ==
    ASSUME TypeOK, UNCHANGED <<outq, delivered>>,
           \A q \in Requests :
              /\ pc[q] = "unsent" <=> pc'[q] = "unsent"
              /\ pc[q] \in {"exiting", "done"} <=> pc'[q] \in {"exiting", "done"}
    PROVE  \A q \in Requests : StatusOf(q)' = StatusOf(q)
<1>1. Answered' = Answered
  BY AnsweredChange
<1> QED
  BY <1>1 DEF StatusOf

\* The session starts as Exchange does.
LEMMA SimulatedInit == Init => Session!Init
<1> SUFFICES ASSUME Init PROVE Session!Init
  OBVIOUS
<1>1. \A q \in Requests : StatusOf(q) = "unsent"
  BY DEF Init, StatusOf
<1>2. {r \in Calls : client[r] = "cancelled"} = {}
  BY DEF Init
<1> QED
  BY <1>1, <1>2 DEF Init, Session!Init

\* Every step of the session is a step of Exchange or no step at all.
LEMMA SimulatedStep == IInv /\ [Next]_vars => [Session!Next]_(Session!vars)
<1> SUFFICES ASSUME IInv, [Next]_vars PROVE [Session!Next]_(Session!vars)
  OBVIOUS
<1> USE KindsAssumption, CallAssumption DEF Requests
<1>0. TypeOK /\ LoopInv /\ AnsweredInv /\ SilenceInv
  BY DEF IInv
<1>1. ASSUME NEW r \in Requests, pc[r] = "unsent", pc'[r] \notin {"unsent", "exiting", "done"},
             \A q \in Requests : q # r => pc'[q] = pc[q],
             UNCHANGED <<outq, delivered, ctxDone>>, CancelledSet' = CancelledSet
      PROVE  [Session!Next]_(Session!vars)
  <2>1. Answered' = Answered
    BY <1>0, <1>1, AnsweredChange
  <2>2. r \notin delivered
    BY <1>0, <1>1 DEF AnsweredInv, Answered
  <2>3. StatusOf(r) = "unsent" /\ StatusOf(r)' = "open"
    BY <1>1, <2>2 DEF StatusOf
  <2>4. \A q \in Requests : q # r => StatusOf(q)' = StatusOf(q)
    BY <1>1, <2>1 DEF StatusOf
  <2> QED
    BY <1>1, <2>3, <2>4, SimulatedSend
<1>2. ASSUME NEW r \in Calls, ReadCall(r) PROVE [Session!Next]_(Session!vars)
  <2>1. client[r] = "idle"
    BY <1>0, <1>2 DEF ReadCall, LoopInv
  <2>2. CancelledSet' = CancelledSet
    BY <1>0, <1>2, <2>1 DEF ReadCall, CancelledSet, TypeOK
  <2> QED
    BY <1>0, <1>1, <1>2, <2>2 DEF ReadCall, TypeOK, outVars
<1>3. ASSUME NEW r \in Async, ReadAsync(r) PROVE [Session!Next]_(Session!vars)
  BY <1>0, <1>1, <1>3 DEF ReadAsync, TypeOK, CancelledSet, outVars
<1>4. ASSUME NEW r \in Sync, ReadSync(r) PROVE [Session!Next]_(Session!vars)
  <2>1. CancelledSet' = CancelledSet
    BY <1>4 DEF ReadSync, ResetInflight, Outstanding, CancelledSet
  <2> QED
    BY <1>0, <1>1, <1>4, <2>1 DEF ReadSync, TypeOK, outVars
<1>5. ASSUME NEW r \in Calls, AcquireSlot(r) PROVE [Session!Next]_(Session!vars)
  <2>1. \A q \in Requests : StatusOf(q)' = StatusOf(q)
    BY <1>0, <1>5, SimulatedSame DEF AcquireSlot, LoopInv, TypeOK, outVars
  <2> QED
    BY <1>5, <2>1, SimulatedStutter DEF AcquireSlot, CancelledSet, outVars
<1>6. ASSUME NEW r \in Calls, AbandonSlot(r) PROVE [Session!Next]_(Session!vars)
  BY <1>0, <1>6, SimulatedEnd DEF AbandonSlot, LoopInv, TypeOK, outVars
<1>7. ASSUME NEW r \in Calls, CallStep(r) PROVE [Session!Next]_(Session!vars)
  <2>0. /\ UNCHANGED <<delivered, ctxDone, client>>
        /\ pc[r] \notin {"unsent", "done"} /\ pc'[r] # "unsent"
        /\ \A q \in Requests : q # r => pc'[q] = pc[q]
        /\ pc'[r] \in {"exiting", "done"} => pc[r] = "exiting" \/ Reply(r)
        /\ pc[r] = "exiting" => pc'[r] = "done"
        /\ outq' = outq \/ Reply(r)
    BY <1>0, <1>7, CallFrame
  <2>1. CASE Reply(r)
    <3>1. pc[r] = "replying" /\ pc'[r] = "exiting"
      BY <1>0, <2>1 DEF Reply, TypeOK
    <3>2. Enqueue(r) \/ (outq' = outq /\
             (r \in CancelledSet \/ (r \in Calls /\ IdOf[r] = None) \/ ctxDone))
      BY <1>0, <2>1 DEF Reply, Drop, CanDrop, NothingToSay, SilenceInv, CancelledSet
    <3> QED
      BY <2>0, <3>1, <3>2, SimulatedEnd
  <2>2. CASE ~Reply(r)
    <3>1. \A q \in Requests : StatusOf(q)' = StatusOf(q)
      BY <1>0, <2>0, <2>2, SimulatedSame
    <3> QED
      BY <2>0, <3>1, SimulatedStutter DEF CancelledSet
  <2> QED
    BY <2>1, <2>2
<1>8. ASSUME NEW r \in Async, AsyncReplies(r) PROVE [Session!Next]_(Session!vars)
  <2>1. Enqueue(r) \/ (outq' = outq /\ ctxDone)
    BY <1>0, <1>8 DEF AsyncReplies, Drop, CanDrop, SilenceInv
  <2> QED
    BY <1>0, <1>8, <2>1, SimulatedEnd DEF AsyncReplies, TypeOK
<1>9. ASSUME NEW r \in Sync, LoopReplies(r) PROVE [Session!Next]_(Session!vars)
  <2>1. pc[r] = "replying" /\ (Enqueue(r) \/ (outq' = outq /\ ctxDone))
    BY <1>0, <1>9 DEF LoopReplies, Drop, CanDrop, SilenceInv, LoopInv
  <2> QED
    BY <1>0, <1>9, <2>1, SimulatedEnd DEF LoopReplies, TypeOK
<1>10. ASSUME NEW i \in Ids, ReadCancel(i) PROVE [Session!Next]_(Session!vars)
  <2>0. PICK S : S = {r \in Calls : Unanswered(r) /\ IdOf[r] = i}
    OBVIOUS
  <2>1. \A q \in Requests : StatusOf(q)' = StatusOf(q)
    BY <1>0, <1>10, SimulatedSame DEF ReadCancel, outVars
  <2>2. \A r \in S : StatusOf(r) \in {"open", "closed"}
    BY <1>0, <2>0 DEF StatusOf, Unanswered, LoopInv
  <2>3. CancelledSet' = CancelledSet \cup S
    BY <1>0, <1>10, <2>0 DEF ReadCancel, CancelledSet, TypeOK
  <2>4. S \in SUBSET Requests /\ \A r \in S : r \in Requests
    BY <2>0
  <2>5. Session!Cancel(S)
    BY <1>10, <2>1, <2>2, <2>3, <2>4 DEF Session!Cancel, CancelledSet, ReadCancel, outVars
  <2> QED
    BY <2>4, <2>5 DEF Session!Next
<1>11. CASE Write
  <2>0. PICK h : h = Head(outq)
    OBVIOUS
  <2>1. /\ outq # <<>> /\ h \in Requests /\ delivered' = delivered \cup {h}
        /\ UNCHANGED <<pc, client, ctxDone>>
    BY <1>0, <1>11, <2>0 DEF Write, TypeOK
  <2>2. Answered' = Answered
    BY <1>0, <1>11, AnsweredChange
  <2>3. h \in Answered'
    BY <2>1 DEF Answered
  <2>4. pc[h] \in {"exiting", "done"}
    BY <1>0, <2>2, <2>3 DEF AnsweredInv
  <2>5. /\ StatusOf(h)' = "answered" /\ StatusOf(h) \in {"open", "answered"}
        /\ \A q \in Requests : q # h => StatusOf(q)' = StatusOf(q)
    BY <2>1, <2>2, <2>3, <2>4 DEF StatusOf
  <2>6. CASE StatusOf(h) = "answered"
    BY <2>1, <2>5, <2>6, SimulatedStutter DEF CancelledSet
  <2>7. CASE StatusOf(h) = "open"
    <3>1. Session!Answer(h)
      BY <2>1, <2>5, <2>7, SimulatedMove DEF Session!Answer
    <3> QED
      BY <2>1, <3>1 DEF Session!Next
  <2> QED
    BY <2>5, <2>6, <2>7
<1>12. CASE WriteFails \/ Shutdown
  <2>1. UNCHANGED <<pc, outq, delivered, client>> /\ ctxDone' = TRUE
    BY <1>12 DEF WriteFails, Shutdown
  <2>2. \A q \in Requests : StatusOf(q)' = StatusOf(q)
    BY <1>0, <2>1, SimulatedSame
  <2>3. Session!TearDown
    BY <2>1, <2>2 DEF Session!TearDown
  <2> QED
    BY <2>3 DEF Session!Next
<1>13. CASE UNCHANGED <<pc, outq, delivered, client, ctxDone>>
  <2>1. \A q \in Requests : StatusOf(q)' = StatusOf(q)
    BY <1>0, <1>13, SimulatedSame
  <2> QED
    BY <1>13, <2>1, SimulatedStutter DEF CancelledSet
<1> QED
  BY <1>2, <1>3, <1>4, <1>5, <1>6, <1>7, <1>8, <1>9, <1>10, <1>11, <1>12, <1>13
  DEF Next, Stopped, ReadEOF, LoopSeesCtxDone, Drain, Return, vars, outVars

\* Every run of the session is one that Exchange allows: a request that carries
\* an id is answered unless the client cancelled it or the session is torn down.
THEOREM Implementation == Spec => ImplementsExchange
<1> QED
  BY SimulatedInit, SimulatedStep, Invariance, PTL
  DEF Spec, ImplementsExchange, Session!Spec
=============================================================================
