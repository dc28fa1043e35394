------------------------------ MODULE Calls_proof ------------------------------
(***************************************************************************)
(* For every table of tools that satisfies the assumptions of Calls: dry    *)
(* runs, read-only tools and refused calls change nothing, nothing is      *)
(* deleted without a confirmation, what a call changes is published, what  *)
(* its result claims is true, a success is complete, and repetitions of a  *)
(* repeatable call converge.                                               *)
(***************************************************************************)
EXTENDS Calls, WellFoundedInduction, TLAPS

\* A dry run is before the preview of its handler, if callTool lets it in.
BeforePreview ==
    \E i \in 1..Len(Steps) :
        /\ Steps[i].op = "preview" /\ pc <= i
        /\ \A j \in 1..(i - 1) : Steps[j].op # "write" /\ Steps[j].skip = 0

\* The parts the properties rest on: where a running call is, and what let it
\* past the gate.
RunInv ==
    /\ tool \in Tools
    /\ pc \in Nat \ {0}
    /\ dry \in BOOLEAN /\ confirmed \in BOOLEAN
    /\ status = "running" /\ dry /\ tool \notin DryRunIgnored => BeforePreview
    /\ status = "running" /\ IsHighRisk(tool) => dry \/ confirmed

IInv == RunInv /\ PureCalls

\* A write is at hand only in a call whose tool writes, past its preview.
LEMMA WriteIsFree ==
    ASSUME RunInv, At("write")
    PROVE  /\ pc \in Writes(tool)
           /\ ~Catalog[tool].reads
           /\ ~(dry /\ tool \notin DryRunIgnored)
<1> USE DEF RunInv, At, Now, Steps
<1>1. Catalog[tool].steps \in Seq(Step)
    BY CatalogAssumption DEF Tools
<1>2. pc \in 1..Len(Catalog[tool].steps)
    BY <1>1
<1>3. pc \in Writes(tool)
    BY <1>2 DEF Writes, Indices, StepOf
<1>4. ~Catalog[tool].reads
    BY <1>3, CatalogAssumption
<1>5. ASSUME dry, tool \notin DryRunIgnored PROVE FALSE
    <2>1. PICK i \in 1..Len(Steps) :
              /\ Steps[i].op = "preview" /\ pc <= i
              /\ \A j \in 1..(i - 1) : Steps[j].op # "write" /\ Steps[j].skip = 0
        BY <1>5 DEF BeforePreview
    <2>2. pc # i
        BY <2>1
    <2>3. pc \in 1..(i - 1)
        BY <2>1, <2>2, <1>2
    <2> QED BY <2>1, <2>3
<1> QED BY <1>3, <1>4, <1>5

\* Past the gate with a dry run, the handler has a preview ahead.
LEMMA GateIsSound ==
    ASSUME NEW d \in BOOLEAN, NEW c \in BOOLEAN, tool \in Tools,
           d => AcceptsDryRun(tool), Gate(d, c) = "running"
    PROVE  /\ d /\ tool \notin DryRunIgnored => PreviewComesFirst(tool)
           /\ IsHighRisk(tool) => d \/ c
<1>1. IsHighRisk(tool) => d \/ c
    BY DEF Gate
<1>2. d => ~CentralDryRunPreview(tool)
    BY DEF Gate, CentralDryRunPreview
<1> QED BY <1>1, <1>2, CatalogAssumption

\* How a step of a handler moves on: to the next step, over the steps that
\* depend on it, or to the end of the call.
Moves ==
    \/ status' = status /\ (pc' = pc + 1 \/ pc' = pc + 1 + Now.skip)
    \/ status' # "running" /\ pc' = pc

LEMMA FailsMoves ==
    ASSUME NEW policy \in Failure, Fails(policy)
    PROVE  Moves
BY DEF Failure, Fails, Skip, End, Moves

\* The step at hand is one of the table's.
LEMMA NowIsStep ==
    ASSUME tool \in Tools, pc \in Nat \ {0}, pc <= Len(Steps)
    PROVE  Now \in Step
<1>1. Catalog[tool].steps \in Seq(Step)
    BY CatalogAssumption DEF Tools
<1>2. pc \in 1..Len(Catalog[tool].steps)
    BY <1>1 DEF Steps
<1> QED BY <1>1, <1>2 DEF Now, Steps

LEMMA EndKeeps ==
    ASSUME RunInv, status' # "running", UNCHANGED <<tool, dry, confirmed, pc>>
    PROVE  RunInv'
BY DEF RunInv, IsHighRisk

\* A step forward keeps a dry run before its preview.
LEMMA SkipKeeps ==
    ASSUME RunInv, status = "running", pc <= Len(Steps), Now.op # "preview",
           UNCHANGED <<tool, dry, confirmed>>,
           Moves
    PROVE  RunInv'
<1> USE DEF RunInv, Now, Steps, IsHighRisk, Moves
<1>1. Catalog[tool].steps \in Seq(Step)
    BY CatalogAssumption DEF Tools
<1>2. pc \in 1..Len(Catalog[tool].steps)
    BY <1>1
<1>3. Now.skip \in Nat
    BY NowIsStep DEF Step
<1>4. pc' \in Nat \ {0}
    BY <1>3
<1>5. ASSUME status' = "running", dry, tool \notin DryRunIgnored
      PROVE  BeforePreview'
    <2>1. PICK i \in 1..Len(Steps) :
              /\ Steps[i].op = "preview" /\ pc <= i
              /\ \A j \in 1..(i - 1) : Steps[j].op # "write" /\ Steps[j].skip = 0
        BY <1>5 DEF BeforePreview
    <2>2. pc \in 1..(i - 1)
        BY <2>1, <1>2
    <2>3. pc' = pc + 1
        BY <2>1, <2>2, <1>5
    <2>4. pc' <= i
        BY <2>2, <2>3
    <2>5. Steps' = Steps
        OBVIOUS
    <2> QED BY <2>1, <2>4, <2>5 DEF BeforePreview
<1> QED BY <1>4, <1>5

\* Every step of the specification keeps RunInv.
LEMMA RunStep ==
    ASSUME RunInv, [Next]_vars
    PROVE  RunInv'
<1> USE DEF request
<1>1. ASSUME NEW d \in BOOLEAN, NEW c \in BOOLEAN, Call(d, c) PROVE RunInv'
    <2> USE <1>1 DEF Call
    <2>1. tool \in Tools
        BY DEF RunInv
    <2>2. CASE Gate(d, c) = "running"
        <3>1. /\ d /\ tool \notin DryRunIgnored => PreviewComesFirst(tool)
              /\ IsHighRisk(tool) => d \/ c
            BY <2>1, <2>2, GateIsSound
        <3>2. d /\ tool \notin DryRunIgnored => BeforePreview'
            <4> SUFFICES ASSUME d, tool \notin DryRunIgnored PROVE BeforePreview'
                OBVIOUS
            <4>1. PICK i \in 1..Len(Steps) :
                      /\ Steps[i].op = "preview"
                      /\ \A j \in 1..(i - 1) : Steps[j].op # "write" /\ Steps[j].skip = 0
                BY <3>1 DEF PreviewComesFirst, Steps, Indices, StepOf
            <4>2. pc' <= i /\ Steps' = Steps
                BY DEF Steps
            <4> QED BY <4>1, <4>2 DEF BeforePreview
        <3> QED BY <2>1, <3>1, <3>2 DEF RunInv, IsHighRisk
    <2>3. CASE Gate(d, c) # "running"
        BY <2>1, <2>3 DEF RunInv
    <2> QED BY <2>2, <2>3
<1>2. ASSUME Invalid \/ Return PROVE RunInv'
    BY <1>2, EndKeeps DEF Invalid, Return, End
<1>3. ASSUME NEW op, At(op), op # "preview", Moves, UNCHANGED <<tool, dry, confirmed>>
      PROVE  RunInv'
    BY <1>3, SkipKeeps DEF At
<1>4. ASSUME NEW op, At(op), NEW policy \in Failure, Fails(policy), op # "preview",
             UNCHANGED <<tool, dry, confirmed>>
      PROVE  RunInv'
    BY <1>3, <1>4, FailsMoves
<1>5. ASSUME NEW op, At(op) PROVE Now.fail \in Failure
    BY <1>5, NowIsStep DEF At, RunInv, Step
<1>a. ASSUME Skip(0) PROVE Moves
    BY <1>a DEF Skip, Moves, RunInv
<1>6. CASE Answered
    <2>1. Skip(0) \/ End("refused") \/ Skip(Now.skip)
        BY <1>6 DEF Answered
    <2>2. Moves
        BY <1>a, <2>1 DEF Skip, End, Moves
    <2> QED BY <1>3, <1>6, <2>2 DEF Answered
<1>7. CASE Unanswered \/ Rejected
    <2>1. PICK op \in {"read", "write"} : At(op)
        BY <1>7 DEF Unanswered, Rejected
    <2>2. PICK policy \in Failure : Fails(policy)
        BY <1>5, <1>7, <2>1 DEF Unanswered, Rejected, Means, Failure
    <2> QED BY <1>4, <1>7, <2>1, <2>2 DEF Unanswered, Rejected
<1>8. CASE Lost
    <2>1. (IF Now.fail = "mistake" THEN "abort" ELSE Now.fail) \in Failure
        BY <1>5, <1>8 DEF Lost, Failure
    <2> QED BY <1>4, <1>8, <2>1 DEF Lost
<1>9. CASE NotNeeded \/ Accepted \/ Valid \/ Publish
    <2>1. Moves
        BY <1>a, <1>9 DEF NotNeeded, Accepted, Valid, Publish
    <2> QED BY <1>3, <1>9, <2>1 DEF NotNeeded, Accepted, Valid, Publish
<1>10. CASE NotValid
    BY <1>10, EndKeeps DEF NotValid, End
<1>11. CASE DryRun
    <2>1. CASE dry
        BY <1>11, <2>1, EndKeeps DEF DryRun, End
    <2>2. CASE ~dry
        BY <1>11, <2>2 DEF DryRun, Skip, RunInv, IsHighRisk
    <2> QED BY <2>1, <2>2
<1>12. CASE UNCHANGED vars
    BY <1>12 DEF vars, RunInv, IsHighRisk, BeforePreview, Steps
<1> QED BY <1>1, <1>2, <1>6, <1>7, <1>8, <1>9, <1>10, <1>11, <1>12 DEF Next

\* A dry run or a read-only tool never gets to a write.
LEMMA PureStep ==
    ASSUME IInv, [Next]_vars
    PROVE  PureCalls'
<1> USE DEF IInv, request
<1>1. ASSUME UNCHANGED <<tool, store, base, dry>> PROVE PureCalls'
    BY <1>1 DEF PureCalls
<1>2. ASSUME NEW d \in BOOLEAN, NEW c \in BOOLEAN, Call(d, c) PROVE PureCalls'
    BY <1>2 DEF Call, PureCalls
<1>3. ASSUME At("write"), UNCHANGED <<tool, dry>> PROVE PureCalls'
    BY <1>3, WriteIsFree DEF PureCalls
<1>4. CASE Accepted \/ Lost
    BY <1>3, <1>4 DEF Accepted, Lost
<1>5. CASE Invalid \/ Answered \/ Unanswered \/ NotNeeded \/ Rejected \/ DryRun
    BY <1>1, <1>5 DEF Invalid, Answered, Unanswered, NotNeeded, Rejected, DryRun
<1>6. CASE Valid \/ NotValid \/ Publish \/ Return
    BY <1>1, <1>6 DEF Valid, NotValid, Publish, Return
<1>7. CASE UNCHANGED vars
    BY <1>1, <1>7 DEF vars
<1> QED BY <1>2, <1>4, <1>5, <1>6, <1>7 DEF Next

\* What the gates of callTool and the place of each preview give together.
THEOREM Invariance == Spec => []IInv
<1>1. Init => IInv
    <2> SUFFICES ASSUME Init PROVE IInv
        OBVIOUS
    <2>1. /\ tool \in Tools /\ store = base /\ status = "idle" /\ pc = 1
          /\ dry = FALSE /\ confirmed = FALSE
        BY DEF Init
    <2>a. pc \in Nat \ {0}
        <3>1. pc = 1
            BY <2>1
        <3> QED BY <3>1
    <2>2. pc \in Nat \ {0} /\ dry \in BOOLEAN /\ confirmed \in BOOLEAN
        BY <2>1, <2>a, Zenon
    <2>3. RunInv
        BY <2>1, <2>2 DEF RunInv
    <2>4. PureCalls
        BY <2>1 DEF PureCalls
    <2> QED BY <2>3, <2>4 DEF IInv
<1>2. IInv /\ [Next]_vars => IInv'
    BY RunStep, PureStep DEF IInv
<1> QED BY <1>1, <1>2, PTL DEF Spec

\* A dry run and a read-only tool leave the workspace as it is (callTool's
\* central preview, dryrun.Enabled in the handlers).
THEOREM DryRunsArePure == Spec => []PureCalls
BY Invariance, PTL DEF IInv

\* Only a write of "absent" empties a slot.
LEMMA EffectDeletes ==
    ASSUME NEW ws, NEW step, NEW s \in DOMAIN ws,
           ws[s] # "absent", Effect(ws, step)[s] = "absent"
    PROVE  step.to = "absent"
BY DEF Effect

\* No step deletes without a confirmation.
LEMMA DeletionStep ==
    ASSUME IInv, [Next]_vars, NEW s \in DOMAIN store,
           store[s] # "absent", store'[s] = "absent"
    PROVE  confirmed \/ tool \in Cleanup
<1> USE DEF request
<1>1. Accepted \/ Lost
    <2>1. store' # store
        OBVIOUS
    <2> QED BY <2>1 DEF Next, vars, Call, Invalid, Answered, Unanswered, NotNeeded,
                Rejected, DryRun, Valid, NotValid, Publish, Return
<1>2. At("write") /\ store' = Effect(store, Now)
    BY <1>1 DEF Accepted, Lost, Applied
<1>3. Now.to = "absent"
    BY <1>2, EffectDeletes
<1>4. pc \in Writes(tool) /\ Catalog[tool].steps[pc].to = "absent"
    BY <1>2, <1>3, WriteIsFree DEF IInv, Now, Steps
<1>5. CASE tool \notin Cleanup
    <2>1. IsHighRisk(tool) /\ tool \notin DryRunIgnored
        BY <1>4, <1>5, DeletionAssumption DEF IInv, RunInv
    <2>2. ~dry
        BY <1>2, <2>1, WriteIsFree DEF IInv
    <2> QED BY <1>2, <2>1, <2>2 DEF IInv, RunInv, At
<1> QED BY <1>5

\* Nothing is deleted without a confirmation, but by the cleanup of the demo
\* objects (callTool's gate over the risk classes).
THEOREM DeletionsAreConfirmed == Spec => DeletionIsConfirmed
<1>1. IInv /\ [Next]_vars =>
        [\A s \in DOMAIN store :
            store[s] # "absent" /\ store'[s] = "absent"
               => confirmed \/ tool \in Cleanup]_store
    BY DeletionStep
<1> QED BY <1>1, Invariance, PTL DEF Spec, DeletionIsConfirmed

-----------------------------------------------------------------------------
(* Types.                                                                  *)

\* What the table says of one of its steps.
LEMMA TableStep ==
    ASSUME NEW t \in Tools, NEW i \in Indices(t)
    PROVE  /\ StepOf(t, i) \in Step
           /\ StepOf(t, i).op \in {"read", "write", "emit"}
                  => StepOf(t, i).slot \in Slots(t)
           /\ Past(t, i) \in Nat /\ Past(t, i) > i
           /\ Past(t, i) <= Len(Catalog[t].steps) + 1
           /\ StepOf(t, i).fail = "mistake" => t \in SwitchTools
<1>1. Catalog[t].steps \in Seq(Step)
    BY CatalogAssumption
<1>2. StepOf(t, i) \in Step
    BY <1>1 DEF Indices, StepOf
<1>3. StepOf(t, i).skip \in Nat /\ i \in Nat
    BY <1>2 DEF Step, Indices
<1>4. StepOf(t, i).op \in {"read", "write", "emit"} => StepOf(t, i).slot # ""
    BY CatalogAssumption
<1>5. StepOf(t, i).slot # "" => StepOf(t, i).slot \in Slots(t)
    BY DEF Slots, StepOf, Indices
<1>6. Past(t, i) \in Nat /\ Past(t, i) > i
    BY <1>3 DEF Past
<1> QED BY <1>2, <1>4, <1>5, <1>6, CatalogAssumption

\* The step at hand is one of the table's, and a request is about a slot.
LEMMA AtHand ==
    ASSUME TypeOK, NEW op, At(op)
    PROVE  /\ status = "running" /\ pc \in Indices(tool)
           /\ Now = StepOf(tool, pc) /\ Now \in Step /\ Now.op = op
           /\ op \in {"read", "write", "emit"} => Now.slot \in Slots(tool)
           /\ pc + 1 + Now.skip = Past(tool, pc)
<1>1. tool \in Tools /\ pc \in Nat \ {0} /\ Catalog[tool].steps \in Seq(Step)
    BY CatalogAssumption DEF TypeOK
<1>2. pc \in Indices(tool)
    BY <1>1 DEF At, Steps, Indices
<1>3. Now = StepOf(tool, pc) /\ Now.op = op /\ status = "running"
    BY DEF At, Now, Steps, StepOf
<1> QED BY <1>1, <1>2, <1>3, TableStep DEF Past

\* A request whose failure is known ends the call, or leaves a trace of it.
LEMMA AfterFailure ==
    ASSUME TypeOK, NEW op, At(op), NEW policy \in Failure, Fails(policy)
    PROVE  \/ /\ policy = "abort"
              /\ status' = "failed" /\ pc' = pc
              /\ UNCHANGED <<warned, overlooked>>
           \/ /\ policy = "report"
              /\ status' = "warned" /\ pc' = pc
              /\ warned' = TRUE /\ UNCHANGED overlooked
           \/ /\ policy \notin {"abort", "report"}
              /\ status' = "running" /\ pc' = Past(tool, pc)
              /\ \/ warned' = TRUE /\ UNCHANGED overlooked
                 \/ /\ UNCHANGED warned
                    /\ overlooked' = overlooked \cup {"check"}
                 \/ /\ policy = "mistake" /\ warned' = (warned \/ tool \in Telling)
                    /\ overlooked' = overlooked \cup {"write"}
<1>1. status = "running" /\ pc + 1 + Now.skip = Past(tool, pc)
    BY AtHand
<1>2. CASE policy = "abort"
    BY <1>2 DEF Fails, End
<1>3. CASE policy = "report"
    BY <1>3 DEF Fails, End
<1>4. CASE policy = "ignore"
    BY <1>1, <1>4 DEF Fails, Skip
<1>5. CASE policy = "mistake"
    BY <1>1, <1>5 DEF Fails, Skip
<1>6. CASE policy = "warn"
    BY <1>1, <1>6 DEF Fails, Skip
<1> QED BY <1>2, <1>3, <1>4, <1>5, <1>6 DEF Failure

\* The failure of the step at hand.
LEMMA HandFails ==
    ASSUME TypeOK, NEW op, At(op)
    PROVE  /\ Now.fail \in Failure
           /\ (IF Now.fail = "mistake" THEN "abort" ELSE Now.fail) \in Failure
BY AtHand DEF Step, Failure

\* A request that fails is dealt with as the handler says, or aborts the call.
LEMMA RequestFails ==
    ASSUME TypeOK, Unanswered \/ Rejected \/ Lost
    PROVE  \E op \in {"read", "write"} : \E policy \in Failure :
               At(op) /\ Fails(policy) /\ policy \in {Now.fail, "abort"}
<1>1. PICK op \in {"read", "write"} : At(op)
    BY DEF Unanswered, Rejected, Lost
<1>2. Now.fail \in Failure
    BY <1>1, HandFails
<1>3. PICK policy \in {Now.fail, "abort"} : Fails(policy)
    BY DEF Unanswered, Rejected, Lost, Means
<1>4. policy \in Failure
    BY <1>2, <1>3 DEF Failure
<1> QED BY <1>1, <1>3, <1>4

LEMMA EffectType ==
    ASSUME NEW S, NEW ws \in [S -> State], NEW step \in Step, step.slot \in S
    PROVE  Effect(ws, step) \in [S -> State]
<1> DEFINE after == [ws EXCEPT ![step.slot] =
                         IF step.to # "more" THEN step.to
                         ELSE IF @ = "absent" THEN "live" ELSE "twice"]
<1>1. step.to # "more" => step.to \in State
    BY DEF Step
<1>2. after \in [S -> State]
    BY <1>1 DEF State
<1>3. [s \in DOMAIN after |-> IF s = "task" THEN "absent" ELSE after[s]] \in [S -> State]
    BY <1>2 DEF State
<1> QED BY <1>2, <1>3 DEF Effect

\* What a step of the handler leaves of the types, once its position, its
\* status and its marks are known.
LEMMA TypeStep ==
    ASSUME TypeOK, [Next]_vars
    PROVE  TypeOK'
<1> USE DEF request
<1>a. MaxFaults \in Nat /\ MaxCalls \in Nat
    BY BoundAssumption
<1>1. ASSUME NEW d \in BOOLEAN, NEW c \in BOOLEAN, Call(d, c) PROVE TypeOK'
    <2>1. status' \in Ended \cup {"idle", "running"}
        BY <1>1 DEF Call, Gate, Ended
    <2>2. pc' \in Nat \ {0}
        BY <1>1 DEF Call
    <2>3. calls' \in 0..MaxCalls
        BY <1>1, <1>a DEF Call, TypeOK
    <2> QED BY <1>1, <2>1, <2>2, <2>3 DEF Call, TypeOK
<1>2. ASSUME UNCHANGED request,
             status' \in Ended \cup {"idle", "running"}, pc' \in Nat \ {0},
             store' \in [Slots(tool) -> State], written' \subseteq Slots(tool),
             told' \subseteq Slots(tool), warned' \in BOOLEAN, disturbed' \in BOOLEAN,
             overlooked' \subseteq {"check", "write"}, faults' \in 0..MaxFaults
      PROVE  TypeOK'
    BY <1>2 DEF TypeOK
<1>3. /\ pc \in Nat \ {0} /\ store \in [Slots(tool) -> State]
      /\ written \subseteq Slots(tool) /\ told \subseteq Slots(tool)
      /\ warned \in BOOLEAN /\ disturbed \in BOOLEAN
      /\ overlooked \subseteq {"check", "write"} /\ faults \in 0..MaxFaults
      /\ tool \in Tools /\ status \in Ended \cup {"idle", "running"}
    BY DEF TypeOK
<1>4. faults < MaxFaults => faults + 1 \in 0..MaxFaults
    BY <1>3, <1>a
<1>5. ASSUME NEW op, At(op)
      PROVE  pc + 1 \in Nat \ {0} /\ Past(tool, pc) \in Nat \ {0}
    BY <1>5, <1>3, AtHand, TableStep DEF Indices
<1>6. ASSUME NEW op, At(op), NEW policy \in Failure, Fails(policy)
      PROVE  /\ status' \in Ended \cup {"idle", "running"} /\ pc' \in Nat \ {0}
             /\ warned' \in BOOLEAN /\ overlooked' \subseteq {"check", "write"}
    BY <1>3, <1>5, <1>6, AfterFailure DEF Ended
<1>7. CASE Invalid \/ NotValid \/ Return
    <2>1. status' \in Ended /\ pc' = pc /\ faults' \in 0..MaxFaults
        BY <1>3, <1>4, <1>7 DEF Invalid, NotValid, Return, End, Ended
    <2> QED BY <1>2, <1>3, <1>7, <2>1 DEF Invalid, NotValid, Return
<1>8. CASE Answered \/ NotNeeded \/ Valid \/ DryRun
    <2>1. PICK op : At(op)
        BY <1>8 DEF Answered, NotNeeded, Valid, DryRun
    <2>2. status' \in Ended \cup {"running"} /\ pc' \in {pc, pc + 1, Past(tool, pc)}
        BY <1>3, <1>8, <2>1, AtHand DEF Answered, NotNeeded, Valid, DryRun, Skip, End, Ended
    <2> QED BY <1>2, <1>3, <1>5, <1>8, <2>1, <2>2
            DEF Answered, NotNeeded, Valid, DryRun
<1>9. CASE Publish
    <2>1. Now.slot \in Slots(tool) /\ pc' = pc + 1 /\ status' = status
        BY <1>3, <1>9, AtHand DEF Publish, Skip
    <2> QED BY <1>2, <1>3, <1>5, <1>9, <2>1 DEF Publish
<1>10. ASSUME At("write") PROVE Applied \in [Slots(tool) -> State] /\ Now.slot \in Slots(tool)
    BY <1>3, <1>10, AtHand, EffectType DEF Applied
<1>11. CASE Accepted
    <2>1. pc' = pc + 1 /\ status' = status
        BY <1>3, <1>11 DEF Accepted, Skip
    <2> QED BY <1>2, <1>3, <1>5, <1>10, <1>11, <2>1 DEF Accepted
<1>12. CASE Unanswered
    <2>1. PICK op \in {"read", "write"}, policy \in Failure :
              At(op) /\ Fails(policy) /\ policy \in {Now.fail, "abort"}
        BY <1>12, RequestFails
    <2> QED BY <1>2, <1>3, <1>4, <1>6, <1>12, <2>1 DEF Unanswered
<1>13. CASE Rejected
    <2>1. faults' \in 0..MaxFaults
        BY <1>3, <1>4, <1>13 DEF Rejected
    <2>2. disturbed' \in BOOLEAN
        BY <1>3, <1>13, Zenon DEF Rejected, Exists
    <2>3. PICK op \in {"read", "write"}, policy \in Failure : At(op) /\ Fails(policy)
        BY <1>13, RequestFails
    <2> QED BY <1>2, <1>3, <1>6, <1>13, <2>1, <2>2, <2>3 DEF Rejected
<1>14. CASE Lost
    BY <1>2, <1>3, <1>4, <1>6, <1>10, <1>14, HandFails DEF Lost
<1>15. CASE UNCHANGED vars
    BY <1>15 DEF vars, TypeOK
<1> QED BY <1>1, <1>7, <1>8, <1>9, <1>11, <1>12, <1>13, <1>14, <1>15 DEF Next

LEMMA InitTyped ==
    ASSUME Init
    PROVE  TypeOK
<1>1. PICK missing \in SUBSET MayBeMissing(tool), archived \in SUBSET Slots(tool) :
          store = Workspace(tool, missing, archived)
    BY DEF Init, MayBeArchived, MayBeMissing
<1>2. store \in [Slots(tool) -> State]
    BY <1>1 DEF Workspace, State
<1>3. pc \in Nat \ {0} /\ faults \in 0..MaxFaults /\ calls \in 0..MaxCalls
    BY BoundAssumption DEF Init
<1> QED BY <1>2, <1>3 DEF Init, TypeOK

\* Every slot keeps a state, and a call writes and publishes slots its handler
\* names: the empty name of a step that is about nothing never gets out.
THEOREM TypeCorrect == Spec => []TypeOK
<1>1. Init => TypeOK
    BY InitTyped
<1>2. TypeOK /\ [Next]_vars => TypeOK'
    BY TypeStep
<1> QED BY <1>1, <1>2, PTL DEF Spec

-----------------------------------------------------------------------------
(* A refused call.                                                         *)

\* A running call that has passed no write has changed nothing: after a write
\* it has changed what it will, and can no longer be refused.
Untouched ==
    status = "running" /\ (\A j \in 1..(pc - 1) : StepOf(tool, j).op # "write")
        => store = base

LEMMA Longer ==
    ASSUME NEW m \in Nat, NEW n \in Nat, n > m
    PROVE  1..(m - 1) \subseteq 1..(n - 1) /\ (m > 0 => m \in 1..(n - 1))
OBVIOUS

\* A step onward that is no write leaves it so.
LEMMA OnwardUntouched ==
    ASSUME TypeOK, Untouched, NEW op, At(op), UNCHANGED <<tool, store, base>>,
           pc' \in Nat, pc' > pc
    PROVE  Untouched'
<1>1. pc \in Nat
    BY DEF TypeOK
<1>2. 1..(pc - 1) \subseteq 1..(pc' - 1)
    BY <1>1, Longer
<1> QED BY <1>2, AtHand DEF Untouched, StepOf

LEMMA UntouchedStep ==
    ASSUME TypeOK, Untouched, [Next]_vars
    PROVE  Untouched'
<1> USE DEF request
<1>1. ASSUME NEW d \in BOOLEAN, NEW c \in BOOLEAN, Call(d, c) PROVE Untouched'
    BY <1>1 DEF Call, Untouched
<1>2. ASSUME status' # "running" PROVE Untouched'
    BY <1>2 DEF Untouched
<1>3. ASSUME NEW op, At(op) PROVE pc + 1 \in Nat /\ pc + 1 > pc
                                  /\ Past(tool, pc) \in Nat /\ Past(tool, pc) > pc
    BY <1>3, AtHand, TableStep DEF TypeOK
<1>4. CASE Invalid \/ NotValid \/ Return
    BY <1>2, <1>4 DEF Invalid, NotValid, Return, End
<1>5. CASE Answered \/ NotNeeded \/ Valid \/ DryRun \/ Publish
    <2>1. PICK op : At(op)
        BY <1>5 DEF Answered, NotNeeded, Valid, DryRun, Publish
    <2>2. status' # "running" \/ pc' \in {pc + 1, Past(tool, pc)}
        <3>1. pc + 1 + 0 = pc + 1
            BY DEF TypeOK
        <3> QED BY <1>5, <2>1, <3>1, AtHand
                DEF Answered, NotNeeded, Valid, DryRun, Publish, Skip, End
    <2> QED BY <1>2, <1>3, <1>5, <2>1, <2>2, OnwardUntouched
            DEF Answered, NotNeeded, Valid, DryRun, Publish
<1>6. CASE Unanswered \/ Rejected
    <2>1. PICK op \in {"read", "write"}, policy \in Failure : At(op) /\ Fails(policy)
        BY <1>6, RequestFails
    <2>2. status' # "running" \/ pc' = Past(tool, pc)
        BY <2>1, AfterFailure
    <2> QED BY <1>2, <1>3, <1>6, <2>1, <2>2, OnwardUntouched DEF Unanswered, Rejected
<1>7. ASSUME At("write"), pc' \in Nat, pc' > pc, tool' = tool PROVE Untouched'
    <2>1. pc \in Nat /\ pc > 0 /\ StepOf(tool, pc).op = "write"
        BY <1>7, AtHand DEF Indices
    <2>2. pc \in 1..(pc' - 1)
        BY <1>7, <2>1, Longer
    <2> QED BY <1>7, <2>1, <2>2 DEF Untouched, StepOf
<1>8. CASE Accepted
    <2>1. pc' = pc + 1
        BY <1>8 DEF Accepted, Skip, TypeOK
    <2> QED BY <1>3, <1>7, <1>8, <2>1 DEF Accepted
<1>9. CASE Lost
    <2>1. status' # "running" \/ pc' = Past(tool, pc)
        BY <1>9, HandFails, AfterFailure DEF Lost
    <2> QED BY <1>2, <1>3, <1>7, <1>9, <2>1 DEF Lost
<1>10. CASE UNCHANGED vars
    BY <1>10 DEF vars, Untouched, StepOf
<1> QED BY <1>1, <1>4, <1>5, <1>6, <1>8, <1>9, <1>10 DEF Next

\* What refuses the call comes before the first write.
LEMMA RefusedStep ==
    ASSUME TypeOK, Untouched, RefusedChangesNothing, [Next]_vars
    PROVE  RefusedChangesNothing'
<1> USE DEF request
<1>1. ASSUME status' # "refused" PROVE RefusedChangesNothing'
    BY <1>1 DEF RefusedChangesNothing
<1>2. ASSUME status = "running", UNCHANGED <<tool, store, base>>,
             tool \notin Sequential =>
                 \A j \in 1..(pc - 1) : StepOf(tool, j).op # "write"
      PROVE  RefusedChangesNothing'
    BY <1>2 DEF RefusedChangesNothing, Untouched
<1>3. ASSUME NEW op, At(op), MayRefuse(Now), UNCHANGED <<tool, store, base>>
      PROVE  RefusedChangesNothing'
    <2>1. tool \notin Sequential =>
              \A j \in 1..(pc - 1) : StepOf(tool, j).op # "write"
        BY <1>3, AtHand, CheckAssumption DEF TypeOK
    <2> QED BY <1>2, <1>3, <2>1, AtHand
<1>4. ASSUME NEW d \in BOOLEAN, NEW c \in BOOLEAN, Call(d, c) PROVE status' # "refused"
    BY <1>4 DEF Call, Gate
<1>5. CASE Invalid
    <2>1. \A j \in 1..(pc - 1) : StepOf(tool, j).op # "write"
        BY <1>5 DEF Invalid
    <2> QED BY <1>2, <1>5, <2>1 DEF Invalid
<1>6. CASE NotValid
    BY <1>3, <1>6, AtHand DEF NotValid, MayRefuse
<1>7. CASE Answered
    <2>1. store[Now.slot] \in State
        BY <1>7, AtHand DEF Answered, TypeOK
    <2>2. CASE status' = "refused"
        <3>1. status = "running"
            BY <1>7, AtHand DEF Answered
        <3>2. Now.refuse /\ Now.on # State
            BY <1>7, <2>1, <2>2, <3>1 DEF Answered, Skip
        <3> QED BY <1>3, <1>7, <3>2, AtHand DEF Answered, MayRefuse
    <2> QED BY <1>1, <2>2
<1>8. CASE NotNeeded \/ Accepted \/ Valid \/ Publish \/ DryRun \/ Return
    BY <1>1, <1>8 DEF NotNeeded, Accepted, Valid, Publish, DryRun, Return, Skip, End, At
<1>9. CASE Unanswered \/ Rejected \/ Lost
    <2>1. status' # "refused"
        BY <1>9, RequestFails, AfterFailure
    <2> QED BY <1>1, <2>1
<1>10. CASE UNCHANGED vars
    BY <1>10 DEF vars, RefusedChangesNothing
<1> QED BY <1>1, <1>4, <1>5, <1>6, <1>7, <1>8, <1>9, <1>10 DEF Next

\* A call that is refused, at whatever step of its handler, has changed
\* nothing; the handlers that resolve one thing after making another excepted.
THEOREM RefusalsArePure == Spec => []RefusedChangesNothing
<1>1. Init => Untouched /\ RefusedChangesNothing
    BY DEF Init, Untouched, RefusedChangesNothing
<1>2. /\ TypeOK /\ Untouched /\ RefusedChangesNothing
      /\ [Next]_vars
      => Untouched' /\ RefusedChangesNothing'
    BY UntouchedStep, RefusedStep
<1> QED BY <1>1, <1>2, TypeCorrect, PTL DEF Spec

-----------------------------------------------------------------------------
(* Updates.                                                                *)

\* From step i on, the handler gets to the update of slot s.
Due(t, s, i) == \E m \in Indices(t) : m >= i /\ Publishes(t, m, s) /\ Reaches(t, i, m)

\* From step i on, the handler writes to a slot before it gets to its update,
\* or has done so: w is what it has written.
WritesFirst(t, w, i) ==
    \A m \in Indices(t) :
        m >= i /\ StepOf(t, m).op = "emit" /\ StepOf(t, m).slot # "demo" =>
            \/ StepOf(t, m).slot \in w
            \/ \E k \in Indices(t) : k >= i /\ LeadsTo(t, k, m)

\* What a running call has still to publish, and what it is still to publish.
PublishInv ==
    /\ status = "running" /\ tool \notin Silent =>
          \A s \in written \cap Watched : s \in told \/ Due(tool, s, pc)
    /\ status = "running" => WritesFirst(tool, written, pc)

LEMMA DueAfter ==
    ASSUME NEW t \in Tools, NEW s, NEW i \in Indices(t), Due(t, s, i), ~Publishes(t, i, s),
           NEW n \in {i + 1, Past(t, i)}
    PROVE  Due(t, s, n) /\ StepOf(t, i).fail # "report"
<1>1. PICK m \in Indices(t) : m >= i /\ Publishes(t, m, s) /\ Reaches(t, i, m)
    BY DEF Due
<1>2. m > i /\ i \in i..(m - 1)
    BY <1>1 DEF Indices
<1>3. Past(t, i) <= m /\ StepOf(t, i).fail # "report"
    BY <1>1, <1>2 DEF Reaches
<1>4. n \in Nat /\ n > i /\ n <= m
    BY <1>2, <1>3, TableStep DEF Indices
<1>5. Reaches(t, n, m)
    BY <1>1, <1>4 DEF Reaches, Indices
<1> QED BY <1>1, <1>3, <1>4, <1>5 DEF Due

\* A step is passed without a word only if its failure ends the call.
LEMMA WritesFirstAfter ==
    ASSUME NEW t \in Tools, NEW w, NEW v, w \subseteq v, NEW i \in Indices(t),
           WritesFirst(t, w, i), NEW n \in {i + 1, Past(t, i)},
           StepOf(t, i).op = "write" /\ StepOf(t, i).on = State =>
               \/ StepOf(t, i).slot \in v
               \/ n = Past(t, i) /\ StepOf(t, i).fail \notin {"abort", "report"}
    PROVE  WritesFirst(t, v, n)
<1> SUFFICES ASSUME NEW m \in Indices(t), m >= n, StepOf(t, m).op = "emit",
                    StepOf(t, m).slot # "demo", StepOf(t, m).slot \notin v
             PROVE  \E k \in Indices(t) : k >= n /\ LeadsTo(t, k, m)
    BY DEF WritesFirst
<1>1. n > i /\ n \in Nat /\ m >= i /\ m \in Nat /\ i \in Nat
    BY TableStep DEF Indices
<1>2. PICK k \in Indices(t) : k >= i /\ LeadsTo(t, k, m)
    BY <1>1 DEF WritesFirst
<1>3. k # i
    BY <1>1, <1>2, TableStep DEF LeadsTo
<1>4. i \in 1..(k - 1)
    BY <1>2, <1>3 DEF Indices
<1>5. Past(t, i) <= k \/ Past(t, i) > m
    BY <1>2, <1>4 DEF LeadsTo
<1>6. k >= n
    BY <1>1, <1>2, <1>3, <1>5, TableStep DEF Indices
<1> QED BY <1>2, <1>6

\* A step onward keeps what has to be published, whatever it writes and
\* publishes on its way.
LEMMA OnwardPublishes ==
    ASSUME TypeOK, PublishInv, NEW op, At(op), tool' = tool,
           pc' \in {pc + 1, Past(tool, pc)},
           written \subseteq written', told \subseteq told',
           op = "emit" => Now.slot \in told',
           \A s \in written' \ written :
               s \in Watched /\ tool \notin Silent => Due(tool, s, pc'),
           op = "write" /\ Now.on = State =>
               \/ Now.slot \in written'
               \/ pc' = Past(tool, pc) /\ Now.fail \notin {"abort", "report"}
    PROVE  PublishInv'
<1>1. tool \in Tools /\ pc \in Indices(tool) /\ status = "running" /\ Now = StepOf(tool, pc)
      /\ Now.op = op
    BY AtHand DEF TypeOK
<1>2. WritesFirst(tool, written', pc')
    BY <1>1, WritesFirstAfter DEF PublishInv
<1>3. ASSUME tool \notin Silent, NEW s \in written' \cap Watched
      PROVE  s \in told' \/ Due(tool, s, pc')
    <2>1. CASE s \in written /\ s \notin told'
        <3>1. Due(tool, s, pc)
            BY <1>1, <1>3, <2>1 DEF PublishInv
        <3>2. ~Publishes(tool, pc, s)
            BY <1>1, <2>1 DEF Publishes
        <3> QED BY <1>1, <3>1, <3>2, DueAfter
    <2> QED BY <1>3, <2>1
<1>4. /\ WritesFirst(tool, written', pc') = WritesFirst(tool, written, pc)'
      /\ \A s : Due(tool, s, pc') = Due(tool, s, pc)'
    BY DEF WritesFirst, Due, Publishes, Reaches, LeadsTo, StepOf, Past, Indices
<1> QED BY <1>2, <1>3, <1>4 DEF PublishInv

LEMMA PublishStep ==
    ASSUME TypeOK, PublishInv, [Next]_vars
    PROVE  PublishInv'
<1> USE DEF request
<1>1. ASSUME NEW d \in BOOLEAN, NEW c \in BOOLEAN, Call(d, c) PROVE PublishInv'
    <2>1. WritesFirst(tool, {}, 1)
        BY UpdateAssumption DEF WritesFirst, TypeOK, Indices
    <2>2. WritesFirst(tool, {}, 1) = WritesFirst(tool, {}, 1)'
        BY <1>1 DEF Call, WritesFirst, LeadsTo, StepOf, Past, Indices
    <2> QED BY <1>1, <2>1, <2>2 DEF Call, PublishInv
<1>2. ASSUME status' # "running" PROVE PublishInv'
    BY <1>2 DEF PublishInv
<1>3. CASE Invalid \/ NotValid \/ Return
    BY <1>2, <1>3 DEF Invalid, NotValid, Return, End
<1>a. pc + 1 + 0 = pc + 1
    BY DEF TypeOK
<1>4. CASE Answered \/ Valid \/ DryRun \/ Publish
    <2>1. PICK op \in {"read", "vet", "preview", "emit"} :
              At(op) /\ (op = "emit" => Publish)
        BY <1>4, AtHand DEF Answered, Valid, DryRun, Publish
    <2>2. status' # "running" \/ pc' \in {pc + 1, Past(tool, pc)}
        BY <1>4, <1>a, <2>1, AtHand DEF Answered, Valid, DryRun, Publish, Skip, End
    <2>3. tool' = tool /\ written' = written /\ told \subseteq told'
          /\ (op = "emit" => Now.slot \in told')
        BY <1>4, <2>1 DEF Answered, Valid, DryRun, Publish
    <2> QED BY <1>2, <2>1, <2>2, <2>3, OnwardPublishes
<1>5. ASSUME At("write") PROVE store[Now.slot] \in State
    BY <1>5, AtHand DEF TypeOK
<1>6. CASE NotNeeded
    BY <1>5, <1>6, <1>a, OnwardPublishes DEF NotNeeded, Skip
<1>7. CASE Accepted
    <2>1. pc' = pc + 1 /\ At("write") /\ tool' = tool /\ told' = told
          /\ written' = written \cup {Now.slot}
        BY <1>7, <1>a DEF Accepted, Skip
    <2>2. tool \in Tools /\ pc \in Writes(tool) /\ Now = StepOf(tool, pc)
        BY <2>1, AtHand DEF TypeOK, Writes
    <2>3. ASSUME Now.slot \in Watched, tool \notin Silent
          PROVE  Due(tool, Now.slot, pc + 1)
        <3>1. PICK m \in Indices(tool) : /\ m > pc /\ Publishes(tool, m, Now.slot)
                                         /\ Reaches(tool, pc + 1, m)
            BY <2>2, <2>3, UpdateAssumption
        <3>2. m >= pc + 1
            BY <3>1 DEF Indices, TypeOK
        <3> QED BY <3>1, <3>2 DEF Due
    <2> QED BY <2>1, <2>3, OnwardPublishes
<1>8. ASSUME NEW op \in {"read", "write"}, At(op), NEW policy \in Failure, Fails(policy),
             policy \in {Now.fail, "abort"}, UNCHANGED <<tool, written, told>>
      PROVE  PublishInv'
    <2>1. \/ status' # "running"
          \/ pc' = Past(tool, pc) /\ Now.fail \notin {"abort", "report"}
        BY <1>8, AfterFailure
    <2> QED BY <1>2, <1>8, <2>1, OnwardPublishes
<1>9. CASE Unanswered \/ Rejected
    <2>1. PICK op \in {"read", "write"}, policy \in Failure :
              At(op) /\ Fails(policy) /\ policy \in {Now.fail, "abort"}
        BY <1>9, RequestFails
    <2> QED BY <1>8, <1>9, <2>1 DEF Unanswered, Rejected
<1>10. CASE Lost
    <2>1. PICK policy \in Failure : Fails(policy) /\ policy \in {Now.fail, "abort"}
        BY <1>10, HandFails DEF Lost
    <2> QED BY <1>8, <1>10, <2>1 DEF Lost
<1>11. CASE UNCHANGED vars
    BY <1>11 DEF vars, PublishInv, WritesFirst, Due, Publishes, Reaches, LeadsTo,
                 StepOf, Past, Indices
<1> QED BY <1>1, <1>3, <1>4, <1>6, <1>7, <1>9, <1>10, <1>11 DEF Next

\* At the end of a call nothing is due any more.
LEMMA PublishedStep ==
    ASSUME TypeOK, PublishInv, ChangesArePublished, [Next]_vars
    PROVE  ChangesArePublished'
<1> USE DEF request
<1>1. ASSUME status' \notin {"done", "warned"}, written \subseteq written', told' \subseteq told
      PROVE  ChangesArePublished'
    BY <1>1 DEF ChangesArePublished
<1>2. ASSUME NEW d \in BOOLEAN, NEW c \in BOOLEAN, Call(d, c) PROVE ChangesArePublished'
    BY <1>2 DEF Call, Gate, ChangesArePublished
<1>3. CASE Invalid \/ Answered \/ NotNeeded \/ Accepted \/ DryRun \/ Valid \/ NotValid
    BY <1>1, <1>3 DEF Invalid, Answered, NotNeeded, Accepted, DryRun, Valid, NotValid,
                      Skip, End, At
<1>4. CASE Publish
    <2>1. pc \in Indices(tool) /\ Now = StepOf(tool, pc) /\ Now.op = "emit"
          /\ status = "running" /\ status' = "running"
        BY <1>4, AtHand DEF Publish, Skip
    <2>2. \A k \in Indices(tool) : LeadsTo(tool, k, pc) => ~(k >= pc)
        BY <2>1 DEF LeadsTo, Indices
    <2>3. Now.slot \in written \cup {"demo"}
        BY <2>1, <2>2 DEF PublishInv, WritesFirst, Indices
    <2> QED BY <1>4, <2>1, <2>3 DEF Publish, ChangesArePublished
<1>5. CASE Return
    <2>1. \A s : ~Due(tool, s, pc)
        BY <1>5 DEF Return, Due, Indices, Steps, TypeOK
    <2> QED BY <1>5, <2>1 DEF Return, PublishInv, ChangesArePublished
<1>6. ASSUME NEW op \in {"read", "write"}, At(op), NEW policy \in Failure, Fails(policy),
             policy \in {Now.fail, "abort"}, UNCHANGED <<tool, written, told>>
      PROVE  ChangesArePublished'
    <2>1. \/ status' \notin {"done", "warned"}
          \/ status' = "warned" /\ Now.fail = "report"
        BY <1>6, AfterFailure
    <2>2. tool \in Tools /\ pc \in Indices(tool) /\ Now = StepOf(tool, pc)
          /\ Now.op = op /\ status = "running"
        BY <1>6, AtHand DEF TypeOK
    <2>3. \A s : ~Publishes(tool, pc, s)
        BY <1>6, <2>2 DEF Publishes
    <2>4. CASE Now.fail = "report"
        <3>1. \A s : ~Due(tool, s, pc)
            BY <2>2, <2>3, <2>4, DueAfter
        <3> QED BY <1>6, <2>2, <3>1 DEF PublishInv, ChangesArePublished
    <2> QED BY <1>1, <1>6, <2>1, <2>4
<1>7. CASE Unanswered \/ Rejected
    <2>1. PICK op \in {"read", "write"}, policy \in Failure :
              At(op) /\ Fails(policy) /\ policy \in {Now.fail, "abort"}
        BY <1>7, RequestFails
    <2> QED BY <1>6, <1>7, <2>1 DEF Unanswered, Rejected
<1>8. CASE Lost
    <2>1. PICK policy \in Failure : Fails(policy) /\ policy \in {Now.fail, "abort"}
        BY <1>8, HandFails DEF Lost
    <2> QED BY <1>6, <1>8, <2>1 DEF Lost
<1>9. CASE UNCHANGED vars
    BY <1>9 DEF vars, ChangesArePublished
<1> QED BY <1>2, <1>3, <1>4, <1>5, <1>7, <1>8, <1>9 DEF Next

\* Whatever fails on the way, a call that ends with a result has published the
\* changes it knows of that can be subscribed to, and no call publishes a
\* change it has not made (emitResourceUpdate after each write).
THEOREM UpdatesAreSent == Spec => []ChangesArePublished
<1>1. Init => PublishInv /\ ChangesArePublished
    BY DEF Init, PublishInv, ChangesArePublished
<1>2. /\ TypeOK /\ PublishInv /\ ChangesArePublished
      /\ [Next]_vars
      => PublishInv' /\ ChangesArePublished'
    BY PublishStep, PublishedStep
<1> QED BY <1>1, <1>2, TypeCorrect, PTL DEF Spec

-----------------------------------------------------------------------------
(* What a result says.                                                     *)

\* A running call on which nothing has failed has made its claim true, for
\* good, or is still to do so.
ClaimInv ==
    status = "running" /\ overlooked = {} /\ ~warned /\ Catalog[tool].change \in Claims =>
        \E k \in Indices(tool) : MakesTrue(tool, k) /\ (k >= pc \/ ClaimHolds)

\* The entity of a claim is one of the slots.
LEMMA EntityIsSlot ==
    ASSUME NEW t \in Tools, NEW k \in Indices(t), MakesTrue(t, k),
           Catalog[t].change \in Claims
    PROVE  /\ StepOf(t, k).op \in {"read", "write"}
           /\ StepOf(t, k).slot = Catalog[t].of
           /\ Catalog[t].of \in Slots(t)
<1>1. Settles(t, StepOf(t, k))
    BY DEF MakesTrue
<1>2. StepOf(t, k).slot = Catalog[t].of /\ StepOf(t, k).op \in {"read", "write"}
    BY <1>1 DEF Settles, Claims
<1> QED BY <1>2, TableStep

\* Only what unsettles it takes a deletion or an update back.
LEMMA EffectKeeps ==
    ASSUME NEW t, NEW S, NEW ws \in [S -> State], NEW step \in Step, step.slot \in S,
           Catalog[t].of \in S, step.op = "write", ~Unsettles(t, step)
    PROVE  /\ Catalog[t].change = "deleted" /\ ws[Catalog[t].of] = "absent"
                  => Effect(ws, step)[Catalog[t].of] = "absent"
           /\ Catalog[t].change = "updated" /\ ws[Catalog[t].of] # "absent"
                  => Effect(ws, step)[Catalog[t].of] # "absent"
<1> DEFINE s == Catalog[t].of
           after == [ws EXCEPT ![step.slot] =
                         IF step.to # "more" THEN step.to
                         ELSE IF @ = "absent" THEN "live" ELSE "twice"]
           tasks == [x \in DOMAIN after |-> IF x = "task" THEN "absent" ELSE after[x]]
<1>1. DOMAIN after = S /\ DOMAIN tasks = S
    OBVIOUS
<1>2. ASSUME Catalog[t].change = "deleted", ws[s] = "absent" PROVE after[s] = "absent"
    BY <1>2 DEF Unsettles
<1>3. ASSUME Catalog[t].change = "updated", ws[s] # "absent" PROVE after[s] # "absent"
    BY <1>3 DEF Unsettles
<1>4. ASSUME Catalog[t].change = "updated"
      PROVE  ~(step.slot = "project" /\ step.to = "absent")
    BY <1>4 DEF Unsettles
<1>5. Effect(ws, step) = after
      \/ /\ Effect(ws, step) = tasks
         /\ step.slot = "project" /\ step.to = "absent"
    BY DEF Effect
<1>6. tasks[s] = IF s = "task" THEN "absent" ELSE after[s]
    BY <1>1
<1> HIDE DEF after, tasks
<1> QED BY <1>2, <1>3, <1>4, <1>5, <1>6

\* What the write of a claim makes of its entity.
LEMMA EffectMakes ==
    ASSUME NEW S, NEW ws \in [S -> State], NEW step \in Step, step.slot \in S
    PROVE  /\ step.to = "absent" => Effect(ws, step)[step.slot] = "absent"
           /\ step.to # "absent" => Effect(ws, step)[step.slot] # "absent"
BY DEF Effect

\* The step at hand keeps the claim once it holds, and makes it if it is the
\* step to do so.
LEMMA OnwardClaims ==
    ASSUME TypeOK, ClaimInv, NEW op, At(op), tool' = tool,
           overlooked' = overlooked, warned' = warned,
           \/ pc' = pc + 1
           \/ pc' = Past(tool, pc) /\ op = "read" /\ ~Now.refuse,
           \A k \in Indices(tool) :
               MakesTrue(tool, k) /\ Catalog[tool].change \in Claims
               /\ (k = pc \/ (k < pc /\ ClaimHolds)) => ClaimHolds'
    PROVE  ClaimInv'
<1>1. tool \in Tools /\ pc \in Indices(tool) /\ status = "running" /\ Now = StepOf(tool, pc)
      /\ Now.op = op
    BY AtHand DEF TypeOK
<1>2. \A k : (MakesTrue(tool, k) = MakesTrue(tool, k)') /\ Indices(tool)' = Indices(tool)
    BY DEF MakesTrue, Settles, Unsettles, StepOf, Past, Indices
<1>3. SUFFICES ASSUME overlooked = {}, ~warned, Catalog[tool].change \in Claims
               PROVE  \E k \in Indices(tool) : MakesTrue(tool, k) /\ (k >= pc' \/ ClaimHolds')
    BY <1>2 DEF ClaimInv
<1>4. PICK k \in Indices(tool) : MakesTrue(tool, k) /\ (k >= pc \/ ClaimHolds)
    BY <1>1, <1>3 DEF ClaimInv
<1>5. CASE k > pc
    <2>1. pc \in 1..(k - 1)
        BY <1>1, <1>5 DEF Indices
    <2>2. k >= pc'
        BY <1>1, <1>4, <1>5, <2>1 DEF MakesTrue, Indices
    <2> QED BY <1>4, <2>2
<1>6. CASE k <= pc
    <2>1. k = pc \/ (k < pc /\ ClaimHolds)
        BY <1>1, <1>4, <1>6 DEF Indices
    <2>2. ClaimHolds'
        BY <1>3, <1>4, <2>1
    <2> QED BY <1>4, <2>2
<1> QED BY <1>1, <1>5, <1>6 DEF Indices

LEMMA ClaimStep ==
    ASSUME TypeOK, ClaimInv, [Next]_vars
    PROVE  ClaimInv'
<1> USE DEF request
<1>1. ASSUME NEW d \in BOOLEAN, NEW c \in BOOLEAN, Call(d, c) PROVE ClaimInv'
    <2>1. Catalog[tool].change \in Claims =>
              \E k \in Indices(tool) : MakesTrue(tool, k) /\ k >= 1
        BY ClaimAssumption DEF TypeOK, Indices
    <2>2. \A k : (MakesTrue(tool, k) = MakesTrue(tool, k)') /\ Indices(tool)' = Indices(tool)
        BY <1>1 DEF Call, MakesTrue, Settles, Unsettles, StepOf, Past, Indices
    <2> QED BY <1>1, <2>1, <2>2 DEF Call, ClaimInv
<1>2. ASSUME status' # "running" PROVE ClaimInv'
    BY <1>2 DEF ClaimInv
<1>3. CASE Invalid \/ NotValid \/ Return
    BY <1>2, <1>3 DEF Invalid, NotValid, Return, End
<1>a. pc + 1 + 0 = pc + 1
    BY DEF TypeOK
<1>4. ASSUME UNCHANGED <<tool, store, written>> PROVE ClaimHolds' = ClaimHolds
    BY <1>4 DEF ClaimHolds
<1>5. CASE Valid \/ DryRun \/ Publish
    <2>1. PICK op \in {"vet", "preview", "emit"} : At(op)
        BY <1>5 DEF Valid, DryRun, Publish
    <2>2. ~(MakesTrue(tool, pc) /\ Catalog[tool].change \in Claims)
        BY <2>1, AtHand, EntityIsSlot DEF TypeOK
    <2>3. status' # "running" \/ pc' = pc + 1
        BY <1>5, <1>a DEF Valid, DryRun, Publish, Skip, End
    <2> QED BY <1>2, <1>4, <1>5, <2>1, <2>2, <2>3, OnwardClaims DEF Valid, DryRun, Publish
<1>6. CASE Answered
    <2>1. pc \in Indices(tool) /\ Now = StepOf(tool, pc) /\ Now.op = "read" /\ tool \in Tools
        BY <1>6, AtHand DEF Answered, TypeOK
    <2>2. CASE store[Now.slot] \in Now.on
        <3>1. ASSUME MakesTrue(tool, pc), Catalog[tool].change \in Claims
              PROVE  ClaimHolds
            <4>1. Settles(tool, Now)
                BY <2>1, <3>1 DEF MakesTrue
            <4>2. Catalog[tool].change = "updated" /\ Now.on \subseteq Present
                  /\ Now.slot = Catalog[tool].of
                BY <2>1, <3>1, <4>1 DEF Settles, Claims
            <4> QED BY <2>2, <4>2 DEF ClaimHolds, Present
        <3>2. pc' = pc + 1
            BY <1>6, <1>a, <2>2 DEF Answered, Skip
        <3> QED BY <1>4, <1>6, <3>1, <3>2, OnwardClaims DEF Answered
    <2>3. CASE store[Now.slot] \notin Now.on /\ ~Now.refuse
        <3>1. ~(MakesTrue(tool, pc) /\ Catalog[tool].change \in Claims)
            BY <2>1, <2>3 DEF MakesTrue, Settles, Claims
        <3>2. pc' = Past(tool, pc)
            BY <1>6, <2>3, AtHand DEF Answered, Skip
        <3> QED BY <1>4, <1>6, <2>3, <3>1, <3>2, OnwardClaims DEF Answered
    <2>4. CASE store[Now.slot] \notin Now.on /\ Now.refuse
        BY <1>2, <1>6, <2>4 DEF Answered, End
    <2> QED BY <2>2, <2>3, <2>4
<1>7. CASE NotNeeded
    <2>1. pc \in Indices(tool) /\ Now = StepOf(tool, pc) /\ Now.op = "write"
          /\ tool \in Tools /\ store[Now.slot] \in State
        BY <1>7, AtHand DEF NotNeeded, TypeOK
    <2>2. ASSUME MakesTrue(tool, pc), Catalog[tool].change \in Claims PROVE ClaimHolds
        <3>1. Settles(tool, Now)
            BY <2>1, <2>2 DEF MakesTrue
        <3>2. Catalog[tool].change = "deleted" /\ Present \subseteq Now.on
              /\ Now.slot = Catalog[tool].of
            BY <1>7, <2>1, <2>2, <3>1 DEF NotNeeded, Settles, Claims
        <3> QED BY <1>7, <2>1, <3>2 DEF NotNeeded, ClaimHolds, Present
    <2>3. pc' = pc + 1
        BY <1>7, <1>a DEF NotNeeded, Skip
    <2> QED BY <1>4, <1>7, <2>2, <2>3, OnwardClaims DEF NotNeeded
<1>8. CASE Accepted
    <2>1. /\ pc \in Indices(tool) /\ Now = StepOf(tool, pc) /\ Now.op = "write"
          /\ tool \in Tools /\ store \in [Slots(tool) -> State]
          /\ Now \in Step /\ Now.slot \in Slots(tool)
        BY <1>8, AtHand DEF Accepted, TypeOK
    <2>2. store' = Effect(store, Now) /\ written' = written \cup {Now.slot}
          /\ tool' = tool /\ pc' = pc + 1
        BY <1>8, <1>a DEF Accepted, Applied, Skip
    <2>3. ASSUME NEW k \in Indices(tool), MakesTrue(tool, k), Catalog[tool].change \in Claims,
                 k < pc, ClaimHolds
          PROVE  ClaimHolds'
        <3>1. ~Unsettles(tool, Now) /\ Catalog[tool].of \in Slots(tool)
            BY <2>1, <2>3, EntityIsSlot DEF MakesTrue
        <3> QED BY <2>1, <2>2, <2>3, <3>1, EffectKeeps DEF ClaimHolds, Claims
    <2>4. ASSUME MakesTrue(tool, pc), Catalog[tool].change \in Claims
          PROVE  ClaimHolds'
        <3>1. Settles(tool, Now)
            BY <2>1, <2>4 DEF MakesTrue
        <3>2. /\ Now.slot = Catalog[tool].of
              /\ Catalog[tool].change = "deleted" => Now.to = "absent"
              /\ Catalog[tool].change = "updated" => Now.to # "absent"
            BY <2>1, <2>4, <3>1 DEF Settles, Claims
        <3> QED BY <2>1, <2>2, <3>2, EffectMakes DEF ClaimHolds
    <2> QED BY <1>8, <2>2, <2>3, <2>4, OnwardClaims DEF Accepted
<1>9. ASSUME NEW op \in {"read", "write"}, At(op), NEW policy \in Failure, Fails(policy)
      PROVE  ClaimInv'
    <2>1. status' # "running" \/ warned' = TRUE \/ overlooked' # {}
        BY <1>9, AfterFailure
    <2> QED BY <2>1 DEF ClaimInv
<1>10. CASE Unanswered \/ Rejected \/ Lost
    BY <1>9, <1>10, RequestFails
<1>11. CASE UNCHANGED vars
    BY <1>11 DEF vars, ClaimInv, ClaimHolds, MakesTrue, Settles, Unsettles, StepOf, Past,
                 Indices
<1> QED BY <1>1, <1>3, <1>5, <1>6, <1>7, <1>8, <1>10, <1>11 DEF Next

LEMMA TrueStep ==
    ASSUME TypeOK, ClaimInv, ClaimsAreTrue, [Next]_vars
    PROVE  ClaimsAreTrue'
<1> USE DEF request
<1>1. ASSUME status' # "done" PROVE ClaimsAreTrue'
    BY <1>1 DEF ClaimsAreTrue
<1>2. ASSUME NEW d \in BOOLEAN, NEW c \in BOOLEAN, Call(d, c) PROVE status' # "done"
    BY <1>2 DEF Call, Gate
<1>3. CASE Invalid \/ Answered \/ NotNeeded \/ Accepted \/ DryRun \/ Valid \/ NotValid
           \/ Publish
    BY <1>1, <1>3 DEF Invalid, Answered, NotNeeded, Accepted, DryRun, Valid, NotValid,
                      Publish, Skip, End, At
<1>4. CASE Unanswered \/ Rejected \/ Lost
    <2>1. status' # "done"
        BY <1>4, RequestFails, AfterFailure
    <2> QED BY <1>1, <2>1
<1>5. CASE Return
    <2>1. \A k \in Indices(tool) : ~(k >= pc)
        BY <1>5 DEF Return, Indices, Steps, TypeOK
    <2>2. status' = "done" => ~warned
        BY <1>5 DEF Return, End
    <2>3. status' = "done" /\ overlooked = {} => ClaimHolds
        BY <1>5, <2>1, <2>2 DEF Return, ClaimInv, ClaimHolds, Claims
    <2>4. UNCHANGED <<tool, store, written, overlooked>>
        BY <1>5 DEF Return
    <2> QED BY <2>3, <2>4 DEF ClaimsAreTrue, ClaimHolds
<1>6. CASE UNCHANGED vars
    BY <1>6 DEF vars, ClaimsAreTrue, ClaimHolds
<1> QED BY <1>1, <1>2, <1>3, <1>4, <1>5, <1>6 DEF Next

\* What the result of a call without failures says of its entity, that it is
\* deleted, made or there to be updated, is so upstream.
THEOREM ResultsAreTrue == Spec => []ClaimsAreTrue
<1>1. Init => ClaimInv /\ ClaimsAreTrue
    BY DEF Init, ClaimInv, ClaimsAreTrue
<1>2. TypeOK /\ ClaimInv /\ ClaimsAreTrue /\ [Next]_vars => ClaimInv' /\ ClaimsAreTrue'
    BY ClaimStep, TrueStep
<1> QED BY <1>1, <1>2, TypeCorrect, PTL DEF Spec

-----------------------------------------------------------------------------
(* Induction, in the form the provers take: over a set, from the library's *)
(* well-foundedness of < on the naturals.                                  *)

LEMMA LessIsWellFounded ==
    IsWellFoundedOn({ss \in Nat \X Nat : ss[1] < ss[2]}, Nat)
BY NatLessThanWellFounded DEF OpToRel

LEMMA SetInduction ==
    ASSUME NEW S, 0 \in S, \A n \in Nat : n \in S => n + 1 \in S
    PROVE  Nat \subseteq S
<1> DEFINE R == {ss \in Nat \X Nat : ss[1] < ss[2]}
           T == Nat \ S
<1>1. SUFFICES ASSUME T # {} PROVE FALSE
    BY Zenon
<1>2. IsWellFoundedOn(R, Nat) /\ T \subseteq Nat
    BY LessIsWellFounded
<1> HIDE DEF R, T
<1>3. PICK x \in T : \A y \in T : ~(<<y, x>> \in R)
    BY <1>1, <1>2, WFMin
<1>4. x \in Nat /\ x \notin S /\ x # 0
    BY <1>3 DEF T
<1>5. x - 1 \in Nat /\ x - 1 + 1 = x /\ x - 1 < x
    BY <1>4
<1>6. x - 1 \in T
    BY <1>4, <1>5 DEF T
<1>7. <<x - 1, x>> \in R
    BY <1>4, <1>5 DEF R
<1> QED BY <1>3, <1>6, <1>7

-----------------------------------------------------------------------------
(* The reference: a handler on which nothing fails.                        *)

Progress(ws, n) == [store |-> ws, over |-> FALSE, skip |-> n]

\* g follows the handler of t for n steps.
Follows(g, t, from, n) ==
    /\ g[0] = Progress(from, 0)
    /\ \A i \in 1..n : g[i] = Performed(g[i - 1], StepOf(t, i))

LEMMA FollowersAgree ==
    ASSUME NEW t, NEW from, NEW g, NEW h, NEW m \in Nat, NEW n \in Nat,
           Follows(g, t, from, m), Follows(h, t, from, n), m <= n
    PROVE  g[m] = h[m]
<1> DEFINE S == {i \in Nat : i <= m => g[i] = h[i]}
<1>1. 0 \in S
    BY DEF Follows
<1>2. ASSUME NEW i \in Nat, i \in S PROVE i + 1 \in S
    <2>1. SUFFICES ASSUME i + 1 <= m PROVE g[i + 1] = h[i + 1]
        OBVIOUS
    <2>2. i + 1 \in 1..m /\ i + 1 \in 1..n /\ i + 1 - 1 = i
        BY <2>1
    <2>3. g[i] = h[i]
        BY <1>2, <2>1
    <2> QED BY <2>2, <2>3 DEF Follows
<1> HIDE DEF S
<1>3. m \in S
    BY <1>1, <1>2, SetInduction
<1> QED BY <1>3 DEF S

LEMMA FollowersExist ==
    ASSUME NEW t, NEW from, NEW n \in Nat
    PROVE  \E g : Follows(g, t, from, n)
<1> DEFINE S == {k \in Nat : \E g : Follows(g, t, from, k)}
<1>1. 0 \in S
    <2>1. Follows([i \in Nat |-> Progress(from, 0)], t, from, 0)
        BY DEF Follows
    <2> QED BY <2>1
<1>2. ASSUME NEW k \in Nat, k \in S PROVE k + 1 \in S
    <2>1. PICK g : Follows(g, t, from, k)
        BY <1>2
    <2> DEFINE h == [i \in Nat |-> IF i = k + 1 THEN Performed(g[k], StepOf(t, k + 1))
                                   ELSE g[i]]
    <2>2. h[0] = Progress(from, 0)
        BY <2>1 DEF Follows
    <2>3. ASSUME NEW i \in 1..(k + 1) PROVE h[i] = Performed(h[i - 1], StepOf(t, i))
        <3>1. i \in Nat /\ i - 1 \in Nat /\ h[i - 1] = g[i - 1]
            OBVIOUS
        <3>2. CASE i = k + 1
            BY <3>1, <3>2
        <3>3. CASE i # k + 1
            <4>1. i \in 1..k /\ h[i] = g[i]
                BY <3>1, <3>3
            <4> QED BY <2>1, <3>1, <4>1 DEF Follows
        <3> QED BY <3>2, <3>3
    <2> HIDE DEF h
    <2>4. Follows(h, t, from, k + 1)
        BY <2>2, <2>3 DEF Follows
    <2> QED BY <2>4
<1> HIDE DEF S
<1>3. n \in S
    BY <1>1, <1>2, SetInduction
<1> QED BY <1>3 DEF S

\* The recursive function is the one its equation describes.
LEMMA UndisturbedSteps ==
    ASSUME NEW t, NEW from
    PROVE  /\ Undisturbed(t, from)[0] = Progress(from, 0)
           /\ \A i \in Nat : Undisturbed(t, from)[i + 1] =
                                 Performed(Undisturbed(t, from)[i], StepOf(t, i + 1))
<1> DEFINE G(n) == CHOOSE g : Follows(g, t, from, n)
           f == [n \in Nat |-> G(n)[n]]
           Rhs(h) == [i \in Nat |-> IF i = 0 THEN Progress(from, 0)
                                    ELSE Performed(h[i - 1], StepOf(t, i))]
<1>1. \A n \in Nat : Follows(G(n), t, from, n)
    BY FollowersExist
<1>2. f[0] = Progress(from, 0)
    BY <1>1 DEF Follows
<1>3. ASSUME NEW i \in Nat, i # 0 PROVE f[i] = Performed(f[i - 1], StepOf(t, i))
    <2>1. i - 1 \in Nat /\ i \in 1..i /\ i - 1 <= i
        BY <1>3
    <2>2. G(i)[i] = Performed(G(i)[i - 1], StepOf(t, i))
        BY <1>1, <2>1 DEF Follows
    <2>3. G(i - 1)[i - 1] = G(i)[i - 1]
        BY <1>1, <2>1, FollowersAgree
    <2> QED BY <2>1, <2>2, <2>3
<1> HIDE DEF G
<1>a. f = [n \in Nat |-> f[n]]
    <2>1. \A n \in Nat : f[n] = G(n)[n]
        OBVIOUS
    <2> QED BY <2>1, Zenon
<1> HIDE DEF f
<1>b. \A i \in Nat : f[i] = IF i = 0 THEN Progress(from, 0)
                            ELSE Performed(f[i - 1], StepOf(t, i))
    BY <1>2, <1>3
<1>4. f = Rhs(f)
    BY <1>a, <1>b
<1>5. Undisturbed(t, from) = CHOOSE h : h = Rhs(h)
    BY DEF Undisturbed, Progress
<1>6. Undisturbed(t, from) = Rhs(Undisturbed(t, from))
    BY <1>4, <1>5
<1>7. ASSUME NEW i \in Nat
      PROVE  i + 1 \in Nat /\ i + 1 # 0 /\ i + 1 - 1 = i
    OBVIOUS
<1>8. Undisturbed(t, from)[0] = Progress(from, 0)
    BY <1>6
<1>9. ASSUME NEW i \in Nat
      PROVE  Undisturbed(t, from)[i + 1] = Performed(Undisturbed(t, from)[i], StepOf(t, i + 1))
    BY <1>6, <1>7
<1> QED BY <1>8, <1>9

\* One step of the reference that is not passed over.
LEMMA PerformedStep ==
    ASSUME NEW ws, NEW step \in Step
    PROVE  LET r == Progress(ws, 0)
               inState == ws[step.slot] \in step.on
           IN /\ step.op \notin {"read", "write"} => Performed(r, step) = r
              /\ step.op = "read" /\ inState => Performed(r, step) = r
              /\ step.op = "write" /\ ~inState => Performed(r, step) = r
              /\ (step.op = "read" /\ ~inState /\ ~step.refuse)
                     => Performed(r, step) = Progress(ws, step.skip)
              /\ (step.op = "write" /\ inState
                  /\ (step.to = "more" \/ ws[step.slot] # "absent"))
                     => Performed(r, step) = Progress(Effect(ws, step), 0)
<1> DEFINE r == Progress(ws, 0)
<1>1. /\ r.store = ws /\ r.over = FALSE /\ r.skip = 0
    BY DEF Progress
<1>2. ~(r.skip > 0) /\ ~r.over
    BY <1>1
<1> QED BY <1>1, <1>2 DEF Performed, Progress, Step

LEMMA ProgressFields ==
    ASSUME NEW ws, NEW n
    PROVE  Progress(ws, n).over = FALSE /\ Progress(ws, n).skip = n
BY DEF Progress

LEMMA ProgressExcept ==
    ASSUME NEW ws, NEW m, NEW n
    PROVE  [Progress(ws, m) EXCEPT !.skip = n] = Progress(ws, n)
<1>1. PICK no : no = FALSE
    OBVIOUS
<1>2. Progress(ws, m) = [store |-> ws, over |-> no, skip |-> m]
    BY <1>1, Zenon DEF Progress
<1>3. Progress(ws, n) = [store |-> ws, over |-> no, skip |-> n]
    BY <1>1, Zenon DEF Progress
<1>4. [[store |-> ws, over |-> no, skip |-> m] EXCEPT !.skip = n]
          = [store |-> ws, over |-> no, skip |-> n]
    OBVIOUS
<1> QED BY <1>2, <1>3, <1>4

\* The steps passed over change nothing.
LEMMA PassedOver ==
    ASSUME NEW t, NEW from, NEW ws, NEW n \in Nat, NEW i \in Nat,
           Undisturbed(t, from)[i] = Progress(ws, n)
    PROVE  Undisturbed(t, from)[i + n] = Progress(ws, 0)
<1> DEFINE A == Undisturbed(t, from)
           S == {k \in Nat : \A j \in Nat : A[j] = Progress(ws, k) =>
                                            A[j + k] = Progress(ws, 0)}
<1> HIDE DEF A
<1>1. 0 \in S
    OBVIOUS
<1>2. ASSUME NEW k \in Nat, k \in S PROVE k + 1 \in S
    <2>1. SUFFICES ASSUME NEW j \in Nat, A[j] = Progress(ws, k + 1)
                   PROVE  A[j + (k + 1)] = Progress(ws, 0)
        OBVIOUS
    <2>2. A[j + 1] = Performed(A[j], StepOf(t, j + 1))
        BY UndisturbedSteps DEF A
    <2>3. k + 1 > 0 /\ k + 1 - 1 = k
        OBVIOUS
    <2>4. A[j + 1] = Progress(ws, k)
        <3> DEFINE r == Progress(ws, k + 1)
        <3>1. r.over = FALSE /\ r.skip = k + 1
            BY ProgressFields
        <3>2. [Progress(ws, k + 1) EXCEPT !.skip = k] = Progress(ws, k)
            BY ProgressExcept
        <3>3. r = Progress(ws, k + 1)
            OBVIOUS
        <3> HIDE DEF r
        <3>4. Performed(r, StepOf(t, j + 1)) = [r EXCEPT !.skip = r.skip - 1]
            BY <2>3, <3>1 DEF Performed
        <3>5. Performed(r, StepOf(t, j + 1)) = [r EXCEPT !.skip = k]
            BY <2>3, <3>1, <3>4
        <3> QED BY <2>1, <2>2, <3>2, <3>3, <3>5
    <2>5. A[j + 1 + k] = Progress(ws, 0)
        BY <1>2, <2>4
    <2>6. j + 1 + k = j + (k + 1)
        OBVIOUS
    <2> QED BY <2>5, <2>6
<1> HIDE DEF S
<1>3. n \in S
    BY <1>1, <1>2, SetInduction
<1> QED BY <1>3 DEF S, A

-----------------------------------------------------------------------------
(* A success.                                                              *)

\* A running call on which nothing has failed is where the reference is; what
\* is taken for nothing to do is so in a switch alone.
SteadyInv ==
    /\ status = "running" /\ overlooked = {} /\ ~warned =>
          /\ pc <= Len(Catalog[tool].steps) + 1
          /\ Undisturbed(tool, base)[pc - 1] = Progress(store, 0)
    /\ "write" \in overlooked => tool \in SwitchTools

LEMMA TableLength ==
    ASSUME NEW t \in Tools
    PROVE  Len(Catalog[t].steps) \in Nat
<1>1. Catalog[t].steps \in Seq(Step)
    BY CatalogAssumption
<1> QED BY <1>1

LEMMA OnwardSteady ==
    ASSUME TypeOK, SteadyInv, NEW op, At(op), UNCHANGED <<tool, base, overlooked, warned>>,
           NEW n \in Nat, pc' = pc + 1 + n, n \in {0, Now.skip},
           Performed(Progress(store, 0), Now) = Progress(store', n)
    PROVE  SteadyInv'
<1>1. /\ tool \in Tools /\ pc \in Indices(tool) /\ Now = StepOf(tool, pc) /\ status = "running"
      /\ pc \in Nat /\ pc > 0
    BY AtHand DEF TypeOK, Indices
<1>2. pc' <= Len(Catalog[tool].steps) + 1
    <2>1. Len(Catalog[tool].steps) \in Nat /\ pc <= Len(Catalog[tool].steps)
        BY <1>1, TableLength DEF Indices
    <2>2. Past(tool, pc) <= Len(Catalog[tool].steps) + 1 /\ Past(tool, pc) = pc + 1 + Now.skip
        BY <1>1, TableStep DEF Past
    <2> QED BY <1>1, <2>1, <2>2
<1>3. SUFFICES ASSUME overlooked = {}, ~warned
               PROVE  Undisturbed(tool, base)[pc' - 1] = Progress(store', 0)
    BY <1>2 DEF SteadyInv
<1>4. pc - 1 \in Nat /\ pc - 1 + 1 = pc /\ pc' - 1 = pc + n
    BY <1>1
<1>5. Undisturbed(tool, base)[pc] = Performed(Undisturbed(tool, base)[pc - 1], Now)
    BY <1>1, <1>4, UndisturbedSteps
<1>6. Undisturbed(tool, base)[pc] = Progress(store', n)
    BY <1>1, <1>3, <1>5 DEF SteadyInv
<1> QED BY <1>1, <1>4, <1>6, PassedOver

LEMMA SteadyStep ==
    ASSUME TypeOK, SteadyInv, [Next]_vars
    PROVE  SteadyInv'
<1> USE DEF request
<1>1. ASSUME NEW d \in BOOLEAN, NEW c \in BOOLEAN, Call(d, c) PROVE SteadyInv'
    <2>1. 1 <= Len(Catalog[tool].steps) + 1 /\ 1 - 1 = 0
        BY TableLength DEF TypeOK
    <2>2. Undisturbed(tool, store)[0] = Progress(store, 0)
        BY UndisturbedSteps
    <2>3. tool' = tool /\ base' = store /\ store' = store /\ pc' = 1 /\ overlooked' = overlooked
        BY <1>1 DEF Call
    <2> QED BY <2>1, <2>2, <2>3 DEF SteadyInv
<1>2. ASSUME status' # "running", UNCHANGED <<tool, overlooked>> PROVE SteadyInv'
    BY <1>2 DEF SteadyInv
<1>3. CASE Invalid \/ NotValid \/ Return
    BY <1>2, <1>3 DEF Invalid, NotValid, Return, End
<1>4. CASE Valid \/ DryRun \/ Publish
    <2>1. PICK op \in {"vet", "preview", "emit"} : At(op)
        BY <1>4 DEF Valid, DryRun, Publish
    <2>2. Performed(Progress(store, 0), Now) = Progress(store, 0)
        BY <2>1, AtHand, PerformedStep
    <2>3. status' # "running" \/ pc' = pc + 1 + 0
        BY <1>4 DEF Valid, DryRun, Publish, Skip, End
    <2>4. UNCHANGED <<tool, base, store, overlooked, warned>>
        BY <1>4 DEF Valid, DryRun, Publish
    <2> QED BY <1>2, <2>1, <2>2, <2>3, <2>4, OnwardSteady
<1>5. CASE Answered
    <2>1. Now \in Step /\ Now.op = "read" /\ Now.skip \in Nat
        BY <1>5, AtHand DEF Answered, Step
    <2>2. UNCHANGED <<tool, base, store, overlooked, warned>>
        BY <1>5 DEF Answered
    <2>3. CASE store[Now.slot] \in Now.on
        <3>1. Performed(Progress(store, 0), Now) = Progress(store, 0)
            BY <2>1, <2>3, PerformedStep
        <3>2. pc' = pc + 1 + 0
            BY <1>5, <2>3 DEF Answered, Skip
        <3> QED BY <1>5, <2>2, <3>1, <3>2, OnwardSteady DEF Answered
    <2>4. CASE store[Now.slot] \notin Now.on /\ ~Now.refuse
        <3>1. Performed(Progress(store, 0), Now) = Progress(store, Now.skip)
            BY <2>1, <2>4, PerformedStep
        <3>2. pc' = pc + 1 + Now.skip
            BY <1>5, <2>4 DEF Answered, Skip
        <3> QED BY <1>5, <2>1, <2>2, <3>1, <3>2, OnwardSteady DEF Answered
    <2>5. CASE store[Now.slot] \notin Now.on /\ Now.refuse
        BY <1>2, <1>5, <2>2, <2>5 DEF Answered, End
    <2> QED BY <2>3, <2>4, <2>5
<1>6. CASE NotNeeded
    <2>1. Performed(Progress(store, 0), Now) = Progress(store, 0)
        BY <1>6, AtHand, PerformedStep DEF NotNeeded
    <2>2. pc' = pc + 1 + 0 /\ UNCHANGED <<tool, base, store, overlooked, warned>>
        BY <1>6 DEF NotNeeded, Skip
    <2> QED BY <1>6, <2>1, <2>2, OnwardSteady DEF NotNeeded
<1>7. CASE Accepted
    <2>1. Performed(Progress(store, 0), Now) = Progress(store', 0)
        BY <1>7, AtHand, PerformedStep DEF Accepted, Applied, Exists
    <2>2. pc' = pc + 1 + 0 /\ UNCHANGED <<tool, base, overlooked, warned>>
        BY <1>7 DEF Accepted, Skip
    <2> QED BY <1>7, <2>1, <2>2, OnwardSteady DEF Accepted
<1>8. ASSUME NEW op \in {"read", "write"}, At(op), NEW policy \in Failure, Fails(policy),
             policy \in {Now.fail, "abort"}, tool' = tool
      PROVE  SteadyInv'
    <2>1. Now = StepOf(tool, pc) /\ tool \in Tools /\ pc \in Indices(tool)
        BY <1>8, AtHand DEF TypeOK
    <2>2. policy = "mistake" => tool \in SwitchTools
        BY <1>8, <2>1, TableStep
    <2>3. \/ status' # "running" \/ warned' = TRUE \/ overlooked' # {}
        BY <1>8, AfterFailure
    <2>4. "write" \in overlooked' => tool \in SwitchTools
        BY <1>8, <2>2, AfterFailure DEF SteadyInv
    <2> QED BY <1>8, <2>3, <2>4 DEF SteadyInv
<1>9. CASE Unanswered \/ Rejected
    <2>1. PICK op \in {"read", "write"}, policy \in Failure :
              At(op) /\ Fails(policy) /\ policy \in {Now.fail, "abort"}
        BY <1>9, RequestFails
    <2> QED BY <1>8, <1>9, <2>1 DEF Unanswered, Rejected
<1>10. CASE Lost
    <2>1. PICK policy \in Failure : Fails(policy) /\ policy \in {Now.fail, "abort"}
        BY <1>10, HandFails DEF Lost
    <2> QED BY <1>8, <1>10, <2>1 DEF Lost
<1>11. CASE UNCHANGED vars
    BY <1>11 DEF vars, SteadyInv
<1> QED BY <1>1, <1>3, <1>4, <1>5, <1>6, <1>7, <1>9, <1>10, <1>11 DEF Next

LEMMA CompleteStep ==
    ASSUME TypeOK, SteadyInv, SuccessIsComplete, [Next]_vars
    PROVE  SuccessIsComplete'
<1> USE DEF request
<1>1. ASSUME status' # "done" PROVE SuccessIsComplete'
    BY <1>1 DEF SuccessIsComplete
<1>2. ASSUME NEW d \in BOOLEAN, NEW c \in BOOLEAN, Call(d, c) PROVE status' # "done"
    BY <1>2 DEF Call, Gate
<1>3. CASE Invalid \/ Answered \/ NotNeeded \/ Accepted \/ DryRun \/ Valid \/ NotValid
           \/ Publish
    BY <1>1, <1>3 DEF Invalid, Answered, NotNeeded, Accepted, DryRun, Valid, NotValid,
                      Publish, Skip, End, At
<1>4. CASE Unanswered \/ Rejected \/ Lost
    <2>1. status' # "done"
        BY <1>4, RequestFails, AfterFailure
    <2> QED BY <1>1, <2>1
<1>5. CASE Return
    <2>1. UNCHANGED <<tool, base, store, overlooked>> /\ (status' = "done" => ~warned)
        BY <1>5 DEF Return, End
    <2>2. SUFFICES ASSUME ~Excused, ~warned
                   PROVE  store = Outcome(tool, base)
        BY <2>1 DEF SuccessIsComplete, Excused, Outcome
    <2>3. overlooked = {}
        BY <2>2 DEF SteadyInv, Excused, TypeOK
    <2>4. pc - 1 = Len(Catalog[tool].steps)
        <3>1. Len(Catalog[tool].steps) \in Nat /\ pc \in Nat
            BY TableLength DEF TypeOK
        <3> QED BY <1>5, <2>2, <2>3, <3>1 DEF Return, Steps, SteadyInv
    <2>5. Undisturbed(tool, base)[Len(Catalog[tool].steps)] = Progress(store, 0)
        BY <1>5, <2>2, <2>3, <2>4 DEF Return, SteadyInv
    <2> QED BY <2>5 DEF Outcome, Progress
<1>6. CASE UNCHANGED vars
    BY <1>6 DEF vars, SuccessIsComplete, Excused, Outcome
<1> QED BY <1>1, <1>2, <1>3, <1>4, <1>5, <1>6 DEF Next

\* A result without error or warning means that the workspace is what the
\* handler makes of it when no request fails; the excuses are a check that
\* failed and the stop of a timer switch.
THEOREM SuccessesAreComplete == Spec => []SuccessIsComplete
<1>1. Init => SteadyInv /\ SuccessIsComplete
    BY DEF Init, SteadyInv, SuccessIsComplete
<1>2. /\ TypeOK /\ SteadyInv /\ SuccessIsComplete
      /\ [Next]_vars
      => SteadyInv' /\ SuccessIsComplete'
    BY SteadyStep, CompleteStep
<1> QED BY <1>1, <1>2, TypeCorrect, PTL DEF Spec

-----------------------------------------------------------------------------
(* Repetition.                                                             *)

LEMMA OverStays ==
    ASSUME NEW t, NEW from, NEW n \in Nat, NEW i \in Nat, Undisturbed(t, from)[i].over
    PROVE  Undisturbed(t, from)[i + n] = Undisturbed(t, from)[i]
<1> DEFINE A == Undisturbed(t, from)
           S == {k \in Nat : A[i + k] = A[i]}
<1> HIDE DEF A
<1>1. 0 \in S
    OBVIOUS
<1>2. ASSUME NEW k \in Nat, k \in S PROVE k + 1 \in S
    <2>1. A[i + k + 1] = Performed(A[i + k], StepOf(t, i + k + 1))
        BY UndisturbedSteps DEF A
    <2>2. A[i + k + 1] = A[i + k]
        BY <1>2, <2>1 DEF Performed, A
    <2>3. i + k + 1 = i + (k + 1)
        OBVIOUS
    <2> QED BY <1>2, <2>2, <2>3
<1> HIDE DEF S
<1>3. n \in S
    BY <1>1, <1>2, SetInduction
<1> QED BY <1>3 DEF S, A

\* A refusal, and the rejection of a request about a thing that is not there.
LEMMA PerformedFailure ==
    ASSUME NEW ws, NEW step \in Step,
           \/ step.op = "read" /\ ws[step.slot] \notin step.on
           \/ /\ step.op = "write" /\ ws[step.slot] \in step.on
              /\ step.to # "more" /\ ws[step.slot] = "absent",
           NEW ends, ends = IF step.op = "read" THEN step.refuse
                                                ELSE step.fail \in {"abort", "report"}
    PROVE  Performed(Progress(ws, 0), step) =
               [store |-> ws, over |-> ends, skip |-> step.skip]
<1> DEFINE p == Progress(ws, 0)
<1>1. /\ p.store = ws /\ p.over = FALSE /\ p.skip = 0
    BY DEF Progress
<1>2. ~(p.skip > 0) /\ ~p.over
    BY <1>1
<1> HIDE DEF p
<1>3. CASE step.op = "read"
    <2>1. Performed(p, step) = [store |-> ws, over |-> step.refuse, skip |-> step.skip]
        BY <1>1, <1>2, <1>3 DEF Performed
    <2>2. ends = step.refuse
        BY <1>3
    <2> QED BY <2>1, <2>2, Zenon DEF p
<1>4. CASE step.op = "write"
    <2>1. Performed(p, step) =
              [store |-> ws, over |-> step.fail \in {"abort", "report"}, skip |-> step.skip]
        BY <1>1, <1>2, <1>4 DEF Performed
    <2>2. ends = (step.fail \in {"abort", "report"})
        BY <1>4
    <2> QED BY <2>1, <2>2, Zenon DEF p
<1> QED BY <1>3, <1>4

LEMMA Over ==
    ASSUME NEW ws, NEW n, NEW r, r = [store |-> ws, over |-> TRUE, skip |-> n]
    PROVE  r.store = ws /\ r.over
OBVIOUS

\* A call that nothing has disturbed is where the reference is, and ends there.
Untroubled == overlooked = {} /\ ~disturbed
Concluded == {"done", "warned", "refused", "failed"}
QuietInv ==
    Untroubled =>
        /\ status = "running" =>
              /\ pc <= Len(Catalog[tool].steps) + 1
              /\ Undisturbed(tool, base)[pc - 1] = Progress(store, 0)
        /\ status \in Concluded => store = Outcome(tool, base)

LEMMA OnwardQuiet ==
    ASSUME TypeOK, QuietInv, NEW op, At(op), status' = "running",
           UNCHANGED <<tool, base, overlooked, disturbed>>,
           NEW n \in Nat, pc' = pc + 1 + n, n \in {0, Now.skip},
           Performed(Progress(store, 0), Now) = Progress(store', n)
    PROVE  QuietInv'
<1>1. /\ tool \in Tools /\ pc \in Indices(tool) /\ Now = StepOf(tool, pc) /\ status = "running"
      /\ pc \in Nat /\ pc > 0
    BY AtHand DEF TypeOK, Indices
<1>2. pc' <= Len(Catalog[tool].steps) + 1
    <2>1. Len(Catalog[tool].steps) \in Nat /\ pc <= Len(Catalog[tool].steps)
        BY <1>1, TableLength DEF Indices
    <2>2. Past(tool, pc) <= Len(Catalog[tool].steps) + 1 /\ Past(tool, pc) = pc + 1 + Now.skip
        BY <1>1, TableStep DEF Past
    <2> QED BY <1>1, <2>1, <2>2
<1>3. SUFFICES ASSUME Untroubled
               PROVE  Undisturbed(tool, base)[pc' - 1] = Progress(store', 0)
    BY <1>2 DEF QuietInv, Untroubled, Concluded
<1>4. pc - 1 \in Nat /\ pc - 1 + 1 = pc /\ pc' - 1 = pc + n
    BY <1>1
<1>5. Undisturbed(tool, base)[pc] = Performed(Undisturbed(tool, base)[pc - 1], Now)
    BY <1>1, <1>4, UndisturbedSteps
<1>6. Undisturbed(tool, base)[pc] = Progress(store', n)
    BY <1>1, <1>3, <1>5 DEF QuietInv
<1> QED BY <1>1, <1>4, <1>6, PassedOver

LEMMA EndQuiet ==
    ASSUME TypeOK, QuietInv, NEW op, At(op), status' # "running",
           UNCHANGED <<tool, base, store, overlooked, disturbed>>,
           Performed(Progress(store, 0), Now).over,
           Performed(Progress(store, 0), Now).store = store
    PROVE  QuietInv'
<1>1. /\ tool \in Tools /\ pc \in Indices(tool) /\ Now = StepOf(tool, pc) /\ status = "running"
      /\ pc \in Nat /\ pc > 0
    BY AtHand DEF TypeOK, Indices
<1>2. SUFFICES ASSUME Untroubled PROVE store = Outcome(tool, base)
    BY DEF QuietInv, Untroubled, Outcome
<1>3. pc - 1 \in Nat /\ pc - 1 + 1 = pc
    BY <1>1
<1>a. Undisturbed(tool, base)[pc] = Performed(Undisturbed(tool, base)[pc - 1], Now)
    BY <1>1, <1>3, UndisturbedSteps
<1>b. Undisturbed(tool, base)[pc - 1] = Progress(store, 0)
    BY <1>1, <1>2 DEF QuietInv
<1>4. Undisturbed(tool, base)[pc] = Performed(Progress(store, 0), Now)
    BY <1>a, <1>b
<1>c. Undisturbed(tool, base)[pc].over /\ Undisturbed(tool, base)[pc].store = store
    BY <1>4, Zenon
<1> DEFINE n == Len(Catalog[tool].steps) - pc
<1>5. n \in Nat /\ pc + n = Len(Catalog[tool].steps)
    BY <1>1, TableLength DEF Indices
<1> HIDE DEF n
<1>6. Undisturbed(tool, base)[pc + n] = Undisturbed(tool, base)[pc]
    BY <1>1, <1>c, <1>5, OverStays
<1> QED BY <1>c, <1>5, <1>6 DEF Outcome

LEMMA QuietStep ==
    ASSUME TypeOK, QuietInv, [Next]_vars
    PROVE  QuietInv'
<1> USE DEF request
<1>1. ASSUME NEW d \in BOOLEAN, NEW c \in BOOLEAN, Call(d, c) PROVE QuietInv'
    <2>1. 1 <= Len(Catalog[tool].steps) + 1 /\ 1 - 1 = 0
        BY TableLength DEF TypeOK
    <2>2. Undisturbed(tool, store)[0] = Progress(store, 0)
        BY UndisturbedSteps
    <2>3. tool' = tool /\ base' = store /\ store' = store /\ pc' = 1
        BY <1>1 DEF Call
    <2>4. status' \notin Concluded
        BY <1>1 DEF Call, Gate, Concluded
    <2> QED BY <2>1, <2>2, <2>3, <2>4 DEF QuietInv
<1>2. ASSUME disturbed' = TRUE \/ overlooked' # {} PROVE QuietInv'
    BY <1>2 DEF QuietInv, Untroubled
<1>3. CASE Invalid \/ NotValid \/ Unanswered \/ Lost
    BY <1>2, <1>3 DEF Invalid, NotValid, Unanswered, Lost
<1>4. CASE Return
    <2>1. UNCHANGED <<tool, base, store, overlooked, disturbed>> /\ status' # "running"
        BY <1>4 DEF Return, End
    <2>2. SUFFICES ASSUME Untroubled PROVE store = Outcome(tool, base)
        BY <2>1 DEF QuietInv, Untroubled, Outcome
    <2>3. Len(Catalog[tool].steps) \in Nat /\ pc \in Nat
        BY TableLength DEF TypeOK
    <2>4. pc - 1 = Len(Catalog[tool].steps)
        BY <1>4, <2>2, <2>3 DEF Return, Steps, QuietInv
    <2>5. Undisturbed(tool, base)[Len(Catalog[tool].steps)] = Progress(store, 0)
        BY <1>4, <2>2, <2>4 DEF Return, QuietInv
    <2> QED BY <2>5 DEF Outcome, Progress
<1>5. CASE Valid \/ DryRun \/ Publish
    <2>1. PICK op \in {"vet", "preview", "emit"} : At(op)
        BY <1>5 DEF Valid, DryRun, Publish
    <2>2. Performed(Progress(store, 0), Now) = Progress(store, 0)
        BY <2>1, AtHand, PerformedStep
    <2>3. \/ status' = "preview"
          \/ status' = "running" /\ pc' = pc + 1 + 0
        BY <1>5, <2>1, AtHand DEF Valid, DryRun, Publish, Skip, End
    <2>4. UNCHANGED <<tool, base, store, overlooked, disturbed>>
        BY <1>5 DEF Valid, DryRun, Publish
    <2>5. CASE status' = "preview"
        BY <2>5 DEF QuietInv, Concluded
    <2>6. CASE status' = "running" /\ pc' = pc + 1 + 0
        BY <2>1, <2>2, <2>4, <2>6, OnwardQuiet
    <2> QED BY <2>3, <2>5, <2>6
<1>6. CASE Answered
    <2>1. Now \in Step /\ Now.op = "read" /\ Now.skip \in Nat /\ status = "running"
        BY <1>6, AtHand DEF Answered, Step
    <2>2. UNCHANGED <<tool, base, store, overlooked, disturbed>> /\ At("read")
        BY <1>6 DEF Answered
    <2>3. CASE store[Now.slot] \in Now.on
        <3>1. Performed(Progress(store, 0), Now) = Progress(store, 0)
            BY <2>1, <2>3, PerformedStep
        <3>2. pc' = pc + 1 + 0 /\ status' = "running"
            BY <1>6, <2>1, <2>3 DEF Answered, Skip
        <3> QED BY <2>2, <3>1, <3>2, OnwardQuiet
    <2>4. CASE store[Now.slot] \notin Now.on /\ ~Now.refuse
        <3>1. Performed(Progress(store, 0), Now) = Progress(store, Now.skip)
            BY <2>1, <2>4, PerformedStep
        <3>2. pc' = pc + 1 + Now.skip /\ status' = "running"
            BY <1>6, <2>1, <2>4 DEF Answered, Skip
        <3> QED BY <2>1, <2>2, <3>1, <3>2, OnwardQuiet
    <2>5. CASE store[Now.slot] \notin Now.on /\ Now.refuse
        <3>1. status' # "running"
            BY <1>6, <2>5 DEF Answered, End
        <3>2. Performed(Progress(store, 0), Now) =
                  [store |-> store, over |-> Now.refuse, skip |-> Now.skip]
            BY <2>1, <2>5, PerformedFailure
        <3>3. Now.refuse = TRUE
            BY <2>1, <2>5 DEF Step
        <3>a. Performed(Progress(store, 0), Now) =
                  [store |-> store, over |-> TRUE, skip |-> Now.skip]
            BY <3>2, <3>3, Zenon
        <3>4. Performed(Progress(store, 0), Now).store = store
              /\ Performed(Progress(store, 0), Now).over
            BY <3>a, Over
        <3> QED BY <2>2, <3>1, <3>4, EndQuiet
    <2> QED BY <2>3, <2>4, <2>5
<1>7. CASE NotNeeded
    <2>1. Performed(Progress(store, 0), Now) = Progress(store, 0)
        BY <1>7, AtHand, PerformedStep DEF NotNeeded
    <2>2. /\ pc' = pc + 1 + 0 /\ status' = "running" /\ At("write")
          /\ UNCHANGED <<tool, base, store, overlooked, disturbed>>
        BY <1>7 DEF NotNeeded, Skip, At
    <2> QED BY <2>1, <2>2, OnwardQuiet
<1>8. CASE Accepted
    <2>1. Performed(Progress(store, 0), Now) = Progress(store', 0)
        BY <1>8, AtHand, PerformedStep DEF Accepted, Applied, Exists
    <2>2. /\ pc' = pc + 1 + 0 /\ status' = "running" /\ At("write")
          /\ UNCHANGED <<tool, base, overlooked, disturbed>>
        BY <1>8 DEF Accepted, Skip, At
    <2> QED BY <2>1, <2>2, OnwardQuiet
<1>9. CASE Rejected
    <2>1. /\ At("write") /\ Now \in Step /\ Now.op = "write" /\ Now.skip \in Nat
          /\ store[Now.slot] \in Now.on /\ Now.fail \in Failure
          /\ Exists \/ Fails(Now.fail)
          /\ UNCHANGED <<tool, base, store>> /\ pc + 1 + Now.skip = Past(tool, pc)
        BY <1>9, AtHand DEF Rejected, Step
    <2>2. CASE Exists
        BY <1>2, <1>9, <2>2 DEF Rejected
    <2>3. CASE ~Exists
        <3>1. disturbed' = disturbed /\ Now.to # "more" /\ store[Now.slot] = "absent"
            <4>1. disturbed' = (disturbed \/ FALSE)
                BY <1>9, <2>3 DEF Rejected
            <4>2. disturbed \in BOOLEAN
                BY DEF TypeOK
            <4>3. disturbed' = disturbed
                BY <4>1, <4>2
            <4> QED BY <2>3, <4>3 DEF Exists
        <3>a. Fails(Now.fail)
            BY <2>1, <2>3
        <3> DEFINE ends == Now.fail \in {"abort", "report"}
        <3>2. Performed(Progress(store, 0), Now) =
                  [store |-> store, over |-> ends, skip |-> Now.skip]
            BY <2>1, <3>1, PerformedFailure
        <3> HIDE DEF ends
        <3>3. CASE ends
            <4>1. status' # "running" /\ UNCHANGED overlooked
                BY <2>1, <3>a, <3>3, AfterFailure DEF ends
            <4>2. ends = TRUE
                BY <3>3 DEF ends
            <4>a. Performed(Progress(store, 0), Now) =
                      [store |-> store, over |-> TRUE, skip |-> Now.skip]
                BY <3>2, <4>2, Zenon
            <4>3. Performed(Progress(store, 0), Now).store = store
                  /\ Performed(Progress(store, 0), Now).over
                BY <4>a, Over
            <4> QED BY <2>1, <3>1, <4>1, <4>3, EndQuiet
        <3>4. CASE ~ends
            <4>1. ends = FALSE
                BY <3>4 DEF ends
            <4>2. Performed(Progress(store, 0), Now) = Progress(store, Now.skip)
                BY <3>2, <4>1, Zenon DEF Progress
            <4>3. status' = "running" /\ pc' = pc + 1 + Now.skip
                  /\ (overlooked' # {} \/ UNCHANGED overlooked)
                BY <2>1, <3>a, <3>4, AfterFailure DEF ends
            <4> QED BY <1>2, <2>1, <3>1, <4>2, <4>3, OnwardQuiet
        <3> QED BY <3>3, <3>4
    <2> QED BY <2>2, <2>3
<1>10. CASE UNCHANGED vars
    BY <1>10 DEF vars, QuietInv, Untroubled, Outcome
<1> QED BY <1>1, <1>3, <1>4, <1>5, <1>6, <1>7, <1>8, <1>9, <1>10 DEF Next

\* A running call has its guards behind it.
GuardInv ==
    status = "running" /\ overlooked = {} =>
        \A j \in Indices(tool) :
            j < pc /\ Guards(tool, j, pc) => store[StepOf(tool, j).slot] \in StepOf(tool, j).on

LEMMA KeepsIsSound ==
    ASSUME NEW S, NEW ws \in [S -> State], NEW step, step.slot \in S, NEW s \in S,
           NEW states, Keeps(step, s, states), ws[step.slot] \in step.on, ws[s] \in states
    PROVE  Effect(ws, step)[s] \in states
<1> DEFINE w == [x \in {s, step.slot} |-> ws[x]]
<1>1. w \in [{s, step.slot} -> State] /\ w[s] = ws[s] /\ w[step.slot] = ws[step.slot]
    OBVIOUS
<1> HIDE DEF w
<1>2. DOMAIN w = {s, step.slot} /\ DOMAIN ws = S
    BY <1>1
<1>3. Effect(w, step)[s] \in states
    BY <1>1 DEF Keeps
<1> DEFINE after(v) == [v EXCEPT ![step.slot] =
                            IF step.to # "more" THEN step.to
                            ELSE IF @ = "absent" THEN "live" ELSE "twice"]
<1>4. after(w)[s] = after(ws)[s] /\ s \in DOMAIN after(w) /\ s \in DOMAIN after(ws)
    BY <1>1, <1>2
<1> HIDE DEF after
<1>5. Effect(w, step)[s] = Effect(ws, step)[s]
    BY <1>4 DEF Effect, after
<1> QED BY <1>3, <1>5

LEMMA OnwardGuards ==
    ASSUME TypeOK, GuardInv, NEW op, At(op), tool' = tool, pc' \in {pc + 1, Past(tool, pc)},
           UNCHANGED overlooked,
           \/ UNCHANGED store
           \/ op = "write" /\ store[Now.slot] \in Now.on /\ store' = Effect(store, Now),
           op = "read" => \/ store[Now.slot] \in Now.on
                          \/ pc' = Past(tool, pc) /\ (~Now.refuse \/ Now.fail = "warn")
    PROVE  GuardInv'
<1>1. /\ tool \in Tools /\ pc \in Indices(tool) /\ status = "running" /\ Now.op = op
      /\ Now = StepOf(tool, pc) /\ store \in [Slots(tool) -> State] /\ pc \in Nat
    BY AtHand DEF TypeOK, Indices
<1>2. Past(tool, pc) \in Nat /\ Past(tool, pc) > pc
    BY <1>1, TableStep
<1>3. SUFFICES ASSUME overlooked = {}, NEW j \in Indices(tool), j < pc', Guards(tool, j, pc')
               PROVE  store'[StepOf(tool, j).slot] \in StepOf(tool, j).on
    BY DEF GuardInv, Guards, Keeps, Indices, StepOf, Past
<1>4. j \in Nat /\ j >= 1 /\ Past(tool, j) \in Nat /\ StepOf(tool, j).op = "read"
      /\ StepOf(tool, j).slot \in Slots(tool)
    BY <1>1, <1>3, TableStep DEF Indices, Guards
<1>5. CASE j < pc
    <2>1. Past(tool, j) > pc' => Past(tool, j) > pc
        BY <1>1, <1>2, <1>4
    <2>2. ASSUME NEW k \in 1..(j - 1) PROVE Past(tool, k) <= j \/ Past(tool, k) > pc
        <3>1. k \in Indices(tool)
            BY <1>1, <1>5, <1>4 DEF Indices
        <3>2. Past(tool, k) \in Nat
            BY <1>1, <3>1, TableStep
        <3> QED BY <1>1, <1>2, <1>3, <3>2 DEF Guards
    <2>3. (j + 1)..(pc - 1) \subseteq (j + 1)..(pc' - 1)
        BY <1>1, <1>2, <1>4
    <2>4. Guards(tool, j, pc)
        BY <1>3, <2>1, <2>2, <2>3 DEF Guards
    <2>5. store[StepOf(tool, j).slot] \in StepOf(tool, j).on
        BY <1>1, <1>3, <1>5, <2>4 DEF GuardInv
    <2>6. CASE op = "write" /\ store[Now.slot] \in Now.on /\ store' = Effect(store, Now)
        <3>1. pc \in (j + 1)..(pc' - 1)
            <4>1. pc' \in Nat /\ pc' > pc
                BY <1>1, <1>2
            <4>2. pc \in Nat /\ j \in Nat /\ j < pc
                BY <1>1, <1>4, <1>5
            <4>3. \A a, b, c \in Nat : a < b /\ b < c => b \in (a + 1)..(c - 1)
                OBVIOUS
            <4> QED BY <4>1, <4>2, <4>3
        <3>2. Keeps(Now, StepOf(tool, j).slot, StepOf(tool, j).on)
            BY <1>1, <1>3, <2>6, <3>1 DEF Guards
        <3>3. Now.slot \in Slots(tool)
            BY <2>6, AtHand
        <3> QED BY <1>1, <1>4, <2>5, <2>6, <3>2, <3>3, KeepsIsSound
    <2> QED BY <2>5, <2>6
<1>6. CASE j = pc
    <2>1. op = "read"
        BY <1>1, <1>4, <1>6
    <2>2. ~(pc' = Past(tool, pc) /\ (~Now.refuse \/ Now.fail = "warn"))
        BY <1>1, <1>2, <1>3, <1>6 DEF Guards
    <2> QED BY <1>1, <1>6, <2>1, <2>2
<1>7. CASE j > pc
    <2>1. pc \in 1..(j - 1)
        BY <1>1, <1>4, <1>7 DEF Indices
    <2>2. Past(tool, pc) <= j \/ Past(tool, pc) > pc'
        BY <1>3, <2>1 DEF Guards
    <2> QED BY <1>1, <1>2, <1>3, <1>4, <1>7, <2>2
<1> QED BY <1>1, <1>4, <1>5, <1>6, <1>7

LEMMA GuardStep ==
    ASSUME TypeOK, GuardInv, [Next]_vars
    PROVE  GuardInv'
<1> USE DEF request
<1>1. ASSUME NEW d \in BOOLEAN, NEW c \in BOOLEAN, Call(d, c) PROVE GuardInv'
    BY <1>1 DEF Call, GuardInv, Indices
<1>2. ASSUME status' # "running" \/ overlooked' # {} PROVE GuardInv'
    BY <1>2 DEF GuardInv
<1>3. CASE Invalid \/ NotValid \/ Return
    BY <1>2, <1>3 DEF Invalid, NotValid, Return, End
<1>4. pc + 1 + 0 = pc + 1
    BY DEF TypeOK
<1>5. CASE Valid \/ DryRun \/ Publish \/ NotNeeded \/ Accepted
    <2>1. PICK op \in {"vet", "preview", "emit", "write"} :
              At(op) /\ (Valid \/ DryRun \/ Publish => op # "write")
        BY <1>5 DEF Valid, DryRun, Publish, NotNeeded, Accepted
    <2>2. status' # "running" \/ pc' = pc + 1
        BY <1>4, <1>5 DEF Valid, DryRun, Publish, NotNeeded, Accepted, Skip, End
    <2>3. UNCHANGED <<tool, overlooked>>
        BY <1>5 DEF Valid, DryRun, Publish, NotNeeded, Accepted
    <2>4. \/ UNCHANGED store
          \/ At("write") /\ store[Now.slot] \in Now.on /\ store' = Effect(store, Now)
        BY <1>5 DEF Valid, DryRun, Publish, NotNeeded, Accepted, Applied
    <2>5. op # "read" /\ (At("write") => op = "write")
        BY <2>1 DEF At
    <2> QED BY <1>2, <2>1, <2>2, <2>3, <2>4, <2>5, OnwardGuards
<1>6. CASE Answered
    <2>1. At("read") /\ UNCHANGED <<tool, overlooked, store>>
          /\ pc + 1 + Now.skip = Past(tool, pc)
        BY <1>6, AtHand DEF Answered
    <2>2. \/ status' # "running"
          \/ store[Now.slot] \in Now.on /\ pc' = pc + 1
          \/ ~Now.refuse /\ pc' = Past(tool, pc)
        BY <1>4, <1>6, <2>1 DEF Answered, Skip, End
    <2> QED BY <1>2, <2>1, <2>2, OnwardGuards
<1>7. ASSUME NEW op \in {"read", "write"}, At(op), NEW policy \in Failure, Fails(policy),
             policy \in {Now.fail, "abort"}, UNCHANGED <<tool, base>>,
             \/ UNCHANGED store
             \/ op = "write" /\ store[Now.slot] \in Now.on /\ store' = Effect(store, Now)
      PROVE  GuardInv'
    <2>1. \/ status' # "running" \/ overlooked' # {}
          \/ policy = "warn" /\ pc' = Past(tool, pc) /\ UNCHANGED overlooked
        BY <1>7, AfterFailure DEF Fails, Failure
    <2> QED BY <1>2, <1>7, <2>1, OnwardGuards
<1>8. CASE Unanswered \/ Rejected
    <2>1. PICK op \in {"read", "write"}, policy \in Failure :
              At(op) /\ Fails(policy) /\ policy \in {Now.fail, "abort"}
        BY <1>8, RequestFails
    <2> QED BY <1>7, <1>8, <2>1 DEF Unanswered, Rejected
<1>9. CASE Lost
    <2>1. PICK policy \in Failure : Fails(policy) /\ policy \in {Now.fail, "abort"}
        BY <1>9, HandFails DEF Lost
    <2> QED BY <1>7, <1>9, <2>1 DEF Lost, Applied
<1>10. CASE UNCHANGED vars
    BY <1>10 DEF vars, GuardInv, Guards, Keeps, Indices, StepOf, Past
<1> QED BY <1>1, <1>3, <1>5, <1>6, <1>8, <1>9, <1>10 DEF Next

\* Whatever a call of a repeatable tool has done so far, an undisturbed call
\* makes of the workspace what it would have made of the first one.
SameInv ==
    overlooked = {} /\ Repeatable(tool) =>
        /\ Outcome(tool, store) = Outcome(tool, begin)
        /\ Outcome(tool, base) = Outcome(tool, begin)

LEMMA SameStep ==
    ASSUME TypeOK, GuardInv, SameInv, [Next]_vars
    PROVE  SameInv'
<1> USE DEF request
<1>1. ASSUME UNCHANGED tool PROVE /\ Repeatable(tool)' = Repeatable(tool)
                                  /\ \A ws : Outcome(tool, ws)' = Outcome(tool, ws)
    BY <1>1 DEF Repeatable, Outcome
<1>2. ASSUME UNCHANGED <<tool, begin>>, overlooked' = {} => overlooked = {},
             \/ UNCHANGED store
             \/ overlooked = {} /\ Repeatable(tool) => Outcome(tool, store') = Outcome(tool, store),
             UNCHANGED base \/ base' = store
      PROVE  SameInv'
    BY <1>2 DEF SameInv, Repeatable
<1>3. CASE \E d, c \in BOOLEAN : Call(d, c)
    BY <1>2, <1>3 DEF Call
<1>4. CASE Invalid \/ Answered \/ NotNeeded \/ DryRun \/ Valid \/ NotValid \/ Publish \/ Return
    BY <1>2, <1>4 DEF Invalid, Answered, NotNeeded, DryRun, Valid, NotValid, Publish, Return
<1>5. ASSUME NEW op, At(op), NEW policy \in Failure, Fails(policy)
      PROVE  overlooked' = {} => overlooked = {}
    BY <1>5, AfterFailure
<1>6. CASE Unanswered \/ Rejected
    <2>1. overlooked' = {} => overlooked = {}
        BY <1>5, <1>6, RequestFails
    <2> QED BY <1>2, <1>6, <2>1 DEF Unanswered, Rejected
<1>7. CASE Accepted \/ Lost
    <2>1. /\ At("write") /\ store[Now.slot] \in Now.on /\ Exists /\ store' = Effect(store, Now)
          /\ UNCHANGED <<tool, begin, base>>
        BY <1>7 DEF Accepted, Lost, Applied
    <2>2. overlooked' = {} => overlooked = {}
        BY <1>5, <1>7, HandFails DEF Accepted, Lost
    <2>3. ASSUME overlooked = {}, Repeatable(tool)
          PROVE  Outcome(tool, store') = Outcome(tool, store)
        <3>1. /\ tool \in Tools /\ pc \in Indices(tool) /\ status = "running"
              /\ Now = StepOf(tool, pc) /\ store \in [Slots(tool) -> State] /\ Now.op = "write"
            BY <2>1, AtHand DEF TypeOK
        <3>2. ASSUME NEW j \in 1..(pc - 1), Guards(tool, j, pc)
              PROVE  store[StepOf(tool, j).slot] \in StepOf(tool, j).on
            <4>1. j \in Indices(tool) /\ j < pc
                BY <3>1 DEF Indices
            <4> QED BY <2>3, <3>1, <3>2, <4>1 DEF GuardInv
        <3>3. store \in AtWrite(tool, pc)
            BY <2>1, <3>1, <3>2 DEF AtWrite, Exists
        <3>4. pc \in Writes(tool)
            BY <3>1 DEF Writes
        <3> QED BY <2>1, <2>3, <3>1, <3>3, <3>4, RepeatAssumption
    <2> QED BY <1>2, <2>1, <2>2, <2>3
<1>8. CASE UNCHANGED vars
    BY <1>2, <1>8 DEF vars
<1> QED BY <1>3, <1>4, <1>6, <1>7, <1>8 DEF Next

\* However often a call of a repeatable tool is made, and wherever requests of
\* the earlier ones were refused or their answers lost, one that meets no
\* failure leaves the workspace a single undisturbed call would have left.
THEOREM RetriesConverge == Spec => []RetryConverges
<1>1. Init => QuietInv /\ GuardInv /\ SameInv
    BY DEF Init, QuietInv, GuardInv, SameInv, Concluded
<1>2. TypeOK /\ QuietInv /\ GuardInv /\ SameInv /\ [Next]_vars
      => QuietInv' /\ GuardInv' /\ SameInv'
    BY QuietStep, GuardStep, SameStep
<1>3. QuietInv /\ SameInv => RetryConverges
    BY DEF QuietInv, SameInv, RetryConverges, Untroubled, Concluded
<1> QED BY <1>1, <1>2, <1>3, TypeCorrect, PTL DEF Spec
================================================================================
