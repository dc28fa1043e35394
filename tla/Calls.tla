--------------------------------- MODULE Calls ---------------------------------
(***************************************************************************)
(* What one tools/call does to the workspace: the gates of callTool        *)
(* (mcp/tools.go), then the handler of the tool, one step at a time, over  *)
(* an upstream that may refuse a request or lose its answer.  The client   *)
(* may make the same call again, whatever became of the first.             *)
(*                                                                         *)
(* Catalog gives each tool its descriptor and its handler (module Steps).  *)
(***************************************************************************)
EXTENDS Steps, FiniteSets

CONSTANTS Catalog,    \* [tool name -> descriptor]
          MaxCalls,   \* calls of the tool the client makes
          MaxFaults,  \* requests refused or lost
          Watched,    \* slots whose resources can be subscribed to
          Silent      \* tools that publish no update

\* IsHighRisk, and the schema callTool checks the arguments against:
\* applyConfirmationSchema adds dry_run to a high-risk tool without one.
IsHighRisk(t) == Catalog[t].risk \in {"destructive", "special"}
CentralDryRunPreview(t) == IsHighRisk(t) /\ ~Catalog[t].dryRun
AcceptsDryRun(t) == IsHighRisk(t) \/ Catalog[t].dryRun

Tools == DOMAIN Catalog
Indices(t) == 1..Len(Catalog[t].steps)
StepOf(t, i) == Catalog[t].steps[i]
Writes(t) == {i \in Indices(t) : StepOf(t, i).op = "write"}
\* The step that follows step i when those that depend on it are passed over.
Past(t, i) == i + 1 + StepOf(t, i).skip

\* A dry run reaches its preview before any write, and nothing jumps over it.
PreviewComesFirst(t) ==
    \E i \in Indices(t) :
        /\ StepOf(t, i).op = "preview"
        /\ \A j \in 1..(i - 1) : StepOf(t, j).op # "write" /\ StepOf(t, j).skip = 0

\* UsersInvite passes no dry_run on to InviteUser.
DryRunIgnored == {"clockify_users_invite", "clockify_users_invite of several"}

\* The switches of a timer, and the other tools that resolve or create one
\* thing after the other.
SwitchTools == {"clockify_switch_work", "clockify_entries_timer_switch"}
\* The one that says in a warning that no timer was running.
Telling == {"clockify_switch_work"}
Sequential == {"clockify_create_work_package", "clockify_demo_seed",
               "clockify_entries_timer_switch"}

ASSUME CatalogAssumption ==
    \A t \in Tools :
        /\ Catalog[t].steps \in Seq(Step)
        /\ \A i \in Indices(t) :
              /\ StepOf(t, i).op \in {"read", "write", "emit"} => StepOf(t, i).slot # ""
              /\ Past(t, i) <= Len(Catalog[t].steps) + 1
              /\ StepOf(t, i).fail = "mistake" => t \in SwitchTools
        /\ Catalog[t].reads => Writes(t) = {}
        /\ AcceptsDryRun(t) /\ ~CentralDryRunPreview(t) /\ t \notin DryRunIgnored
               => PreviewComesFirst(t)

ASSUME BoundAssumption == MaxCalls \in Nat \ {0} /\ MaxFaults \in Nat

\* Whatever sends a DELETE has a high risk class and can be previewed.  The
\* cleanup of the demo objects is the exception.
Cleanup == {"clockify_demo_cleanup"}
ASSUME DeletionAssumption ==
    \A t \in Tools \ Cleanup :
        (\E i \in Writes(t) : Catalog[t].steps[i].to = "absent")
            => IsHighRisk(t) /\ t \notin DryRunIgnored

\* What may refuse the call comes before the first write.
MayRefuse(step) == \/ step.op = "vet"
                   \/ step.op = "read" /\ step.refuse /\ step.on # State
ASSUME CheckAssumption ==
    \A t \in Tools \ Sequential : \A i \in Indices(t) :
        MayRefuse(StepOf(t, i)) => \A j \in 1..(i - 1) : StepOf(t, j).op # "write"

\* Step m publishes slot s, and the handler gets there from step i on: no step
\* between them passes over it, or ends the call with a result.
Publishes(t, m, s) == StepOf(t, m).op = "emit" /\ StepOf(t, m).slot = s
Reaches(t, i, m) ==
    \A j \in i..(m - 1) : Past(t, j) <= m /\ StepOf(t, j).fail # "report"
\* The handler gets to step m through step k alone, which writes to its slot.
LeadsTo(t, k, m) ==
    /\ k < m
    /\ StepOf(t, k).op = "write" /\ StepOf(t, k).on = State
    /\ StepOf(t, k).slot = StepOf(t, m).slot
    /\ \A j \in 1..(k - 1) : Past(t, j) <= k \/ Past(t, j) > m
    /\ \/ StepOf(t, k).fail \in {"abort", "report"}
       \/ Past(t, k) > m
\* A handler publishes what it writes, and only that.
ASSUME UpdateAssumption ==
    /\ \A t \in Tools \ Silent : \A k \in Writes(t) :
          StepOf(t, k).slot \in Watched =>
              \E m \in Indices(t) : /\ m > k /\ Publishes(t, m, StepOf(t, k).slot)
                                   /\ Reaches(t, k + 1, m)
    /\ \A t \in Tools : \A m \in Indices(t) :
          StepOf(t, m).op = "emit" /\ StepOf(t, m).slot # "demo" =>
              \E k \in Indices(t) : LeadsTo(t, k, m)

\* What the result of a tool says of its entity: a step that makes it so.
Settles(t, step) ==
    /\ step.slot = Catalog[t].of
    /\ CASE Catalog[t].change = "deleted" ->
                step.op = "write" /\ step.to = "absent" /\ Present \subseteq step.on
         [] Catalog[t].change = "created" -> step.op = "write" /\ step.on = State
         [] Catalog[t].change = "updated" ->
                \/ step.op = "read" /\ step.refuse /\ step.on \subseteq Present
                \/ step.op = "write" /\ step.on = State /\ step.to # "absent"
\* ... and one that undoes it.
Unsettles(t, step) ==
    /\ step.op = "write"
    /\ \/ /\ Catalog[t].change = "deleted"
          /\ step.slot = Catalog[t].of /\ step.to # "absent"
       \/ /\ Catalog[t].change = "updated"
          /\ step.slot \in {Catalog[t].of, "project"} /\ step.to = "absent"
\* No search that finds nothing passes over the first, and nothing undoes it.
MakesTrue(t, k) ==
    /\ Settles(t, StepOf(t, k))
    /\ \A j \in 1..(k - 1) :
          StepOf(t, j).op = "read" /\ ~StepOf(t, j).refuse => Past(t, j) <= k
    /\ \A j \in Indices(t) : j > k => ~Unsettles(t, StepOf(t, j))
Claims == {"deleted", "created", "updated"}
ASSUME ClaimAssumption ==
    \A t \in Tools :
        Catalog[t].change \in Claims => \E k \in Indices(t) : MakesTrue(t, k)

VARIABLES tool,       \* the tool called
          store,      \* the workspace: [slot -> State]
          begin,      \* the workspace before the first call
          base,       \* the workspace before this call
          status,     \* where the call is, or how it ended
          pc,         \* the next step of the handler
          dry,        \* the call's dry_run
          confirmed,  \* it carries a valid confirm_token
          warned,     \* its result tells of a failure
          written,    \* slots whose write this call knows to have succeeded
          told,       \* slots whose update this call has published
          disturbed,  \* a request or a validation of this call failed
          overlooked, \* failures passed over silently, in any call
          faults, calls

request == <<tool, begin, base, dry, confirmed, calls>>
vars == <<request, store, status, pc, warned, written, told, disturbed,
          overlooked, faults>>

Ended == {"done", "warned", "refused", "failed", "preview", "unconfirmed"}
Slots(t) == LET steps == Catalog[t].steps
            IN {steps[i].slot : i \in 1..Len(steps)} \ {""}

\* What a slot may hold at first: one whose first step creates it starts
\* empty; one only listed, or published, is there; the others may be missing,
\* and archived where the handler archives.
StepsOn(t, s) == SelectSeq(Catalog[t].steps, LAMBDA step : step.slot = s)
Created(t) == {s \in Slots(t) : StepsOn(t, s)[1] = Post(s)}
MayBeMissing(t) ==
    {s \in Slots(t) \ Created(t) :
        \E i \in 1..Len(StepsOn(t, s)) : StepsOn(t, s)[i] \notin {Look(s), Emit(s)}}
MayBeArchived(t) ==
    {s \in MayBeMissing(t) :
        \E i \in 1..Len(StepsOn(t, s)) : StepsOn(t, s)[i].to = "archived"}
Workspace(t, missing, archived) ==
    [s \in Slots(t) |-> IF s \in missing \cup Created(t) THEN "absent"
                        ELSE IF s \in archived THEN "archived" ELSE "live"]

TypeOK ==
    /\ tool \in Tools
    /\ LET slots == Slots(tool) IN
         /\ {store, begin, base} \subseteq [slots -> State]
         /\ written \subseteq slots /\ told \subseteq slots
    /\ status \in Ended \cup {"idle", "running"}
    /\ pc \in Nat \ {0}
    /\ {dry, confirmed, warned, disturbed} \subseteq BOOLEAN
    /\ overlooked \subseteq {"check", "write"}
    /\ faults \in 0..MaxFaults /\ calls \in 0..MaxCalls

Init ==
    /\ tool \in Tools
    /\ \E missing \in SUBSET MayBeMissing(tool) :
         \E archived \in SUBSET (MayBeArchived(tool) \ missing) :
            store = Workspace(tool, missing, archived)
    /\ begin = store /\ base = store
    /\ status = "idle" /\ pc = 1
    /\ dry = FALSE /\ confirmed = FALSE /\ warned = FALSE /\ disturbed = FALSE
    /\ written = {} /\ told = {} /\ overlooked = {}
    /\ faults = 0 /\ calls = 0

-----------------------------------------------------------------------------
(* callTool: the schema, the central preview, the confirmation.            *)

\* mutant: a tool without a preview of its own is not stopped
GateWithoutPreview(d, c) ==
    IF ~IsHighRisk(tool) \/ d \/ c THEN "running" ELSE "unconfirmed"
\* mutant: no confirmation is asked for
GateUnconfirmed(d, c) ==
    IF d /\ CentralDryRunPreview(tool) THEN "preview" ELSE "running"
Gate(d, c) ==
    IF ~IsHighRisk(tool) THEN "running"
    ELSE IF d THEN IF CentralDryRunPreview(tool) THEN "preview" ELSE "running"
    ELSE IF c THEN "running" ELSE "unconfirmed"

Call(d, c) ==
    /\ status \in Ended \cup {"idle"} /\ calls < MaxCalls
    /\ d => AcceptsDryRun(tool)          \* schemas are closed
    /\ c => IsHighRisk(tool) /\ ~d
    /\ calls' = calls + 1
    /\ base' = store /\ dry' = d /\ confirmed' = c
    /\ status' = Gate(d, c) /\ pc' = 1
    /\ warned' = FALSE /\ written' = {} /\ told' = {} /\ disturbed' = FALSE
    /\ UNCHANGED <<tool, store, begin, overlooked, faults>>

-----------------------------------------------------------------------------
(* The handler.                                                            *)

Steps == Catalog[tool].steps
Now == Steps[pc]
At(op) == status = "running" /\ pc <= Len(Steps) /\ Now.op = op

Skip(n) == pc' = pc + 1 + n /\ status' = status
End(s) == status' = s /\ pc' = pc

\* mutant: arguments are validated where they are used
InvalidLate ==
    /\ status = "running" /\ faults < MaxFaults
    /\ End("refused")
    /\ faults' = faults + 1 /\ disturbed' = TRUE
    /\ UNCHANGED <<request, store, warned, written, told, overlooked>>

\* The arguments do not pass the handler's validation.
Invalid ==
    /\ status = "running" /\ pc = 1 /\ faults < MaxFaults
    /\ End("refused")
    /\ faults' = faults + 1 /\ disturbed' = TRUE
    /\ UNCHANGED <<request, store, warned, written, told, overlooked>>

\* Only a 400 or a 404 is mistaken for "nothing to do".
Means(policy) == IF policy = "mistake" THEN {"mistake", "abort"} ELSE {policy}
\* What becomes of the call when the request of this step failed.
Fails(policy) ==
    CASE policy = "abort" -> End("failed") /\ UNCHANGED <<warned, overlooked>>
      [] policy = "ignore" -> /\ Skip(Now.skip) /\ UNCHANGED warned
                              /\ overlooked' = overlooked \cup {"check"}
      [] policy = "mistake" -> /\ Skip(Now.skip)
                               /\ warned' = (warned \/ tool \in Telling)
                               /\ overlooked' = overlooked \cup {"write"}
      [] policy = "warn" -> /\ Skip(Now.skip) /\ UNCHANGED overlooked
                            /\ warned' = TRUE
      [] policy = "report" -> /\ End("warned") /\ UNCHANGED overlooked
                              /\ warned' = TRUE

\* mutant: what the answer says is not looked at
AnsweredUnread ==
    /\ At("read") /\ Skip(0)
    /\ UNCHANGED <<request, store, warned, written, told, disturbed, overlooked, faults>>

Answered ==
    /\ At("read")
    /\ IF store[Now.slot] \in Now.on THEN Skip(0)
       ELSE IF Now.refuse THEN End("refused") ELSE Skip(Now.skip)
    /\ UNCHANGED <<request, store, warned, written, told, disturbed, overlooked, faults>>

Unanswered ==
    /\ At("read") /\ faults < MaxFaults
    /\ faults' = faults + 1 /\ disturbed' = TRUE
    /\ \E policy \in Means(Now.fail) : Fails(policy)
    /\ UNCHANGED <<request, store, written, told>>

\* Upstream knows what a PUT, a PATCH or a DELETE is about.
Exists == Now.to = "more" \/ store[Now.slot] # "absent"
\* mutant: a deleted project leaves the trace of a task that never was
EffectOnTasks(ws, step) ==
    LET after == [ws EXCEPT ![step.slot] =
                      IF step.to # "more" THEN step.to
                      ELSE IF @ = "absent" THEN "live" ELSE "twice"]
    IN IF step.slot = "project" /\ step.to = "absent"
       THEN [s \in DOMAIN after \cup {"task"} |->
                IF s = "task" THEN "absent" ELSE after[s]]
       ELSE after
\* A project's tasks go with it.
Effect(ws, step) ==
    LET after == [ws EXCEPT ![step.slot] =
                      IF step.to # "more" THEN step.to
                      ELSE IF @ = "absent" THEN "live" ELSE "twice"]
    IN IF step.slot = "project" /\ step.to = "absent"
       THEN [s \in DOMAIN after |-> IF s = "task" THEN "absent" ELSE after[s]]
       ELSE after
Applied == Effect(store, Now)

NotNeeded ==
    /\ At("write") /\ store[Now.slot] \notin Now.on
    /\ Skip(0)
    /\ UNCHANGED <<request, store, warned, written, told, disturbed, overlooked, faults>>

Accepted ==
    /\ At("write") /\ store[Now.slot] \in Now.on /\ Exists
    /\ store' = Applied
    /\ written' = written \cup {Now.slot}
    /\ Skip(0)
    /\ UNCHANGED <<request, warned, told, disturbed, overlooked, faults>>

\* mutant: the error of the request is not looked at
RejectedUnnoticed ==
    /\ At("write") /\ store[Now.slot] \in Now.on
    /\ IF Exists THEN faults < MaxFaults /\ faults' = faults + 1
                 ELSE UNCHANGED faults
    /\ disturbed' = (disturbed \/ Exists)
    /\ Skip(0)
    /\ UNCHANGED <<request, store, warned, written, told, overlooked>>

\* 400, 403, 404: the request has no effect.
Rejected ==
    /\ At("write") /\ store[Now.slot] \in Now.on
    /\ IF Exists THEN faults < MaxFaults /\ faults' = faults + 1
                 ELSE UNCHANGED faults
    /\ disturbed' = (disturbed \/ Exists)
    /\ \E policy \in Means(Now.fail) : Fails(policy) /\ (Exists \/ policy = Now.fail)
    /\ UNCHANGED <<request, store, written, told>>

\* A timeout or a 5xx after the effect.
Lost ==
    /\ At("write") /\ store[Now.slot] \in Now.on /\ Exists
    /\ faults < MaxFaults /\ faults' = faults + 1
    /\ disturbed' = TRUE
    /\ store' = Applied
    /\ Fails(IF Now.fail = "mistake" THEN "abort" ELSE Now.fail)
    /\ UNCHANGED <<request, written, told>>

DryRun ==
    /\ At("preview")
    /\ IF dry THEN End("preview") ELSE Skip(0)
    /\ UNCHANGED <<request, store, warned, written, told, disturbed, overlooked, faults>>

Valid ==
    /\ At("vet") /\ Skip(0)
    /\ UNCHANGED <<request, store, warned, written, told, disturbed, overlooked, faults>>

NotValid ==
    /\ At("vet") /\ faults < MaxFaults
    /\ End("refused")
    /\ faults' = faults + 1 /\ disturbed' = TRUE
    /\ UNCHANGED <<request, store, warned, written, told, overlooked>>

\* mutant: a second update of the call replaces the first
PublishLast ==
    /\ At("emit")
    /\ told' = {Now.slot}
    /\ Skip(0)
    /\ UNCHANGED <<request, store, warned, written, disturbed, overlooked, faults>>

Publish ==
    /\ At("emit")
    /\ told' = told \cup {Now.slot}
    /\ Skip(0)
    /\ UNCHANGED <<request, store, warned, written, disturbed, overlooked, faults>>

\* mutant: collected warnings do not reach the result
ReturnWithoutWarnings ==
    /\ status = "running" /\ pc > Len(Steps)
    /\ End("done")
    /\ UNCHANGED <<request, store, warned, written, told, disturbed, overlooked, faults>>

Return ==
    /\ status = "running" /\ pc > Len(Steps)
    /\ End(IF warned THEN "warned" ELSE "done")
    /\ UNCHANGED <<request, store, warned, written, told, disturbed, overlooked, faults>>

Next ==
    \/ \E d, c \in BOOLEAN : Call(d, c)
    \/ Invalid
    \/ Answered \/ Unanswered
    \/ NotNeeded \/ Accepted \/ Rejected \/ Lost
    \/ DryRun \/ Valid \/ NotValid \/ Publish
    \/ Return

Spec == Init /\ [][Next]_vars

-----------------------------------------------------------------------------
(* What a call with no failure makes of the workspace: the reference the   *)
(* properties compare with.                                                *)

Performed(r, step) ==
    LET s == step.slot
        inState == r.store[s] \in step.on
        missing == r.store[s] = "absent" /\ step.to # "more"
    IN IF r.over THEN r
       ELSE IF r.skip > 0 THEN [r EXCEPT !.skip = @ - 1]
       ELSE CASE step.op = "read" /\ ~inState ->
                    [store |-> r.store, over |-> step.refuse, skip |-> step.skip]
              [] step.op = "write" /\ inState /\ missing ->
                    [store |-> r.store, over |-> step.fail \in {"abort", "report"},
                     skip |-> step.skip]
              [] step.op = "write" /\ inState /\ ~missing ->
                    [r EXCEPT !.store = Effect(@, step)]
              [] OTHER -> r

\* The handler of tool t after each of its steps, from the given workspace.
Undisturbed(t, from) ==
    LET After[i \in Nat] ==
            IF i = 0 THEN [store |-> from, over |-> FALSE, skip |-> 0]
            ELSE Performed(After[i - 1], StepOf(t, i))
    IN After
Outcome(t, from) == Undisturbed(t, from)[Len(Catalog[t].steps)].store

\* The tools that may be repeated: the idempotent hint, the deletes, and the
\* two that look for what a first call has done.
Repeatable(t) == \/ Catalog[t].idempotent
                 \/ Catalog[t].change = "deleted"
                 \/ t \in {"clockify_log_work", "clockify_entries_timer_start"}

\* A write leaves slot s in the given states, if it was.
Keeps(step, s, states) ==
    \A ws \in [{s, step.slot} -> State] :
        ws[step.slot] \in step.on /\ ws[s] \in states => Effect(ws, step)[s] \in states
\* Step j is a read that lets the call get to step i in the states `on` alone,
\* and no step takes the call around it or changes what it found.
Guards(t, j, i) ==
    /\ StepOf(t, j).op = "read"
    /\ Past(t, j) > i \/ (StepOf(t, j).refuse /\ StepOf(t, j).fail # "warn")
    /\ \A k \in 1..(j - 1) : Past(t, k) <= j \/ Past(t, k) > i
    /\ \A k \in (j + 1)..(i - 1) :
          StepOf(t, k).op = "write" => Keeps(StepOf(t, k), StepOf(t, j).slot, StepOf(t, j).on)
\* The workspaces in which write i is made: its guards have let the call past.
AtWrite(t, i) ==
    LET guards == {j \in 1..(i - 1) : Guards(t, j, i)}
        s == StepOf(t, i).slot
    IN {ws \in [Slots(t) -> State] :
            /\ ws[s] \in StepOf(t, i).on
            /\ StepOf(t, i).to = "more" \/ ws[s] # "absent"
            /\ \A j \in guards : ws[StepOf(t, j).slot] \in StepOf(t, j).on}
\* A write made ahead of the others is one the next call does not miss.
ASSUME RepeatAssumption ==
    \A t \in Tools : Repeatable(t) =>
        \A i \in Writes(t) : \A ws \in AtWrite(t, i) :
            Outcome(t, Effect(ws, StepOf(t, i))) = Outcome(t, ws)

-----------------------------------------------------------------------------
(* Properties.                                                             *)

\* A dry run and a read-only tool leave the workspace as it is, at every
\* moment of the call: the preview of each handler, or of callTool for those
\* that have none, comes before its first write.
PureCalls == Catalog[tool].reads \/ (dry /\ tool \notin DryRunIgnored) => store = base

\* "UsersInvite ... supports a dry_run preview"
\* (tools/oneuser_result_helpers.go:80-82): no dry run changes the workspace.
DryRunChangesNothing == dry => store = base

\* A call that is refused (its arguments, a name that does not resolve, a
\* precondition) has changed nothing: handlers check before they write, the
\* sequential ones excepted.
RefusedChangesNothing ==
    status = "refused" /\ tool \notin Sequential => store = base

\* A result without error or warning means the whole effect took place.  Two
\* things may be missing without a word: what a failed check would have
\* prevented, and the stop of a timer switch, which takes a 400 or 404 of the
\* stop for "no timer is running".
Excused == "check" \in overlooked \/ ("write" \in overlooked /\ tool \in SwitchTools)
SuccessIsComplete ==
    status = "done" /\ ~Excused => store = Outcome(tool, base)

\* Repeated after any failure, lost answers included, a call that now meets
\* no failure leaves the workspace that one undisturbed call would have.
RetryConverges ==
    (/\ calls > 1 /\ status \in {"done", "warned", "refused", "failed"}
     /\ ~dry /\ ~disturbed /\ overlooked = {}
     /\ Repeatable(tool))
    => store = Outcome(tool, begin)

\* Nothing is deleted without a confirmation, but by the cleanup of the demo
\* objects: no route through the gate leads to a DELETE without a token.
DeletionIsConfirmed ==
    [][\A s \in DOMAIN store :
         store[s] # "absent" /\ store'[s] = "absent"
            => confirmed \/ tool \in Cleanup]_store

\* When a call succeeds, what it changed has been published if it can be
\* subscribed to, except by the silent tools; and what is published at any
\* time has been changed (the demo resource is the server's own).
ChangesArePublished ==
    /\ status \in {"done", "warned"} /\ tool \notin Silent
          => written \cap Watched \subseteq told
    /\ told \subseteq written \cup {"demo"}

\* What the result of a successful call claims of its entity is so upstream.
ClaimHolds ==
    LET s == Catalog[tool].of IN
    CASE Catalog[tool].change = "deleted" -> store[s] = "absent"
      [] Catalog[tool].change = "created" -> s \in written
      [] Catalog[tool].change = "updated" -> store[s] # "absent"
      [] OTHER -> TRUE
ClaimsAreTrue == status = "done" /\ overlooked = {} => ClaimHolds
================================================================================
