--------------------------------- MODULE Steps ---------------------------------
(***************************************************************************)
(* The vocabulary of tool handlers (internal/tools).  A handler is the     *)
(* sequence of what it does that can stop it or can be seen: the requests  *)
(* it sends, in order, the point where a dry run returns, the validations  *)
(* made between requests and the resource updates it publishes.            *)
(*                                                                         *)
(* Each thing a handler touches is a slot of the workspace: the client of  *)
(* a project, the entry to change, the invoice to create.  Requests whose  *)
(* answer and failure are both ignored (enrichment of the result after the *)
(* write, metadata) decide nothing and are left out.                       *)
(***************************************************************************)
EXTENDS Naturals, Sequences

\* The state of a slot upstream.  "twice": two where one was meant.
State == {"absent", "live", "archived", "changed", "twice"}
Present == State \ {"absent"}

\* What becomes of a call whose request fails: "abort" returns the error,
\* "ignore" goes on silently, "warn" goes on with a warning, "report" returns
\* a result telling of it, "mistake" takes a rejection for "nothing to do".
Failure == {"abort", "ignore", "warn", "report", "mistake"}

\* A step is taken in the states `on` of its slot.  `skip` is the number of
\* steps passed over when it fails, or, for a read, when the state is not one
\* the handler goes on with and it does not `refuse`.
Step == [op : {"read", "write", "preview", "vet", "emit"}, slot : STRING,
         on : SUBSET State, to : State \cup {"more"}, refuse : BOOLEAN,
         fail : Failure, skip : Nat]

Request(op, s, on, to) == [op |-> op, slot |-> s, on |-> on, to |-> to,
                           refuse |-> TRUE, fail |-> "abort", skip |-> 0]

\* A GET or a name resolution: the thing must be there.
Need(s) == Request("read", s, Present, "live")
\* ... and in one of the given states.
NeedIn(s, on) == Request("read", s, on, "live")
\* A list or a search that finds what it finds.
Look(s) == Request("read", s, State, "live")
\* A check that is skipped when its request fails.
Check(s, on) == [NeedIn(s, on) EXCEPT !.fail = "ignore"]
\* A search: with nothing in the given states, the next n steps are skipped.
Find(s, on, n) == [NeedIn(s, on) EXCEPT !.refuse = FALSE, !.skip = n]

Post(s) == Request("write", s, State, "more")
Put(s, state) == Request("write", s, State, state)
Delete(s) == Request("write", s, State, "absent")

\* A write made only in some states.
When(on, step) == [step EXCEPT !.on = @ \cap on]
\* A request whose failure is collected, the next n steps depending on it.
Warn(step, n) == [step EXCEPT !.fail = "warn", !.skip = n]
Report(step) == [step EXCEPT !.fail = "report"]
\* A request whose rejection is taken for "nothing to do", the next n steps
\* being passed over.
Mistake(step, n) == [step EXCEPT !.fail = "mistake", !.skip = n]

\* if dryrun.Enabled(args) { return preview }
Preview == Request("preview", "", {}, "live")
\* A validation of what was read, after the first request.
Vet == Request("vet", "", {}, "live")
\* emitResourceUpdate and its variants, for the resource in the slot.
Emit(s) == Request("emit", s, {}, "live")

-----------------------------------------------------------------------------
(* Descriptors.  reads, idempotent: the hints; risk: the risk class, the   *)
(* classes beyond the hints (billing, admin, permission change, external   *)
(* side effect) being one, "special"; dryRun: whether the tool's own       *)
(* schema declares dry_run; change: what the result claims of slot `of`.   *)

Tool(steps) == [reads |-> FALSE, idempotent |-> FALSE, risk |-> "write",
                dryRun |-> FALSE, change |-> "", of |-> "", steps |-> steps]

RO(steps) == [Tool(steps) EXCEPT !.reads = TRUE, !.idempotent = TRUE, !.risk = "read"]
RW(change, s, steps) == [Tool(steps) EXCEPT !.change = change, !.of = s]
RWIdem(change, s, steps) == [RW(change, s, steps) EXCEPT !.idempotent = TRUE]
Destructive(change, s, steps) == [RW(change, s, steps) EXCEPT !.risk = "destructive"]

\* mcpContractDestructiveHintOverrides: a write listed as destructive; a
\* riskOverrides entry of a write; a schema with dry_run.
HintedDestructive(row) == [row EXCEPT !.risk = "destructive"]
Risky(row) == [row EXCEPT !.risk = "special"]
WithDryRun(row) == [row EXCEPT !.dryRun = TRUE]
================================================================================
