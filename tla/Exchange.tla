------------------------------ MODULE Exchange ------------------------------
(***************************************************************************)
(* What the stdio server promises its client about one session, with       *)
(* nothing said of goroutines, slots or queues: every request that carries *)
(* an id gets exactly one answer, unless the client itself cancelled it or *)
(* the session is being torn down (the output broke, or the process was    *)
(* told to stop).  Dispatch.tla is shown to implement this module.         *)
(***************************************************************************)
CONSTANTS Requests,  \* the requests of the session
          Silent     \* those that carry no id: JSON-RPC notifications

VARIABLES status,     \* [Requests -> Statuses]
          cancelled,  \* requests the client cancelled before it had an answer
          down        \* the session is being torn down

vars == <<status, cancelled, down>>

Statuses == {"unsent", "open", "answered", "closed"}

TypeOK ==
    /\ status \in [Requests -> Statuses]
    /\ cancelled \subseteq Requests
    /\ down \in BOOLEAN

Init ==
    /\ status = [r \in Requests |-> "unsent"]
    /\ cancelled = {}
    /\ down = FALSE

Send(r) ==
    /\ status[r] = "unsent"
    /\ status' = [status EXCEPT ![r] = "open"]
    /\ UNCHANGED <<cancelled, down>>

\* The client cannot tell a request that was closed from one that is open.
Cancel(S) ==
    /\ \A r \in S : status[r] \in {"open", "closed"}
    /\ cancelled' = cancelled \cup S
    /\ UNCHANGED <<status, down>>

Answer(r) ==
    /\ status[r] = "open"
    /\ status' = [status EXCEPT ![r] = "answered"]
    /\ UNCHANGED <<cancelled, down>>

\* The request ends without an answer.
Close(r) ==
    /\ status[r] = "open"
    /\ r \in cancelled \/ r \in Silent \/ down
    /\ status' = [status EXCEPT ![r] = "closed"]
    /\ UNCHANGED <<cancelled, down>>

TearDown ==
    /\ down' = TRUE
    /\ UNCHANGED <<status, cancelled>>

Next ==
    \/ \E r \in Requests : Send(r) \/ Answer(r) \/ Close(r)
    \/ \E S \in SUBSET Requests : Cancel(S)
    \/ TearDown

Spec == Init /\ [][Next]_vars
=============================================================================
