----------------------------- MODULE MCDispatch -----------------------------
(* Instances of Dispatch for TLC.                                            *)
EXTENDS Dispatch

CONSTANTS r1, r2, r3, x, y, a, b, t

\* High-risk calls that share an id.
SharedIdOf == [r \in Calls |-> a]
SharedTokenOf == [r \in Calls |-> IF r = r1 THEN t ELSE None]
SharedFamilyOf == [r \in Calls |-> "high"]

\* Two writes and a notification that reads, each with an id of its own.
OwnIdOf == [r \in Calls |-> CASE r = r1 -> a [] r = r2 -> b [] OTHER -> None]
OwnTokenOf == [r \in Calls |-> IF r = r2 THEN None ELSE t]
OwnFamilyOf == [r \in Calls |-> IF r = r3 THEN "read" ELSE "write"]
=============================================================================
