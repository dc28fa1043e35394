------------------------------ MODULE MCBreaker ------------------------------
(* Instances of Breaker for TLC.                                             *)
EXTENDS Breaker

CONSTANTS r1, r2, r3, get, post

\* Two callers of a GET and one of a POST.
MixedKeyOf == [r \in Callers |-> IF r = r3 THEN post ELSE get]
=============================================================================
