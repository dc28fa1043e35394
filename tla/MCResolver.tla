------------------------------ MODULE MCResolver ------------------------------
(* Instances of Resolver for TLC.                                            *)
EXTENDS Resolver, TLC

CONSTANTS c1, c2, o1, o2, o3, p, q, m

\* What is called p is listed by every search, and matches only the one for p.
Loose == [n \in Name |-> {n, p}]

Symmetric == Permutations(Caller) \cup Permutations(Object)
=============================================================================
