----------------------------- MODULE MCResources -----------------------------
(* An instance of Deltas, and of the MergePatch it extends, for TLC.         *)
EXTENDS Deltas, TLC

CONSTANTS e1, n1, c1, c2, one, arr, arrNull

Shapes == {[week |-> 1, project |-> "p", secs |-> 1],
           [week |-> 1, project |-> "q", secs |-> 2]}

\* Entries and weeks are URIs; the sentinel shares one with the stream.
MCUri == Entry \cup Week
MCInterest == {<<n1, e1>>, <<n1, 1>>, <<Broadcast, e1>>}
OneInterest == {<<n1, e1>>}

Symmetric == Permutations({c1, c2})

=============================================================================
