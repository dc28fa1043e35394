--------------------------- MODULE MCConfirmation ---------------------------
(* Instances of Confirmation for TLC.                                        *)
EXTENDS Confirmation, TLC

CONSTANTS c1, c2, c3, t1, t2, delete, invoice, invite, log

\* A raw DELETE is of the write family, high-risk, and previewed by its handler;
\* an invoice is of the high family and previewed by callTool; an
\* invitation, of that family too, by nobody; logging time needs no confirmation.
RiskFamilyOf == [p \in Payloads |-> IF p \in {invoice, invite} THEN "high" ELSE "write"]

Symmetric == Permutations({c1, c2, c3}) \cup Permutations({t1, t2})
=============================================================================
