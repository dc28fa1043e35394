------------------------------- MODULE Consent -------------------------------
(***************************************************************************)
(* What the confirmation rail promises: an offer to run one operation is   *)
(* made under a fresh name, and stands until it is taken up or withdrawn;  *)
(* whoever takes it up may run that operation, once.  Confirmation.tla,    *)
(* which models callTool and safety.TokenStore, implements this module.    *)
(***************************************************************************)
CONSTANTS Names,       \* names of offers
          Operations,  \* what an offer is for
          Takers       \* who takes an offer up

VARIABLES made,      \* names ever used
          open,      \* offers that stand: pairs <<name, operation>>
          entitled,  \* pairs <<taker, operation>> not acted on yet
          performed  \* pairs <<taker, operation>> acted on

vars == <<made, open, entitled, performed>>

TypeOK ==
    /\ made \subseteq Names
    /\ open \subseteq Names \X Operations
    /\ entitled \subseteq Takers \X Operations
    /\ performed \subseteq Takers \X Operations

Init == made = {} /\ open = {} /\ entitled = {} /\ performed = {}

Offer(n, op) ==
    /\ n \notin made
    /\ made' = made \cup {n}
    /\ open' = open \cup {<<n, op>>}
    /\ UNCHANGED <<entitled, performed>>

Withdraw(n, op) ==
    /\ <<n, op>> \in open
    /\ open' = open \ {<<n, op>>}
    /\ UNCHANGED <<made, entitled, performed>>

Take(n, op, c) ==
    /\ <<n, op>> \in open
    /\ open' = open \ {<<n, op>>}
    /\ entitled' = entitled \cup {<<c, op>>}
    /\ UNCHANGED <<made, performed>>

Perform(c, op) ==
    /\ <<c, op>> \in entitled
    /\ entitled' = entitled \ {<<c, op>>}
    /\ performed' = performed \cup {<<c, op>>}
    /\ UNCHANGED <<made, open>>

GiveUp(c, op) ==
    /\ <<c, op>> \in entitled
    /\ entitled' = entitled \ {<<c, op>>}
    /\ UNCHANGED <<made, open, performed>>

Next ==
    \/ \E n \in Names, op \in Operations :
        Offer(n, op) \/ Withdraw(n, op) \/ \E c \in Takers : Take(n, op, c)
    \/ \E c \in Takers, op \in Operations : Perform(c, op) \/ GiveUp(c, op)

Spec == Init /\ [][Next]_vars
=============================================================================
