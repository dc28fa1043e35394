--------------------------- MODULE Confirmation_proof ---------------------------
(***************************************************************************)
(* Proofs about Confirmation: the confirmation rail spends each token once *)
(* and implements Consent, for any calls, payloads, tokens and lifetime,   *)
(* and whichever tools ignore dry_run.                                     *)
(***************************************************************************)
EXTENDS Confirmation, TLAPS, FiniteSetTheorems

\* What a call that was sent carries.
RequestInv == \A c \in Calls : pc[c] # "unsent" =>
    asked[c] \in Payloads /\ (mode[c] = "confirm" <=> shown[c] # None)

\* Tokens are issued for high-risk payloads only, and before they are stored.
TokenInv == \A t \in Tokens :
    issued[t] \in HighRisk \cup {None} /\ (t \in store => issued[t] # None)

\* An accepted call is past the gate, on a token of its own that is spent.
AcceptedInv == \A c \in accepted :
    /\ pc[c] \in {"acquiring", "handler", "done"}
    /\ mode[c] = "confirm" /\ asked[c] \in HighRisk
    /\ shown[c] \in Tokens \ store /\ issued[shown[c]] = asked[c]
    /\ \A d \in accepted : shown[d] = shown[c] => d = c

\* Past the gate, a high-risk call that is no dry run was accepted; of the dry
\* runs only those of a tool that ignores the flag act.
RanInv ==
    /\ \A c \in Calls :
        pc[c] \in {"acquiring", "handler"} /\ asked[c] \in HighRisk /\ mode[c] # "preview"
            => c \in accepted
    /\ \A c \in ran :
        /\ pc[c] \in {"handler", "done"}
        /\ asked[c] \in HighRisk => c \in accepted \/ c \in Slips

IInv == TypeOK /\ RequestInv /\ TokenInv /\ AcceptedInv /\ RanInv
-----------------------------------------------------------------------------
\* The rail starts with nothing sent, issued or accepted.
LEMMA InitIInv == Init => IInv
<1> SUFFICES ASSUME Init PROVE IInv
  OBVIOUS
<1>1. TypeOK
  BY TimeAssumption DEF Init, TypeOK, Results
<1>2. RequestInv /\ TokenInv /\ AcceptedInv /\ RanInv
  BY DEF Init, RequestInv, TokenInv, AcceptedInv, RanInv
<1> QED
  BY <1>1, <1>2 DEF IInv

\* A token that Issue hands out is fresh, for the payload asked about.
LEMMA IssueType ==
    ASSUME TypeOK, NEW p \in Payloads, Issue(p)
    PROVE  /\ issued' \in [Tokens -> Payloads \cup {None}]
           /\ expiresAt' \in [Tokens -> 0..(MaxTime + TTL)]
           /\ store' \subseteq Tokens
<1> USE TimeAssumption DEF TypeOK
<1>1. PICK t \in Tokens :
        /\ issued' = [issued EXCEPT ![t] = p]
        /\ expiresAt' = [expiresAt EXCEPT ![t] = now + TTL]
        /\ store' = store \cup {t}
  BY DEF Issue
<1>2. now + TTL \in 0..(MaxTime + TTL)
  OBVIOUS
<1> QED
  BY <1>1, <1>2

\* Every step keeps the type invariant.
LEMMA TypeStep == TypeOK /\ RequestInv /\ [Next]_vars => TypeOK'
<1> SUFFICES ASSUME TypeOK, RequestInv, [Next]_vars PROVE TypeOK'
  OBVIOUS
<1> USE DEF TypeOK, Goto, Record, Results, requestVars
<1>1. ASSUME NEW c \in Calls, NEW p \in Payloads, NEW m \in {"bare", "preview", "confirm"},
             NEW t \in Tokens \cup {None}, Send(c, p, m, t) PROVE TypeOK'
  BY <1>1 DEF Send, tokenVars
<1>2. ASSUME NEW c \in Calls, TurnAway(c) \/ PassThrough(c) \/ PreviewByHandler(c) \/ Demand(c)
      PROVE TypeOK'
  BY <1>2 DEF TurnAway, PassThrough, PreviewByHandler, Demand, tokenVars
<1>3. ASSUME NEW c \in Calls, IssueAndRecord(c), asked[c] \in Payloads, Goto(c, "done"),
             UNCHANGED <<now, requestVars, accepted, ran>> PROVE TypeOK'
  BY <1>3, IssueType DEF IssueAndRecord, tokenVars
<1>4. ASSUME NEW c \in Calls, PreviewCentrally(c) PROVE TypeOK'
  BY <1>3, <1>4 DEF PreviewCentrally, RequestInv
<1>5. ASSUME NEW c \in Calls, Validate(c) PROVE TypeOK'
  BY <1>5 DEF Validate
<1>6. ASSUME NEW c \in Calls, StartHandler(c) \/ AbandonAcquire(c) PROVE TypeOK'
  BY <1>6 DEF StartHandler, AbandonAcquire, tokenVars
<1>7. ASSUME NEW c \in Calls, HandlerSucceeds(c) PROVE TypeOK'
  <2>1. CASE mode[c] = "preview" /\ asked[c] \in HighRisk
    BY <1>3, <1>7, <2>1 DEF HandlerSucceeds, RequestInv
  <2>2. CASE ~(mode[c] = "preview" /\ asked[c] \in HighRisk)
    BY <1>7, <2>2 DEF HandlerSucceeds, tokenVars
  <2> QED
    BY <2>1, <2>2
<1>8. ASSUME NEW c \in Calls, HandlerFails(c) \/ HandlerPanics(c) PROVE TypeOK'
  BY <1>8 DEF HandlerFails, HandlerPanics, tokenVars
<1>9. CASE Tick
  BY <1>9, TimeAssumption DEF Tick, tokenVars
<1>10. CASE UNCHANGED vars
  BY <1>10 DEF vars
<1> QED
  BY <1>1, <1>2, <1>4, <1>5, <1>6, <1>7, <1>8, <1>9, <1>10 DEF Next

\* Every step keeps what calls carry.
LEMMA RequestStep == TypeOK /\ RequestInv /\ [Next]_vars => RequestInv'
<1> SUFFICES ASSUME TypeOK, RequestInv, [Next]_vars PROVE RequestInv'
  OBVIOUS
<1> USE DEF TypeOK, RequestInv, Goto, requestVars
<1>1. ASSUME NEW c \in Calls, NEW p \in Payloads, NEW m \in {"bare", "preview", "confirm"},
             NEW t \in Tokens \cup {None}, Send(c, p, m, t) PROVE RequestInv'
  BY <1>1 DEF Send
<1>2. ASSUME NEW c \in Calls, UNCHANGED requestVars, pc[c] # "unsent",
             \A d \in Calls : d # c => pc'[d] = pc[d] PROVE RequestInv'
  BY <1>2
<1>3. ASSUME NEW c \in Calls,
             \/ TurnAway(c) \/ PassThrough(c) \/ PreviewCentrally(c) \/ PreviewByHandler(c)
             \/ Demand(c) \/ Validate(c) \/ StartHandler(c) \/ AbandonAcquire(c)
             \/ HandlerSucceeds(c) \/ HandlerFails(c) \/ HandlerPanics(c) PROVE RequestInv'
  BY <1>2, <1>3 DEF TurnAway, PassThrough, PreviewCentrally, PreviewByHandler, Demand,
     Validate, StartHandler, AbandonAcquire, HandlerSucceeds, HandlerFails, HandlerPanics
<1>4. CASE Tick \/ UNCHANGED vars
  BY <1>4 DEF Tick, vars
<1> QED
  BY <1>1, <1>3, <1>4 DEF Next

\* Only dry_run of a high-risk call has a token issued, and only Validate spends
\* one.
LEMMA TokenFrame ==
    ASSUME TypeOK, [Next]_vars
    PROVE  \/ UNCHANGED <<issued, store>>
           \/ /\ UNCHANGED <<accepted, ran, requestVars>>
              /\ \E c \in Calls :
                    /\ asked[c] \in HighRisk /\ Issue(asked[c])
                    /\ pc[c] \in {"gate", "handler"} /\ mode[c] = "preview" /\ Goto(c, "done")
           \/ \E c \in Calls : Validate(c)
<1>1. ASSUME NEW c \in Calls, PreviewCentrally(c)
      PROVE  UNCHANGED <<issued, store>> \/
             (UNCHANGED <<accepted, ran, requestVars>> /\ asked[c] \in HighRisk
               /\ Issue(asked[c]) /\ mode[c] = "preview" /\ pc[c] = "gate" /\ Goto(c, "done"))
  BY <1>1, PayloadAssumption DEF PreviewCentrally, IssueAndRecord, tokenVars
<1>2. ASSUME NEW c \in Calls, HandlerSucceeds(c)
      PROVE  UNCHANGED <<issued, store>> \/
             (UNCHANGED <<accepted, ran, requestVars>> /\ asked[c] \in HighRisk
               /\ Issue(asked[c]) /\ mode[c] = "preview" /\ pc[c] = "handler" /\ Goto(c, "done"))
  BY <1>2 DEF HandlerSucceeds, IssueAndRecord, tokenVars
<1> QED
  BY <1>1, <1>2 DEF Next, vars, tokenVars, Tick, Send, TurnAway, PassThrough, PreviewByHandler,
     Demand, StartHandler, AbandonAcquire, HandlerFails, HandlerPanics

\* Every step keeps the tokens of the store issued for high-risk payloads.
LEMMA TokenStep == TypeOK /\ TokenInv /\ [Next]_vars => TokenInv'
<1> SUFFICES ASSUME TypeOK, TokenInv, [Next]_vars PROVE TokenInv'
  OBVIOUS
<1> USE PayloadAssumption, NoneAssumption DEF TypeOK, TokenInv
<1>1. ASSUME NEW p \in HighRisk, Issue(p) PROVE TokenInv'
  BY <1>1 DEF Issue
<1>2. ASSUME NEW c \in Calls, Validate(c) PROVE TokenInv'
  BY <1>2 DEF Validate
<1> QED
  BY <1>1, <1>2, TokenFrame

\* Every step but Send, Validate and the issue of a token leaves what AcceptedInv
\* speaks of alone, and moves one call on.
LEMMA AcceptedStep ==
    TypeOK /\ TokenInv /\ AcceptedInv /\ RequestInv /\ [Next]_vars => AcceptedInv'
<1> SUFFICES ASSUME TypeOK, TokenInv, AcceptedInv, RequestInv, [Next]_vars PROVE AcceptedInv'
  OBVIOUS
<1> USE PayloadAssumption, NoneAssumption DEF TypeOK, Goto, requestVars
<1>1. ASSUME NEW c \in Calls, NEW p \in Payloads, NEW m \in {"bare", "preview", "confirm"},
             NEW t \in Tokens \cup {None}, Send(c, p, m, t) PROVE AcceptedInv'
  <2>1. c \notin accepted
    BY <1>1 DEF Send, AcceptedInv
  <2>2. \A d \in accepted : /\ pc'[d] = pc[d] /\ mode'[d] = mode[d]
                            /\ asked'[d] = asked[d] /\ shown'[d] = shown[d]
    BY <1>1, <2>1 DEF Send
  <2> QED
    BY <1>1, <2>2 DEF Send, AcceptedInv, tokenVars
<1>2. ASSUME NEW c \in Calls, UNCHANGED <<issued, store, accepted, requestVars>>,
             pc'[c] \in {"acquiring", "handler", "done"},
             \A d \in Calls : d # c => pc'[d] = pc[d] PROVE AcceptedInv'
  BY <1>2 DEF AcceptedInv
<1>3. ASSUME NEW c \in Calls, asked[c] \in HighRisk, Issue(asked[c]), Goto(c, "done"),
             UNCHANGED <<accepted, requestVars>> PROVE AcceptedInv'
  <2>1. PICK t \in Tokens : /\ issued[t] = None
                            /\ issued' = [issued EXCEPT ![t] = asked[c]]
                            /\ store' = store \cup {t}
    BY <1>3 DEF Issue
  <2>2. \A d \in accepted : shown[d] # t
    BY <2>1 DEF AcceptedInv
  <2>3. \A d \in accepted : shown[d] \notin store' /\ issued'[shown[d]] = issued[shown[d]]
    BY <2>1, <2>2 DEF AcceptedInv
  <2>4. \A d \in accepted : pc'[d] \in {"acquiring", "handler", "done"}
    BY <1>3 DEF AcceptedInv
  <2> QED
    BY <1>3, <2>3, <2>4 DEF AcceptedInv
<1>4. ASSUME NEW c \in Calls, Validate(c) PROVE AcceptedInv'
  <2>1. c \notin accepted /\ shown[c] # None /\ shown[c] \in Tokens
    BY <1>4 DEF Validate, AcceptedInv, RequestInv
  <2>2. CASE Good(shown[c], asked[c])
    <3>1. \A d \in accepted : shown[d] # shown[c]
      BY <2>2 DEF Good, AcceptedInv
    <3>2. /\ accepted' = accepted \cup {c} /\ store' = store \ {shown[c]}
          /\ pc' = [pc EXCEPT ![c] = "acquiring"]
          /\ UNCHANGED <<issued, mode, asked, shown>>
      BY <1>4, <2>2 DEF Validate
    <3>3. asked[c] \in HighRisk /\ mode[c] = "confirm" /\ issued[shown[c]] = asked[c]
      BY <1>4, <2>2 DEF Validate, Good
    <3> QED
      BY <2>1, <3>1, <3>2, <3>3 DEF AcceptedInv
  <2>3. CASE ~Good(shown[c], asked[c])
    BY <1>4, <2>1, <2>3 DEF Validate, AcceptedInv
  <2> QED
    BY <2>2, <2>3
<1>5. ASSUME NEW c \in Calls,
             \/ TurnAway(c) \/ PassThrough(c) \/ PreviewByHandler(c)
             \/ Demand(c) \/ StartHandler(c) \/ AbandonAcquire(c)
             \/ HandlerFails(c) \/ HandlerPanics(c) PROVE AcceptedInv'
  BY <1>2, <1>5 DEF TurnAway, PassThrough, PreviewByHandler, Demand,
     StartHandler, AbandonAcquire, HandlerFails, HandlerPanics, tokenVars
<1>6. ASSUME NEW c \in Calls, PreviewCentrally(c) \/ HandlerSucceeds(c) PROVE AcceptedInv'
  BY <1>2, <1>3, <1>6 DEF PreviewCentrally, HandlerSucceeds, IssueAndRecord, tokenVars
<1>7. CASE Tick \/ UNCHANGED vars
  BY <1>7 DEF Tick, vars, tokenVars, AcceptedInv
<1> QED
  BY <1>1, <1>4, <1>5, <1>6, <1>7 DEF Next

\* A handler starts for real only for a call that was accepted, if its payload
\* is high-risk.
LEMMA RanStep ==
    TypeOK /\ RanInv /\ AcceptedInv /\ RequestInv /\ [Next]_vars => RanInv'
<1> SUFFICES ASSUME TypeOK, RanInv, AcceptedInv, RequestInv, [Next]_vars PROVE RanInv'
  OBVIOUS
<1> USE PayloadAssumption, NoneAssumption DEF TypeOK, Goto, requestVars
<1>1. ASSUME NEW c \in Calls, NEW p \in Payloads, NEW m \in {"bare", "preview", "confirm"},
             NEW t \in Tokens \cup {None}, Send(c, p, m, t) PROVE RanInv'
  BY <1>1 DEF Send, RanInv, Acted, Slips
<1>2. ASSUME NEW c \in Calls, UNCHANGED <<accepted, ran, requestVars>>,
             pc' = [pc EXCEPT ![c] = "done"] PROVE RanInv'
  BY <1>2 DEF RanInv, Acted, Slips
<1>3. ASSUME NEW c \in Calls,
             \/ TurnAway(c) \/ PreviewCentrally(c) \/ Demand(c) \/ AbandonAcquire(c)
             \/ HandlerSucceeds(c) \/ HandlerFails(c) \/ HandlerPanics(c) PROVE RanInv'
  BY <1>2, <1>3 DEF TurnAway, PreviewCentrally, Demand, AbandonAcquire,
     HandlerSucceeds, HandlerFails, HandlerPanics
<1>4. ASSUME NEW c \in Calls, PassThrough(c) \/ PreviewByHandler(c) PROVE RanInv'
  BY <1>4 DEF PassThrough, PreviewByHandler, RanInv, Acted, Slips
<1>5. ASSUME NEW c \in Calls, Validate(c) PROVE RanInv'
  BY <1>5 DEF Validate, RanInv, Acted, Slips
<1>6. ASSUME NEW c \in Calls, StartHandler(c) PROVE RanInv'
  <2>1. asked[c] \in HighRisk /\ mode[c] # "preview" => c \in accepted
    BY <1>6 DEF StartHandler, RanInv
  <2>2. UNCHANGED <<accepted, requestVars>> /\ pc' = [pc EXCEPT ![c] = "handler"]
    BY <1>6 DEF StartHandler
  <2>3. ran' = IF Previews(c) THEN ran ELSE ran \cup {c}
    BY <1>6 DEF StartHandler
  <2>4. Slips \subseteq Slips'
    BY <2>2, <2>3 DEF Slips, Acted
  <2>5. c \in ran' /\ asked[c] \in HighRisk => c \in accepted \/ c \in Slips'
    BY <2>1, <2>2, <2>3 DEF RanInv, Previews, Slips, Acted
  <2> QED
    BY <2>1, <2>2, <2>3, <2>4, <2>5 DEF RanInv
<1>7. CASE Tick \/ UNCHANGED vars
  BY <1>7 DEF Tick, vars, RanInv, Acted, Slips
<1> QED
  BY <1>1, <1>3, <1>4, <1>5, <1>6, <1>7 DEF Next

\* The inductive invariant: tokens are issued, held and spent one by one, in
\* every run.
THEOREM Invariance == Spec => []IInv
<1>1. IInv /\ [Next]_vars => IInv'
  BY TypeStep, RequestStep, TokenStep, AcceptedStep, RanStep DEF IInv
<1> QED
  BY <1>1, InitIInv, PTL DEF Spec

\* The rail is well typed in every run.
THEOREM TypeCorrect == Spec => []TypeOK
<1>1. IInv => TypeOK
  BY DEF IInv
<1> QED
  BY <1>1, Invariance, PTL

\* However calls race, a token is spent on one call and is then no longer in the
\* store.
THEOREM SpentOnce == Spec => []TokenSpentOnce
<1>1. IInv => TokenSpentOnce
  BY DEF IInv, AcceptedInv, TokenSpentOnce
<1> QED
  BY <1>1, Invariance, PTL

\* A call is accepted only on a token issued for its payload, before the token
\* expires: the check and the spending are one step.
THEOREM InTime == Spec => AcceptedInTime
<1>1. [Next]_vars => [\A c \in accepted' \ accepted :
                        issued[shown[c]] = asked[c] /\ now < expiresAt[shown[c]]]_vars
  <2> SUFFICES ASSUME [Next]_vars, NEW c \in accepted' \ accepted
               PROVE  issued[shown[c]] = asked[c] /\ now < expiresAt[shown[c]]
    OBVIOUS
  <2>1. Validate(c) /\ Good(shown[c], asked[c])
    BY DEF Next, vars, Tick, Send, TurnAway, PassThrough, PreviewCentrally, PreviewByHandler,
       Demand, Validate, StartHandler, AbandonAcquire, HandlerSucceeds, HandlerFails,
       HandlerPanics
  <2> QED
    BY <2>1 DEF Good
<1> QED
  BY <1>1, PTL DEF Spec, AcceptedInTime

\* Each high-risk operation was started at most once for each preview of it, and
\* without a preview only in the dry run of a tool that ignores the flag.
THEOREM OneRun == Spec => []OneRunPerPreview
<1>1. ASSUME IInv, NEW p \in HighRisk
      PROVE  Cardinality(CallsFor(accepted, p)) + Cardinality({t \in store : issued[t] = p})
                <= Cardinality({t \in Tokens : issued[t] = p})
  <2> DEFINE A == CallsFor(accepted, p)
             S == {t \in store : issued[t] = p}
             I == {t \in Tokens : issued[t] = p}
             f == [c \in A |-> shown[c]]
  <2>1. IsFiniteSet(I) /\ S \in SUBSET I /\ I \cap S = S
    <3>1. IsFiniteSet(Tokens) /\ I \in SUBSET Tokens
      BY PayloadAssumption
    <3> QED
      BY <1>1, <3>1, FS_Subset DEF IInv, TypeOK
  <2>2. f \in Injection(A, I \ S)
    <3>1. \A c \in A : f[c] \in I \ S
      BY <1>1 DEF IInv, AcceptedInv, CallsFor
    <3>2. \A c, d \in A : f[c] = f[d] => c = d
      BY <1>1 DEF IInv, AcceptedInv, CallsFor
    <3> QED
      BY <3>1, <3>2 DEF Injection, IsInjective
  <2> HIDE DEF A, S, I, f
  <2>3. IsFiniteSet(I \ S) /\ Cardinality(I \ S) = Cardinality(I) - Cardinality(S)
    BY <2>1, FS_Difference
  <2>4. Cardinality(A) <= Cardinality(I \ S) /\ IsFiniteSet(A)
    BY <2>2, <2>3, FS_Injection
  <2>5. Cardinality(A) + Cardinality(S) <= Cardinality(I)
    <3>1. IsFiniteSet(S)
      BY <2>1, FS_Subset
    <3>2. Cardinality(A) \in Nat /\ Cardinality(S) \in Nat /\ Cardinality(I) \in Nat
      BY <2>1, <2>4, <3>1, FS_CardinalityType
    <3> QED
      BY <2>3, <2>4, <3>2
  <2> QED
    BY <2>5 DEF A, S, I
<1>2. ASSUME IInv PROVE Acted \ Slips \subseteq accepted
  BY <1>2 DEF IInv, RanInv, Acted
<1>3. IInv => OneRunPerPreview
  BY <1>1, <1>2 DEF OneRunPerPreview
<1> QED
  BY <1>3, Invariance, PTL
-----------------------------------------------------------------------------
(***************************************************************************)
(* Confirmation implements Consent, step by step.                          *)
(***************************************************************************)
Made == {t \in Tokens : issued[t] # None}
Open == {<<t, issued[t]>> : t \in store}
Entitled == {<<c, asked[c]>> : c \in {d \in accepted : pc[d] = "acquiring"}}
Performed == {<<c, asked[c]>> : c \in Acted \ Slips}

\* The rail starts as Consent does.
LEMMA RailInit == Init => Rail!Init
<1> SUFFICES ASSUME Init PROVE Rail!Init
  OBVIOUS
<1>1. Made = {} /\ Open = {} /\ Entitled = {} /\ Performed = {}
  BY DEF Init, Made, Open, Entitled, Performed, Acted, Slips
<1> QED
  BY <1>1 DEF Made, Open, Entitled, Performed, Rail!Init

\* A step of the rail that Consent does not see.
LEMMA RailStutter ==
    ASSUME UNCHANGED <<Made, Open, Entitled, Performed>>
    PROVE  UNCHANGED Rail!vars
<1> QED
  BY DEF Rail!vars, Made, Open, Entitled, Performed

\* The issue of a token is an offer.
LEMMA RailOffer ==
    ASSUME IInv, NEW p \in HighRisk, Issue(p), UNCHANGED <<Entitled, Performed>>
    PROVE  Rail!Next
<1>1. PICK t \in Tokens : /\ issued[t] = None
                          /\ issued' = [issued EXCEPT ![t] = p]
                          /\ store' = store \cup {t}
  BY DEF Issue
<1>2. t \notin Made /\ Made' = Made \cup {t}
  BY <1>1, NoneAssumption, PayloadAssumption DEF Made, IInv, TypeOK
<1>3. Open' = Open \cup {<<t, p>>}
  <2>1. t \notin store
    BY <1>1 DEF IInv, TokenInv, TypeOK
  <2>2. \A u \in store : issued'[u] = issued[u]
    BY <1>1, <2>1 DEF IInv, TypeOK
  <2>3. issued'[t] = p
    BY <1>1 DEF IInv, TypeOK
  <2> QED
    BY <1>1, <2>2, <2>3 DEF Open
<1>4. Rail!Offer(t, p)
  BY <1>2, <1>3 DEF Rail!Offer, Made, Open, Entitled, Performed
<1> QED
  BY <1>4 DEF Rail!Next

\* Every step of the rail is a step of Consent or no step at all.
LEMMA RailStep == IInv /\ [Next]_vars => [Rail!Next]_(Rail!vars)
<1> SUFFICES ASSUME IInv, [Next]_vars PROVE [Rail!Next]_(Rail!vars)
  OBVIOUS
<1> USE PayloadAssumption, NoneAssumption DEF Goto, requestVars
<1>0. TypeOK /\ RequestInv /\ TokenInv /\ AcceptedInv /\ RanInv
  BY DEF IInv
<1>1. ASSUME UNCHANGED <<issued, store>> PROVE UNCHANGED <<Made, Open>>
  BY <1>1 DEF Made, Open
<1>2. ASSUME UNCHANGED <<accepted, ran, mode, asked>>,
             \A d \in accepted : pc[d] = "acquiring" <=> pc'[d] = "acquiring"
      PROVE  UNCHANGED <<Entitled, Performed>>
  BY <1>2 DEF Entitled, Performed, Acted, Slips
<1>3. ASSUME NEW c \in Calls, NEW p \in Payloads, NEW m \in {"bare", "preview", "confirm"},
             NEW t \in Tokens \cup {None}, Send(c, p, m, t) PROVE UNCHANGED Rail!vars
  <2>1. c \notin accepted /\ c \notin ran
    BY <1>0, <1>3 DEF Send, AcceptedInv, RanInv
  <2>2. /\ UNCHANGED <<accepted, ran>>
        /\ \A d \in accepted \cup ran :
              pc'[d] = pc[d] /\ asked'[d] = asked[d] /\ mode'[d] = mode[d]
    BY <1>0, <1>3, <2>1 DEF Send, TypeOK
  <2>3. UNCHANGED Entitled
    BY <2>2 DEF Entitled
  <2>4. UNCHANGED Performed
    <3>1. Acted' \ Slips' = Acted \ Slips
      BY <2>2 DEF Acted, Slips
    <3> QED
      BY <2>2, <3>1 DEF Performed, Acted
  <2> QED
    BY <1>1, <1>3, <2>3, <2>4, RailStutter DEF Send, tokenVars
<1>4. ASSUME NEW c \in Calls,
             \/ TurnAway(c) \/ PassThrough(c) \/ PreviewByHandler(c)
             \/ Demand(c) \/ HandlerFails(c) \/ HandlerPanics(c) PROVE UNCHANGED Rail!vars
  <2>1. /\ UNCHANGED <<issued, store, accepted, ran, mode, asked>>
        /\ pc[c] \in {"gate", "handler"} /\ \A d \in Calls : d # c => pc'[d] = pc[d]
    BY <1>0, <1>4 DEF TurnAway, PassThrough, PreviewByHandler, Demand, HandlerFails,
       HandlerPanics, tokenVars, TypeOK
  <2>2. c \in accepted => pc'[c] # "acquiring"
    BY <1>0, <1>4 DEF TurnAway, PassThrough, PreviewByHandler, Demand, HandlerFails,
       HandlerPanics, TypeOK, AcceptedInv
  <2> QED
    BY <1>0, <1>1, <1>2, <2>1, <2>2, RailStutter DEF TypeOK
<1>5. ASSUME NEW c \in Calls, PreviewCentrally(c) \/ HandlerSucceeds(c)
      PROVE  [Rail!Next]_(Rail!vars)
  <2>1. UNCHANGED <<Entitled, Performed>>
    BY <1>0, <1>2, <1>5 DEF PreviewCentrally, HandlerSucceeds, TypeOK
  <2>2. UNCHANGED <<issued, store>> \/ (asked[c] \in HighRisk /\ Issue(asked[c]))
    BY <1>5 DEF PreviewCentrally, HandlerSucceeds, IssueAndRecord, tokenVars
  <2> QED
    BY <1>1, <2>1, <2>2, RailStutter, RailOffer
<1>6. ASSUME NEW c \in Calls, StartHandler(c) PROVE [Rail!Next]_(Rail!vars)
  <2>1. /\ UNCHANGED <<issued, store, accepted, mode, asked>> /\ pc[c] = "acquiring"
        /\ pc' = [pc EXCEPT ![c] = "handler"]
        /\ ran' = IF Previews(c) THEN ran ELSE ran \cup {c}
    BY <1>6 DEF StartHandler, tokenVars
  <2>2. CASE c \notin accepted
    <3>1. UNCHANGED Entitled
      BY <1>0, <2>1, <2>2 DEF Entitled, TypeOK
    <3>2. Acted' \ Slips' = Acted \ Slips
      BY <1>0, <2>1, <2>2 DEF Acted, Slips, Previews, RanInv
    <3>3. UNCHANGED Performed
      BY <2>1, <3>2 DEF Performed
    <3> QED
      BY <1>1, <2>1, <3>1, <3>3, RailStutter
  <2>3. CASE c \in accepted
    <3>1. asked[c] \in HighRisk /\ mode[c] = "confirm"
      BY <1>0, <2>3 DEF AcceptedInv
    <3>2. <<c, asked[c]>> \in Entitled /\ Entitled' = Entitled \ {<<c, asked[c]>>}
      BY <1>0, <2>1, <2>3 DEF Entitled, TypeOK
    <3>3. Acted' \ Slips' = (Acted \ Slips) \cup {c}
      BY <2>1, <3>1 DEF Acted, Slips, Previews
    <3>4. Performed' = Performed \cup {<<c, asked[c]>>}
      BY <2>1, <3>3 DEF Performed
    <3>5. PICK p \in HighRisk : p = asked[c]
      BY <3>1
    <3>6. Rail!Perform(c, p)
      BY <1>1, <2>1, <3>2, <3>4, <3>5 DEF Rail!Perform, Made, Open, Entitled, Performed
    <3> QED
      BY <3>6 DEF Rail!Next
  <2> QED
    BY <2>2, <2>3
<1>7. ASSUME NEW c \in Calls, AbandonAcquire(c) PROVE [Rail!Next]_(Rail!vars)
  <2>1. /\ UNCHANGED <<issued, store, accepted, ran, mode, asked>> /\ pc[c] = "acquiring"
        /\ pc' = [pc EXCEPT ![c] = "done"]
    BY <1>7 DEF AbandonAcquire, tokenVars
  <2>2. UNCHANGED Performed
    BY <2>1 DEF Performed, Acted, Slips
  <2>3. CASE c \notin accepted
    <3>1. UNCHANGED Entitled
      BY <1>0, <2>1, <2>3 DEF Entitled, TypeOK
    <3> QED
      BY <1>1, <2>1, <2>2, <3>1, RailStutter
  <2>4. CASE c \in accepted
    <3>1. <<c, asked[c]>> \in Entitled /\ Entitled' = Entitled \ {<<c, asked[c]>>}
      BY <1>0, <2>1, <2>4 DEF Entitled, TypeOK
    <3>2. PICK p \in HighRisk : p = asked[c]
      BY <1>0, <2>4 DEF AcceptedInv
    <3>3. Rail!GiveUp(c, p)
      BY <1>1, <2>1, <2>2, <3>1, <3>2 DEF Rail!GiveUp, Made, Open, Entitled, Performed
    <3> QED
      BY <3>3 DEF Rail!Next
  <2> QED
    BY <2>3, <2>4
<1>8. ASSUME NEW c \in Calls, Validate(c) PROVE [Rail!Next]_(Rail!vars)
  <2> DEFINE t == shown[c]
  <2>1. /\ UNCHANGED <<issued, ran, mode, asked>> /\ pc[c] = "gate" /\ asked[c] \in HighRisk
        /\ store' = store \ {t} /\ t \in Tokens /\ c \notin accepted
    BY <1>0, <1>8 DEF Validate, RequestInv, AcceptedInv, TypeOK
  <2>2. UNCHANGED <<Made, Performed>>
    BY <2>1 DEF Made, Performed, Acted, Slips
  <2>3. CASE Good(t, asked[c])
    <3>1. /\ t \in store /\ issued[t] = asked[c] /\ accepted' = accepted \cup {c}
          /\ pc' = [pc EXCEPT ![c] = "acquiring"]
      BY <1>8, <2>3 DEF Validate, Good
    <3>2. <<t, asked[c]>> \in Open /\ Open' = Open \ {<<t, asked[c]>>}
      BY <2>1, <3>1 DEF Open
    <3>3. Entitled' = Entitled \cup {<<c, asked[c]>>}
      BY <1>0, <2>1, <3>1 DEF Entitled, TypeOK
    <3>4. PICK p \in HighRisk, u \in Tokens : p = asked[c] /\ u = t
      BY <2>1
    <3>5. Rail!Take(u, p, c)
      BY <2>2, <3>2, <3>3, <3>4 DEF Rail!Take, Made, Open, Entitled, Performed
    <3> QED
      BY <3>5 DEF Rail!Next
  <2>4. CASE ~Good(t, asked[c])
    <3>1. UNCHANGED Entitled
      BY <1>0, <1>8, <2>1, <2>4 DEF Validate, Entitled, TypeOK
    <3>2. CASE t \in store
      <4>1. <<t, issued[t]>> \in Open /\ Open' = Open \ {<<t, issued[t]>>}
        BY <2>1, <3>2 DEF Open
      <4>2. PICK p \in HighRisk, u \in Tokens : p = issued[t] /\ u = t
        BY <1>0, <2>1, <3>2 DEF TokenInv
      <4>3. Rail!Withdraw(u, p)
        BY <2>2, <3>1, <4>1, <4>2 DEF Rail!Withdraw, Made, Open, Entitled, Performed
      <4> QED
        BY <4>3 DEF Rail!Next
    <3>3. CASE t \notin store
      <4>1. UNCHANGED Open
        BY <2>1, <3>3 DEF Open
      <4> QED
        BY <2>2, <3>1, <4>1, RailStutter
    <3> QED
      BY <3>2, <3>3
  <2> QED
    BY <2>3, <2>4
<1>9. CASE Tick \/ UNCHANGED vars
  BY <1>1, <1>2, <1>9, RailStutter DEF Tick, vars, tokenVars
<1> QED
  BY <1>3, <1>4, <1>5, <1>6, <1>7, <1>8, <1>9 DEF Next

\* No high-risk operation runs but on an offer that was taken up once, for that
\* very operation; what a tool does that ignores dry_run is no run of the rail.
THEOREM Implementation == Spec => ImplementsConsent
<1> QED
  BY RailInit, RailStep, Invariance, PTL DEF Spec, ImplementsConsent, Rail!Spec
=============================================================================
