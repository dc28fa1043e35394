---------------------------- MODULE Confirmation ----------------------------
(***************************************************************************)
(* The confirmation rail of callTool (internal/mcp/tools.go) over the      *)
(* token store of internal/safety/token.go: a high-risk tool runs only     *)
(* with a confirm_token, which an earlier dry_run of the same call issued, *)
(* is good for one use, and expires.  The family cap the call then waits   *)
(* for, the timeout, the handler and the audit record are part of it: the  *)
(* token is spent before them.                                             *)
(*                                                                         *)
(* A payload stands for safety.Payload: tool, workspace, risk class and    *)
(* the hash of the arguments without confirm_token and dry_run.  Two       *)
(* argument maps with one hash are one payload.  Whether a payload needs a *)
(* confirmation and which family its tool is of are two classifications: a *)
(* raw DELETE is a write that needs one.  callTool leaves a dry_run to the *)
(* handler unless the preview is its own; that a handler honours it is a   *)
(* third classification, and clockify_users_invite does not.  randomToken  *)
(* never gives the same token twice.                                       *)
(***************************************************************************)
EXTENDS Naturals, FiniteSets

CONSTANTS
    Calls,     \* tools/call requests, each a goroutine
    Payloads,  \* what is called, as confirmationPayload sees it
    HighRisk,  \* payloads whose RequirementForRisk asks for confirmation
    FamilyOf,  \* risk family of the tool each payload names
    Central,   \* high-risk payloads of tools with CentralDryRunPreview
    Heedless,  \* those of tools that take a dry_run and act: UsersInvite
    Tokens,    \* confirmation tokens
    TTL,       \* TokenStore.ttl
    MaxTime,   \* bound of the clock
    WriteCap, HighCap,  \* newFamilyLimiter: 2 and 1
    None

ASSUME PayloadAssumption ==
    /\ Central \subseteq HighRisk /\ HighRisk \subseteq Payloads
    /\ Heedless \subseteq HighRisk \ Central
    /\ FamilyOf \in [Payloads -> {"read", "write", "high"}]
    /\ IsFiniteSet(Calls) /\ IsFiniteSet(Tokens)
ASSUME NoneAssumption == None \notin Tokens /\ None \notin Payloads /\ None \notin Calls
ASSUME TimeAssumption == TTL \in Nat \ {0} /\ MaxTime \in Nat
ASSUME CapAssumption == WriteCap \in Nat \ {0} /\ HighCap \in Nat \ {0}

VARIABLES
    now,        \* TokenStore.now
    issued,     \* what each token was issued for, None if it never was
    expiresAt,  \* issuedToken.expiresAt of each token
    store,      \* TokenStore.tokens: the tokens that can still be spent
    pc,         \* where each call is in callTool
    mode,       \* "bare", "preview" (dry_run) or "confirm" (confirm_token)
    asked,      \* the payload of each call
    shown,      \* the token each call carries, None if it carries none
    accepted,   \* calls whose token Validate accepted (history)
    ran,        \* calls whose handler was started for real (history)
    audit       \* results of the audit records, by call

vars == <<now, issued, expiresAt, store, pc, mode, asked, shown, accepted, ran, audit>>
tokenVars == <<issued, expiresAt, store>>
requestVars == <<mode, asked, shown>>

Results == {"success", "error", "rejected"}

TypeOK ==
    /\ now \in 0..MaxTime
    /\ issued \in [Tokens -> Payloads \cup {None}]
    /\ expiresAt \in [Tokens -> 0..(MaxTime + TTL)]
    /\ store \subseteq Tokens
    /\ pc \in [Calls -> {"unsent", "gate", "acquiring", "handler", "done"}]
    /\ mode \in [Calls -> {"bare", "preview", "confirm"}]
    /\ asked \in [Calls -> Payloads \cup {None}]
    /\ shown \in [Calls -> Tokens \cup {None}]
    /\ accepted \subseteq Calls
    /\ ran \subseteq Calls
    /\ audit \in [Calls -> SUBSET Results]

Init ==
    /\ now = 0
    /\ issued = [t \in Tokens |-> None]
    /\ expiresAt = [t \in Tokens |-> 0]
    /\ store = {}
    /\ pc = [c \in Calls |-> "unsent"]
    /\ mode = [c \in Calls |-> "bare"]
    /\ asked = [c \in Calls |-> None]
    /\ shown = [c \in Calls |-> None]
    /\ accepted = {} /\ ran = {}
    /\ audit = [c \in Calls |-> {}]
-----------------------------------------------------------------------------
Goto(c, where) == pc' = [pc EXCEPT ![c] = where]
Record(c, result) == audit' = [audit EXCEPT ![c] = @ \cup {result}]

\* A client sends any call, with any token it may have seen or made up.
Send(c, p, m, t) ==
    /\ pc[c] = "unsent"
    /\ (m = "confirm") = (t # None)
    /\ Goto(c, "gate")
    /\ mode' = [mode EXCEPT ![c] = m]
    /\ asked' = [asked EXCEPT ![c] = p]
    /\ shown' = [shown EXCEPT ![c] = t]
    /\ UNCHANGED <<now, tokenVars, accepted, ran, audit>>

\* Unknown or hidden tool, rate limit, invalid arguments: nothing is recorded
\* and no token is looked at.
TurnAway(c) ==
    /\ pc[c] = "gate"
    /\ Goto(c, "done")
    /\ UNCHANGED <<now, tokenVars, requestVars, accepted, ran, audit>>

\* TokenStore.Issue adding the lifetime twice.
IssueTwiceTTL(p) ==
    \E t \in Tokens :
        /\ issued[t] = None
        /\ issued' = [issued EXCEPT ![t] = p]
        /\ expiresAt' = [expiresAt EXCEPT ![t] = now + 2 * TTL]
        /\ store' = store \cup {t}

\* TokenStore.Issue: a token never seen before, for this payload.
Issue(p) ==
    \E t \in Tokens :
        /\ issued[t] = None
        /\ issued' = [issued EXCEPT ![t] = p]
        /\ expiresAt' = [expiresAt EXCEPT ![t] = now + TTL]
        /\ store' = store \cup {t}

\* issueConfirmationTokenForResult and its audit record; no randomness, no token.
IssueAndRecord(c) ==
    \/ Issue(asked[c]) /\ Record(c, "success")
    \/ UNCHANGED tokenVars /\ Record(c, "error")

\* No confirmation is asked for.
PassThrough(c) ==
    /\ pc[c] = "gate" /\ asked[c] \notin HighRisk
    /\ Goto(c, "acquiring")
    /\ UNCHANGED <<now, tokenVars, requestVars, accepted, ran, audit>>

\* dry_run of a tool with CentralDryRunPreview: the handler is not called.
PreviewCentrally(c) ==
    /\ pc[c] = "gate" /\ mode[c] = "preview" /\ asked[c] \in Central
    /\ IssueAndRecord(c)
    /\ Goto(c, "done")
    /\ UNCHANGED <<now, requestVars, accepted, ran>>

\* dry_run of another tool: the preview is left to the handler.
PreviewByHandler(c) ==
    /\ pc[c] = "gate" /\ mode[c] = "preview" /\ asked[c] \in HighRisk \ Central
    /\ Goto(c, "acquiring")
    /\ UNCHANGED <<now, tokenVars, requestVars, accepted, ran, audit>>

\* Neither dry_run nor confirm_token: confirmation_required.
Demand(c) ==
    /\ pc[c] = "gate" /\ mode[c] = "bare" /\ asked[c] \in HighRisk
    /\ Record(c, "rejected")
    /\ Goto(c, "done")
    /\ UNCHANGED <<now, tokenVars, requestVars, accepted, ran>>

\* TokenStore.Validate's tests, with the expiry one off.
GoodLate(t, p) == t \in store /\ now <= expiresAt[t] /\ issued[t] = p
\* TokenStore.Validate's tests without the payload's.
GoodForAny(t, p) == t \in store /\ now < expiresAt[t]
\* TokenStore.Validate's tests.
Good(t, p) == t \in store /\ now < expiresAt[t] /\ issued[t] = p

\* Validate reading the token without taking it out of the map.
ValidateKeeping(c) ==
    /\ pc[c] = "gate" /\ mode[c] = "confirm" /\ asked[c] \in HighRisk
    /\ IF Good(shown[c], asked[c])
         THEN /\ accepted' = accepted \cup {c}
              /\ Goto(c, "acquiring")
              /\ UNCHANGED audit
         ELSE /\ Record(c, "rejected")
              /\ Goto(c, "done")
              /\ UNCHANGED accepted
    /\ UNCHANGED <<now, tokenVars, requestVars, ran>>

\* TokenStore.Validate, called by callTool: the token is out of the map at once,
\* whatever the verdict.
Validate(c) ==
    /\ pc[c] = "gate" /\ mode[c] = "confirm" /\ asked[c] \in HighRisk
    /\ store' = store \ {shown[c]}
    /\ IF Good(shown[c], asked[c])
         THEN /\ accepted' = accepted \cup {c}
              /\ Goto(c, "acquiring")
              /\ UNCHANGED audit
         ELSE /\ Record(c, "rejected")
              /\ Goto(c, "done")
              /\ UNCHANGED accepted
    /\ UNCHANGED <<now, issued, expiresAt, requestVars, ran>>

\* familyLimiter has room for a call: previews and calls that needed no
\* confirmation take slots of their family too, reads take none.
FamilyFree(c) ==
    LET running(f) == {d \in Calls : pc[d] = "handler" /\ FamilyOf[asked[d]] = f}
    IN  CASE FamilyOf[asked[c]] = "write" -> Cardinality(running("write")) < WriteCap
          [] FamilyOf[asked[c]] = "high"  -> Cardinality(running("high")) < HighCap
          [] OTHER -> TRUE

\* No handler honours dry_run.
StartHandlerForReal(c) ==
    /\ pc[c] = "acquiring"
    /\ FamilyFree(c)
    /\ Goto(c, "handler")
    /\ ran' = ran \cup {c}
    /\ UNCHANGED <<now, tokenVars, requestVars, accepted, audit>>

\* Whether a handler makes a preview instead of acting.
Previews(c) == mode[c] = "preview" /\ asked[c] \notin Heedless

\* familyLimiter.acquire gave a slot and the handler is called.
StartHandler(c) ==
    /\ pc[c] = "acquiring"
    /\ FamilyFree(c)
    /\ Goto(c, "handler")
    /\ ran' = IF Previews(c) THEN ran ELSE ran \cup {c}
    /\ UNCHANGED <<now, tokenVars, requestVars, accepted, audit>>

\* familyLimiter.acquire gave up: timeout or cancellation.  No record is written.
AbandonAcquire(c) ==
    /\ pc[c] = "acquiring" /\ FamilyOf[asked[c]] # "read"
    /\ Goto(c, "done")
    /\ UNCHANGED <<now, tokenVars, requestVars, accepted, ran, audit>>

\* The handler succeeds.  A dry run of a high-risk call is given a token, also
\* when it has acted.
HandlerSucceeds(c) ==
    /\ pc[c] = "handler"
    /\ IF mode[c] = "preview" /\ asked[c] \in HighRisk
         THEN IssueAndRecord(c)
         ELSE Record(c, "success") /\ UNCHANGED tokenVars
    /\ Goto(c, "done")
    /\ UNCHANGED <<now, requestVars, accepted, ran>>

\* The handler fails: a preview that failed issues nothing.
HandlerFails(c) ==
    /\ pc[c] = "handler"
    /\ Record(c, "error")
    /\ Goto(c, "done")
    /\ UNCHANGED <<now, tokenVars, requestVars, accepted, ran>>

\* The handler panics past callTool: no record is written.
HandlerPanics(c) ==
    /\ pc[c] = "handler"
    /\ Goto(c, "done")
    /\ UNCHANGED <<now, tokenVars, requestVars, accepted, ran, audit>>

Tick ==
    /\ now < MaxTime
    /\ now' = now + 1
    /\ UNCHANGED <<tokenVars, pc, requestVars, accepted, ran, audit>>

Next ==
    \/ Tick
    \/ \E c \in Calls :
        \/ \E p \in Payloads, m \in {"bare", "preview", "confirm"},
              t \in Tokens \cup {None} : Send(c, p, m, t)
        \/ TurnAway(c) \/ PassThrough(c) \/ PreviewCentrally(c) \/ PreviewByHandler(c)
        \/ Demand(c) \/ Validate(c)
        \/ StartHandler(c) \/ AbandonAcquire(c)
        \/ HandlerSucceeds(c) \/ HandlerFails(c) \/ HandlerPanics(c)

Spec == Init /\ [][Next]_vars
-----------------------------------------------------------------------------
(***************************************************************************)
(* Properties.                                                             *)
(***************************************************************************)
Acted == {c \in ran : asked[c] \in HighRisk}
\* Dry runs that were run for real: no confirmation is asked of them.
Slips == {c \in Acted : mode[c] = "preview" /\ asked[c] \in Heedless}
CallsFor(S, p) == {c \in S : asked[c] = p}

\* However calls race, a high-risk operation is started at most once for each
\* preview of it: the tokens issued for a payload cover the calls accepted for
\* it and those that can still be spent, and what has run was accepted.  Only
\* the dry run of a tool that ignores the flag gets past the rail.
OneRunPerPreview ==
    /\ Acted \ Slips \subseteq accepted
    /\ \A p \in HighRisk :
        Cardinality(CallsFor(accepted, p)) + Cardinality({t \in store : issued[t] = p})
            <= Cardinality({t \in Tokens : issued[t] = p})

\* No two calls are accepted on one token, and the token is spent.
TokenSpentOnce ==
    \A c \in accepted :
        /\ shown[c] \in Tokens \ store
        /\ \A d \in accepted : shown[d] = shown[c] => d = c

\* A token is spent on nothing but the call it was issued for, in its lifetime.
AcceptedInTime ==
    [][\A c \in accepted' \ accepted :
            issued[shown[c]] = asked[c] /\ now < expiresAt[shown[c]]]_vars

\* Every confirmed call leaves a record once it has ended: the mode "all"
\* "records every tool call" (AuditLogMode's comment).
ConfirmedIsAudited ==
    \A c \in accepted : pc[c] = "done" => audit[c] # {}

\* Confirmation implements Consent: a token is an offer, an accepted call is
\* entitled to its run.
Rail == INSTANCE Consent WITH
    Names <- Tokens, Operations <- HighRisk, Takers <- Calls,
    made      <- {t \in Tokens : issued[t] # None},
    open      <- {<<t, issued[t]>> : t \in store},
    entitled  <- {<<c, asked[c]>> : c \in {d \in accepted : pc[d] = "acquiring"}},
    performed <- {<<c, asked[c]>> : c \in Acted \ Slips}

\* No high-risk operation runs but on an offer taken up once, for that
\* operation, in every interleaving of previews and confirmations, the slips
\* of a tool that ignores dry_run aside.
ImplementsConsent == Rail!Spec
=============================================================================
