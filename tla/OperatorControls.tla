--------------------------- MODULE OperatorControls ---------------------------
(***************************************************************************)
(* The operator's sessions and the controls they reach: signing in and out,    *)
(* PAUSE and EMERGENCY STOP, the administrator's re-arm with its form, and     *)
(* closing an order.  A control that has a form waits for the form's body       *)
(* after it has authorised its caller, and a close waits again, for the         *)
(* trading lock and the venue; anything may happen meanwhile.                 *)
(*                                                                         *)
(* A cookie is its role and the second it was issued in.  What the kill        *)
(* switch and the closing do is in KillSwitch and OrderExecution; here a        *)
(* transition that lowers may fail to be recorded, and a close may be refused.  *)
(***************************************************************************)
EXTENDS Integers, FiniteSets

CONSTANTS
    Sessions, \* sessions, each with its nonce
    TTL,      \* _SESSION_TTL_SECONDS
    Items,    \* REARM_CHECKLIST
    TwoRoles, \* OPERATOR_ADMIN_TOKEN is configured
    LastTick, \* the clock's last value
    Nil

Configured == TTL \in Nat \ {0} /\ Cardinality(Items) > 0 /\ Nil \notin Int

VARIABLES
    now,     \* the clock
    cookie,  \* what each session's browser, or a copy of its cookie, presents
    revoked, \* app.state.revoked_sessions: when each would have expired, or Nil
    request, \* what each session's request is waiting to do
    switch,  \* the kill switch
    order,   \* the order to close: "unresolved" or "closed"
    result,  \* the last ControlResult of a control of the switch
    out      \* sessions signed out since the process started (history)

vars == <<now, cookie, revoked, request, switch, order, result, out>>

Severity == [running |-> 0, paused |-> 1, halted |-> 2]
NoResult == [changed |-> FALSE, previous |-> "running", state |-> "running"]

Init ==
    /\ now = 0 /\ cookie = [s \in Sessions |-> Nil] /\ revoked = [s \in Sessions |-> Nil]
    /\ request = [s \in Sessions |-> Nil]
    /\ switch \in DOMAIN Severity /\ order = "unresolved" /\ result = NoResult
    /\ out = {}

-----------------------------------------------------------------------------
(* Sessions                                                                 *)

\* With one token its holder is the administrator.
RoleForToken(token) == IF token = "admin" \/ ~ TwoRoles THEN "admin" ELSE "operator"

SignIn(s) ==
    /\ cookie[s] = Nil
    /\ \E token \in {"operator", "admin"} :
          cookie' = [cookie EXCEPT ![s] = [role |-> RoleForToken(token), issued |-> now]]
    /\ UNCHANGED <<now, revoked, request, switch, order, result, out>>

\* _session_from_cookie: known, signed and not too old.
Live(s) == cookie[s] # Nil /\ now - cookie[s].issued <= TTL

Authorized(s, role) ==
    /\ Live(s) /\ revoked[s] = Nil
    /\ role = "admin" => cookie[s].role = "admin"

\* Mutant: a nonce is forgotten in the second in which its session ends.
RevokeForgets(s) ==
    [t \in Sessions |-> IF t = s THEN cookie[s].issued + TTL
                        ELSE IF revoked[t] = Nil \/ revoked[t] <= now THEN Nil
                        ELSE revoked[t]]

\* Nonces whose sessions have expired are dropped, then this one is kept.
Revoke(s) ==
    [t \in Sessions |-> IF t = s THEN cookie[s].issued + TTL
                        ELSE IF revoked[t] = Nil \/ revoked[t] < now THEN Nil
                        ELSE revoked[t]]

\* Signing out works without a session too.
SignOut(s) ==
    /\ IF Live(s)
       THEN revoked' = Revoke(s) /\ out' = out \cup {s}
       ELSE UNCHANGED <<revoked, out>>
    /\ UNCHANGED <<now, cookie, request, switch, order, result>>

-----------------------------------------------------------------------------
(* Controls                                                                 *)

\* PAUSE and EMERGENCY STOP read no form: authorised and applied in one go.
Tighten(s, target) ==
    LET state == IF Severity[target] > Severity[switch] THEN target ELSE switch IN
    /\ Authorized(s, "operator")
    /\ switch' = state
    /\ result' = [changed |-> state # switch, previous |-> switch, state |-> state]
    /\ UNCHANGED <<now, cookie, revoked, request, order, out>>

Wait(s, what) == request' = [request EXCEPT ![s] = what]

\* rearm and close_order authorise their caller, then wait for the body.
Arrive(s, control) ==
    /\ request[s] = Nil /\ Authorized(s, "admin") /\ Wait(s, control)
    /\ UNCHANGED <<now, cookie, revoked, switch, order, result, out>>

\* parse_rearm: every item of the checklist, and a reference that is not blank or too
\* long.  Items it does not know are passed over.
Complete(ticked, reference) == Items \subseteq ticked /\ reference = "fits"

References == {"blank", "fits", "long"}

\* 422 with the review again, or 503 when the transition cannot be recorded.
RefuseRearm(s, ticked, reference, recorded) ==
    /\ request[s] = "rearm" /\ Wait(s, Nil)
    /\ ~ Complete(ticked, reference) \/ (switch # "running" /\ ~ recorded)
    /\ UNCHANGED <<now, cookie, revoked, switch, order, result, out>>

Rearm(s, ticked, reference) ==
    /\ request[s] = "rearm" /\ Wait(s, Nil) /\ Complete(ticked, reference)
    /\ switch' = "running"
    /\ result' = [changed |-> switch # "running", previous |-> switch, state |-> "running"]
    /\ UNCHANGED <<now, cookie, revoked, order, out>>

\* parse_close_order refuses a form without an order or a fitting reason; a process
\* without a broker and an order store closes nothing.
CloseRefused(s) ==
    /\ request[s] = "close" /\ Wait(s, Nil)
    /\ UNCHANGED <<now, cookie, revoked, switch, order, result, out>>

\* Under the trading lock.
CloseLocks(s) ==
    /\ request[s] = "close" /\ \A t \in Sessions : request[t] # "closing"
    /\ Wait(s, "closing")
    /\ UNCHANGED <<now, cookie, revoked, switch, order, result, out>>

\* OrderCloser.close: closed, or refused with the order as it is.  The alert follows
\* once the lock is free.
Closes(s) ==
    /\ request[s] = "closing" /\ Wait(s, "alert")
    /\ order' \in {order, "closed"}
    /\ UNCHANGED <<now, cookie, revoked, switch, result, out>>

\* Delivered or not, the answer is the closing's.
AlertClose(s) ==
    /\ request[s] = "alert" /\ Wait(s, Nil)
    /\ UNCHANGED <<now, cookie, revoked, switch, order, result, out>>

-----------------------------------------------------------------------------
\* The process starts again: the nonces and the requests are gone.
Restart ==
    /\ revoked' = [s \in Sessions |-> Nil] /\ request' = [s \in Sessions |-> Nil]
    /\ out' = {}
    /\ UNCHANGED <<now, cookie, switch, order, result>>

\* Trading halts by itself.
Trip ==
    /\ switch' = "halted"
    /\ UNCHANGED <<now, cookie, revoked, request, order, result, out>>

Tick ==
    /\ now < LastTick /\ now' = now + 1
    /\ UNCHANGED <<cookie, revoked, request, switch, order, result, out>>

Next ==
    \/ \E s \in Sessions :
          \/ SignIn(s) \/ SignOut(s)
          \/ \E target \in {"paused", "halted"} : Tighten(s, target)
          \/ \E control \in {"rearm", "close"} : Arrive(s, control)
          \/ \E ticked \in SUBSET Items, reference \in References :
                \/ Rearm(s, ticked, reference)
                \/ \E recorded \in BOOLEAN : RefuseRearm(s, ticked, reference, recorded)
          \/ CloseRefused(s) \/ CloseLocks(s) \/ Closes(s) \/ AlertClose(s)
    \/ Restart \/ Trip \/ Tick

Spec == Init /\ [][Next]_vars

-----------------------------------------------------------------------------
\* "Signing out ends the session on the server": as long as the process lives, no
\* request of a session that was signed out is authorised, whatever other sessions
\* sign out and however the forgotten nonces are dropped (_authorize, _revoke).
SignedOutStaysOut == \A s \in out : ~ Authorized(s, "operator")

\* The result page's "previous to state" is what the control did: it says that the
\* switch changed exactly when it did, and from where (ControlResult.change), also
\* when the switch moved while the control awaited its form.
ResultIsWhatHappened ==
    [][result' # result =>
          /\ result'.state = switch' /\ result'.previous = switch
          /\ result'.changed = (switch' # switch)]_vars
===============================================================================
