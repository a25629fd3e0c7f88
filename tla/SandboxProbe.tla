---------------------------- MODULE SandboxProbe ----------------------------
(***************************************************************************)
(* The owner-run check of the Gemini Sandbox: a fixed sequence of steps that   *)
(* places small orders under a request budget, and a cleanup that cancels what   *)
(* still rests, whatever stopped the steps.  A request may fail, an answer may   *)
(* be lost after the venue acted, and the venue may fill an order at any moment. *)
(***************************************************************************)
EXTENDS Integers, FiniteSets

CONSTANTS
    Budget, Reserve, \* REQUEST_BUDGET and CLEANUP_RESERVE
    CancelIsFinal    \* the venue answers a cancel once the order is canceled

Configured == Budget \in Nat \ {0} /\ Reserve \in 0 .. Budget - 1 /\ CancelIsFinal \in BOOLEAN

VARIABLES
    stage,    \* the step under way
    spent,    \* requests made
    venue,    \* of each order that can rest: where it is at the venue
    settled,  \* orders the adapter holds as filled, canceled or rejected
    resting,  \* SandboxRun.resting
    left,     \* orders cleanup reports
    results,  \* results of the steps so far
    lost      \* submissions whose answer was lost (history)

vars == <<stage, spent, venue, settled, resting, left, results, lost>>

\* The orders of the steps that submit a limit order; the others are immediate or cancel.
Placed == {"rest", "undersized", "partial"}
Steps == <<"funded", "details", "market", "rest", "recover", "cancel", "confirm", "undersized",
           "partial", "cancel_partial", "loop", "cleanup">>
AfterStep(s) == Steps[(CHOOSE i \in DOMAIN Steps : Steps[i] = s) + 1]
Results == {"pass", "differs", "refused", "skipped", "fail"}
AtVenue == {"live", "cancel_queued"}

Init ==
    /\ stage = "funded" /\ spent = 0 /\ venue = [o \in Placed |-> "none"]
    /\ settled = {} /\ resting = {} /\ left = {} /\ results = {} /\ lost = {}

-----------------------------------------------------------------------------
(* The venue.                                                             *)
Fills(o) ==
    /\ venue[o] \in AtVenue /\ venue' = [venue EXCEPT ![o] = "done"]
    /\ UNCHANGED <<stage, spent, settled, resting, left, results, lost>>

Arrives(o) ==
    /\ venue[o] = "underway" /\ venue' = [venue EXCEPT ![o] = "live"]
    /\ UNCHANGED <<stage, spent, settled, resting, left, results, lost>>

CancelOf(o) ==
    IF venue[o] \notin AtVenue THEN venue[o] ELSE IF CancelIsFinal THEN "done" ELSE "cancel_queued"

-----------------------------------------------------------------------------
(* BoundedTransport: cleanup may spend what the steps may not.               *)
Limit == IF stage = "cleanup" THEN Budget ELSE Budget - Reserve
Request == spent < Limit /\ spent' = spent + 1
Reports(result) == results' = results \cup {result}
Goes(s) == stage' = s

\* lifecycle: whatever a step raises is a failed step, and cleanup runs.
Stopped ==
    /\ stage \notin {"cleanup", "end"} /\ Goes("cleanup") /\ Reports("fail")
    /\ spent' \in {spent} \cup IF spent < Limit THEN {spent + 1} ELSE {}
    /\ UNCHANGED <<venue, settled, resting, left, lost>>

\* _funded_quote and _symbol_details: too few dollars, or a symbol that is not open.
NotReady ==
    /\ stage \in {"funded", "details"} /\ Request /\ Goes("cleanup") /\ Reports("fail")
    /\ UNCHANGED <<venue, settled, resting, left, lost>>

\* Steps that leave nothing at the venue: their orders are immediate or cancel.
Plain(step, result) ==
    /\ stage = step /\ Request /\ Goes(AfterStep(step)) /\ Reports(result)
    /\ UNCHANGED <<venue, settled, resting, left, lost>>

FundedQuote == Plain("funded", "pass")
SymbolDetails(result) == result \in {"pass", "differs"} /\ Plain("details", result)

\* The capped order fills, in part or not at all, or is rejected; then the balances are
\* compared with what the ledger expects.
CappedMarketOrder(result) ==
    result \in {"pass", "differs", "refused", "fail"} /\ Plain("market", result)

\* One pass of the trading loop, over the holdings that can be priced; too few closed
\* bars and the step is skipped.
TradingLoop(result) == result \in {"pass", "refused", "skipped"} /\ Plain("loop", result)

-----------------------------------------------------------------------------
(* SandboxRun.submit within a step.                                        *)
After(o) == IF o = "partial" THEN "cancel_partial" ELSE AfterStep(o)

Rests(o) ==
    /\ stage = o /\ Request /\ venue' = [venue EXCEPT ![o] = "live"]
    /\ resting' = resting \cup {o}
    /\ Goes(After(o)) /\ Reports(IF o = "undersized" THEN "fail" ELSE "pass")
    /\ UNCHANGED <<settled, left, lost>>

FillsAtOnce(o) ==
    /\ stage = o /\ Request /\ venue' = [venue EXCEPT ![o] = "done"]
    /\ settled' = settled \cup {o} /\ Goes(After(o)) /\ Reports("fail")
    /\ UNCHANGED <<resting, left, lost>>

\* The undersized order is meant to be rejected; elsewhere a rejection stops the steps.
Rejected(o) ==
    /\ stage = o /\ Request
    /\ IF o = "undersized" THEN Goes(After(o)) /\ Reports("pass")
       ELSE Goes("cleanup") /\ Reports("fail")
    /\ UNCHANGED <<venue, settled, resting, left, lost>>

AnswerLost(o) ==
    /\ stage = o /\ Request /\ venue' = [venue EXCEPT ![o] = "underway"]
    /\ lost' = lost \cup {o} /\ Goes("cleanup") /\ Reports("fail")
    /\ UNCHANGED <<settled, resting, left>>

\* _partial_fill: no ask that is small enough.
PartialSkipped ==
    /\ stage = "partial" /\ Request /\ Goes("loop") /\ Reports("skipped")
    /\ UNCHANGED <<venue, settled, resting, left, lost>>

-----------------------------------------------------------------------------
(* _resting_limit_and_recovery                                             *)
\* A new adapter holds nothing.
Recover ==
    /\ stage = "recover" /\ Request
    /\ settled' = IF venue["rest"] = "live" THEN {} ELSE {"rest"}
    /\ Reports(IF venue["rest"] = "live" THEN "pass" ELSE "fail") /\ Goes("cancel")
    /\ UNCHANGED <<venue, resting, left, lost>>

CancelRest ==
    /\ stage = "cancel" /\ Request /\ venue' = [venue EXCEPT !["rest"] = CancelOf("rest")]
    /\ settled' = settled \cup {"rest"} /\ Goes("confirm")
    /\ UNCHANGED <<resting, left, results, lost>>

\* Another new adapter reads the order: filled, canceled or still live.
ConfirmRest(canceled) ==
    /\ stage = "confirm" /\ Request /\ (canceled => venue["rest"] = "done")
    /\ settled' = IF venue["rest"] = "done" THEN {"rest"} ELSE {}
    /\ resting' = IF canceled THEN resting \ {"rest"} ELSE resting
    /\ Reports(IF canceled THEN "pass" ELSE "fail") /\ Goes("undersized")
    /\ UNCHANGED <<venue, left, lost>>

-----------------------------------------------------------------------------
(* The end of _partial_fill: the adapter holds a canceled order as canceled, so  *)
(* the read after the cancel does not ask the venue.                          *)
CancelPartial ==
    /\ stage = "cancel_partial" /\ "partial" \in resting /\ Request
    /\ venue' = [venue EXCEPT !["partial"] = CancelOf("partial")]
    /\ settled' = settled \cup {"partial"} /\ resting' = resting \ {"partial"} /\ Goes("loop")
    /\ UNCHANGED <<left, results, lost>>

NothingPartial ==
    /\ stage = "cancel_partial" /\ "partial" \notin resting /\ Goes("loop")
    /\ UNCHANGED <<spent, venue, settled, resting, left, results, lost>>

-----------------------------------------------------------------------------
(* _cancel_leftovers, through a new adapter; resting holds the keys not yet done.  *)
CleansSettled(o) ==
    /\ stage = "cleanup" /\ o \in resting /\ Request /\ venue[o] \notin AtVenue
    /\ resting' = resting \ {o}
    /\ UNCHANGED <<stage, venue, settled, left, results, lost>>

CleansLive(o) ==
    /\ stage = "cleanup" /\ o \in resting /\ venue[o] \in AtVenue
    /\ spent + 1 < Limit /\ spent' = spent + 2
    /\ venue' = [venue EXCEPT ![o] = CancelOf(o)] /\ resting' = resting \ {o}
    /\ UNCHANGED <<stage, settled, left, results, lost>>

\* Mutant: an order whose cleanup fails is taken off the list.
CleanFailsQuietly(o) ==
    /\ stage = "cleanup" /\ o \in resting /\ resting' = resting \ {o}
    /\ venue' \in {venue, [venue EXCEPT ![o] = CancelOf(o)]}
    /\ spent' \in {n \in {spent, spent + 1, spent + 2} : n <= Limit}
    /\ UNCHANGED <<stage, settled, left, results, lost>>

\* The lookup or the cancel fails, or the budget is spent; the cancel may have taken.
CleanFails(o) ==
    /\ stage = "cleanup" /\ o \in resting /\ resting' = resting \ {o} /\ left' = left \cup {o}
    /\ venue' \in {venue, [venue EXCEPT ![o] = CancelOf(o)]}
    /\ spent' \in {n \in {spent, spent + 1, spent + 2} : n <= Limit}
    /\ UNCHANGED <<stage, settled, results, lost>>

Ends ==
    /\ stage = "cleanup" /\ resting = {} /\ Goes("end")
    /\ Reports(IF left = {} THEN "pass" ELSE "fail")
    /\ UNCHANGED <<spent, venue, settled, resting, left, lost>>

Next ==
    \/ Stopped \/ NotReady \/ FundedQuote \/ Recover \/ CancelRest \/ CancelPartial \/ NothingPartial
    \/ PartialSkipped \/ Ends
    \/ \E canceled \in BOOLEAN : ConfirmRest(canceled)
    \/ \E result \in Results :
          SymbolDetails(result) \/ CappedMarketOrder(result) \/ TradingLoop(result)
    \/ \E o \in Placed :
          \/ Fills(o) \/ Arrives(o) \/ Rests(o) \/ FillsAtOnce(o) \/ Rejected(o) \/ AnswerLost(o)
          \/ CleansSettled(o) \/ CleansLive(o) \/ CleanFails(o)

Spec == Init /\ [][Next]_vars

-----------------------------------------------------------------------------
Outcome == IF results \subseteq {"pass"} THEN "pass" ELSE "review"

\* Every variable holds a value of its kind.
TypeOK ==
    /\ spent \in 0 .. Budget /\ resting \cup left \cup settled \cup lost \subseteq Placed
    /\ \A o \in Placed : venue[o] \in AtVenue \cup {"none", "underway", "done"}
    /\ results \subseteq Results

\* What the check leaves at the venue is what its cleanup reports, or an order whose
\* answer was lost ("any order still resting at the end is canceled",
\* gemini_sandbox_lifecycle.py:6), and a run that passes leaves nothing.
LeavesNothing ==
    stage = "end" =>
        /\ \A o \in Placed : venue[o] \in AtVenue => o \in left \/ o \in lost
        /\ Outcome = "pass" => \A o \in Placed : venue[o] \in {"none", "done"}

\* Without the exception for a lost answer, as the sentence says.
LeavesNothingAtAll ==
    stage = "end" => \A o \in Placed : venue[o] \in AtVenue => o \in left
=============================================================================
