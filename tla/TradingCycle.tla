---------------------------- MODULE TradingCycle ----------------------------
(***************************************************************************)
(* One decision loop per closed candle, the kill switch it obeys, and what  *)
(* runs beside it: the operator's controls, which do not wait for the       *)
(* trading lock, the reconciler and the administrator's closing, which do,  *)
(* startup recovery, and the death of the process.                         *)
(*                                                                         *)
(* The order path is OrderExecution; here an order is only unresolved or    *)
(* not (the loop posts none while one is in doubt: PostsWithoutDoubt).  The   *)
(* switch survives a restart (StopsHold in KillSwitch).                     *)
(***************************************************************************)
EXTENDS Integers

CONSTANTS
    PendingTimeout,         \* clock ticks an order may stay unresolved
    NeverSentHaltThreshold  \* orders in a row closed as never sent

ASSUME TimeoutAssumption == PendingTimeout \in Nat \ {0}
ASSUME ThresholdAssumption == NeverSentHaltThreshold \in Nat \ {0}

VARIABLES
    switch,  \* KillSwitch.state
    pc,      \* where the loop (or startup recovery) awaits
    pending, \* an order row is pending_submit or unknown
    since,   \* ticks since _unresolved_since, or -1 when it is None
    never,   \* consecutive_never_sent
    late     \* orders sent to the venue since the switch last left running
             \* (history; counted up to 2)

vars == <<switch, pc, pending, since, never, late>>

States == {"running", "paused", "halted"}
Severity == [s \in States |-> IF s = "running" THEN 0 ELSE IF s = "paused" THEN 1 ELSE 2]
Labels == {"down", "recovery", "idle", "recover", "strategy", "inputs", "lookup", "send"}

Init ==
    /\ switch \in States /\ pc = "down" /\ pending \in BOOLEAN
    /\ since = -1 /\ never = 0 /\ late = 0

-----------------------------------------------------------------------------
\* The switch rises, and the orders sent after that are counted.
RaiseTo(s) ==
    /\ switch' = IF Severity[s] > Severity[switch] THEN s ELSE switch
    /\ late' = IF switch = "running" THEN 0 ELSE late

\* _halt: the loop trips the switch and ends.
Halt == RaiseTo("halted") /\ pc' = "idle"
GoTo(label) == pc' = label /\ UNCHANGED <<switch, late>>

\* POST pause and emergency-stop; POST rearm by an administrator.  None of
\* them takes the trading lock.
Tighten(s) ==
    /\ pc # "down"
    /\ RaiseTo(s)
    /\ UNCHANGED <<pc, pending, since, never>>

Rearm ==
    /\ pc # "down" /\ switch # "running"
    /\ switch' = "running" /\ late' = 0
    /\ UNCHANGED <<pc, pending, since, never>>

-----------------------------------------------------------------------------
(* Startup: recovery runs before the loop exists.                           *)
Boot ==
    /\ pc = "down" /\ GoTo("recovery")
    /\ UNCHANGED <<pending, since, never>>

\* Nothing was pending, or all of it was found, and the portfolio agrees.
RecoveryClean ==
    /\ pc = "recovery" /\ pending' = FALSE
    /\ GoTo("idle") /\ UNCHANGED <<since, never>>

\* An order left unresolved, a failed read or a divergence.
RecoveryHalts ==
    /\ pc = "recovery" /\ pending' \in {pending, FALSE}
    /\ Halt /\ UNCHANGED <<since, never>>

-----------------------------------------------------------------------------
(* TradingCycle._run                                                        *)

\* The flags are read first; then the pending orders.
CycleStart ==
    /\ pc = "idle"
    /\ \E flag \in States : RaiseTo(flag)
    /\ pc' = IF pending THEN "recover" ELSE "strategy"
    /\ since' = IF pending THEN since ELSE -1
    /\ UNCHANGED <<pending, never>>

PendingUnreadable ==
    /\ pc = "idle" /\ Halt
    /\ UNCHANGED <<pending, since, never>>

RecoverResolves ==
    /\ pc = "recover" /\ pending' = FALSE /\ since' = -1
    /\ GoTo("strategy") /\ UNCHANGED never

\* Mutant: every failed attempt starts the clock again.
UnresolvedRestarts ==
    /\ pc = "recover" /\ since' = 0
    /\ IF since >= PendingTimeout THEN Halt ELSE GoTo("idle")
    /\ UNCHANGED <<pending, never>>

\* Mutant: the loop goes on with the order unresolved until the timeout.
UnresolvedGoesOn ==
    /\ pc = "recover"
    /\ since' = IF since = -1 THEN 0 ELSE since
    /\ IF since >= PendingTimeout THEN Halt ELSE GoTo("strategy")
    /\ UNCHANGED <<pending, never>>

\* _unresolved: the venue does not know the order or could not be asked.
Unresolved ==
    /\ pc = "recover"
    /\ since' = IF since = -1 THEN 0 ELSE since
    /\ IF since >= PendingTimeout THEN Halt ELSE GoTo("idle")
    /\ UNCHANGED <<pending, never>>

\* A recovered order, a signal, a decision or the order's row cannot be
\* written, or the loop fails in a way nobody expected.
CycleHalts ==
    /\ pc \in {"recover", "strategy", "inputs"}
    /\ Halt /\ UNCHANGED <<pending, since, never>>

NoSignal ==
    /\ pc = "strategy" /\ GoTo("idle")
    /\ UNCHANGED <<pending, since, never>>

SignalRecorded ==
    /\ pc = "strategy" /\ GoTo("inputs")
    /\ UNCHANGED <<pending, since, never>>

Refused ==
    /\ pc = "inputs" /\ GoTo("idle")
    /\ UNCHANGED <<pending, since, never>>

\* Mutant: the risk gate does not look at the switch.
ApprovedAnyway ==
    /\ pc = "inputs"
    /\ pending' = TRUE /\ GoTo("lookup")
    /\ UNCHANGED <<since, never>>

\* All gates pass.  The switch is read again after the broker reads, and from
\* there to the venue lookup nothing is awaited: the row is reserved.
Approved ==
    /\ pc = "inputs" /\ switch = "running"
    /\ pending' = TRUE /\ GoTo("lookup")
    /\ UNCHANGED <<since, never>>

\* The signal's order is already live or settled: it is returned as it is.
AlreadySettled ==
    /\ pc = "inputs" /\ switch = "running" /\ GoTo("idle")
    /\ UNCHANGED <<pending, since, never>>

-----------------------------------------------------------------------------
(* ExecutionEngine.submit, as the loop sees it.                             *)

\* Mutant: the streak starts over without a halt.
NeverSentNoHalt ==
    /\ pc = "lookup" /\ pending' = FALSE
    /\ never' = (never + 1) % NeverSentHaltThreshold
    /\ GoTo("idle") /\ UNCHANGED since

\* The lookup fails and the new row is closed as never sent.
NeverSent ==
    /\ pc = "lookup" /\ pending' = FALSE
    /\ IF never + 1 >= NeverSentHaltThreshold
       THEN never' = 0 /\ Halt
       ELSE never' = never + 1 /\ GoTo("idle")
    /\ UNCHANGED since

\* The lookup fails and the row cannot be closed.
NeverSentUnclosed ==
    /\ pc = "lookup" /\ Halt
    /\ UNCHANGED <<pending, since, never>>

\* The venue answers: it has the order, which is recorded next, or it does
\* not, and the order is sent, whatever the switch says by now.
LookupFound ==
    /\ pc = "lookup" /\ never' = 0 /\ GoTo("send")
    /\ UNCHANGED <<pending, since>>

LookupNotFound ==
    /\ pc = "lookup" /\ never' = 0 /\ pc' = "send"
    /\ late' = IF switch = "running" \/ late = 2 THEN late ELSE late + 1
    /\ UNCHANGED <<switch, pending, since>>

\* The outcome is recorded, or left unresolved (a timeout, another broker
\* failure, fills that are not readable yet); a failed write halts.
Submitted ==
    /\ pc = "send" /\ pending' \in BOOLEAN
    /\ GoTo("idle") /\ UNCHANGED <<since, never>>

SubmitUnsaved ==
    /\ pc = "send" /\ Halt
    /\ UNCHANGED <<pending, since, never>>

-----------------------------------------------------------------------------
(* Beside the loop.                                                         *)

\* Under the lock: the reconciler's refresh or the administrator's closing
\* resolves the order.
ResolvedElsewhere ==
    /\ pc = "idle" /\ pending /\ pending' = FALSE
    /\ UNCHANGED <<switch, pc, since, never, late>>

\* A divergence, or a reconciliation that could not be done.
ReconcilerTrips ==
    /\ pc = "idle" /\ RaiseTo("halted")
    /\ UNCHANGED <<pc, pending, since, never>>

Tick ==
    /\ since \in 0 .. PendingTimeout - 1 /\ since' = since + 1
    /\ UNCHANGED <<switch, pc, pending, never, late>>

\* The process dies, or is cancelled at shutdown; the switch and the rows stay.
Crash ==
    /\ pc # "down" /\ pc' = "down"
    /\ since' = -1 /\ never' = 0
    /\ UNCHANGED <<switch, pending, late>>

-----------------------------------------------------------------------------
Recovery == RecoveryClean \/ RecoveryHalts
Cycle ==
    \/ RecoverResolves \/ Unresolved \/ CycleHalts
    \/ NoSignal \/ SignalRecorded \/ Refused \/ Approved \/ AlreadySettled
    \/ NeverSent \/ NeverSentUnclosed \/ LookupFound \/ LookupNotFound
    \/ Submitted \/ SubmitUnsaved

Next ==
    \/ \E s \in {"paused", "halted"} : Tighten(s)
    \/ Rearm \/ Boot \/ Recovery \/ CycleStart \/ PendingUnreadable \/ Cycle
    \/ ResolvedElsewhere \/ ReconcilerTrips \/ Tick \/ Crash

Spec == Init /\ [][Next]_vars

\* The process is started again and does not die in every startup recovery,
\* every await ends, candles keep arriving and the clock runs.
FairSpec ==
    Spec /\ WF_vars(Boot) /\ SF_vars(Recovery) /\ SF_vars(CycleStart)
         /\ WF_vars(Cycle) /\ WF_vars(Tick)

-----------------------------------------------------------------------------
\* Every variable holds a value of its kind.
TypeOK ==
    /\ switch \in States /\ pc \in Labels /\ pending \in BOOLEAN
    /\ since \in -1 .. PendingTimeout
    /\ never \in 0 .. NeverSentHaltThreshold - 1 /\ late \in 0..2

\* After a stop at most one more order reaches the venue: the one the loop had
\* approved while the switch was still running.
OneLateOrder == late <= 1

\* The loop gets past recovery only with nothing in doubt, so a new order is
\* never decided while the outcome of another is unknown.
DecidesWithoutDoubt == pc \in {"strategy", "inputs"} => ~pending

\* While a lookup that keeps failing closes orders as never sent, the switch
\* is halted before the count starts over.
StreakEndsInHalt ==
    [][never' < never => \/ pc = "lookup" /\ (switch' = "halted" \/ pc' = "send")
                         \/ pc' = "down"]_vars

\* No order stays unresolved for ever in a system that runs on: it is
\* resolved, or the switch halts for the operator, whether the process keeps
\* running, restarts, or is re-armed too early.
ResolvedOrHalted == pending ~> (~pending \/ switch = "halted")
=============================================================================
