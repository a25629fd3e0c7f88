------------------------- MODULE TradingCycleProofs -------------------------
(***************************************************************************)
(* The safety of the decision loop for every timeout and every halt         *)
(* threshold, with the operator's controls at every await.                  *)
(***************************************************************************)
EXTENDS TradingCycle, TLAPS

\* An order that awaits its lookup was approved while the switch was running: no
\* order has been sent since the stop, if there was one.  OneLateOrder is not
\* inductive without it, because the lookup sends whatever the switch says.
ApprovedBefore == pc = "lookup" /\ switch # "running" => late = 0

IInv == TypeOK /\ ApprovedBefore /\ OneLateOrder /\ DecidesWithoutDoubt

USE TimeoutAssumption, ThresholdAssumption DEF States, Severity, Labels

-----------------------------------------------------------------------------
\* The switch rises to s or stays; the count starts with the stop (KillSwitch.tighten).
LEMMA RaiseToKeeps ==
    ASSUME switch \in States, late \in 0..2, late <= 1, NEW s \in States, RaiseTo(s)
    PROVE  /\ switch' \in States /\ late' \in 0..2 /\ late' <= 1
           /\ switch' = "running" => switch = "running"
           /\ late = 0 => late' = 0
           /\ switch = "running" => late' = 0
           /\ s = "halted" => switch' = "halted"
  BY DEF RaiseTo

LEMMA Initially == Init => IInv
<1> SUFFICES ASSUME Init PROVE IInv
  OBVIOUS
<1>1. pending \in BOOLEAN
  BY Zenon DEF Init
<1> QED BY <1>1 DEF Init, IInv, TypeOK, ApprovedBefore, OneLateOrder, DecidesWithoutDoubt

\* The controls, startup and what runs beside the loop.
LEMMA OutsideKeeps ==
    ASSUME IInv,
           \/ \E s \in {"paused", "halted"} : Tighten(s)
           \/ Rearm \/ Boot \/ Recovery \/ ResolvedElsewhere \/ ReconcilerTrips
           \/ Tick \/ Crash
    PROVE  IInv'
<1> USE DEF IInv, TypeOK, ApprovedBefore, OneLateOrder, DecidesWithoutDoubt
<1>1. ASSUME NEW s \in {"paused", "halted"}, Tighten(s) PROVE IInv'
  BY <1>1, RaiseToKeeps DEF Tighten
<1>2. CASE Rearm
  BY <1>2 DEF Rearm
<1>3. CASE Boot
  BY <1>3 DEF Boot, GoTo
<1>4. CASE RecoveryClean
  BY <1>4 DEF RecoveryClean, GoTo
<1>5. CASE RecoveryHalts
  BY <1>5, RaiseToKeeps DEF RecoveryHalts, Halt
<1>6. CASE ResolvedElsewhere
  BY <1>6 DEF ResolvedElsewhere
<1>7. CASE ReconcilerTrips
  BY <1>7, RaiseToKeeps DEF ReconcilerTrips
<1>8. CASE Tick
  BY <1>8 DEF Tick
<1>9. CASE Crash
  BY <1>9 DEF Crash
<1> QED BY <1>1, <1>2, <1>3, <1>4, <1>5, <1>6, <1>7, <1>8, <1>9 DEF Recovery

\* The loop up to the risk decision.
LEMMA DecisionKeeps ==
    ASSUME IInv,
           \/ CycleStart \/ PendingUnreadable \/ RecoverResolves \/ Unresolved \/ CycleHalts
           \/ NoSignal \/ SignalRecorded \/ Refused \/ Approved \/ AlreadySettled
    PROVE  IInv'
<1> USE DEF IInv, TypeOK, ApprovedBefore, OneLateOrder, DecidesWithoutDoubt
<1>1. CASE CycleStart
  <2>1. PICK flag \in States : RaiseTo(flag)
    BY <1>1 DEF CycleStart
  <2>2. switch' \in States /\ late' \in 0..2 /\ late' <= 1
    BY <2>1, RaiseToKeeps
  <2>3. pc' \in {"recover", "strategy"} /\ (pc' = "strategy" => ~pending)
        /\ pending' = pending /\ never' = never /\ since' \in {since, -1}
    BY <1>1 DEF CycleStart
  <2> QED BY <2>2, <2>3
<1>2. CASE PendingUnreadable
  BY <1>2, RaiseToKeeps DEF PendingUnreadable, Halt
<1>3. CASE RecoverResolves
  <2>1. pending' \in BOOLEAN /\ ~pending'
    BY <1>3, Zenon DEF RecoverResolves
  <2> QED BY <1>3, <2>1 DEF RecoverResolves, GoTo
<1>4. CASE Unresolved
  <2>1. switch' \in States /\ late' \in 0..2 /\ late' <= 1
    BY <1>4, RaiseToKeeps DEF Unresolved, Halt, GoTo
  <2> QED BY <1>4, <2>1 DEF Unresolved, Halt, GoTo
<1>5. CASE CycleHalts
  BY <1>5, RaiseToKeeps DEF CycleHalts, Halt
<1>6. CASE NoSignal \/ SignalRecorded \/ Refused \/ AlreadySettled
  BY <1>6 DEF NoSignal, SignalRecorded, Refused, AlreadySettled, GoTo
<1>7. CASE Approved
  BY <1>7 DEF Approved, GoTo
<1> QED BY <1>1, <1>2, <1>3, <1>4, <1>5, <1>6, <1>7

\* The submission of an approved order.
LEMMA SubmissionKeeps ==
    ASSUME IInv,
           \/ NeverSent \/ NeverSentUnclosed \/ LookupFound \/ LookupNotFound
           \/ Submitted \/ SubmitUnsaved
    PROVE  IInv'
<1> USE DEF IInv, TypeOK, ApprovedBefore, OneLateOrder, DecidesWithoutDoubt
<1>1. CASE NeverSent
  <2>1. pending' \in BOOLEAN /\ since' = since
    BY <1>1, Zenon DEF NeverSent
  <2>2. CASE never + 1 >= NeverSentHaltThreshold
    BY <1>1, <2>1, <2>2, RaiseToKeeps DEF NeverSent, Halt
  <2>3. CASE ~(never + 1 >= NeverSentHaltThreshold)
    <3>1. never' = never + 1 /\ pc' = "idle" /\ switch' = switch /\ late' = late
      BY <1>1, <2>3 DEF NeverSent, GoTo
    <3> QED BY <2>1, <2>3, <3>1
  <2> QED BY <2>2, <2>3
<1>2. CASE NeverSentUnclosed
  BY <1>2, RaiseToKeeps DEF NeverSentUnclosed, Halt
<1>3. CASE LookupFound
  BY <1>3 DEF LookupFound, GoTo
<1>4. CASE LookupNotFound
  BY <1>4 DEF LookupNotFound
<1>5. CASE Submitted
  BY <1>5 DEF Submitted, GoTo
<1>6. CASE SubmitUnsaved
  BY <1>6, RaiseToKeeps DEF SubmitUnsaved, Halt
<1> QED BY <1>1, <1>2, <1>3, <1>4, <1>5, <1>6

LEMMA Inductive == IInv /\ [Next]_vars => IInv'
<1> SUFFICES ASSUME IInv, [Next]_vars PROVE IInv'
  OBVIOUS
<1>1. CASE UNCHANGED vars
  BY <1>1 DEF vars, IInv, TypeOK, ApprovedBefore, OneLateOrder, DecidesWithoutDoubt
<1>2. CASE Next
  BY <1>2, OutsideKeeps, DecisionKeeps, SubmissionKeeps DEF Next, Cycle
<1> QED BY <1>1, <1>2

LEMMA Invariance == Spec => []IInv
  BY Initially, Inductive, PTL DEF Spec

-----------------------------------------------------------------------------
\* After a stop at most one more order is sent, whatever the timeout and threshold:
\* the one _run had approved while the switch was running.
THEOREM AtMostOneLateOrder == Spec => []OneLateOrder
<1>1. IInv => OneLateOrder
  BY DEF IInv
<1> QED BY <1>1, Invariance, PTL

\* The loop asks the strategy and decides only with no order in doubt (_run returns
\* at an unresolved order).
THEOREM NoDecisionInDoubt == Spec => []DecidesWithoutDoubt
<1>1. IInv => DecidesWithoutDoubt
  BY DEF IInv
<1> QED BY <1>1, Invariance, PTL

\* A streak of orders closed as never sent is given up only by a halt, by an answer
\* of the venue or by the end of the process (consecutive_never_sent).
THEOREM StreaksHalt == Spec => StreakEndsInHalt
<1>1. IInv /\ [Next]_vars =>
        [never' < never => \/ pc = "lookup" /\ (switch' = "halted" \/ pc' = "send")
                           \/ pc' = "down"]_vars
  <2> SUFFICES ASSUME IInv, Next, never' < never
               PROVE  \/ pc = "lookup" /\ (switch' = "halted" \/ pc' = "send")
                      \/ pc' = "down"
    BY DEF vars, IInv, TypeOK
  <2>1. CASE NeverSent
    <3>1. never + 1 >= NeverSentHaltThreshold
      BY <2>1 DEF NeverSent, IInv, TypeOK
    <3> QED BY <2>1, <3>1, RaiseToKeeps DEF NeverSent, Halt, IInv, TypeOK, OneLateOrder
  <2>2. CASE LookupFound \/ LookupNotFound
    BY <2>2 DEF LookupFound, LookupNotFound, GoTo
  <2>3. CASE Crash
    BY <2>3 DEF Crash
  <2>4. CASE never' = never
    BY <2>4 DEF IInv, TypeOK
  <2> QED
    BY <2>1, <2>2, <2>3, <2>4 DEF Next, Cycle, Recovery, Tighten, Rearm, Boot, RecoveryClean,
       RecoveryHalts, CycleStart, PendingUnreadable, RecoverResolves, Unresolved, CycleHalts,
       NoSignal, SignalRecorded, Refused, Approved, AlreadySettled, NeverSentUnclosed,
       Submitted, SubmitUnsaved, ResolvedElsewhere, ReconcilerTrips, Tick
<1> QED BY <1>1, Invariance, PTL DEF Spec, StreakEndsInHalt
=============================================================================
