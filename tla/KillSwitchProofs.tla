-------------------------- MODULE KillSwitchProofs --------------------------
(***************************************************************************)
(* The safety of the kill switch for every number of transitions, with file *)
(* writes that fail and a file that may be lost.                           *)
(***************************************************************************)
EXTENDS KillSwitch, TLAPS

\* A completed stop is in the file as well as in memory: StopsHold alone is
\* not inductive, since a restart reads the file.
FileHolds == Severity[Loaded] >= Severity[promised]

\* The transition of the call under way.
CallUnderWay ==
    /\ step = "record" => event \in Events
    /\ step \in {"rearm", "apply"} =>
        /\ event \in Events /\ event.id = used
        /\ event.from = state /\ event.to = "running"
    /\ step = "apply" => event \in journal /\ unrecorded = {}

IInv == TypeOK /\ StopsHold /\ FileHolds /\ KeptUntilSaved /\ CallUnderWay

USE TransitionAssumption, DiskAssumption DEF States, Steps, Events, NoEvent, Severity, Kept

-----------------------------------------------------------------------------
LEMMA Initially == Init => IInv
<1> SUFFICES ASSUME Init PROVE IInv
  OBVIOUS
<1>1. TypeOK /\ CallUnderWay
  <2>1. file \in States \cup {"missing"} /\ state \in States /\ promised \in States
    BY DEF Init, Loaded
  <2>2. attached \in BOOLEAN /\ dbUp \in BOOLEAN
    BY Zenon DEF Init
  <2>3. used \in 0..MaxTransitions /\ step = "idle" /\ event = NoEvent
        /\ journal = {} /\ unrecorded = {} /\ effective = {} /\ unwritten = {}
    BY DEF Init
  <2> QED
    BY <2>1, <2>2, <2>3 DEF TypeOK, CallUnderWay
<1>2. StopsHold /\ FileHolds
  BY DEF Init, StopsHold, FileHolds, Loaded
<1>3. KeptUntilSaved
  BY DEF Init, KeptUntilSaved
<1> QED
  BY <1>1, <1>2, <1>3 DEF IInv

LEMMA RaiseKeeps ==
  ASSUME IInv, step = "idle", NEW s \in States, Severity[s] > Severity[state], Raise(s)
  PROVE  IInv'
<1> USE DEF Raise, IInv, TypeOK, CallUnderWay
<1>1. CASE Persist(s) /\ step' = "record" /\ event' = NewEvent(s)
           /\ UNCHANGED unwritten
  <2>1. NewEvent(s) \in Events
    BY DEF NewEvent
  <2>2. TypeOK' /\ CallUnderWay'
    BY <1>1, <2>1 DEF Persist
  <2>3. StopsHold' /\ FileHolds'
    BY <1>1 DEF Persist, StopsHold, FileHolds, Loaded
  <2>4. KeptUntilSaved'
    BY <1>1 DEF KeptUntilSaved
  <2> QED
    BY <2>2, <2>3, <2>4
<1>2. CASE /\ PersistFails /\ unwritten' = unwritten \cup {NewEvent(s)}
           /\ UNCHANGED <<step, event>>
  <2>1. NewEvent(s) \in Events
    BY DEF NewEvent
  <2> QED
    BY <1>2, <2>1 DEF PersistFails, StopsHold, FileHolds, Loaded, KeptUntilSaved
<1> QED
  BY <1>1, <1>2

LEMMA RewriteKeeps ==
  ASSUME IInv, step = "idle", Rewrite
  PROVE  IInv'
  BY DEF Rewrite, IInv, TypeOK, CallUnderWay, Persist, PersistFails,
         StopsHold, FileHolds, Loaded, KeptUntilSaved

\* Pauses, stops, trips and flags only raise the switch or rewrite its file.
LEMMA StopKeeps ==
  ASSUME IInv,
         \/ \E s \in {"paused", "halted"} : Tighten(s)
         \/ Trip
         \/ \E flag \in States \cup {"unrecognised"} : SyncExternalState(flag)
  PROVE  IInv'
<1>1. state \in States
  BY DEF IInv, TypeOK
<1>2. CASE \E s \in {"paused", "halted"} : Tighten(s)
  BY <1>1, <1>2, RaiseKeeps, RewriteKeeps DEF Tighten
<1>3. CASE Trip
  BY <1>1, <1>3, RaiseKeeps, RewriteKeeps DEF Trip
<1>4. CASE \E flag \in States \cup {"unrecognised"} : SyncExternalState(flag)
  BY <1>1, <1>3, <1>4, RaiseKeeps DEF SyncExternalState
<1> QED
  BY <1>2, <1>3, <1>4

LEMMA RecordKeeps ==
  ASSUME IInv, Record
  PROVE  IInv'
  BY DEF Record, IInv, TypeOK, CallUnderWay, FlushWorks, FlushFails,
         StopsHold, FileHolds, Loaded, KeptUntilSaved

LEMMA RearmKeeps ==
  ASSUME IInv, RearmStart \/ RearmRecord \/ RearmApply
  PROVE  IInv'
<1> USE DEF IInv, TypeOK, CallUnderWay
<1>1. CASE RearmStart
  <2>1. CASE state = "running"
    BY <1>1, <2>1, RewriteKeeps DEF RearmStart
  <2>2. CASE state # "running"
    BY <1>1, <2>2 DEF RearmStart, NewEvent, StopsHold, FileHolds, Loaded, KeptUntilSaved
  <2> QED
    BY <2>1, <2>2
<1>2. CASE RearmRecord
  BY <1>2 DEF RearmRecord, FlushWorks, FlushFails, StopsHold, FileHolds, Loaded,
              KeptUntilSaved
<1>3. CASE RearmApply
  BY <1>3 DEF RearmApply, StopsHold, FileHolds, Loaded, KeptUntilSaved
<1> QED
  BY <1>1, <1>2, <1>3

LEMMA ProcessKeeps ==
  ASSUME IInv, AttachJournal \/ Restart \/ LoseFile \/ DatabaseFails \/ DatabaseReturns
  PROVE  IInv'
<1> USE DEF IInv, TypeOK, CallUnderWay, StopsHold, FileHolds, Loaded, KeptUntilSaved
<1>1. CASE AttachJournal
  BY <1>1 DEF AttachJournal, FlushWorks, FlushFails
<1>2. CASE Restart
  BY <1>2 DEF Restart
<1>3. CASE LoseFile
  BY <1>3 DEF LoseFile
<1>4. CASE DatabaseFails \/ DatabaseReturns
  <2>1. dbUp' \in BOOLEAN
    BY <1>4 DEF DatabaseFails, DatabaseReturns
  <2>2. UNCHANGED <<state, file, attached, journal, unrecorded, used, step, event,
                    promised, effective, unwritten>>
    BY <1>4 DEF DatabaseFails, DatabaseReturns
  <2> QED
    BY <2>1, <2>2
<1> QED
  BY <1>1, <1>2, <1>3, <1>4

LEMMA Inductive == IInv /\ [Next]_vars => IInv'
<1> SUFFICES ASSUME IInv, [Next]_vars PROVE IInv'
  OBVIOUS
<1>1. CASE UNCHANGED vars
  BY <1>1 DEF vars, IInv, TypeOK, CallUnderWay, StopsHold, FileHolds, Loaded,
              KeptUntilSaved
<1>2. CASE Next
  BY <1>2, StopKeeps, RecordKeeps, RearmKeeps, ProcessKeeps DEF Next
<1> QED
  BY <1>1, <1>2

LEMMA Invariance == Spec => []IInv
  BY Initially, Inductive, PTL DEF Spec

\* Every variable of the switch keeps its kind.
THEOREM TypeCorrect == Spec => []TypeOK
<1>1. IInv => TypeOK
  BY DEF IInv
<1> QED
  BY <1>1, Invariance, PTL

\* A completed stop holds until a re-arm, across restarts, failed file writes
\* and whatever the flags say (KillSwitch.set_state, reload, _persist).
THEOREM CompletedStopsHold == Spec => []StopsHold
<1>1. IInv => StopsHold
  BY DEF IInv
<1> QED
  BY <1>1, Invariance, PTL

\* A process keeps every transition that reached the file until the journal has it
\* (_record, _flush); what a failed file write leaves out is not claimed.
THEOREM WrittenTransitionsKept == Spec => []KeptUntilSaved
<1>1. IInv => KeptUntilSaved
  BY DEF IInv
<1> QED
  BY <1>1, Invariance, PTL

\* Only a re-arm saved beforehand lowers the switch below a completed stop.
THEOREM RearmsAreJournaled == Spec => LoweringIsJournaled
<1> DEFINE Saved == /\ \E e \in journal : e.id = used /\ e.from = state /\ e.to = state'
                    /\ effective \ unwritten \subseteq journal
<1>1. ASSUME IInv, [Next]_vars, Severity[state'] < Severity[promised]
      PROVE  Saved
  <2> USE DEF IInv, TypeOK, StopsHold
  <2>1. CASE UNCHANGED state
    BY <1>1, <2>1
  <2>2. CASE RearmApply
    <3>1. event \in journal /\ event.id = used /\ event.from = state /\ event.to = state'
      BY <1>1, <2>2 DEF RearmApply, CallUnderWay
    <3>2. effective \ unwritten \subseteq journal
      BY <1>1, <2>2 DEF RearmApply, CallUnderWay, KeptUntilSaved
    <3> QED
      BY <3>1, <3>2
  <2>3. CASE Restart
    BY <1>1, <2>3 DEF Restart, FileHolds, Loaded
  <2>4. ASSUME NEW s \in States, Raise(s), Severity[s] > Severity[state]
        PROVE  FALSE
    BY <1>1, <2>4 DEF Raise
  <2>5. CASE \E s \in {"paused", "halted"} : Tighten(s)
    BY <1>1, <2>1, <2>4, <2>5 DEF Tighten, Rewrite
  <2>6. CASE Trip
    BY <1>1, <2>1, <2>4, <2>6 DEF Trip, Rewrite
  <2>7. CASE \E flag \in States \cup {"unrecognised"} : SyncExternalState(flag)
    BY <1>1, <2>4, <2>6, <2>7 DEF SyncExternalState
  <2>8. CASE \/ Record \/ RearmStart \/ RearmRecord \/ AttachJournal
             \/ LoseFile \/ DatabaseFails \/ DatabaseReturns
    BY <2>1, <2>8 DEF Record, RearmStart, Rewrite, RearmRecord, AttachJournal,
                      LoseFile, DatabaseFails, DatabaseReturns
  <2> QED
    BY <1>1, <2>1, <2>2, <2>3, <2>5, <2>6, <2>7, <2>8 DEF Next, vars
<1>2. IInv /\ [Next]_vars => [Severity[state'] < Severity[promised] => Saved]_vars
  BY <1>1
<1> QED
  BY <1>2, Invariance, PTL DEF Spec, LoweringIsJournaled
=============================================================================
