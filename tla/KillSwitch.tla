----------------------------- MODULE KillSwitch -----------------------------
(***************************************************************************)
(* The persistent kill switch: its state in memory, the state file that    *)
(* survives a restart, and the history of transitions kept in the database. *)
(* A stop takes effect first and is recorded after; a re-arm is recorded    *)
(* first and takes effect after.  Calls are serialised by the switch's lock, *)
(* but the process may die between the steps of one, the file write and the *)
(* database write may each fail, and a failed database write may have been  *)
(* committed.                                                              *)
(***************************************************************************)
EXTENDS Naturals

CONSTANTS
    MaxTransitions, \* bound: transitions (event ids) modelled
    DiskFails,      \* writing the state file may raise
    FileLoss        \* the state file may disappear (external)

ASSUME TransitionAssumption == MaxTransitions \in Nat
ASSUME DiskAssumption == DiskFails \in BOOLEAN /\ FileLoss \in BOOLEAN

VARIABLES
    state,      \* the state the risk gate reads
    file,       \* the persisted state, or "missing"
    attached,   \* a journal is attached
    journal,    \* transitions saved in system_events
    unrecorded, \* transitions kept in memory until the journal takes them
    dbUp,       \* the database answers
    used,       \* event ids used so far
    step,       \* the call that holds the lock, between its steps
    event,      \* its transition
    promised,   \* the severest state a completed stop has persisted since the
                \* last re-arm or loss of the file (history)
    effective,  \* transitions that took effect in this process (history)
    unwritten   \* those of them whose file write raised (history)

vars == <<state, file, attached, journal, unrecorded, dbUp, used, step, event,
          promised, effective, unwritten>>

States == {"running", "paused", "halted"}
Severity == [s \in States |-> IF s = "running" THEN 0 ELSE IF s = "paused" THEN 1 ELSE 2]
Events == [id : 1..MaxTransitions, from : States, to : States]
NoEvent == [id |-> 0, from |-> "running", to |-> "running"]
Steps == {"idle", "record", "rearm", "apply"}

\* reload(): a missing file leaves the initial state.
Loaded == IF file = "missing" THEN "running" ELSE file

Init ==
    /\ file \in States \cup {"missing"} /\ state = Loaded
    /\ attached = FALSE /\ journal = {} /\ unrecorded = {} /\ dbUp \in BOOLEAN
    /\ used = 0 /\ step = "idle" /\ event = NoEvent
    /\ promised = state /\ effective = {} /\ unwritten = {}

-----------------------------------------------------------------------------
\* _persist: the file is replaced as a whole, or the call raises.
Persist(s) == file' = s /\ promised' = s
PersistFails == DiskFails /\ UNCHANGED <<file, promised>>

NewEvent(to) == [id |-> used + 1, from |-> state, to |-> to]

\* Mutant: the stop is not written to the file.
RaiseInMemory(s) ==
    /\ used < MaxTransitions /\ used' = used + 1
    /\ state' = s /\ event' = NewEvent(s) /\ step' = "record"
    /\ effective' = effective \cup {NewEvent(s)}
    /\ promised' = s
    /\ UNCHANGED <<file, attached, journal, unrecorded, dbUp, unwritten>>

\* set_state to a severer state: it is in force at once.  When the file cannot
\* be written the call raises, and the transition is recorded nowhere.
Raise(s) ==
    /\ used < MaxTransitions /\ used' = used + 1
    /\ state' = s /\ effective' = effective \cup {NewEvent(s)}
    /\ \/ /\ Persist(s)
          /\ step' = "record" /\ event' = NewEvent(s) /\ UNCHANGED unwritten
       \/ /\ PersistFails
          /\ unwritten' = unwritten \cup {NewEvent(s)} /\ UNCHANGED <<step, event>>
    /\ UNCHANGED <<attached, journal, unrecorded, dbUp>>

\* The state is already at least that severe: the file is written again.
Rewrite ==
    /\ Persist(state) \/ PersistFails
    /\ UNCHANGED <<state, attached, journal, unrecorded, dbUp, used, step, event, effective,
                   unwritten>>

\* The operator's pause and emergency stop.
Tighten(s) ==
    /\ step = "idle"
    /\ IF Severity[s] > Severity[state] THEN Raise(s) ELSE Rewrite

\* Every automatic stop: reconciliation, startup recovery, the trading cycle.
Trip == step = "idle" /\ IF state = "halted" THEN Rewrite ELSE Raise("halted")

\* One flag as a trading loop reads it: it only raises, one that is not
\* recognised trips, one at or below the state does nothing.
SyncExternalState(flag) ==
    /\ step = "idle"
    /\ \/ flag = "unrecognised" /\ Trip
       \/ flag \in States /\ Severity[flag] > Severity[state] /\ Raise(flag)

-----------------------------------------------------------------------------
\* _flush: all unsaved transitions in one commit.  A flush that fails may have
\* been committed; the transitions stay unsaved and are offered again by id.
FlushWorks(events) == dbUp /\ journal' = journal \cup events /\ unrecorded' = {}
FlushFails(events) == ~dbUp /\ journal' \in {journal, journal \cup events}

\* Mutant: a failed flush forgets what it could not save.
RecordForgets ==
    /\ step = "record" /\ step' = "idle" /\ event' = NoEvent
    /\ LET events == unrecorded \cup {event} IN
        \/ ~attached /\ unrecorded' = events /\ UNCHANGED journal
        \/ attached /\ FlushWorks(events)
        \/ attached /\ FlushFails(events) /\ unrecorded' = {}
    /\ UNCHANGED <<state, file, attached, dbUp, used, promised, effective, unwritten>>

\* _record(required=False): a stop stands whether or not it is recorded.
Record ==
    /\ step = "record" /\ step' = "idle" /\ event' = NoEvent
    /\ LET events == unrecorded \cup {event} IN
        \/ ~attached /\ unrecorded' = events /\ UNCHANGED journal
        \/ attached /\ FlushWorks(events)
        \/ attached /\ FlushFails(events) /\ unrecorded' = events
    /\ UNCHANGED <<state, file, attached, dbUp, used, promised, effective, unwritten>>

\* rearm(): refused without a journal, a rewrite when already running.
RearmStart ==
    /\ step = "idle" /\ attached
    /\ IF state = "running" THEN Rewrite
       ELSE /\ used < MaxTransitions /\ used' = used + 1
            /\ step' = "rearm" /\ event' = NewEvent("running")
            /\ UNCHANGED <<state, file, attached, journal, unrecorded, dbUp,
                           promised, effective, unwritten>>

\* Mutant: the re-arm goes ahead although it was not recorded.
RearmUnrecorded ==
    /\ step = "rearm" /\ step' = "apply"
    /\ LET events == unrecorded \cup {event} IN
        \/ FlushWorks(events)
        \/ FlushFails(events) /\ unrecorded' = events
    /\ UNCHANGED <<state, file, attached, dbUp, used, event, promised, effective, unwritten>>

\* _record(required=True): not saved, not applied.
RearmRecord ==
    /\ step = "rearm"
    /\ LET events == unrecorded \cup {event} IN
        \/ FlushWorks(events) /\ step' = "apply" /\ UNCHANGED event
        \/ /\ FlushFails(events) /\ UNCHANGED unrecorded
           /\ step' = "idle" /\ event' = NoEvent
    /\ UNCHANGED <<state, file, attached, dbUp, used, promised, effective, unwritten>>

\* The saved re-arm takes effect, even if the file then cannot be written.
RearmApply ==
    /\ step = "apply" /\ step' = "idle" /\ event' = NoEvent
    /\ state' = event.to /\ effective' = effective \cup {event}
    /\ promised' = "running"
    /\ file' = event.to \/ (DiskFails /\ UNCHANGED file)
    /\ UNCHANGED <<attached, journal, unrecorded, dbUp, used, unwritten>>

\* attach_journal: at startup, before recovery; it offers what is unsaved.
AttachJournal ==
    /\ step = "idle" /\ ~attached /\ attached' = TRUE
    /\ \/ unrecorded = {} /\ UNCHANGED <<journal, unrecorded>>
       \/ unrecorded # {} /\ FlushWorks(unrecorded)
       \/ unrecorded # {} /\ FlushFails(unrecorded) /\ UNCHANGED unrecorded
    /\ UNCHANGED <<state, file, dbUp, used, step, event, promised, effective, unwritten>>

-----------------------------------------------------------------------------
\* The process dies, in a call or between calls, and a new one reads the file.
Restart ==
    /\ state' = Loaded
    /\ attached' = FALSE /\ unrecorded' = {}
    /\ effective' = {} /\ unwritten' = {}
    /\ step' = "idle" /\ event' = NoEvent
    /\ UNCHANGED <<file, journal, dbUp, used, promised>>

\* The volume loses the file: nothing is promised until it is written again.
LoseFile ==
    /\ FileLoss /\ file # "missing" /\ file' = "missing"
    /\ promised' = "running"
    /\ UNCHANGED <<state, attached, journal, unrecorded, dbUp, used, step, event, effective,
                   unwritten>>

DatabaseFails ==
    /\ dbUp /\ dbUp' = FALSE
    /\ UNCHANGED <<state, file, attached, journal, unrecorded, used, step, event,
                   promised, effective, unwritten>>

DatabaseReturns ==
    /\ ~dbUp /\ dbUp' = TRUE
    /\ UNCHANGED <<state, file, attached, journal, unrecorded, used, step, event,
                   promised, effective, unwritten>>

-----------------------------------------------------------------------------
Next ==
    \/ \E s \in {"paused", "halted"} : Tighten(s)
    \/ Trip
    \/ \E flag \in States \cup {"unrecognised"} : SyncExternalState(flag)
    \/ Record \/ RearmStart \/ RearmRecord \/ RearmApply
    \/ AttachJournal \/ Restart \/ LoseFile \/ DatabaseFails \/ DatabaseReturns

Spec == Init /\ [][Next]_vars

\* A call that has started ends, startup attaches the journal, and the
\* database comes back.
FairSpec ==
    Spec /\ WF_vars(Record \/ RearmRecord \/ RearmApply) /\ WF_vars(AttachJournal)
         /\ WF_vars(DatabaseReturns)

-----------------------------------------------------------------------------
\* Every variable holds a value of its kind.
TypeOK ==
    /\ state \in States /\ file \in States \cup {"missing"}
    /\ attached \in BOOLEAN /\ dbUp \in BOOLEAN
    /\ journal \subseteq Events /\ unrecorded \subseteq Events
    /\ effective \subseteq Events /\ unwritten \subseteq effective
    /\ used \in 0..MaxTransitions /\ step \in Steps
    /\ event \in Events \cup {NoEvent} /\ promised \in States

\* A stop that was completed holds, in this process and in every later one,
\* until a re-arm: no crash, failed write, flag or pause takes it back.
StopsHold == Severity[state] >= Severity[promised]

\* The switch goes below a completed stop only by a re-arm that is already
\* saved, with every transition of this process that reached the file.
LoweringIsJournaled ==
    [][Severity[state'] < Severity[promised] =>
        /\ \E e \in journal : e.id = used /\ e.from = state /\ e.to = state'
        /\ effective \ unwritten \subseteq journal]_vars

Kept == journal \cup unrecorded \cup (IF step = "record" THEN {event} ELSE {})

\* A transition that took effect and reached the file is saved, waits in memory
\* or is just being recorded, however often the journal fails or answers late.
KeptUntilSaved == effective \ unwritten \subseteq Kept

\* "Every kill-switch transition is saved to system_events": none that is in
\* force is forgotten, not even by a call whose file write raised.
NothingForgotten == effective \subseteq Kept

\* "A stop takes effect even when the database is down and is saved once it
\* returns": a transition that waits in the memory of a process that lives on
\* is saved if the database stays up.
StopSavedOnceDatabaseReturns ==
    \A n \in 1..MaxTransitions :
        ((\E e \in unrecorded : e.id = n) /\ attached /\ []dbUp)
            ~> ((\E e \in journal : e.id = n) \/ ~attached)
=============================================================================
