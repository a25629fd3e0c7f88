------------------------------ MODULE MCOperator ------------------------------
(***************************************************************************)
(* What the operator sees and does: the alerts, the portfolio pages, the       *)
(* history pages, the trail of an order, the digest of the soak, and the       *)
(* sessions with their controls.  They share no state, so a behaviour follows   *)
(* one of them.                                                            *)
(***************************************************************************)
EXTENDS OperatorAlerts, Integers

CONSTANTS
    Requests, MaxMoves,
    Rows, Gates, MaxClock, MaxWindow, MaxLimit,
    Orders,
    Interval, DayLength, Window, Threshold, StormSpan, Incidents, Priced,
    MaxDays, MaxRecords, MaxStops,
    Sessions, TTL, Items, TwoRoles, LastTick, Nil

VARIABLES
    held, snapshot, pc, read, page,
    moment, at, committed, state, reader, query, cursor, total, walked, twice, steady, report,
    signal, decision, status, fills, closed, halted, trail,
    clock, up, wait, beats, down, stops, drops, incident, equity, records,
    now, cookie, revoked, request, switch, order, result, out,
    focus  \* the part this behaviour follows

\* The rows of the history are signals; one is a refusal by a gate this build lacks.
KindOf == [r \in Rows |-> "signal"]
GateOf == [r \in Rows |-> IF r = 2 THEN "old" ELSE "known"]

Pages == INSTANCE OperatorPages
History == INSTANCE HistoryPages
    WITH clock <- moment, saved <- committed, status <- state, pc <- reader
Lineage == INSTANCE OrderLineage WITH page <- trail
Soak == INSTANCE SoakDigest
Controls == INSTANCE OperatorControls

ASSUME OperatorAssumption == History!Configured /\ Soak!Configured /\ Controls!Configured

pages == <<held, snapshot, pc, read, page>>
history == <<moment, at, committed, state, reader, query, cursor, total, walked, twice, steady,
             report>>
lineage == <<signal, decision, status, fills, closed, halted, trail>>
soak == <<clock, up, wait, beats, down, stops, drops, incident, equity, records>>
controls == <<now, cookie, revoked, request, switch, order, result, out>>

OperatorInit ==
    /\ Init /\ Pages!Init /\ History!Init /\ Lineage!Init /\ Soak!Init
    /\ Controls!Init
    /\ focus \in {"alerts", "pages", "history", "lineage", "soak", "controls"}
    /\ focus # "controls" => switch = "running"

OperatorNext ==
    /\ UNCHANGED focus
    /\ \/ focus = "alerts" /\ Next
          /\ UNCHANGED <<pages, history, lineage, soak, controls>>
       \/ focus = "pages" /\ Pages!Next
          /\ UNCHANGED <<vars, history, lineage, soak, controls>>
       \/ focus = "history" /\ History!Next
          /\ UNCHANGED <<vars, pages, lineage, soak, controls>>
       \/ focus = "lineage" /\ Lineage!Next
          /\ UNCHANGED <<vars, pages, history, soak, controls>>
       \/ focus = "soak" /\ Soak!Next
          /\ UNCHANGED <<vars, pages, history, lineage, controls>>
       \/ focus = "controls" /\ Controls!Next
          /\ UNCHANGED <<vars, pages, history, lineage, soak>>

OperatorSpec ==
    /\ OperatorInit /\ [][OperatorNext]_<<vars, pages, history, lineage, soak, controls, focus>>
    /\ \A e \in Emitters : WF_vars(focus = "alerts" /\ (Deliver(e) \/ List(e)))

\* A page that calls its portfolio current shows nothing older than the requests it
\* overlapped (_refresh_portfolio), whichever of them fail and in whatever order they end.
CurrentSinceOverlap == Pages!CurrentSinceOverlap

\* A walk over the pages of a history shows each row that matched throughout once
\* (SqlAlchemyHistory._page), whatever is recorded or settled between two pages.
WalkIsExact == History!WalkIsExact

\* What a page tells of an order agrees with what the audit spine holds
\* (_lineage_rows), however the writers move between its reads.
LineageWhole == Lineage!LineageWhole

\* No day of the digest passes with an outage longer than a heartbeat interval
\* (_uptime_ok and _day).
PassIsEarned == Soak!PassIsEarned

\* A day that is over keeps its verdict (_daily_open_incidents, _daily_reconnect_storms)
\* until it is the oldest of the window.
DaysStand == Soak!DaysStand

\* While the process lives, a session that was signed out is refused (_authorize,
\* _revoke).
SignedOutStaysOut == Controls!SignedOutStaysOut

\* A control's result page says what the control did to the switch (ControlResult).
ResultIsWhatHappened == Controls!ResultIsWhatHappened
=============================================================================
