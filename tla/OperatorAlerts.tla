--------------------------- MODULE OperatorAlerts ---------------------------
(***************************************************************************)
(* The alerts of this process: tasks deliver them to their destinations and   *)
(* then list them, and an administrator dismisses those a page showed.        *)
(***************************************************************************)
EXTENDS Integers, Sequences, FiniteSets

CONSTANTS
    Browsers,     \* pages open in a browser
    Emitters,     \* tasks that raise alerts: runtime, reconciler, closing route
    Destinations, \* configured sinks, phone push before email
    MaxRaised,    \* bound: alerts
    MaxRestarts   \* bound: restarts of the service

ASSUME DestinationsAssumption == Destinations \in Nat

VARIABLES
    alerts,    \* [id, dismissed], in the order their delivery ended
    sending,   \* each emitter's alert (0: none) and the destinations still to try
    through,   \* the number of alerts on each page
    raised,    \* alerts raised so far (history: the id of the newest)
    saved,     \* alerts named by a saved alerts_dismissed event
    shown,     \* alerts that some page has shown (history)
    restarts

view == <<through, shown, restarts>>
vars == <<alerts, sending, raised, saved, view>>

Quiet == [id |-> 0, left |-> 0]

Init ==
    /\ alerts = <<>> /\ sending = [e \in Emitters |-> Quiet]
    /\ through = [b \in Browsers |-> 0]
    /\ raised = 0 /\ saved = {} /\ shown = {} /\ restarts = 0

Listed(list) == {list[i].id : i \in DOMAIN list}
Dismissed(list) == {list[i].id : i \in {j \in DOMAIN list : list[j].dismissed}}

-----------------------------------------------------------------------------
(* emit_alert, AlertRouter.route, dismiss_alerts                            *)
Raise(e) ==
    /\ sending[e] = Quiet /\ raised < MaxRaised
    /\ raised' = raised + 1
    /\ sending' = [sending EXCEPT ![e] = [id |-> raised + 1, left |-> Destinations]]
    /\ UNCHANGED <<alerts, saved, view>>

\* Mutant: a destination that fails ends the whole delivery.
DeliverOrEscape(e) ==
    /\ sending[e] # Quiet /\ sending[e].left > 0
    /\ \/ sending' = [sending EXCEPT ![e].left = @ - 1]
       \/ sending' = [sending EXCEPT ![e] = Quiet]
    /\ UNCHANGED <<alerts, raised, saved, view>>

\* One destination is tried; sent or failed, the next one follows.
Deliver(e) ==
    /\ sending[e] # Quiet /\ sending[e].left > 0
    /\ sending' = [sending EXCEPT ![e].left = @ - 1]
    /\ UNCHANGED <<alerts, raised, saved, view>>

List(e) ==
    /\ sending[e] # Quiet /\ sending[e].left = 0
    /\ alerts' = Append(alerts, [id |-> sending[e].id, dismissed |-> FALSE])
    /\ sending' = [sending EXCEPT ![e] = Quiet]
    /\ UNCHANGED <<raised, saved, view>>

Covered(b) == {i \in DOMAIN alerts : i <= through[b]}
Fresh(b) == {i \in Covered(b) : ~alerts[i].dismissed}

Mark(b) == [i \in DOMAIN alerts |-> [alerts[i] EXCEPT !.dismissed = @ \/ i \in Fresh(b)]]

\* The event is saved, then the alerts are marked: an event that could not be
\* saved changes nothing.
Dismiss(b) ==
    /\ Fresh(b) # {}
    /\ saved' = saved \cup {alerts[i].id : i \in Fresh(b)}
    /\ alerts' = Mark(b)
    /\ UNCHANGED <<sending, raised, view>>

\* The event was saved although its commit was reported as failed.
DismissUnsure(b) ==
    /\ Fresh(b) # {}
    /\ saved' = saved \cup {alerts[i].id : i \in Fresh(b)}
    /\ UNCHANGED <<alerts, sending, raised, view>>

\* A page is rendered with the alerts of the moment.
Show(b) ==
    /\ through' = [through EXCEPT ![b] = Len(alerts)]
    /\ shown' = shown \cup Listed(alerts)
    /\ UNCHANGED <<alerts, sending, raised, saved, restarts>>

\* The list is kept in memory; browsers keep their pages.
Restart ==
    /\ restarts < MaxRestarts /\ restarts' = restarts + 1
    /\ alerts' = <<>> /\ sending' = [e \in Emitters |-> Quiet]
    /\ UNCHANGED <<through, raised, saved, shown>>

Next ==
    \/ \E b \in Browsers : Show(b) \/ Dismiss(b) \/ DismissUnsure(b)
    \/ \E e \in Emitters : Raise(e) \/ Deliver(e) \/ List(e)
    \/ Restart

\* Every destination answers or times out, and the event loop runs every task.
Fairness == \A e \in Emitters : WF_vars(Deliver(e) \/ List(e))

Spec == Init /\ [][Next]_vars /\ Fairness

-----------------------------------------------------------------------------
\* Every variable holds a value of its kind, and an alert is in one place only:
\* still being delivered by one task, or listed once.
TypeOK ==
    /\ sending \in [Emitters -> [id : 0 .. MaxRaised, left : 0 .. Destinations]]
    /\ Cardinality(Listed(alerts)) = Len(alerts)
    /\ \A e \in Emitters : sending[e].id \notin Listed(alerts)
    /\ saved \cup shown \subseteq 1 .. raised /\ restarts \in 0 .. MaxRestarts

\* An alert that is marked as read is named by a saved event, whatever part of the
\* dismissal failed.
SavedBeforeDismissed == Dismissed(alerts) \subseteq saved

\* An alert reaches the list, whatever its destinations answer, unless the process
\* ends first.
EveryAlertListed ==
    \A n \in 1 .. MaxRaised, k \in 0 .. MaxRestarts :
       (restarts = k /\ \E e \in Emitters : sending[e].id = n)
          ~> (n \in Listed(alerts) \/ restarts > k)

\* An alert that has never been on a page stays new ("an alert that arrived after
\* that page rendered stays new", dismiss_alerts).
NewerStaysNew == Dismissed(alerts) \subseteq shown
=============================================================================
