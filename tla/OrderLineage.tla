---------------------------- MODULE OrderLineage ----------------------------
(***************************************************************************)
(* The audit trail of an order and the pages that rebuild it.  The trading      *)
(* cycle writes the signal, the decision, the order, its fills and its status    *)
(* in transactions of their own; a page reads the same tables one statement     *)
(* after another, so it sees each at a different moment.                     *)
(***************************************************************************)
EXTENDS Integers

CONSTANTS Orders

VARIABLES
    signal,   \* signals recorded
    decision, \* of each order: "none", "approved" or "refused"
    status,   \* of each row, "none" before it is reserved
    fills,    \* orders with a recorded fill
    closed,   \* orders with a closure event
    halted,   \* an audit record could not be written
    page      \* what the reader has read, see NoPage

vars == <<signal, decision, status, fills, closed, halted, page>>

NoPage == [step |-> "idle", order |-> "none", status |-> "none", fills |-> FALSE,
           signal |-> FALSE, decision |-> "none", closure |-> FALSE]
Unresolved == {"pending_submit", "unknown"}
Executed == {"filled", "partially_filled"}
Ended == {"filled", "canceled", "rejected"}

Init ==
    /\ signal = {} /\ decision = [o \in Orders |-> "none"]
    /\ status = [o \in Orders |-> "none"] /\ fills = {} /\ closed = {}
    /\ halted = FALSE /\ page = NoPage

-----------------------------------------------------------------------------
(* The writers: TradingCycle.run_once, ExecutionEngine and close_unreceived.     *)
RecordSignal(o) ==
    /\ ~halted /\ o \notin signal /\ signal' = signal \cup {o}
    /\ UNCHANGED <<decision, status, fills, closed, halted, page>>

RecordDecision(o, d) ==
    /\ ~halted /\ o \in signal /\ decision[o] = "none"
    /\ decision' = [decision EXCEPT ![o] = d]
    /\ UNCHANGED <<signal, status, fills, closed, halted, page>>

\* A record that cannot be written halts trading before any order.
AuditFails(o) ==
    /\ ~halted /\ decision[o] = "none" /\ halted' = TRUE
    /\ UNCHANGED <<signal, decision, status, fills, closed, page>>

Reserve(o) ==
    /\ ~halted /\ decision[o] = "approved" /\ status[o] = "none"
    /\ status' = [status EXCEPT ![o] = "pending_submit"]
    /\ UNCHANGED <<signal, decision, fills, closed, halted, page>>

AddFills(o) ==
    /\ status[o] \notin Ended \cup {"none"} /\ o \notin fills
    /\ fills' = fills \cup {o}
    /\ UNCHANGED <<signal, decision, status, closed, halted, page>>

\* Mutant: the status is saved before the fills.
UpdateFirst(o, s) ==
    /\ status[o] \notin Ended \cup {"none"} /\ s # status[o]
    /\ status' = [status EXCEPT ![o] = s]
    /\ UNCHANGED <<signal, decision, fills, closed, halted, page>>

\* update: the engine settles an order only once its fills are recorded.
Update(o, s) ==
    /\ status[o] \notin Ended \cup {"none"} /\ s # status[o]
    /\ s \in Executed => o \in fills
    /\ status' = [status EXCEPT ![o] = s]
    /\ UNCHANGED <<signal, decision, fills, closed, halted, page>>

\* close_unreceived: the status and its event, or neither.  It is asked for only when
\* the venue has neither the order nor a fill of it.
CloseUnreceived(o) ==
    /\ status[o] \in Unresolved /\ o \notin fills
    /\ status' = [status EXCEPT ![o] = "canceled"] /\ closed' = closed \cup {o}
    /\ UNCHANGED <<signal, decision, fills, halted, page>>

-----------------------------------------------------------------------------
(* _lineage_rows: the order, then fills, signals, decisions and closures.        *)
ReadOrder(o) ==
    /\ page.step \in {"idle", "shown"} /\ status[o] # "none"
    /\ page' = [NoPage EXCEPT !.step = "fills", !.order = o, !.status = status[o]]
    /\ UNCHANGED <<signal, decision, status, fills, closed, halted>>

Reads(from, to, p) ==
    /\ page.step = from /\ page' = [p EXCEPT !.step = to]
    /\ UNCHANGED <<signal, decision, status, fills, closed, halted>>

ReadFills == Reads("fills", "signals", [page EXCEPT !.fills = page.order \in fills])
ReadSignals == Reads("signals", "decisions", [page EXCEPT !.signal = page.order \in signal])
ReadDecisions ==
    /\ page.step = "decisions"
    /\ Reads("decisions", "closures", [page EXCEPT !.decision = decision[page.order]])

\* Only a canceled order is looked up among the closures.
ReadClosures ==
    Reads("closures", "shown",
          [page EXCEPT !.closure = page.status = "canceled" /\ page.order \in closed])

Unreadable == page.step \notin {"idle", "shown"} /\ Reads(page.step, "idle", NoPage)

\* OrderLineage.gaps
Gaps(hasSignal, verdict, s, hasFills) ==
    (IF hasSignal THEN {} ELSE {"signal"})
    \cup (CASE verdict = "none" -> {"risk_decision"}
            [] verdict = "refused" -> {"risk_decision_not_approved"}
            [] OTHER -> {})
    \cup (IF s \in Executed /\ ~hasFills THEN {"fills"} ELSE {})

\* unlinked_orders: the lineage of every row in one statement.
Unlinked == {o \in Orders : status[o] # "none"
                /\ Gaps(o \in signal, decision[o], status[o], o \in fills) # {}}

Next ==
    \/ \E o \in Orders :
          \/ RecordSignal(o) \/ AuditFails(o) \/ Reserve(o) \/ AddFills(o)
          \/ CloseUnreceived(o) \/ ReadOrder(o)
          \/ \E d \in {"approved", "refused"} : RecordDecision(o, d)
          \/ \E s \in {"unknown", "open"} \cup Executed \cup Ended : Update(o, s)
    \/ ReadFills \/ ReadSignals \/ ReadDecisions \/ ReadClosures \/ Unreadable

Spec == Init /\ [][Next]_vars

-----------------------------------------------------------------------------
\* Every variable holds a value of its kind.
TypeOK ==
    /\ signal \subseteq Orders /\ fills \subseteq Orders /\ closed \subseteq Orders
    /\ decision \in [Orders -> {"none", "approved", "refused"}]
    /\ status \in [Orders -> {"none", "open"} \cup Unresolved \cup Executed \cup Ended]
    /\ page.step \in {"idle", "fills", "signals", "decisions", "closures", "shown"}

\* A page never shows a gap in an order's lineage and the audit finds none, although
\* the page reads the order, its fills and its decision at different moments; and an
\* order an administrator closed is never shown as one the broker canceled.
LineageWhole ==
    /\ Unlinked = {}
    /\ page.step = "shown" =>
          /\ Gaps(page.signal, page.decision, page.status, page.fills) = {}
          /\ page.status = "canceled" => page.closure = (page.order \in closed)
=============================================================================
