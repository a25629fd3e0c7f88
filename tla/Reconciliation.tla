--------------------------- MODULE Reconciliation ---------------------------
(***************************************************************************)
(* Scheduled reconciliation and startup recovery: the expected portfolio -  *)
(* the last broker state plus the fills recorded since - is compared with   *)
(* the broker's, a difference halts trading, and the broker's state is      *)
(* adopted as the next baseline.                                           *)
(*                                                                         *)
(* A portfolio is the set of movements it contains: the opening holdings, a *)
(* deposit nobody recorded, and the fills of the app's own orders.  Two     *)
(* portfolios have equal balances and positions when the sets are equal.    *)
(* The venue moves between any two reads; its fills endpoint lags behind    *)
(* its balances.                                                           *)
(***************************************************************************)
CONSTANTS
    Orders,          \* client order ids
    Fills,           \* the fills the orders can have
    OrderOf,         \* the order of each fill
    Vague,           \* orders whose status the venue may answer as one that tells nothing
    Opening, Deposit \* movements that are not fills of the app

ASSUME MovementAssumption ==
    /\ OrderOf \in [Fills -> Orders] /\ Vague \subseteq Orders
    /\ Opening \notin Fills /\ Deposit \notin Fills

VARIABLES
    \* the venue (external)
    venue,     \* status of each order
    executed,  \* fills that happened
    readable,  \* fills its fills endpoint returns
    deposited,
    \* the database
    row,       \* orders.status
    saved,     \* fills recorded
    snapshot,  \* the latest saved broker portfolio, {} before the first
    before,    \* fills that happened before that snapshot was saved
    \* the process
    switch,    \* "running" or "halted"; kept across restarts
    tracked,   \* ScheduledReconciler._orders
    known,     \* ScheduledReconciler._fills
    applied,   \* _applied_fill_ids
    baseline,  \* _baseline
    \* the run under way
    pc,        \* what holds the trading lock, or "idle"; "down"
    todo,      \* orders it has still to do
    asked,     \* the one of them whose status is read and whose fills are not
    wrote,     \* the one of them whose fills are saved and whose status is not
    reply,     \* the venue's answer for the one being recorded
    linked,    \* its fills
    recovered, got, seen, heard,
    excused    \* movements adopted by a run that halted trading (history)

venueVars == <<venue, executed, readable, deposited>>
store == <<row, saved, snapshot, before>>
work == <<tracked, known, applied, baseline>>
recording == <<asked, wrote, reply, linked>>
run == <<pc, todo, recording, recovered, got, seen, heard>>
vars == <<venueVars, store, switch, work, run, excused>>

Terminal == {"filled", "canceled"}
Moves == Fills \cup {Opening, Deposit}
Untracked == [status |-> "none", filled |-> {}]
Images == [status : {"none", "pending", "open", "filled", "canceled"}, filled : SUBSET Fills]
Labels == {"down", "recover", "startRead", "idle", "cycle", "refresh", "read"}

FillsOf(o) == {f \in Fills : OrderOf[f] = o}

\* What get_balances and get_positions, get_order and get_fills return.  An order's
\* status may be answered as one that tells nothing, pending_submit or unknown.
Balance == executed \cup {Opening} \cup (IF deposited THEN {Deposit} ELSE {})
Answers(o) == {venue[o]} \cup {s \in {"pending"} : o \in Vague}
Views(o) == {[status |-> s, filled |-> executed \cap FillsOf(o)] : s \in Answers(o)}
Readable(o) == readable \cap FillsOf(o)

\* pending, open_orders and fills_for: rows that are unresolved, or not terminal, with
\* their saved fills.
Pending == {o \in Orders : row[o] = "pending"}
OpenRows == {o \in Orders : row[o] \in {"pending", "open"}}
Stored(o) == [status |-> row[o], filled |-> saved \cap FillsOf(o)]
Tracked == {o \in Orders : tracked[o] # Untracked}

Init ==
    /\ venue = [o \in Orders |-> "none"] /\ executed = {} /\ readable = {}
    /\ deposited = FALSE
    /\ row = [o \in Orders |-> "absent"] /\ saved = {} /\ snapshot = {} /\ before = {}
    /\ switch = "running" /\ excused = {}
    /\ tracked = [o \in Orders |-> Untracked] /\ known = {} /\ applied = {} /\ baseline = {}
    /\ pc = "down" /\ todo = {} /\ asked = {} /\ wrote = {} /\ reply = Untracked /\ linked = {}
    /\ recovered = {} /\ got = {} /\ heard = {} /\ seen = [o \in Orders |-> Untracked]

-----------------------------------------------------------------------------
Rest ==
    /\ todo' = {} /\ asked' = {} /\ wrote' = {} /\ reply' = Untracked /\ linked' = {}
    /\ recovered' = {} /\ got' = {} /\ heard' = {} /\ seen' = [o \in Orders |-> Untracked]

EndRun == pc' = "idle" /\ Rest

(* ExecutionEngine.recover, which the trading cycle, the refresh before a      *)
(* comparison and the startup call: the status, the fills, two transactions.   *)

Finish(o) ==
    /\ todo' = todo \ {o}
    /\ pc' = IF pc = "cycle" /\ todo = {o} THEN "idle" ELSE pc
    /\ recovered' = IF pc = "recover" THEN recovered \cup {o} ELSE recovered

\* get_order.  An order the venue does not know stays as it is.
LookUp(o) ==
    /\ pc \in {"cycle", "refresh", "recover"} /\ o \in todo /\ asked \cup wrote = {}
    /\ \/ /\ venue[o] # "none" /\ reply' \in Views(o) /\ asked' = {o}
          /\ UNCHANGED <<pc, todo, recovered>>
       \/ venue[o] = "none" /\ Finish(o) /\ UNCHANGED <<reply, asked>>
    /\ UNCHANGED <<venueVars, store, switch, work, wrote, linked, got, seen, heard, excused>>

\* get_fills and add_fills
SaveFills(o) ==
    /\ pc \in {"cycle", "refresh", "recover"} /\ o \in asked
    /\ linked' = Readable(o) /\ saved' = saved \cup Readable(o)
    /\ asked' = {} /\ wrote' = {o}
    /\ UNCHANGED <<venueVars, row, snapshot, before, switch, work, pc, todo, reply,
                   recovered, got, seen, heard, excused>>

\* The fills cover what the answer says was filled.  Fills that came after the answer
\* may make up for missing ones, depending on their sizes.
Covered == reply.filled \subseteq linked
MadeUp == ~(linked \subseteq reply.filled)
WithStatus(o) == [row EXCEPT ![o] = reply.status]

\* update, when the fills cover the answer, and then observe, whatever the row became;
\* the engine of the startup has no observer.
SaveStatus(o) ==
    /\ o \in wrote
    /\ \/ (Covered \/ MadeUp) /\ row' = WithStatus(o)
       \/ ~Covered /\ row' = row
    /\ IF pc = "recover" THEN UNCHANGED <<tracked, known>>
       ELSE tracked' = [tracked EXCEPT ![o] = reply] /\ known' = known \cup linked
    /\ Finish(o) /\ wrote' = {} /\ reply' = Untracked /\ linked' = {}
    /\ UNCHANGED <<venueVars, saved, snapshot, before, switch, applied, baseline,
                   asked, got, seen, heard, excused>>

\* The rows that a call cut short may leave: a status may have been committed by a
\* transaction that raised, or just before the process died.
RowsLeft ==
    {row} \cup {WithStatus(o) : o \in {p \in wrote : Covered \/ MadeUp}}

-----------------------------------------------------------------------------
(* The trading cycle, under the same lock.                                  *)

\* An order is reserved and sent, when no row is unresolved; it may not arrive.  The
\* answer to it is recorded like that of a lookup.
Submit(o) ==
    /\ pc = "idle" /\ switch = "running" /\ row[o] = "absent" /\ Pending = {}
    /\ row' = [row EXCEPT ![o] = "pending"]
    /\ venue' \in {venue, [venue EXCEPT ![o] = "open"]}
    /\ UNCHANGED <<executed, readable, deposited, saved, snapshot, before, switch, work,
                   run, excused>>

\* recover_pending
CycleStart ==
    /\ pc = "idle" /\ Pending # {} /\ pc' = "cycle" /\ todo' = Pending
    /\ UNCHANGED <<venueVars, store, switch, work, recording, recovered, got, seen, heard,
                   excused>>

\* A read or a save fails; the cycle may halt trading.
CycleFails ==
    /\ pc = "cycle" /\ row' \in RowsLeft /\ switch' \in {switch, "halted"}
    /\ EndRun /\ UNCHANGED <<venueVars, saved, snapshot, before, work, excused>>

\* An administrator closes an order the venue never received (forget_order).
CloseUnreceived(o) ==
    /\ pc = "idle" /\ row[o] = "pending" /\ venue[o] = "none"
    /\ row' = [row EXCEPT ![o] = "canceled"]
    /\ tracked' = [tracked EXCEPT ![o] = Untracked]
    /\ UNCHANGED <<venueVars, saved, snapshot, before, switch, known, applied, baseline, run,
                   excused>>

-----------------------------------------------------------------------------
(* ScheduledReconciler.run_once                                             *)

\* A filled order with missing fills is read again like an open one.
NeedsRefresh(o) ==
    \/ tracked[o].status \in {"pending", "open"}
    \/ tracked[o].status = "filled" /\ ~(tracked[o].filled \subseteq known)

RunStart ==
    /\ pc = "idle" /\ pc' = "refresh"
    /\ todo' = {o \in Orders : NeedsRefresh(o)}
    /\ UNCHANGED <<venueVars, store, switch, work, recording, recovered, got, seen, heard,
                   excused>>

ReadBalances ==
    /\ pc = "refresh" /\ todo = {}
    /\ pc' = "read" /\ got' = Balance /\ todo' = Tracked
    /\ UNCHANGED <<venueVars, store, switch, work, recording, recovered, seen, heard, excused>>

\* Reconciler.reconcile, order by order: get_order, and get_fills for one it knows.
ReadStatus(o) ==
    /\ pc \in {"read", "startRead"} /\ o \in todo /\ asked = {}
    /\ \/ /\ venue[o] # "none" /\ asked' = {o} /\ todo' = todo
          /\ \E view \in Views(o) : seen' = [seen EXCEPT ![o] = view]
       \/ venue[o] = "none" /\ todo' = todo \ {o} /\ UNCHANGED <<seen, asked>>
    /\ UNCHANGED <<venueVars, store, switch, work, pc, wrote, reply, linked, recovered, got,
                   heard, excused>>

ReadFills(o) ==
    /\ pc \in {"read", "startRead"} /\ o \in asked
    /\ heard' = heard \cup Readable(o) /\ asked' = {} /\ todo' = todo \ {o}
    /\ UNCHANGED <<venueVars, store, switch, work, pc, wrote, reply, linked, recovered, got,
                   seen, excused>>

\* A refresh, a read or a save fails: trading halts, nothing is adopted.
RunFails ==
    /\ pc \in {"refresh", "read"} /\ switch' = "halted" /\ row' \in RowsLeft
    /\ EndRun /\ UNCHANGED <<venueVars, saved, snapshot, before, work, excused>>

\* expected_state is the baseline plus the fills not applied to it yet; one
\* that the baseline already contains is counted twice.
Unapplied == known \ applied

\* Mutant: the holdings are not compared.
DivergedOrdersOnly == (\E o \in Tracked : seen[o] # tracked[o]) \/ heard # known

Diverged ==
    \/ baseline \cup Unapplied # got \/ Unapplied \cap baseline # {}
    \/ \E o \in Tracked : seen[o] # tracked[o]
    \/ heard # known

SaveSnapshot == snapshot' = got /\ before' = executed /\ UNCHANGED <<row, saved>>

\* _adopt: the broker's portfolio is the new baseline; what was compared is in
\* it; orders the venue has ended leave the working set.
Adopt ==
    /\ baseline' = got /\ applied' = applied \cup known \cup heard
    /\ tracked' = [o \in Orders |->
                     IF seen[o].status \in {"pending", "open"} THEN seen[o] ELSE Untracked]
    /\ known' = {f \in heard : seen[OrderOf[f]].status \in {"pending", "open"}}

Conclude ==
    /\ pc = "read" /\ todo = {}
    /\ IF Diverged THEN switch' = "halted" /\ excused' = excused \cup got
       ELSE UNCHANGED <<switch, excused>>
    /\ SaveSnapshot /\ Adopt
    /\ EndRun /\ UNCHANGED venueVars

\* The snapshot is saved, and the commit of it or of a discrepancy raises.
ConcludeUnsaved ==
    /\ pc = "read" /\ todo = {} /\ switch' = "halted"
    /\ excused' = IF Diverged THEN excused \cup got ELSE excused
    /\ SaveSnapshot
    /\ EndRun /\ UNCHANGED <<venueVars, work>>

-----------------------------------------------------------------------------
(* recover_on_startup, then start_scheduled_reconciliation                  *)

Startup ==
    /\ pc = "down" /\ pc' = "recover" /\ todo' = Pending
    /\ UNCHANGED <<venueVars, store, switch, work, recording, recovered, got, seen, heard,
                   excused>>

\* The schedule starts from the latest snapshot and the rows still open, with
\* their saved fills taken as part of it; or from nothing when they cannot be read.
StartSchedule ==
    /\ \/ /\ baseline' = snapshot'
          /\ tracked' = [o \in Orders |-> IF o \in OpenRows' THEN Stored(o)' ELSE Untracked]
          /\ known' = {f \in saved' : OrderOf[f] \in OpenRows'}
       \/ baseline' = {} /\ tracked' = [o \in Orders |-> Untracked] /\ known' = {}
    /\ applied' = known'
    /\ EndRun

\* A read or a save fails, or an order is still unresolved.
StartupHalts ==
    /\ pc \in {"recover", "startRead"} /\ switch' = "halted"
    /\ row' \in RowsLeft /\ UNCHANGED <<saved, snapshot, before>> /\ StartSchedule
    /\ UNCHANGED <<venueVars, excused>>

StartupReadBalances ==
    /\ pc = "recover" /\ todo = {} /\ Pending = {}
    /\ pc' = "startRead" /\ got' = Balance /\ todo' = OpenRows
    /\ UNCHANGED <<venueVars, store, switch, work, recording, recovered, seen, heard, excused>>

\* Fills that happened after the snapshot are counted, except those this start
\* itself recovered; without a snapshot nothing is expected.
Later == {f \in saved \ before : OrderOf[f] \notin recovered}

\* Mutant: a start without a snapshot takes the broker's portfolio as it is.
StartupDivergedLenient ==
    \/ snapshot # {} /\ snapshot \cup Later # got
    \/ \E o \in OpenRows : seen[o] # Stored(o)
    \/ heard # {f \in saved : OrderOf[f] \in OpenRows}

StartupDiverged ==
    \/ (IF snapshot = {} THEN {} ELSE snapshot \cup Later) # got
    \/ \E o \in OpenRows : seen[o] # Stored(o)
    \/ heard # {f \in saved : OrderOf[f] \in OpenRows}

\* The commit of the snapshot may raise, which halts trading like a difference.
StartupConclude ==
    /\ pc = "startRead" /\ todo = {}
    /\ IF StartupDiverged THEN switch' = "halted" /\ excused' = excused \cup got
       ELSE switch' \in {switch, "halted"} /\ UNCHANGED excused
    /\ SaveSnapshot /\ StartSchedule
    /\ UNCHANGED venueVars

-----------------------------------------------------------------------------
(* The administrator, the process, the venue.                               *)
Rearm ==
    /\ pc \in {"idle", "cycle", "refresh", "read"} /\ switch = "halted" /\ switch' = "running"
    /\ UNCHANGED <<venueVars, store, work, run, excused>>

Crash ==
    /\ pc # "down" /\ pc' = "down" /\ row' \in RowsLeft
    /\ tracked' = [o \in Orders |-> Untracked] /\ known' = {} /\ applied' = {} /\ baseline' = {}
    /\ Rest /\ UNCHANGED <<venueVars, saved, snapshot, before, switch, excused>>

VenueExecutes(f) ==
    /\ venue[OrderOf[f]] = "open" /\ f \notin executed
    /\ executed' = executed \cup {f}
    /\ venue' = IF FillsOf(OrderOf[f]) \subseteq executed \cup {f}
                THEN [venue EXCEPT ![OrderOf[f]] = "filled"] ELSE venue
    /\ UNCHANGED <<readable, deposited, store, switch, work, run, excused>>

VenueCancels(o) ==
    /\ venue[o] = "open" /\ venue' = [venue EXCEPT ![o] = "canceled"]
    /\ UNCHANGED <<executed, readable, deposited, store, switch, work, run, excused>>

VenuePublishes(f) ==
    /\ f \in executed \ readable /\ readable' = readable \cup {f}
    /\ UNCHANGED <<venue, executed, deposited, store, switch, work, run, excused>>

DepositMade ==
    /\ ~deposited /\ deposited' = TRUE
    /\ UNCHANGED <<venue, executed, readable, store, switch, work, run, excused>>

-----------------------------------------------------------------------------
Next ==
    \/ CycleStart \/ CycleFails
    \/ RunStart \/ ReadBalances \/ RunFails \/ Conclude \/ ConcludeUnsaved
    \/ Startup \/ StartupHalts \/ StartupReadBalances \/ StartupConclude
    \/ \E o \in Orders :
        \/ LookUp(o) \/ SaveFills(o) \/ SaveStatus(o) \/ ReadStatus(o) \/ ReadFills(o)
        \/ Submit(o) \/ CloseUnreceived(o) \/ VenueCancels(o)
    \/ Rearm \/ Crash \/ DepositMade
    \/ \E f \in Fills : VenueExecutes(f) \/ VenuePublishes(f)

Spec == Init /\ [][Next]_vars

-----------------------------------------------------------------------------
\* Every variable holds a value of its kind.
TypeOK ==
    /\ venue \in [Orders -> {"none", "open"} \cup Terminal]
    /\ executed \subseteq Fills /\ readable \subseteq Fills /\ deposited \in BOOLEAN
    /\ row \in [Orders -> {"absent", "pending", "open"} \cup Terminal]
    /\ saved \subseteq Fills /\ snapshot \subseteq Moves /\ before \subseteq Fills
    /\ switch \in {"running", "halted"}
    /\ tracked \in [Orders -> Images] /\ seen \in [Orders -> Images]
    /\ known \subseteq Fills /\ applied \subseteq Fills /\ heard \subseteq Fills
    /\ baseline \subseteq Moves /\ got \subseteq Moves /\ excused \subseteq Moves
    /\ pc \in Labels /\ todo \subseteq Orders /\ recovered \subseteq Orders
    /\ asked \subseteq todo /\ wrote \subseteq todo /\ reply \in Images /\ linked \subseteq Fills

\* Nothing enters the books unseen: what the adopted portfolio and the saved
\* snapshot contain is a fill the store has, or was part of a comparison that
\* halted trading.
NothingEntersUnseen == baseline \cup snapshot \subseteq saved \cup excused

\* While no comparison has failed, the next one counts each fill once.
CountedOnce == Unapplied \cap baseline \subseteq excused

\* "are already in the broker's balances but not in the snapshot, so they are
\* counted here exactly as the scheduled reconciler counts them": what the
\* schedule counts on top of its snapshot is not in it already.
CountsWhatSnapshotLacks == pc = "idle" => Unapplied \cap baseline = {}

\* "Open orders and filled orders with missing recorded quantity are re-read
\* before each comparison": an order whose row is still open in the store is
\* read again by the next run.
OpenOrdersAreReRead ==
    \A o \in Orders : pc = "idle" /\ row[o] = "open" => NeedsRefresh(o)
=============================================================================
