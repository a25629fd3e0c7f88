--------------------------- MODULE OrderExecution ---------------------------
(***************************************************************************)
(* The persistence-first order path: the order store (order rows and the   *)
(* fills recorded for them), the execution engine that reserves a row, asks *)
(* the venue, submits and records, and the administrator's closing of an   *)
(* order the venue never received.                                         *)
(*                                                                         *)
(* Every caller - the trading cycle, startup recovery, the scheduled       *)
(* reconciler's refresh and the close control - runs under one asyncio     *)
(* lock, so one operation is under way at a time.  Each await in it is a   *)
(* point where the venue moves and the process may die; store writes are   *)
(* separate transactions and may fail.                                     *)
(***************************************************************************)
EXTENDS Naturals, FiniteSets

CONSTANTS
    Orders,       \* client order ids: one approved request each
    Fills,        \* the units an order's quantity is executed in
    NoOrder,      \* the operation has no current order
    VenueLag,     \* a request may reach the venue after its caller gave up,
                  \* and a lookup may miss an order the venue has accepted
    DirectSubmit, \* engine.submit is also called outside the trading cycle
    MaxSends      \* bound: POSTs modelled for one client order id

ASSUME OrderAssumption == NoOrder \notin Orders
ASSUME FillAssumption == IsFiniteSet(Fills)
ASSUME ModeAssumption ==
    /\ VenueLag \in BOOLEAN
    /\ DirectSubmit \in BOOLEAN
    /\ ~(VenueLag /\ DirectSubmit)
ASSUME SendsAssumption == MaxSends \in Nat

VARIABLES
    row,      \* orders.status of each row, "absent" before it is reserved
    fills,    \* fills recorded for each row
    closedBy, \* actor of the order_closed_never_received event, if written
    \* the venue (external)
    wire,     \* requests on their way to the venue
    sends,    \* POSTs issued for each client order id (history)
    made,     \* orders the venue created for each client order id
    venue,    \* status of the venue's order
    executed, \* units the venue executed
    readable, \* executed units its fills endpoint already returns
    \* the operation that holds the trading lock (lost in a crash)
    pc, kind, cur,
    created,  \* reserve_with_created inserted the row in this call
    snap,     \* the venue's answer being recorded
    linked,   \* the fills read for it
    todo,     \* rows recover_pending still has to ask for
    reply     \* the venue's answer to the POST, on its way back

store == <<row, fills, closedBy>>
outside == <<wire, sends, made, venue, executed, readable>>
memory == <<pc, kind, cur, created, snap, linked, todo, reply>>
vars == <<row, fills, closedBy, wire, sends, made, venue, executed, readable,
          pc, kind, cur, created, snap, linked, todo, reply>>

Unresolved == {"pending_submit", "unknown"}
Live == {"open", "partially_filled"}
Terminal == {"filled", "canceled", "rejected"}
Status == {"absent"} \cup Unresolved \cup Live \cup Terminal
VenueStatus == {"none"} \cup Live \cup Terminal
Snap == [status : Unresolved \cup Live \cup Terminal, executed : SUBSET Fills]
OpenAck == [status |-> "open", executed |-> {}]
Labels == {"idle", "recover", "choose", "lookup", "send", "await", "fills",
           "settle", "closeLookup", "closeFills"}
Kinds == {"none", "cycle", "startup", "submit", "refresh", "close"}

\* Mutant of Pending: rows whose submission never got an outcome are left out.
PendingUnknownOnly == {o \in Orders : row[o] = "unknown"}

\* store.pending(): the rows recovery and the close control may act on.
Pending == {o \in Orders : row[o] \in Unresolved}

\* What get_order answers: the venue's order, or not found.  A venue without
\* lag has handled every earlier request for the order before it answers.
Answers(o) == VenueLag \/ o \notin wire
NotFound(o) == made[o] = 0 \/ VenueLag

\* The status the adapter makes of the order found: the venue's own; "unknown"
\* for one the venue calls unknown; "pending_submit" for one the venue calls
\* pending or shows neither live nor ended, while nothing has executed.
ReadAs(o) == {venue[o], "unknown"} \cup
             {s \in {"pending_submit"} : executed[o] = {}}
Views(o) == {[status |-> s, executed |-> executed[o]] : s \in ReadAs(o)}

Init ==
    /\ row = [o \in Orders |-> "absent"]
    /\ fills = [o \in Orders |-> {}]
    /\ closedBy = [o \in Orders |-> "none"]
    /\ wire = {}
    /\ sends = [o \in Orders |-> 0]
    /\ made = [o \in Orders |-> 0]
    /\ venue = [o \in Orders |-> "none"]
    /\ executed = [o \in Orders |-> {}]
    /\ readable = [o \in Orders |-> {}]
    /\ pc = "idle" /\ kind = "none" /\ cur = NoOrder
    /\ created = FALSE /\ snap = OpenAck /\ linked = {} /\ todo = {}
    /\ reply = "none"

-----------------------------------------------------------------------------
(* The operation ends, by returning or by raising: the lock is released and *)
(* nothing of it is kept.                                                   *)
Finish ==
    /\ pc' = "idle" /\ kind' = "none" /\ cur' = NoOrder
    /\ created' = FALSE /\ snap' = OpenAck /\ linked' = {} /\ todo' = {}
    /\ reply' = "none"

GoTo(label) == pc' = label /\ UNCHANGED <<kind, cur, created, linked, todo, reply>>

\* A store write commits, or raises PersistenceUnavailable and changes nothing.
Save(o, status) ==
    \/ row' = [row EXCEPT ![o] = status]
    \/ UNCHANGED row

\* close_unreceived: the status and its audit event in one conditional write.
CloseUnreceived(o, actor) ==
    \/ /\ row[o] \in Unresolved
       /\ row' = [row EXCEPT ![o] = "canceled"]
       /\ closedBy' = [closedBy EXCEPT ![o] = actor]
    \/ UNCHANGED <<row, closedBy>>

-----------------------------------------------------------------------------
(* TradingCycle._run, startup recovery and recover_pending.                 *)

StartRecovery(k) ==
    /\ pc = "idle" /\ kind' = k
    /\ todo' = Pending /\ pc' = "recover"
    /\ UNCHANGED <<cur, created, snap, linked, reply, store, outside>>

CycleStart == StartRecovery("cycle")
StartupStart == StartRecovery("startup")

\* recover(): ask the venue for one pending row.
RecoverFound(o) ==
    /\ pc = "recover" /\ o \in todo
    /\ Answers(o) /\ made[o] > 0
    /\ cur' = o /\ snap' \in Views(o) /\ pc' = "fills"
    /\ todo' = todo \ {o}
    /\ UNCHANGED <<kind, created, linked, reply, store, outside>>

RecoverNotFound(o) ==
    /\ pc = "recover" /\ o \in todo
    /\ Answers(o) /\ NotFound(o)
    /\ todo' = todo \ {o}
    /\ UNCHANGED <<pc, kind, cur, created, snap, linked, reply, store, outside>>

RecoverFails ==
    /\ pc = "recover" /\ todo # {}
    /\ Finish /\ UNCHANGED <<store, outside>>

\* Mutant: the cycle goes on with a row still unresolved.
RecoverDoneUnguarded ==
    /\ pc = "recover" /\ todo = {}
    /\ IF kind = "cycle" THEN GoTo("choose") /\ UNCHANGED snap ELSE Finish
    /\ UNCHANGED <<store, outside>>

\* The pending rows are read again; only a cycle that finds none goes on.
RecoverDone ==
    /\ pc = "recover" /\ todo = {}
    /\ \/ /\ kind = "cycle" /\ Pending = {}
          /\ GoTo("choose") /\ UNCHANGED snap
       \/ /\ kind # "cycle" \/ Pending # {}
          /\ Finish
    /\ UNCHANGED <<store, outside>>

\* No signal, a refused decision, or a record (signal, decision, order row)
\* that cannot be written.
CycleWithoutOrder ==
    /\ pc = "choose"
    /\ Finish /\ UNCHANGED <<store, outside>>

-----------------------------------------------------------------------------
(* ExecutionEngine.submit                                                   *)

\* Reserve the row: insert it, or take the unresolved one as it is.
Reserve(o) ==
    /\ row[o] \in {"absent"} \cup Unresolved
    /\ row' = [row EXCEPT ![o] = IF row[o] = "absent" THEN "pending_submit" ELSE row[o]]
    /\ created' = (row[o] = "absent")
    /\ cur' = o /\ pc' = "lookup"
    /\ UNCHANGED <<fills, closedBy, snap, linked, todo, reply, outside>>

\* Only reached from RecoverDone, with no unresolved row left.
CycleSubmit(o) ==
    /\ pc = "choose" /\ kind' = "submit"
    /\ Reserve(o)

\* A row that is live or settled is returned as it is, without a venue call.
CycleResubmit(o) ==
    /\ pc = "choose" /\ row[o] \in Live \cup Terminal
    /\ Finish /\ UNCHANGED <<store, outside>>

\* A caller outside the cycle submits or retries the request.
DirectStart(o) ==
    /\ DirectSubmit /\ pc = "idle" /\ kind' = "submit"
    /\ Reserve(o)

LookupFound ==
    /\ pc = "lookup" /\ Answers(cur) /\ made[cur] > 0
    /\ snap' \in Views(cur) /\ GoTo("fills")
    /\ UNCHANGED <<store, outside>>

LookupNotFound ==
    /\ pc = "lookup" /\ Answers(cur) /\ NotFound(cur)
    /\ GoTo("send") /\ UNCHANGED <<snap, store, outside>>

\* Mutant: a row that existed before this call is closed as well.
LookupFailsCloses ==
    /\ pc = "lookup"
    /\ CloseUnreceived(cur, "system")
    /\ Finish /\ UNCHANGED <<fills, outside>>

\* The pre-submit lookup failed: a row this call created is closed as never
\* sent, a row that existed stays unresolved for recovery.
LookupFails ==
    /\ pc = "lookup"
    /\ IF created THEN CloseUnreceived(cur, "system") ELSE UNCHANGED <<row, closedBy>>
    /\ Finish /\ UNCHANGED <<fills, outside>>

Send ==
    /\ pc = "send" /\ sends[cur] < MaxSends
    /\ wire' = wire \cup {cur}
    /\ sends' = [sends EXCEPT ![cur] = @ + 1]
    /\ GoTo("await")
    /\ UNCHANGED <<snap, store, made, venue, executed, readable>>

\* The adapter gives up before the POST: an open circuit leaves the row alone,
\* a market order that cannot be priced is refused outright.
SendRefusedLocally ==
    /\ pc = "send"
    /\ UNCHANGED row \/ row' = [row EXCEPT ![cur] = "rejected"]
    /\ Finish /\ UNCHANGED <<fills, closedBy, outside>>

\* Accepted.  The acknowledgement carries the order's state, or only its id
\* when the read-back after it fails.
SendAcknowledged ==
    /\ pc = "await" /\ reply = "accepted"
    /\ snap' \in Views(cur) \cup {OpenAck}
    /\ pc' = "fills" /\ reply' = "none"
    /\ UNCHANGED <<kind, cur, created, linked, todo, store, outside>>

SendRejected ==
    /\ pc = "await" /\ reply = "refused"
    /\ Save(cur, "rejected")
    /\ Finish /\ UNCHANGED <<fills, closedBy, outside>>

\* Mutants: a POST that failed is taken for one that was never sent, or for a
\* refusal.
SendFailsCloses ==
    /\ pc = "await"
    /\ CloseUnreceived(cur, "system")
    /\ Finish /\ UNCHANGED <<fills, outside>>

SendFailsRejected ==
    /\ pc = "await"
    /\ Save(cur, "rejected")
    /\ Finish /\ UNCHANGED <<fills, closedBy, outside>>

\* A timeout carries an order of unknown outcome; any other failure carries
\* none, and the row stays as it is.
SendFails ==
    /\ pc = "await"
    /\ Save(cur, "unknown")
    /\ Finish /\ UNCHANGED <<fills, closedBy, outside>>

-----------------------------------------------------------------------------
(* _record                                                                  *)

\* Read the fills and record them, in a transaction of their own.
RecordFills ==
    /\ pc = "fills"
    /\ linked' = readable[cur]
    /\ fills' = [fills EXCEPT ![cur] = @ \cup readable[cur]]
    /\ pc' = "settle"
    /\ UNCHANGED <<row, closedBy, kind, cur, created, snap, todo, reply, outside>>

RecordFails ==
    /\ pc \in {"fills", "settle"}
    /\ Finish /\ UNCHANGED <<store, outside>>

\* Mutant: the row takes the venue's status whatever fills were read.
SettleEarly ==
    /\ pc = "settle"
    /\ row' = [row EXCEPT ![cur] = snap.status]
    /\ IF kind \in {"cycle", "startup"}
       THEN /\ pc' = "recover" /\ cur' = NoOrder /\ snap' = OpenAck /\ linked' = {}
            /\ UNCHANGED <<kind, created, todo, reply>>
       ELSE Finish
    /\ UNCHANGED <<fills, closedBy, outside>>

\* The row takes the status read, whatever its own is, when the fills read
\* cover the filled quantity; otherwise it keeps its status and stays
\* recoverable.  A live row can so become unresolved again.
Settle ==
    /\ pc = "settle"
    /\ row' = IF Cardinality(linked) >= Cardinality(snap.executed)
              THEN [row EXCEPT ![cur] = snap.status] ELSE row
    /\ IF kind \in {"cycle", "startup"}
       THEN /\ pc' = "recover" /\ cur' = NoOrder /\ snap' = OpenAck /\ linked' = {}
            /\ UNCHANGED <<kind, created, todo, reply>>
       ELSE Finish
    /\ UNCHANGED <<fills, closedBy, outside>>

\* The scheduled reconciler refreshes an order it tracks that is not settled.
RefreshFound(o) ==
    /\ pc = "idle" /\ row[o] \in Unresolved \cup Live
    /\ Answers(o) /\ made[o] > 0
    /\ kind' = "refresh" /\ cur' = o /\ snap' \in Views(o) /\ pc' = "fills"
    /\ UNCHANGED <<created, linked, todo, reply, store, outside>>

-----------------------------------------------------------------------------
(* OrderCloser.close: both venue reads, then the conditional write.         *)

CloseStart(o) ==
    /\ pc = "idle" /\ row[o] \in Unresolved
    /\ kind' = "close" /\ cur' = o /\ pc' = "closeLookup"
    /\ UNCHANGED <<created, snap, linked, todo, reply, store, outside>>

CloseLookupNotFound ==
    /\ pc = "closeLookup" /\ Answers(cur) /\ NotFound(cur)
    /\ GoTo("closeFills") /\ UNCHANGED <<snap, store, outside>>

CloseRefused ==
    /\ pc \in {"closeLookup", "closeFills"}
    /\ Finish /\ UNCHANGED <<store, outside>>

CloseApplied ==
    /\ pc = "closeFills" /\ readable[cur] = {}
    /\ CloseUnreceived(cur, "admin")
    /\ Finish /\ UNCHANGED <<fills, outside>>

-----------------------------------------------------------------------------
(* The process dies: what was committed stays, the operation is forgotten.  *)
Crash ==
    /\ pc # "idle"
    /\ Finish /\ UNCHANGED <<store, outside>>

-----------------------------------------------------------------------------
(* The venue.  It does not deduplicate client order ids.                    *)

Heard(o, answer) ==
    reply' = IF pc = "await" /\ cur = o THEN answer ELSE reply

VenueAccepts(o) ==
    /\ o \in wire
    /\ wire' = wire \ {o}
    /\ made' = [made EXCEPT ![o] = @ + 1]
    /\ venue' = [venue EXCEPT ![o] = "open"]
    /\ Heard(o, "accepted")
    /\ UNCHANGED <<store, sends, executed, readable,
                   pc, kind, cur, created, snap, linked, todo>>

VenueRefuses(o) ==
    /\ o \in wire
    /\ wire' = wire \ {o}
    /\ Heard(o, "refused")
    /\ UNCHANGED <<store, sends, made, venue, executed, readable,
                   pc, kind, cur, created, snap, linked, todo>>

RequestLost(o) ==
    /\ o \in wire
    /\ wire' = wire \ {o}
    /\ UNCHANGED <<store, sends, made, venue, executed, readable, memory>>

VenueExecutes(o, f) ==
    /\ venue[o] \in Live /\ f \in Fills \ executed[o]
    /\ executed' = [executed EXCEPT ![o] = @ \cup {f}]
    /\ venue' = [venue EXCEPT ![o] =
                    IF executed[o] \cup {f} = Fills THEN "filled" ELSE "partially_filled"]
    /\ UNCHANGED <<store, wire, sends, made, readable, memory>>

VenueEnds(o) ==
    /\ venue[o] \in Live
    /\ \/ venue' = [venue EXCEPT ![o] = "canceled"]
       \/ executed[o] = {} /\ venue' = [venue EXCEPT ![o] = "rejected"]
    /\ UNCHANGED <<store, wire, sends, made, executed, readable, memory>>

VenuePublishes(o, f) ==
    /\ f \in executed[o] \ readable[o]
    /\ readable' = [readable EXCEPT ![o] = @ \cup {f}]
    /\ UNCHANGED <<store, wire, sends, made, venue, executed, memory>>

-----------------------------------------------------------------------------
Recovery ==
    \/ RecoverFails \/ RecoverDone
    \/ \E o \in Orders : RecoverFound(o) \/ RecoverNotFound(o)

Submission ==
    \/ CycleWithoutOrder
    \/ \E o \in Orders : CycleSubmit(o) \/ CycleResubmit(o)
    \/ LookupFound \/ LookupNotFound \/ LookupFails
    \/ Send \/ SendRefusedLocally
    \/ SendAcknowledged \/ SendRejected \/ SendFails

Recording == RecordFills \/ RecordFails \/ Settle

Closing == CloseLookupNotFound \/ CloseRefused \/ CloseApplied

Start ==
    \/ CycleStart \/ StartupStart
    \/ \E o \in Orders : DirectStart(o) \/ RefreshFound(o) \/ CloseStart(o)

Arrival == \E o \in Orders : VenueAccepts(o) \/ VenueRefuses(o) \/ RequestLost(o)

Venue ==
    \/ Arrival
    \/ \E o \in Orders : VenueEnds(o)
    \/ \E o \in Orders, f \in Fills : VenueExecutes(o, f) \/ VenuePublishes(o, f)

\* The lock holder's own steps: each await returns or raises in the end.
Step == Recovery \/ Submission \/ Recording \/ Closing

Next == Start \/ Step \/ Crash \/ Venue

Spec == Init /\ [][Next]_vars

\* The answer under way is the venue's own status of the order.
Understood(o) == cur = o /\ snap.status \in Live \cup Terminal

(* An operation ends, requests arrive or are lost, executed units become    *)
(* readable, the lock's queue reaches the trading cycle, and a call that is *)
(* tried again and again succeeds in the end, with a status the adapter      *)
(* knows.                                                                   *)
Fairness ==
    /\ WF_vars(Step) /\ WF_vars(Arrival) /\ SF_vars(CycleStart)
    /\ \A o \in Orders :
        /\ SF_vars(RecoverFound(o) /\ snap'.status = venue[o])
        /\ SF_vars(Understood(o) /\ RecordFills)
        /\ SF_vars(Understood(o) /\ Settle)
        /\ \A f \in Fills : WF_vars(VenuePublishes(o, f))

FairSpec == Spec /\ Fairness

-----------------------------------------------------------------------------
\* Every variable holds a value of its kind.
TypeOK ==
    /\ row \in [Orders -> Status]
    /\ fills \in [Orders -> SUBSET Fills]
    /\ closedBy \in [Orders -> {"none", "system", "admin"}]
    /\ wire \subseteq Orders
    /\ sends \in [Orders -> Nat]
    /\ made \in [Orders -> Nat]
    /\ venue \in [Orders -> VenueStatus]
    /\ executed \in [Orders -> SUBSET Fills]
    /\ readable \in [Orders -> SUBSET Fills]
    /\ pc \in Labels /\ kind \in Kinds
    /\ cur \in Orders \cup {NoOrder}
    /\ created \in BOOLEAN /\ snap \in Snap
    /\ linked \subseteq Fills /\ todo \subseteq Orders
    /\ reply \in {"none", "accepted", "refused"}

\* The venue never holds two orders of one client order id: across crashes,
\* timeouts, failed writes and retries, submit asks before it sends and the
\* cycle sends nothing while a row is unresolved.
NoDuplicateOrder == \A o \in Orders : made[o] <= 1

\* The trading cycle posts an order only while it has the venue's word on every
\* other one: what the venue holds, or may still receive, has a row that is live
\* or in its final status.  Earlier timeouts, crashes, failed writes and answers
\* the adapter could not read have all been resolved by then.  (A request that a
\* lagging venue accepts after an administrator closed its order is excepted.)
PostsWithoutDoubt ==
    [][\A o \in Orders :
        ~DirectSubmit /\ sends'[o] # sends[o]
            => \A p \in Orders \ {o} :
                 made[p] > 0 \/ p \in wire
                    => \/ row[p] \in Live \cup {venue[p]}
                       \/ VenueLag /\ closedBy[p] = "admin"]_vars

\* An order closed as never received is not at the venue and never gets
\* there.  The engine's own closing (its lookup failed before the POST) is
\* right whatever the venue does; the administrator's rests on not-found
\* being final, which a lagging venue does not give.
ClosedNeverReceived ==
    \A o \in Orders :
        closedBy[o] = "system" \/ (closedBy[o] = "admin" /\ ~VenueLag)
            => /\ row[o] = "canceled"
               /\ made[o] = 0 /\ o \notin wire
               /\ (closedBy[o] = "system" => sends[o] = 0)

\* No order settles without its fills: a row the venue ended has every unit
\* the venue executed, and no other, although the status and the fills are
\* read at different moments and written in different transactions.
SettledWithFills ==
    \A o \in Orders :
        row[o] \in Terminal /\ closedBy[o] = "none" => fills[o] = executed[o]

\* No order lives at the venue unknown to the store: its row is unresolved or
\* live, so that recovery or the reconciler asks for it, or has its final status.
NoOrphanOrder ==
    \A o \in Orders :
        made[o] > 0 => \/ row[o] \in Unresolved \cup Live \cup {venue[o]}
                       \/ VenueLag /\ closedBy[o] = "admin"

\* A settled row is never written again and recorded fills stay, although a
\* row's status is written unconditionally (update).
SettledForGood ==
    [][\A o \in Orders :
        /\ row[o] \in Terminal => row'[o] = row[o]
        /\ fills[o] \subseteq fills'[o]]_vars

\* The stage an order's row stands for in OrderContract.
Stage(o) ==
    CASE row[o] = "absent" -> "new"
      [] row[o] \in Unresolved -> "saved"
      [] row[o] \in Live -> "confirmed"
      [] row[o] \in Terminal /\ closedBy[o] = "none" -> "ended"
      [] OTHER -> "dropped"

stages == [o \in Orders |-> Stage(o)]

Contract == INSTANCE OrderContract
                WITH stage <- stages, posted <- sends, booked <- fills

\* Driven by the trading cycle, the order path keeps OrderContract: saved
\* before posted, posted at most once, booked while open, ended once.
KeepsContract == Contract!Spec

\* An order the venue holds does not stay unresolved: the cycles that follow
\* find it, record its fills and give the row its status, also after an answer
\* the adapter could not read took the row back.
EventuallyAccounted ==
    \A o \in Orders :
        (made[o] > 0 /\ row[o] \in Unresolved) ~> (row[o] \in Live \cup Terminal)
=============================================================================
