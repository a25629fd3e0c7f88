---------------------------- MODULE AccountProofs ----------------------------
(***************************************************************************)
(* What the system knows of its account: what reconciliation and startup      *)
(* recovery let into the books, for every set of orders and fills; what the    *)
(* ledger projects and what a coin has cost, for every list of fills; and the   *)
(* day's result, for every set of coins and prices.                          *)
(***************************************************************************)
EXTENDS MCAccount, Sequences, WellFoundedInduction, TLAPS

\* The fills the venue has are of orders it knows, a lookup is recorded only for such an
\* order, and a process at rest has nothing left to do.
AnswersReal ==
    /\ readable \subseteq executed /\ \A f \in executed : venue[OrderOf[f]] # "none"
    /\ pc \in {"idle", "down"} => todo = {}
    /\ pc \in {"cycle", "refresh", "recover"} /\ asked # {} => reply.status # "none"
    /\ wrote # {} =>
          pc \in {"cycle", "refresh", "recover"} /\ reply.status # "none" /\ asked = {}

TypeInv == TypeOK /\ AnswersReal

\* Every fill the process or the store has was returned by the venue's fills endpoint,
\* and before the schedule starts it counts none.
ReadFromVenue ==
    /\ saved \subseteq readable /\ heard \subseteq readable /\ known \subseteq readable
    /\ \A o \in wrote : linked \subseteq saved \cap FillsOf(o)
    /\ pc \in {"down", "recover", "startRead"} => known = {}

\* A comparison that fails may leave the schedule counting a fill it heard of after it
\* read the balances and that is not recorded.  The fill's order is still tracked as
\* unfinished, so the next run reads it again, and records it, before it compares.
RecordedFirst ==
    \A f \in known \ saved :
        /\ tracked[OrderOf[f]].status \in {"pending", "open"} /\ OrderOf[f] \notin wrote
        /\ pc \in {"idle", "cycle", "refresh"} /\ (pc = "refresh" => OrderOf[f] \in todo)

IInv == ReadFromVenue /\ RecordedFirst /\ NothingEntersUnseen

USE MovementAssumption DEF Terminal, Moves, Labels

-----------------------------------------------------------------------------
(* Types.                                                                  *)
LEMMA UntrackedType == Untracked \in Images /\ Untracked.status = "none"
  BY DEF Untracked, Images

LEMMA ViewType ==
  ASSUME TypeOK, NEW o \in Orders, NEW view \in Views(o)
  PROVE  view \in Images /\ (venue[o] # "none" => view.status # "none")
<1>1. PICK s \in Answers(o) : view = [status |-> s, filled |-> executed \cap FillsOf(o)]
  BY DEF Views
<1>2. s \in {"none", "pending", "open", "filled", "canceled"} /\ (venue[o] # "none" => s # "none")
  BY DEF Answers, TypeOK
<1>3. executed \cap FillsOf(o) \in SUBSET Fills
  BY DEF TypeOK
<1> QED
  BY <1>1, <1>2, <1>3 DEF Images

LEMMA ReadableType ==
  ASSUME TypeOK, NEW o \in Orders
  PROVE  Readable(o) \subseteq Fills /\ Readable(o) \subseteq readable
         /\ \A f \in Readable(o) : OrderOf[f] = o
  BY DEF TypeOK, Readable, FillsOf

LEMMA BalanceType == TypeOK => Balance \subseteq Moves
  BY DEF TypeOK, Balance

LEMMA StoredType ==
  ASSUME TypeOK, NEW o \in OpenRows
  PROVE  Stored(o) \in Images
  BY DEF TypeOK, Stored, Images, OpenRows, FillsOf

\* A status is written for an order with an answer, and no other row changes.
LEMMA WrittenRow ==
  ASSUME TypeInv, NEW o \in wrote
  PROVE  /\ WithStatus(o) \in [Orders -> {"absent", "pending", "open"} \cup Terminal]
         /\ o \in todo /\ o \in Orders /\ WithStatus(o)[o] = reply.status
         /\ reply.status # "absent"
         /\ \A p \in Orders : p # o => WithStatus(o)[p] = row[p]
<1>1. reply.status \in {"pending", "open", "filled", "canceled"}
  BY DEF TypeInv, TypeOK, AnswersReal, Images
<1>2. o \in Orders /\ o \in todo
  BY DEF TypeInv, TypeOK
<1> QED
  BY <1>1, <1>2 DEF WithStatus, TypeInv, TypeOK

\* What a call cut short may leave.
LEMMA RowsLeftType ==
  ASSUME TypeInv, NEW left \in RowsLeft
  PROVE  /\ left \in [Orders -> {"absent", "pending", "open"} \cup Terminal]
         /\ \A o \in Orders : left[o] = row[o] \/ (o \in wrote /\ left[o] # "absent")
<1>1. CASE left = row
  BY <1>1 DEF TypeInv, TypeOK
<1>2. CASE \E o \in wrote : left = WithStatus(o)
  <2>1. PICK o \in wrote : left = WithStatus(o)
    BY <1>2
  <2> QED
    BY <2>1, WrittenRow
<1> QED
  BY <1>1, <1>2 DEF RowsLeft

LEMMA TypeInitially == Init => TypeInv
<1> SUFFICES ASSUME Init PROVE TypeInv
  OBVIOUS
<1>1. deposited \in BOOLEAN
  BY Zenon DEF Init
<1>2. TypeOK
  BY <1>1, UntrackedType DEF Init, TypeOK
<1>3. AnswersReal
  BY DEF Init, AnswersReal
<1> QED
  BY <1>2, <1>3 DEF TypeInv

\* The state a run ends in.
LEMMA RestType ==
  ASSUME Rest
  PROVE  /\ seen' \in [Orders -> Images] /\ todo' = {} /\ recovered' = {} /\ got' = {}
         /\ heard' = {} /\ asked' = {} /\ wrote' = {} /\ reply' \in Images /\ linked' = {}
         /\ \A o \in Orders : seen'[o] = Untracked
  BY UntrackedType DEF Rest

LEMMA RecordingType ==
  ASSUME TypeInv, NEW o \in Orders, LookUp(o) \/ SaveFills(o) \/ SaveStatus(o)
  PROVE  TypeInv'
<1> USE DEF TypeInv, venueVars, store, work, run
<1>1. CASE LookUp(o)
  <2>1. /\ UNCHANGED <<venue, executed, readable, deposited, store, switch, work, wrote, linked,
                       got, seen, heard, excused>>
        /\ pc \in {"cycle", "refresh", "recover"} /\ asked = {} /\ wrote = {} /\ o \in todo
    BY <1>1 DEF LookUp
  <2>2. CASE venue[o] # "none" /\ reply' \in Views(o) /\ asked' = {o} /\ UNCHANGED <<pc, todo, recovered>>
    <3>1. reply' \in Images /\ reply'.status # "none"
      BY <2>2, ViewType
    <3> QED
      BY <2>1, <2>2, <3>1 DEF TypeOK, AnswersReal
  <2>3. CASE venue[o] = "none" /\ Finish(o) /\ UNCHANGED <<reply, asked>>
    BY <2>1, <2>3 DEF Finish, TypeOK, AnswersReal
  <2> QED
    BY <1>1, <2>2, <2>3 DEF LookUp
<1>2. CASE SaveFills(o)
  BY <1>2, ReadableType DEF SaveFills, TypeOK, AnswersReal
<1>3. CASE SaveStatus(o)
  <2>1. /\ UNCHANGED <<venue, executed, readable, deposited, saved, snapshot, before, switch, applied,
                       baseline, asked, got, seen, heard, excused>>
        /\ o \in wrote /\ wrote' = {} /\ reply' = Untracked /\ linked' = {} /\ Finish(o)
    BY <1>3 DEF SaveStatus
  <2>2. row' \in [Orders -> {"absent", "pending", "open"} \cup Terminal]
    BY <1>3, WrittenRow DEF SaveStatus, TypeOK
  <2>3. tracked' \in [Orders -> Images] /\ known' \subseteq Fills
    BY <1>3 DEF SaveStatus, TypeOK
  <2>4. asked = {}
    BY <2>1 DEF AnswersReal
  <2>5. /\ todo' = todo \ {o} /\ todo' \subseteq Orders /\ recovered' \subseteq Orders
        /\ pc' \in Labels /\ (pc' = "idle" => todo' = {}) /\ pc' # "down"
    BY <2>1 DEF Finish, TypeOK, AnswersReal
  <2> QED
    BY <2>1, <2>2, <2>3, <2>4, <2>5, UntrackedType DEF TypeOK, AnswersReal
<1> QED
  BY <1>1, <1>2, <1>3

LEMMA ReadingType ==
  ASSUME TypeInv, NEW o \in Orders, ReadStatus(o) \/ ReadFills(o)
  PROVE  TypeInv'
<1> USE DEF TypeInv, venueVars, store, work, run
<1>1. CASE ReadStatus(o)
  <2>1. seen' \in [Orders -> Images] /\ todo' \subseteq Orders /\ asked' \subseteq todo'
    BY <1>1, ViewType DEF ReadStatus, TypeOK
  <2> QED
    BY <1>1, <2>1 DEF ReadStatus, TypeOK, AnswersReal
<1>2. CASE ReadFills(o)
  BY <1>2, ReadableType DEF ReadFills, TypeOK, AnswersReal
<1> QED
  BY <1>1, <1>2

LEMMA TypeStep == TypeInv /\ [Next]_vars => TypeInv'
<1> SUFFICES ASSUME TypeInv, [Next]_vars PROVE TypeInv'
  OBVIOUS
<1>0. TypeOK /\ AnswersReal
  BY DEF TypeInv
<1> USE <1>0 DEF venueVars, store, work, run, recording
<1>1. CASE UNCHANGED vars
  BY <1>1 DEF vars, TypeInv, TypeOK, AnswersReal
<1>2. CASE RunStart \/ CycleStart
  BY <1>2 DEF RunStart, CycleStart, Pending, TypeInv, TypeOK, AnswersReal
<1>3. CASE ReadBalances
  BY <1>3, BalanceType DEF ReadBalances, Tracked, TypeInv, TypeOK, AnswersReal
<1>4. CASE RunFails \/ CycleFails
  <2>1. Rest /\ pc' = "idle" /\ row' \in RowsLeft /\ switch' \in {"running", "halted"}
        /\ UNCHANGED <<venue, executed, readable, deposited, saved, snapshot, before, work, excused>>
    BY <1>4 DEF RunFails, CycleFails, EndRun, TypeOK
  <2> QED
    BY <2>1, RestType, RowsLeftType DEF TypeInv, TypeOK, AnswersReal
<1>5. CASE Conclude
  <2>1. Rest /\ pc' = "idle" /\ UNCHANGED venueVars /\ UNCHANGED <<row, saved>>
        /\ snapshot' = got /\ before' = executed /\ baseline' = got
    BY <1>5 DEF Conclude, SaveSnapshot, Adopt, EndRun
  <2>2. switch' \in {"running", "halted"} /\ excused' \subseteq Moves
    BY <1>5 DEF Conclude, TypeOK
  <2>3. applied' \subseteq Fills /\ known' \subseteq Fills
    BY <1>5 DEF Conclude, Adopt, TypeOK
  <2>4. tracked' \in [Orders -> Images]
    BY <1>5, UntrackedType DEF Conclude, Adopt, TypeOK
  <2> QED
    BY <2>1, <2>2, <2>3, <2>4, RestType DEF TypeInv, TypeOK, AnswersReal
<1>6. CASE ConcludeUnsaved
  <2>1. Rest /\ pc' = "idle" /\ switch' = "halted" /\ UNCHANGED <<row, saved, venueVars, work>>
        /\ snapshot' = got /\ before' = executed /\ excused' \subseteq Moves
    BY <1>6 DEF ConcludeUnsaved, SaveSnapshot, EndRun, TypeOK
  <2> QED
    BY <2>1, RestType DEF TypeInv, TypeOK, AnswersReal
<1>7. CASE Startup
  BY <1>7 DEF Startup, Pending, TypeInv, TypeOK, AnswersReal
<1>8. ASSUME StartSchedule, UNCHANGED <<venue, executed, readable, deposited, saved>>,
             row' \in [Orders -> {"absent", "pending", "open"} \cup Terminal],
             before' \subseteq Fills, snapshot' \subseteq Moves,
             switch' \in {"running", "halted"}, excused' \subseteq Moves
      PROVE  TypeInv'
  <2>1. \A o \in OpenRows' : Stored(o)' \in Images
    BY <1>8 DEF Stored, Images, OpenRows, FillsOf, TypeOK
  <2>2. tracked' \in [Orders -> Images]
    BY <1>8, <2>1, UntrackedType DEF StartSchedule
  <2>3. known' \subseteq Fills /\ applied' \subseteq Fills /\ baseline' \subseteq Moves
        /\ Rest /\ pc' = "idle"
    BY <1>8 DEF StartSchedule, EndRun, TypeOK
  <2> QED
    BY <1>8, <2>2, <2>3, RestType DEF TypeInv, TypeOK, AnswersReal
<1>9. CASE StartupHalts
  BY <1>8, <1>9, RowsLeftType DEF StartupHalts, TypeOK
<1>10. CASE StartupReadBalances
  BY <1>10, BalanceType DEF StartupReadBalances, OpenRows, TypeInv, TypeOK, AnswersReal
<1>11. CASE StartupConclude
  <2>1. switch' \in {"running", "halted"} /\ excused' \subseteq Moves
    BY <1>11 DEF StartupConclude, TypeOK
  <2> QED
    BY <1>8, <1>11, <2>1 DEF StartupConclude, SaveSnapshot, TypeOK
<1>12. ASSUME NEW o \in Orders,
              \/ LookUp(o) \/ SaveFills(o) \/ SaveStatus(o) \/ ReadStatus(o) \/ ReadFills(o)
              \/ Submit(o) \/ CloseUnreceived(o) \/ VenueCancels(o)
       PROVE  TypeInv'
  <2>1. CASE Submit(o)
    BY <2>1 DEF Submit, TypeInv, TypeOK, AnswersReal
  <2>2. CASE CloseUnreceived(o)
    BY <2>2, UntrackedType DEF CloseUnreceived, TypeInv, TypeOK, AnswersReal
  <2>3. CASE VenueCancels(o)
    BY <2>3 DEF VenueCancels, TypeInv, TypeOK, AnswersReal
  <2> QED
    BY <1>12, <2>1, <2>2, <2>3, RecordingType, ReadingType
<1>13. CASE Rearm
  BY <1>13 DEF Rearm, TypeInv, TypeOK, AnswersReal
<1>14. CASE Crash
  <2>1. Rest /\ pc' = "down" /\ row' \in RowsLeft /\ tracked' \in [Orders -> Images]
        /\ known' = {} /\ applied' = {} /\ baseline' = {}
        /\ UNCHANGED <<venue, executed, readable, deposited, saved, snapshot, before, switch, excused>>
    BY <1>14, UntrackedType DEF Crash
  <2> QED
    BY <2>1, RestType, RowsLeftType DEF TypeInv, TypeOK, AnswersReal
<1>15. CASE DepositMade
  <2>1. deposited' \in BOOLEAN
    BY <1>15, Zenon DEF DepositMade
  <2> QED
    BY <1>15, <2>1 DEF DepositMade, TypeInv, TypeOK, AnswersReal
<1>16. ASSUME NEW f \in Fills, VenueExecutes(f) \/ VenuePublishes(f)
       PROVE  TypeInv'
  <2>1. CASE VenueExecutes(f)
    BY <2>1 DEF VenueExecutes, TypeInv, TypeOK, AnswersReal
  <2>2. CASE VenuePublishes(f)
    BY <2>2 DEF VenuePublishes, TypeInv, TypeOK, AnswersReal
  <2> QED
    BY <1>16, <2>1, <2>2
<1> QED
  BY <1>1, <1>2, <1>3, <1>4, <1>5, <1>6, <1>7, <1>9, <1>10, <1>11, <1>12, <1>13, <1>14,
     <1>15, <1>16 DEF Next

\* Every variable of reconciliation and recovery keeps its kind, and a row never takes
\* its status from an answer about an order the venue does not know, whatever the lookups
\* and their two writes are cut short by (run_once, recover_on_startup).
THEOREM ReconciliationTypes == Spec => [](TypeOK /\ AnswersReal)
  BY TypeInitially, TypeStep, PTL DEF Spec, TypeInv

-----------------------------------------------------------------------------
(* What enters the books.                                                  *)
LEMMA Initially == Init => IInv
  BY DEF Init, IInv, ReadFromVenue, RecordedFirst, NothingEntersUnseen

\* A lookup leaves an order out only when the venue has no fill of it.
LEMMA LookUpKeeps ==
  ASSUME TypeInv, IInv, NEW o \in Orders, LookUp(o)
  PROVE  IInv'
<1> USE DEF TypeInv, AnswersReal, IInv, ReadFromVenue, RecordedFirst
<1>1. /\ UNCHANGED <<saved, known, heard, readable, wrote, linked, tracked, snapshot, baseline, excused>>
      /\ pc \in {"cycle", "refresh", "recover"} /\ pc' \in {pc, "idle"}
      /\ pc' = "idle" => pc = "cycle"
  BY DEF LookUp, Finish, venueVars, store, work
<1>2. ASSUME NEW f \in known \ saved PROVE pc' = "refresh" => OrderOf[f] \in todo'
  <2>1. f \in executed /\ venue[OrderOf[f]] # "none"
    OBVIOUS
  <2>2. todo' = todo \/ (todo' = todo \ {o} /\ venue[o] = "none")
    BY DEF LookUp, Finish
  <2> QED
    BY <1>1, <2>1, <2>2
<1> QED
  BY <1>1, <1>2 DEF NothingEntersUnseen

\* Saving an order's fills saves every fill of it that the schedule counts.
LEMMA SaveFillsKeeps ==
  ASSUME TypeInv, IInv, NEW o \in Orders, SaveFills(o)
  PROVE  IInv'
<1> USE DEF IInv, ReadFromVenue, RecordedFirst
<1>1. /\ saved' = saved \cup Readable(o) /\ linked' = Readable(o) /\ wrote' = {o}
      /\ UNCHANGED <<readable, heard, excused, pc, todo, known, tracked, snapshot, baseline>>
  BY DEF SaveFills, work, venueVars
<1>2. Readable(o) \subseteq readable /\ Readable(o) \subseteq FillsOf(o)
  BY DEF Readable
<1>3. ASSUME NEW f \in known' \ saved' PROVE OrderOf[f] # o
  BY <1>1, <1>3 DEF Readable, FillsOf, TypeInv, TypeOK
<1> QED
  BY <1>1, <1>2, <1>3 DEF NothingEntersUnseen

\* The schedule counts the order's saved fills, and touches no other order.
LEMMA SaveStatusKeeps ==
  ASSUME TypeInv, IInv, NEW o \in Orders, SaveStatus(o)
  PROVE  IInv'
<1> USE DEF TypeInv, AnswersReal, IInv, ReadFromVenue, RecordedFirst
<1>1. /\ o \in wrote /\ wrote' = {} /\ linked \subseteq saved
      /\ UNCHANGED <<saved, snapshot, baseline, readable, heard, excused>>
      /\ known' \in {known, known \cup linked} /\ (pc = "recover" => known' = {})
      /\ tracked' \in {tracked, [tracked EXCEPT ![o] = reply]}
      /\ todo' = todo \ {o} /\ pc \in {"cycle", "refresh", "recover"} /\ pc' \in {pc, "idle"}
      /\ pc' = "idle" => pc = "cycle"
  BY DEF SaveStatus, Finish, venueVars
<1>2. ASSUME NEW f \in known' \ saved'
      PROVE  /\ tracked'[OrderOf[f]].status \in {"pending", "open"} /\ OrderOf[f] \notin wrote'
             /\ pc' \in {"idle", "cycle", "refresh"}
             /\ pc' = "refresh" => OrderOf[f] \in todo'
  <2>1. f \in known \ saved
    BY <1>1, <1>2
  <2>2. OrderOf[f] # o /\ OrderOf[f] \in Orders
    BY <1>1, <2>1 DEF TypeOK
  <2>3. tracked'[OrderOf[f]] = tracked[OrderOf[f]]
    BY <1>1, <2>2 DEF TypeOK
  <2> QED
    BY <1>1, <2>1, <2>2, <2>3
<1> QED
  BY <1>1, <1>2 DEF NothingEntersUnseen

\* The process goes on, and what is recorded, read and adopted stays.
LEMMA QuietKeeps ==
  ASSUME IInv, UNCHANGED <<saved, snapshot, known, baseline, tracked>>,
         readable \subseteq readable', heard' \subseteq readable', excused \subseteq excused',
         \/ UNCHANGED <<pc, todo, wrote, linked>>
         \/ pc' = "idle" /\ wrote' = {} /\ pc \notin {"down", "recover", "startRead"}
         \/ known \ saved = {} /\ wrote' = {}
            /\ (pc' \in {"down", "recover", "startRead"} => known = {})
  PROVE  IInv'
  BY DEF IInv, ReadFromVenue, RecordedFirst, NothingEntersUnseen

\* A scheduled comparison adopts what it expected, or halts trading.
LEMMA ConcludeKeeps ==
  ASSUME TypeOK, IInv, Conclude \/ ConcludeUnsaved
  PROVE  IInv'
<1> USE DEF IInv, ReadFromVenue, RecordedFirst
<1>0. known \subseteq saved /\ pc' = "idle" /\ UNCHANGED <<saved, readable>> /\ heard' = {}
      /\ wrote' = {}
  BY DEF Conclude, ConcludeUnsaved, SaveSnapshot, EndRun, Rest, venueVars
<1>1. CASE Conclude
  <2>1. snapshot' = got /\ baseline' = got
    BY <1>1 DEF Conclude, SaveSnapshot, Adopt
  <2>2. got \subseteq saved \cup excused'
    BY <1>0, <1>1 DEF Conclude, Diverged, Unapplied, NothingEntersUnseen
  <2>3. known' \subseteq heard
    BY <1>1 DEF Conclude, Adopt
  <2>4. ASSUME NEW f \in known' PROVE tracked'[OrderOf[f]].status \in {"pending", "open"}
    BY <1>1, <2>3, <2>4 DEF Conclude, Adopt, TypeOK
  <2> QED
    BY <1>0, <2>1, <2>2, <2>3, <2>4 DEF NothingEntersUnseen
<1>2. CASE ConcludeUnsaved
  <2>1. snapshot' = got /\ UNCHANGED <<baseline, known, tracked>> /\ excused \subseteq excused'
    BY <1>2 DEF ConcludeUnsaved, SaveSnapshot, work
  <2>2. got \subseteq saved \cup excused'
    BY <1>0, <1>2 DEF ConcludeUnsaved, Diverged, Unapplied, NothingEntersUnseen
  <2> QED
    BY <1>0, <2>1, <2>2 DEF NothingEntersUnseen
<1> QED
  BY <1>1, <1>2

\* The schedule starts from the snapshot, or from nothing, and counts nothing that is not
\* recorded.
LEMMA StartKeeps ==
  ASSUME IInv, StartupHalts \/ StartupConclude
  PROVE  IInv'
<1> USE DEF IInv, ReadFromVenue, RecordedFirst
<1>1. StartSchedule /\ UNCHANGED <<saved, readable>>
  BY DEF StartupHalts, StartupConclude, SaveSnapshot, store, venueVars
<1>2. /\ baseline' \subseteq snapshot' /\ known' \subseteq saved /\ heard' = {} /\ pc' = "idle"
      /\ wrote' = {}
  BY <1>1 DEF StartSchedule, EndRun, Rest
<1>3. snapshot' \subseteq saved \cup excused'
  <2>1. CASE StartupHalts
    BY <2>1 DEF StartupHalts, NothingEntersUnseen
  <2>2. CASE StartupConclude
    BY <2>2 DEF StartupConclude, SaveSnapshot, StartupDiverged, Later, NothingEntersUnseen
  <2> QED
    BY <2>1, <2>2
<1> QED
  BY <1>1, <1>2, <1>3 DEF NothingEntersUnseen

LEMMA Inductive == TypeInv /\ IInv /\ [Next]_vars => IInv'
<1> SUFFICES ASSUME TypeInv, IInv, [Next]_vars PROVE IInv'
  OBVIOUS
<1>0. TypeOK
  BY DEF TypeInv
<1>1. heard \subseteq readable /\ (pc \in {"down", "recover", "startRead"} => known = {})
      /\ (\A f \in known \ saved : pc \in {"idle", "cycle", "refresh"})
      /\ (todo = {} => wrote = {}) /\ (pc \in {"idle", "down"} => todo = {})
  BY DEF IInv, ReadFromVenue, RecordedFirst, TypeInv, TypeOK, AnswersReal
<1> USE <1>0, <1>1 DEF venueVars, store, work, run, recording
<1>2. CASE UNCHANGED vars
  BY <1>2, QuietKeeps DEF vars
<1>3. CASE RunStart
  <2>1. \A o \in Orders : tracked[o].status \in {"pending", "open"} => o \in todo'
    BY <1>3 DEF RunStart, NeedsRefresh
  <2>2. \A f \in known : f \in Fills /\ OrderOf[f] \in Orders
    BY DEF TypeOK
  <2> QED
    BY <1>3, <2>1, <2>2
    DEF RunStart, IInv, ReadFromVenue, RecordedFirst, NothingEntersUnseen
<1>4. CASE CycleStart
  BY <1>4 DEF CycleStart, IInv, ReadFromVenue, RecordedFirst, NothingEntersUnseen
<1>5. CASE ReadBalances
  BY <1>5 DEF ReadBalances, IInv, ReadFromVenue, RecordedFirst, NothingEntersUnseen
<1>6. CASE RunFails \/ CycleFails
  BY <1>6, QuietKeeps DEF RunFails, CycleFails, EndRun, Rest
<1>7. CASE Startup \/ StartupReadBalances
  BY <1>7, QuietKeeps DEF Startup, StartupReadBalances
<1>8. CASE Conclude \/ ConcludeUnsaved \/ StartupHalts \/ StartupConclude
  BY <1>8, ConcludeKeeps, StartKeeps
<1>9. ASSUME NEW o \in Orders,
             \/ LookUp(o) \/ SaveFills(o) \/ SaveStatus(o) \/ ReadStatus(o) \/ ReadFills(o)
             \/ Submit(o) \/ CloseUnreceived(o) \/ VenueCancels(o)
      PROVE  IInv'
  <2>1. CASE Submit(o) \/ VenueCancels(o)
    BY <2>1, QuietKeeps DEF Submit, VenueCancels
  <2>2. CASE ReadStatus(o)
    <3>1. known \ saved = {} /\ wrote = {}
      BY <2>2 DEF ReadStatus, TypeInv, AnswersReal
    <3> QED
      BY <2>2, <3>1, QuietKeeps DEF ReadStatus
  <2>3. CASE ReadFills(o)
    <3>1. known \ saved = {} /\ wrote = {}
      BY <2>3 DEF ReadFills, TypeInv, AnswersReal
    <3>2. heard' \subseteq readable
      BY <2>3 DEF ReadFills, Readable
    <3> QED
      BY <2>3, <3>1, <3>2, QuietKeeps DEF ReadFills
  <2>4. CASE CloseUnreceived(o)
    <3>1. \A f \in known : venue[OrderOf[f]] # "none" /\ OrderOf[f] \in Orders
      BY DEF IInv, ReadFromVenue, TypeInv, TypeOK, AnswersReal
    <3>2. \A f \in known : tracked'[OrderOf[f]] = tracked[OrderOf[f]]
      BY <2>4, <3>1 DEF CloseUnreceived, TypeOK
    <3> QED
      BY <2>4, <3>2
      DEF CloseUnreceived, IInv, ReadFromVenue, RecordedFirst, NothingEntersUnseen
  <2> QED
    BY <1>9, <2>1, <2>2, <2>3, <2>4, LookUpKeeps, SaveFillsKeeps, SaveStatusKeeps
<1>10. CASE Rearm \/ DepositMade
  BY <1>10, QuietKeeps DEF Rearm, DepositMade
<1>11. CASE Crash
  BY <1>11 DEF Crash, Rest, IInv, ReadFromVenue, RecordedFirst, NothingEntersUnseen
<1>12. ASSUME NEW f \in Fills, VenueExecutes(f) \/ VenuePublishes(f)
       PROVE  IInv'
  BY <1>12, QuietKeeps DEF VenueExecutes, VenuePublishes
<1> QED
  BY <1>2, <1>3, <1>4, <1>5, <1>6, <1>7, <1>8, <1>9, <1>10, <1>11, <1>12 DEF Next

\* Nothing enters the books unseen, for any number of orders, fills, runs, restarts and
\* failed saves, wherever the venue moves between a run's reads and wherever it is cut
\* short between its writes: what the baseline and the saved snapshot contain is a recorded
\* fill or part of a comparison that halted trading (_adopt, recover_on_startup).
THEOREM BooksHoldWhatWasSeen == Spec => []NothingEntersUnseen
<1>1. Spec => []TypeInv
  BY TypeInitially, TypeStep, PTL DEF Spec
<1>2. Spec => []IInv
  BY <1>1, Initially, Inductive, PTL DEF Spec
<1>3. IInv => NothingEntersUnseen
  BY DEF IInv
<1> QED
  BY <1>2, <1>3, PTL

\* A step that brings into the baseline or the snapshot a movement they did not have and
\* the store has no fill for leaves trading halted, unless an earlier halt was for it.
UnseenHalts ==
    [][\A m \in baseline' \cup snapshot' :
          m \in baseline \cup snapshot \cup saved' \cup excused \/ switch' = "halted"]_vars

\* Reconciliation never goes on trading over a movement nobody recorded: a deposit, or a
\* fill of an order that is not tracked, halts it at the step that adopts it (run_once,
\* recover_on_startup).
THEOREM UnseenMovementHalts == Spec => UnseenHalts
<1> DEFINE A == \A m \in baseline' \cup snapshot' :
                    m \in baseline \cup snapshot \cup saved' \cup excused \/ switch' = "halted"
<1>1. Spec => [](TypeInv /\ IInv)
  BY TypeInitially, TypeStep, Initially, Inductive, PTL DEF Spec
<1>2. TypeInv /\ IInv /\ [Next]_vars => [A]_vars
  <2> SUFFICES ASSUME TypeInv, IInv, [Next]_vars PROVE A
    OBVIOUS
  <2>1. NothingEntersUnseen' /\ NothingEntersUnseen
    BY Inductive DEF IInv
  <2>2. switch' = "halted" \/ excused' = excused
    BY DEF Next, vars, CycleStart, CycleFails, RunStart, ReadBalances, RunFails, Conclude,
           ConcludeUnsaved, Startup, StartupHalts, StartupReadBalances, StartupConclude, LookUp,
           SaveFills, SaveStatus, ReadStatus, ReadFills, Submit, CloseUnreceived, VenueCancels,
           Rearm, Crash, DepositMade, VenueExecutes, VenuePublishes
  <2> QED
    BY <2>1, <2>2 DEF NothingEntersUnseen
<1> QED
  BY <1>1, <1>2, PTL DEF Spec, UnseenHalts

-----------------------------------------------------------------------------
(* What the next run counts.                                               *)

\* A fill that is in the baseline without being applied, and that no halt was for: the
\* store knows its order has ended, and the schedule neither tracks the order nor counts
\* the fill.
SettledWithoutUs ==
    \A f \in (baseline \cap Fills) \ (applied \cup excused) :
        row[OrderOf[f]] \in Terminal /\ tracked[OrderOf[f]] = Untracked /\ f \notin known

\* What has a row: an order with a recorded fill, or one that is tracked or looked up.
HasRow ==
    /\ \A f \in saved : row[OrderOf[f]] # "absent"
    /\ \A o \in Orders : tracked[o] # Untracked => row[o] # "absent"
    /\ pc \in {"recover", "cycle", "refresh"} => \A o \in todo : row[o] # "absent"

\* A run reads the tracked orders and no other, a cycle the unresolved ones, and a process
\* that starts tracks none.
ReadsTracked ==
    /\ pc = "cycle" => todo \subseteq Pending
    /\ pc = "refresh" => \A o \in todo : tracked[o] # Untracked
    /\ pc = "read" => \A o \in Orders : o \in todo \/ seen[o] # Untracked => tracked[o] # Untracked
    /\ pc \in {"idle", "cycle", "refresh"} => \A o \in Orders : seen[o] = Untracked
    /\ pc \in {"down", "recover", "startRead"} =>
          baseline = {} /\ \A o \in Orders : tracked[o] = Untracked

CountInv == SettledWithoutUs /\ HasRow /\ ReadsTracked

LEMMA CountBegins == Init => CountInv
  BY DEF Init, CountInv, SettledWithoutUs, HasRow, ReadsTracked

\* A lookup and the save of its fills change no status.
LEMMA FillsKeepCount ==
  ASSUME TypeInv, CountInv, NEW o \in Orders, LookUp(o) \/ SaveFills(o)
  PROVE  CountInv'
<1> USE DEF TypeInv, CountInv, SettledWithoutUs, HasRow, ReadsTracked, Pending, work, store
<1>1. CASE LookUp(o)
  <2>1. /\ UNCHANGED <<row, saved, tracked, known, applied, baseline, seen, excused>>
        /\ todo' \subseteq todo /\ (pc' = pc \/ (pc = "cycle" /\ pc' = "idle"))
        /\ pc \in {"cycle", "refresh", "recover"}
    BY <1>1 DEF LookUp, Finish
  <2> QED
    BY <2>1
<1>2. CASE SaveFills(o)
  <2>1. /\ UNCHANGED <<row, tracked, known, applied, baseline, seen, excused, pc, todo>>
        /\ saved' = saved \cup Readable(o) /\ row[o] # "absent"
    BY <1>2 DEF SaveFills, TypeOK
  <2>2. \A f \in saved' : row'[OrderOf[f]] # "absent"
    BY <2>1, ReadableType
  <2> QED
    BY <2>1, <2>2
<1> QED
  BY <1>1, <1>2

\* Writing the status of an order that is tracked, or is not resolved, touches no fill of an
\* order that has ended.
LEMMA StatusKeepsCount ==
  ASSUME TypeInv, IInv, CountInv, NEW o \in Orders, SaveStatus(o)
  PROVE  CountInv'
<1> USE DEF CountInv, SettledWithoutUs, HasRow, ReadsTracked
<1>0. TypeOK /\ o \in wrote /\ o \in todo /\ row[o] # "absent"
      /\ pc \in {"cycle", "refresh", "recover"}
      /\ (pc = "cycle" => row[o] = "pending")
      /\ \A f \in linked : OrderOf[f] = o
  BY DEF SaveStatus, TypeInv, TypeOK, AnswersReal, Pending, IInv, ReadFromVenue, FillsOf
<1>1. /\ UNCHANGED <<saved, baseline, applied, seen, excused>>
      /\ row' \in {row, WithStatus(o)}
      /\ tracked' \in {tracked, [tracked EXCEPT ![o] = reply]}
      /\ known' \in {known, known \cup linked}
      /\ (pc = "recover" => tracked' = tracked)
      /\ todo' = todo \ {o} /\ (pc' = pc \/ (pc = "cycle" /\ pc' = "idle"))
  BY DEF SaveStatus, Finish
<1>2. /\ \A p \in Orders : p # o => row'[p] = row[p] /\ tracked'[p] = tracked[p]
      /\ row'[o] # "absent"
  BY <1>0, <1>1, WrittenRow DEF TypeOK
<1>3. HasRow'
  BY <1>0, <1>1, <1>2 DEF TypeOK
<1>4. SettledWithoutUs'
  <2>1. CASE pc = "recover"
    BY <1>1, <2>1
  <2>2. ASSUME pc # "recover", NEW f \in (baseline' \cap Fills) \ (applied' \cup excused')
        PROVE  row'[OrderOf[f]] \in Terminal /\ tracked'[OrderOf[f]] = Untracked /\ f \notin known'
    <3>1. /\ row[OrderOf[f]] \in Terminal /\ tracked[OrderOf[f]] = Untracked /\ f \notin known
          /\ OrderOf[f] \in Orders
      BY <1>1, <2>2
    <3>2. OrderOf[f] # o
      BY <1>0, <2>2, <3>1
    <3> QED
      BY <1>0, <1>1, <1>2, <3>1, <3>2
  <2> QED
    BY <2>1, <2>2
<1>5. ReadsTracked'
  <2>1. \A p \in todo' : p # o /\ p \in Orders /\ p \in todo
    BY <1>0, <1>1 DEF TypeOK
  <2>2. pc' = "cycle" => todo' \subseteq Pending'
    BY <1>0, <1>1, <1>2, <2>1 DEF Pending
  <2> QED
    BY <1>0, <1>1, <1>2, <2>1, <2>2
<1> QED
  BY <1>3, <1>4, <1>5

\* A call cut short may leave the status of the order it was recording.
LEMMA CutShortKeepsCount ==
  ASSUME TypeInv, CountInv, RunFails \/ CycleFails
  PROVE  CountInv'
<1> USE DEF CountInv, SettledWithoutUs, HasRow, ReadsTracked
<1>1. /\ UNCHANGED <<saved, baseline, applied, tracked, known, excused>>
      /\ row' \in RowsLeft /\ pc' = "idle" /\ pc \in {"cycle", "refresh", "read"}
      /\ \A o \in Orders : seen'[o] = Untracked
  BY RestType DEF RunFails, CycleFails, EndRun, work
<1>2. \A o \in Orders : row'[o] = row[o] \/ (o \in wrote /\ row'[o] # "absent")
  BY <1>1, RowsLeftType
<1>3. TypeOK
  BY DEF TypeInv
<1>4. HasRow'
  BY <1>1, <1>2, <1>3 DEF TypeOK
<1>5. SettledWithoutUs'
  <2> SUFFICES ASSUME NEW f \in (baseline \cap Fills) \ (applied \cup excused)
               PROVE  row'[OrderOf[f]] = row[OrderOf[f]]
    BY <1>1
  <2>1. /\ row[OrderOf[f]] \in Terminal /\ tracked[OrderOf[f]] = Untracked
        /\ OrderOf[f] \in Orders
    OBVIOUS
  <2>2. OrderOf[f] \notin wrote
    BY <1>1, <1>3, <2>1 DEF TypeOK, Pending, TypeInv, AnswersReal
  <2> QED
    BY <1>2, <2>1, <2>2
<1> QED
  BY <1>1, <1>4, <1>5

\* A run that goes on without a difference adopts what it expected.
LEMMA ConcludeKeepsCount ==
  ASSUME TypeOK, CountInv, Conclude \/ ConcludeUnsaved
  PROVE  CountInv'
<1> USE DEF CountInv, SettledWithoutUs, HasRow, ReadsTracked
<1>0. /\ pc = "read" /\ todo = {} /\ pc' = "idle" /\ UNCHANGED <<row, saved>>
      /\ \A o \in Orders : seen'[o] = Untracked
  BY DEF Conclude, ConcludeUnsaved, SaveSnapshot, EndRun, Rest
<1>1. CASE ConcludeUnsaved
  BY <1>0, <1>1 DEF ConcludeUnsaved, work
<1>2. CASE Conclude
  <2>1. /\ baseline' = got /\ applied' = applied \cup known \cup heard
        /\ \A o \in Orders : tracked'[o] = IF seen[o].status \in {"pending", "open"}
                                           THEN seen[o] ELSE Untracked
        /\ \A f \in known' : seen[OrderOf[f]].status \in {"pending", "open"}
    BY <1>2 DEF Conclude, Adopt
  <2>2. got \subseteq baseline \cup known \/ got \subseteq excused'
    BY <1>2 DEF Conclude, Diverged, Unapplied
  <2>3. excused \subseteq excused'
    BY <1>2 DEF Conclude
  <2>4. HasRow'
    BY <1>0, <2>1 DEF Untracked
  <2>5. ASSUME NEW f \in (baseline' \cap Fills) \ (applied' \cup excused')
        PROVE  row'[OrderOf[f]] \in Terminal /\ tracked'[OrderOf[f]] = Untracked /\ f \notin known'
    <3>1. f \in (baseline \cap Fills) \ (applied \cup excused) /\ OrderOf[f] \in Orders
      BY <2>1, <2>2, <2>3, <2>5
    <3>2. row[OrderOf[f]] \in Terminal /\ tracked[OrderOf[f]] = Untracked
      BY <3>1
    <3>3. seen[OrderOf[f]] = Untracked
      BY <1>0, <3>1, <3>2
    <3>4. seen[OrderOf[f]].status = "none"
      BY <3>3 DEF Untracked
    <3> QED
      BY <1>0, <2>1, <3>1, <3>2, <3>4
  <2> QED
    BY <1>0, <2>4, <2>5
<1> QED
  BY <1>1, <1>2

\* The schedule starts with the fills of its open orders counted as applied: one of the
\* snapshot it does not count belongs to an order that has ended.
LEMMA StartKeepsCount ==
  ASSUME TypeInv, IInv, CountInv, StartupHalts \/ StartupConclude
  PROVE  CountInv'
<1> USE DEF CountInv, SettledWithoutUs, HasRow, ReadsTracked
<1>0. TypeOK
  BY DEF TypeInv
<1>1. StartSchedule /\ saved' = saved /\ excused \subseteq excused' /\ row' \in RowsLeft
  BY DEF StartupHalts, StartupConclude, SaveSnapshot, RowsLeft
<1>2. /\ row' \in [Orders -> {"absent", "pending", "open"} \cup Terminal]
      /\ \A f \in saved : row'[OrderOf[f]] # "absent"
  BY <1>0, <1>1, RowsLeftType DEF TypeOK
<1>3. /\ pc' = "idle" /\ \A o \in Orders : seen'[o] = Untracked
  BY <1>1, RestType DEF StartSchedule, EndRun
<1>4. HasRow' /\ \A o \in Orders : tracked'[o] # Untracked => o \in OpenRows'
  BY <1>1, <1>2, <1>3 DEF StartSchedule, OpenRows
<1>5. SettledWithoutUs'
  <2> SUFFICES ASSUME NEW f \in (baseline' \cap Fills) \ (applied' \cup excused')
               PROVE  /\ row'[OrderOf[f]] \in Terminal /\ tracked'[OrderOf[f]] = Untracked
                      /\ f \notin known'
    OBVIOUS
  <2>1. baseline' = snapshot' /\ known' = {g \in saved : OrderOf[g] \in OpenRows'}
        /\ applied' = known'
    BY <1>1 DEF StartSchedule
  <2>2. snapshot' \subseteq saved \cup excused'
    BY <1>1, StartKeeps DEF IInv, NothingEntersUnseen
  <2>3. f \in saved /\ f \notin known' /\ OrderOf[f] \in Orders
    BY <2>1, <2>2
  <2>4. OrderOf[f] \notin OpenRows' /\ row'[OrderOf[f]] # "absent"
    BY <1>2, <2>1, <2>3
  <2>5. row'[OrderOf[f]] \in Terminal
    BY <1>2, <2>3, <2>4 DEF OpenRows
  <2> QED
    BY <1>4, <2>3, <2>4, <2>5
<1> QED
  BY <1>3, <1>4, <1>5

LEMMA CountStep == TypeInv /\ IInv /\ CountInv /\ [Next]_vars => CountInv'
<1> SUFFICES ASSUME TypeInv, IInv, CountInv, [Next]_vars PROVE CountInv'
  OBVIOUS
<1>0. TypeOK /\ AnswersReal
  BY DEF TypeInv
<1> USE <1>0 DEF venueVars, store, work, run, recording, CountInv, SettledWithoutUs, HasRow,
                 ReadsTracked
<1>1. CASE UNCHANGED vars
  BY <1>1 DEF vars, Pending
<1>2. CASE RunStart
  <2>1. \A o \in Orders : NeedsRefresh(o) => tracked[o] # Untracked
    BY DEF NeedsRefresh, Untracked
  <2> QED
    BY <1>2, <2>1 DEF RunStart
<1>3. CASE CycleStart
  BY <1>3 DEF CycleStart, Pending
<1>4. CASE ReadBalances
  BY <1>4 DEF ReadBalances, Tracked
<1>5. CASE RunFails \/ CycleFails
  BY <1>5, CutShortKeepsCount
<1>6. CASE Startup \/ StartupReadBalances
  BY <1>6 DEF Startup, StartupReadBalances, Pending
<1>7. CASE Conclude \/ ConcludeUnsaved \/ StartupHalts \/ StartupConclude
  BY <1>7, ConcludeKeepsCount, StartKeepsCount
<1>8. ASSUME NEW o \in Orders,
             \/ LookUp(o) \/ SaveFills(o) \/ SaveStatus(o) \/ ReadStatus(o) \/ ReadFills(o)
             \/ Submit(o) \/ CloseUnreceived(o) \/ VenueCancels(o)
      PROVE  CountInv'
  <2>1. CASE Submit(o)
    BY <2>1 DEF Submit, TypeOK, Pending
  <2>2. CASE CloseUnreceived(o)
    BY <2>2 DEF CloseUnreceived, TypeOK, Pending
  <2>3. CASE ReadStatus(o)
    <3>1. /\ UNCHANGED <<row, saved, tracked, known, applied, baseline, excused, pc>>
          /\ pc \in {"read", "startRead"} /\ todo' \subseteq todo /\ o \in todo
          /\ \A p \in Orders : p # o => seen'[p] = seen[p]
      BY <2>3 DEF ReadStatus, TypeOK
    <3> QED
      BY <3>1
  <2>4. CASE ReadFills(o)
    BY <2>4 DEF ReadFills, TypeOK
  <2>5. CASE VenueCancels(o)
    BY <2>5 DEF VenueCancels, Pending
  <2> QED
    BY <1>8, <2>1, <2>2, <2>3, <2>4, <2>5, FillsKeepCount, StatusKeepsCount
<1>9. CASE Rearm \/ DepositMade
  BY <1>9 DEF Rearm, DepositMade, Pending
<1>10. CASE Crash
  <2>1. \A o \in Orders : row'[o] = row[o] \/ row'[o] # "absent"
    BY <1>10, RowsLeftType DEF Crash
  <2> QED
    BY <1>10, <2>1 DEF Crash, TypeOK
<1>11. ASSUME NEW f \in Fills, VenueExecutes(f) \/ VenuePublishes(f) PROVE CountInv'
  BY <1>11 DEF VenueExecutes, VenuePublishes, Pending
<1> QED
  BY <1>1, <1>2, <1>3, <1>4, <1>5, <1>6, <1>7, <1>8, <1>9, <1>10, <1>11 DEF Next

\* While no comparison has failed the next one counts each fill once, for any number of
\* orders, fills, runs and restarts, with each order recorded in two writes that may be
\* cut apart: what it adds to the baseline is not in it already (expected_state, _adopt,
\* start).
THEOREM EachFillCountedOnce == Spec => []CountedOnce
<1>1. Spec => [](TypeInv /\ IInv)
  BY TypeInitially, TypeStep, Initially, Inductive, PTL DEF Spec
<1>2. Spec => []CountInv
  BY <1>1, CountBegins, CountStep, PTL DEF Spec
<1>3. TypeInv /\ CountInv => CountedOnce
  BY DEF TypeInv, TypeOK, CountInv, SettledWithoutUs, CountedOnce, Unapplied
<1> QED
  BY <1>1, <1>2, <1>3, PTL

-----------------------------------------------------------------------------
(* The day's result.                                                       *)
HIDE MovementAssumption DEF Terminal, Moves, Labels

\* A price the venue had of a coin.
Quoted(c, price) == [coin |-> c, bid |-> price.bid, at |-> price.at] \in quoted

\* The amounts of a sample are those of one account: not of two that a fill lies between.
OfOneAccount(cash, coins) == \E a \in pastHoldings : a.cash = cash /\ a.coins = coins

PricesReal ==
    /\ \A q \in quoted : q = [coin |-> q.coin, bid |-> q.bid, at |-> q.at]
    /\ lastPrices = [c \in Coins |-> lastPrices[c]]
    /\ \A c \in Coins : lastPrices[c] = Equity!NoPrice \/ Quoted(c, lastPrices[c])

JobReal ==
    /\ job = Equity!Idle \/ job.pc = "positions" \/ job.pc = "quotes"
    /\ job.pc = "positions" => OfOneAccount(job.cash, job.coins)
    /\ job.pc = "quotes" =>
          /\ job = [pc |-> "quotes", cash |-> job.cash, coins |-> job.coins, known |-> job.known,
                    at |-> job.at, prices |-> job.prices]
          /\ OfOneAccount(job.cash, job.coins)
          /\ DOMAIN job.prices \subseteq Equity!Held(job.coins)
          /\ \A c \in DOMAIN job.prices :
                job.prices[c].basis = "unpriced" \/ Quoted(c, job.prices[c])
          /\ \A c \in Coins : job.known[c] = Equity!NoPrice \/ Quoted(c, job.known[c])

SamplesReal ==
    /\ \E S : samples \in Seq(S)
    /\ \A i \in DOMAIN samples : ~samples[i].partial => Equity!Real(i)

EquityInv == holdings \in pastHoldings /\ PricesReal /\ JobReal /\ SamplesReal

LEMMA EquityBegins == Equity!Init => EquityInv
<1> SUFFICES ASSUME Equity!Init PROVE EquityInv
  OBVIOUS
<1>1. PricesReal
  BY DEF Equity!Init, PricesReal
<1>2. JobReal
  BY DEF Equity!Init, JobReal, Equity!Idle
<1>3. SamplesReal
  <2>1. samples \in Seq({})
    BY DEF Equity!Init
  <2>2. DOMAIN samples = {}
    BY DEF Equity!Init
  <2> QED
    BY <2>1, <2>2 DEF SamplesReal
<1> QED
  BY <1>1, <1>2, <1>3 DEF Equity!Init, EquityInv

\* What was real stays so: the venue's accounts and prices are only added to.
LEMMA RealStays ==
  ASSUME SamplesReal, pastHoldings \subseteq pastHoldings', quoted \subseteq quoted', UNCHANGED samples
  PROVE  SamplesReal'
<1>1. ASSUME NEW i \in DOMAIN samples, Equity!Real(i) PROVE Equity!Real(i)'
  BY <1>1 DEF Equity!Real, Equity!Held
<1> QED
  BY <1>1 DEF SamplesReal

LEMMA JobStays ==
  ASSUME JobReal, pastHoldings \subseteq pastHoldings', quoted \subseteq quoted', UNCHANGED job
  PROVE  JobReal'
<1>1. \A cash, coins : OfOneAccount(cash, coins) => OfOneAccount(cash, coins)'
  BY DEF OfOneAccount
<1>2. \A c, price : Quoted(c, price) => Quoted(c, price)'
  BY DEF Quoted
<1> QED
  BY <1>1, <1>2 DEF JobReal

LEMMA BeginsReal ==
  ASSUME EquityInv, NEW cash, NEW coins, OfOneAccount(cash, coins), Equity!BeginValuing(cash, coins),
         UNCHANGED <<quoted, pastHoldings>>
  PROVE  JobReal'
<1>1. PICK prior \in {lastPrices, [c \in Coins |-> Equity!NoPrice]} :
         job' = [pc |-> "quotes", cash |-> cash, coins |-> coins,
                 known |-> prior, at |-> clock, prices |-> [c \in {} |-> Equity!NoPrice]]
  BY DEF Equity!BeginValuing
<1>2. \A c \in Coins : prior[c] = Equity!NoPrice \/ Quoted(c, prior[c])
  BY DEF EquityInv, PricesReal
<1>3. /\ job'.pc = "quotes" /\ job'.cash = cash /\ job'.coins = coins /\ job'.known = prior
      /\ job'.at = clock /\ job'.prices = [c \in {} |-> Equity!NoPrice]
  BY <1>1
<1>4. DOMAIN job'.prices = {}
  BY <1>3
<1>6. job' = [pc |-> "quotes", cash |-> job'.cash, coins |-> job'.coins, known |-> job'.known,
              at |-> job'.at, prices |-> job'.prices]
  BY <1>1, <1>3
<1>7. OfOneAccount(job.cash, job.coins)'
  BY <1>3 DEF OfOneAccount
<1>8. (\A c \in Coins : job.known[c] = Equity!NoPrice \/ Quoted(c, job.known[c]))'
  BY <1>2, <1>3 DEF Quoted
<1> QED
  BY <1>3, <1>4, <1>6, <1>7, <1>8 DEF JobReal

\* One more coin of the sample is priced, at a price the venue had or not at all.
LEMMA PricedReal ==
  ASSUME EquityInv, job.pc = "quotes", NEW c \in Equity!Unquoted, NEW label, NEW price,
         label = "unpriced" \/ Quoted(c, price), job' = Equity!Priced(c, label, price),
         UNCHANGED <<quoted, pastHoldings>>
  PROVE  JobReal'
<1> DEFINE entry == [basis |-> label, bid |-> price.bid, at |-> price.at]
           prices == [x \in DOMAIN job.prices \cup {c} |-> IF x = c THEN entry ELSE job.prices[x]]
<1>1. job = [pc |-> "quotes", cash |-> job.cash, coins |-> job.coins, known |-> job.known,
             at |-> job.at, prices |-> job.prices]
  BY DEF EquityInv, JobReal
<1>2. /\ OfOneAccount(job.cash, job.coins)
      /\ DOMAIN job.prices \subseteq Equity!Held(job.coins)
      /\ \A x \in DOMAIN job.prices : job.prices[x].basis = "unpriced" \/ Quoted(x, job.prices[x])
      /\ \A x \in Coins : job.known[x] = Equity!NoPrice \/ Quoted(x, job.known[x])
  BY DEF EquityInv, JobReal
<1>3. job' = [job EXCEPT !.prices = prices]
  BY DEF Equity!Priced
<1>4. entry.basis = label /\ (Quoted(c, price) => Quoted(c, entry))
  BY DEF Quoted
<1>5. DOMAIN prices = DOMAIN job.prices \cup {c} /\ prices[c] = entry
      /\ \A x \in DOMAIN job.prices : x # c => prices[x] = job.prices[x]
  OBVIOUS
<1> HIDE DEF entry, prices
<1>6. job' = [pc |-> "quotes", cash |-> job.cash, coins |-> job.coins, known |-> job.known,
              at |-> job.at, prices |-> prices]
  BY <1>1, <1>3
<1>7. DOMAIN prices \subseteq Equity!Held(job.coins)
  BY <1>2, <1>5 DEF Equity!Unquoted
<1>8. \A x \in DOMAIN prices : prices[x].basis = "unpriced" \/ Quoted(x, prices[x])
  BY <1>2, <1>4, <1>5
<1>9. job'.pc = "quotes" /\ job'.cash = job.cash /\ job'.coins = job.coins /\ job'.known = job.known
       /\ job'.at = job.at /\ job'.prices = prices
  BY <1>6
<1>10. job' = [pc |-> "quotes", cash |-> job'.cash, coins |-> job'.coins, known |-> job'.known,
              at |-> job'.at, prices |-> job'.prices]
  BY <1>6, <1>9
<1>11. OfOneAccount(job.cash, job.coins)'
  BY <1>2, <1>9 DEF OfOneAccount
<1>12. (\A x \in DOMAIN job.prices : job.prices[x].basis = "unpriced" \/ Quoted(x, job.prices[x]))'
  BY <1>8, <1>9 DEF Quoted
<1>13. (\A x \in Coins : job.known[x] = Equity!NoPrice \/ Quoted(x, job.known[x]))'
  BY <1>2, <1>9 DEF Quoted
<1>14. (DOMAIN job.prices \subseteq Equity!Held(job.coins))'
  BY <1>7, <1>9 DEF Equity!Held
<1> QED
  BY <1>9, <1>10, <1>11, <1>12, <1>13, <1>14 DEF JobReal

\* A snapshot with every coin priced is of one account at prices the venue had.
LEMMA SavedReal ==
  ASSUME EquityInv, job.pc = "quotes", Equity!Unquoted = {}, UNCHANGED <<quoted, pastHoldings>>,
         samples' = Append(samples, Equity!Value)
  PROVE  SamplesReal'
<1> DEFINE value == Equity!Value
<1>0. PICK n : n = Len(samples) + 1
  OBVIOUS
<1>1. PICK S : samples \in Seq(S)
  BY DEF EquityInv, SamplesReal
<1>2. /\ samples' \in Seq(S \cup {value}) /\ DOMAIN samples' = DOMAIN samples \cup {n}
      /\ samples'[n] = value /\ \A i \in DOMAIN samples : samples'[i] = samples[i]
  BY <1>0, <1>1
<1>3. ASSUME NEW i \in DOMAIN samples, Equity!Real(i) PROVE Equity!Real(i)'
  BY <1>2, <1>3 DEF Equity!Real, Equity!Held
<1>4. ASSUME ~value.partial PROVE Equity!Real(n)'
  <2>1. /\ value.prices = job.prices
        /\ \A c \in DOMAIN job.prices : job.prices[c].basis # "unpriced"
        /\ value.equity = job.cash + Equity!Exposure(job.coins, job.prices, DOMAIN job.prices)
    BY <1>4 DEF Equity!Value
  <2>2. PICK a \in pastHoldings : a.cash = job.cash /\ a.coins = job.coins
    BY DEF EquityInv, JobReal, OfOneAccount
  <2>3. DOMAIN job.prices = Equity!Held(a.coins)
    BY <2>2 DEF EquityInv, JobReal, Equity!Unquoted
  <2>4. \A c \in Equity!Held(a.coins) : Quoted(c, job.prices[c])
    BY <2>1, <2>3 DEF EquityInv, JobReal
  <2>5. samples'[n].prices = job.prices
        /\ samples'[n].equity = a.cash + Equity!Exposure(a.coins, job.prices, Equity!Held(a.coins))
    BY <1>2, <2>1, <2>2, <2>3
  <2>7. \A c \in Equity!Held(a.coins) :
           [coin |-> c, bid |-> samples'[n].prices[c].bid, at |-> samples'[n].prices[c].at] \in quoted'
    BY <2>4, <2>5 DEF Quoted
  <2>8. a \in pastHoldings' /\ DOMAIN samples'[n].prices = Equity!Held(a.coins)
    BY <2>3, <2>5
  <2>9. samples'[n].equity = a.cash + Equity!Exposure(a.coins, samples'[n].prices, Equity!Held(a.coins))
    BY <2>5
  <2> QED
    BY <2>7, <2>8, <2>9 DEF Equity!Real, Equity!Held
<1>5. (\E T : samples \in Seq(T))'
  BY <1>2
<1> HIDE DEF value
<1>6. ASSUME NEW i \in DOMAIN samples', ~samples'[i].partial PROVE Equity!Real(i)'
  <2>1. CASE i \in DOMAIN samples
    <3>1. ~samples[i].partial
      BY <1>2, <1>6, <2>1
    <3> QED
      BY <1>3, <2>1, <3>1 DEF EquityInv, SamplesReal
  <2>2. CASE i = n
    BY <1>2, <1>4, <1>6, <2>2
  <2> QED
    BY <1>2, <2>1, <2>2
<1> QED
  BY <1>5, <1>6 DEF SamplesReal

LEMMA EquityStep ==
  ASSUME OneListing, EquityInv, [Equity!Next]_Equity!vars PROVE EquityInv'
<1> USE DEF Equity!venue
<1>1. CASE Equity!Tick
  <2>1. quoted \subseteq quoted' /\ UNCHANGED <<holdings, pastHoldings, lastPrices, job, samples>>
    BY <1>1 DEF Equity!Tick
  <2>2. \A q \in quoted' : q = [coin |-> q.coin, bid |-> q.bid, at |-> q.at]
    BY <1>1 DEF Equity!Tick, EquityInv, PricesReal
  <2>3. PricesReal'
    BY <2>1, <2>2 DEF EquityInv, PricesReal, Quoted
  <2> QED
    BY <2>1, <2>3, RealStays, JobStays DEF EquityInv
<1>2. ASSUME NEW c \in Coins, Equity!Execute(c) PROVE EquityInv'
  <2>1. /\ holdings' \in pastHoldings' /\ pastHoldings \subseteq pastHoldings'
        /\ UNCHANGED <<quoted, lastPrices, job, samples>>
    BY <1>2 DEF Equity!Execute
  <2>2. PricesReal'
    BY <2>1 DEF EquityInv, PricesReal, Quoted
  <2> QED
    BY <2>1, <2>2, RealStays, JobStays DEF EquityInv
<1>3. CASE Equity!ReadBalances
  <2>1. /\ job' = [pc |-> "positions", cash |-> holdings.cash, coins |-> holdings.coins]
        /\ UNCHANGED <<holdings, pastHoldings, quoted, lastPrices, samples>>
    BY <1>3 DEF Equity!ReadBalances
  <2>2. JobReal'
    BY <2>1 DEF EquityInv, JobReal, OfOneAccount
  <2>3. PricesReal'
    BY <2>1 DEF EquityInv, PricesReal, Quoted
  <2> QED
    BY <2>1, <2>2, <2>3, RealStays DEF EquityInv
<1>4. CASE Equity!ReadPositions \/ Equity!SampleState
  <2>1. UNCHANGED <<holdings, pastHoldings, quoted, lastPrices, samples>>
    BY <1>4 DEF Equity!ReadPositions, Equity!SampleState
  <2>2. PICK cash, coins : OfOneAccount(cash, coins) /\ Equity!BeginValuing(cash, coins)
    BY <1>4 DEF Equity!ReadPositions, Equity!SampleState, EquityInv, JobReal, OfOneAccount
  <2>3. JobReal'
    BY <2>1, <2>2, BeginsReal
  <2>4. PricesReal'
    BY <2>1 DEF EquityInv, PricesReal, Quoted
  <2> QED
    BY <2>1, <2>3, <2>4, RealStays DEF EquityInv
<1>5. CASE Equity!ReadFails
  <2>1. UNCHANGED <<holdings, pastHoldings, quoted, lastPrices, samples>> /\ job' = Equity!Idle
    BY <1>5 DEF Equity!ReadFails
  <2>2. JobReal'
    BY <2>1 DEF JobReal, Equity!Idle
  <2>3. PricesReal'
    BY <2>1 DEF EquityInv, PricesReal, Quoted
  <2> QED
    BY <2>1, <2>2, <2>3, RealStays DEF EquityInv
<1>6. ASSUME NEW c \in Coins, Equity!QuoteAnswers(c) PROVE EquityInv'
  <2>1. PICK price \in quoted :
           /\ price.coin = c /\ job' = Equity!Priced(c, "fresh", price)
           /\ lastPrices' = Equity!Record(price) \/ lastPrices' = lastPrices
    BY <1>6 DEF Equity!QuoteAnswers
  <2>2. /\ UNCHANGED <<holdings, pastHoldings, quoted, samples>>
        /\ job.pc = "quotes" /\ c \in Equity!Unquoted
    BY <1>6 DEF Equity!QuoteAnswers
  <2>3. Quoted(c, price)
    BY <2>1 DEF EquityInv, PricesReal, Quoted
  <2>4. JobReal'
    BY <2>1, <2>2, <2>3, PricedReal
  <2>5. PricesReal'
    <3>1. CASE lastPrices' = lastPrices
      BY <2>2, <3>1 DEF EquityInv, PricesReal, Quoted
    <3>2. CASE lastPrices' = Equity!Record(price)
      <4>1. lastPrices' = [x \in Coins |-> IF x = c /\ lastPrices[x].at <= price.at
                                           THEN [bid |-> price.bid, at |-> price.at] ELSE lastPrices[x]]
        BY <2>1, <3>2 DEF Equity!Record
      <4>2. lastPrices' = [x \in Coins |-> lastPrices'[x]]
        BY <4>1
      <4>3. ASSUME NEW x \in Coins PROVE lastPrices'[x] = Equity!NoPrice \/ Quoted(x, lastPrices'[x])
        <5>1. CASE lastPrices'[x] = lastPrices[x]
          BY <5>1 DEF EquityInv, PricesReal
        <5>2. CASE x = c /\ lastPrices'[x] = [bid |-> price.bid, at |-> price.at]
          BY <2>3, <5>2 DEF Quoted
        <5> QED
          BY <4>1, <5>1, <5>2
      <4> QED
        BY <2>2, <4>2, <4>3 DEF EquityInv, PricesReal, Quoted
    <3> QED
      BY <2>1, <3>1, <3>2
  <2> QED
    BY <2>2, <2>4, <2>5, RealStays DEF EquityInv
<1>7. ASSUME NEW c \in Coins, Equity!QuoteFails(c) PROVE EquityInv'
  <2>1. /\ UNCHANGED <<holdings, pastHoldings, quoted, lastPrices, samples>>
        /\ job.pc = "quotes" /\ c \in Equity!Unquoted
        /\ job' = IF job.known[c] # Equity!NoPrice THEN Equity!Priced(c, "last_known", job.known[c])
                  ELSE Equity!Priced(c, "unpriced", Equity!NoPrice)
    BY <1>7 DEF Equity!QuoteFails
  <2>2. JobReal'
    <3>1. CASE job.known[c] # Equity!NoPrice
      <4>1. Quoted(c, job.known[c])
        BY <2>1, <3>1 DEF EquityInv, JobReal
      <4>2. job' = Equity!Priced(c, "last_known", job.known[c])
        BY <2>1, <3>1
      <4> QED
        BY <2>1, <4>1, <4>2, PricedReal
    <3>2. CASE job.known[c] = Equity!NoPrice
      <4>1. job' = Equity!Priced(c, "unpriced", Equity!NoPrice)
        BY <2>1, <3>2
      <4> QED
        BY <2>1, <4>1, PricedReal
    <3> QED
      BY <3>1, <3>2
  <2>3. PricesReal'
    BY <2>1 DEF EquityInv, PricesReal, Quoted
  <2> QED
    BY <2>1, <2>2, <2>3, RealStays DEF EquityInv
<1>8. CASE Equity!Save
  <2>1. /\ UNCHANGED <<holdings, pastHoldings, quoted, lastPrices>> /\ job' = Equity!Idle
        /\ job.pc = "quotes" /\ Equity!Unquoted = {}
        /\ samples' = Append(samples, Equity!Value) \/ samples' = samples
    BY <1>8 DEF Equity!Save
  <2>2. JobReal'
    BY <2>1 DEF JobReal, Equity!Idle
  <2>3. PricesReal'
    BY <2>1 DEF EquityInv, PricesReal, Quoted
  <2>4. SamplesReal'
    BY <2>1, RealStays, SavedReal DEF EquityInv
  <2> QED
    BY <2>1, <2>2, <2>3, <2>4 DEF EquityInv
<1>9. CASE UNCHANGED Equity!vars
  <2>1. UNCHANGED <<holdings, pastHoldings, quoted, lastPrices, job, samples>>
    BY <1>9 DEF Equity!vars
  <2>2. PricesReal'
    BY <2>1 DEF EquityInv, PricesReal, Quoted
  <2> QED
    BY <2>1, <2>2, RealStays, JobStays DEF EquityInv
<1> QED
  BY <1>1, <1>2, <1>3, <1>4, <1>5, <1>6, <1>7, <1>8, <1>9 DEF Equity!Next

\* "A figure is reported only when it is real": the day's first and latest snapshots are
\* each what one account of the venue was worth at prices it quoted, whatever fills,
\* fails or answers late while they are taken, when positions follow from the balances
\* just read (EquitySampler.sample, DayPnlReader.read).
THEOREM DayResultIsReal == ASSUME OneListing PROVE Equity!Spec => []PnlIsReal
<1>1. EquityInv /\ [Equity!Next]_Equity!vars => EquityInv'
  BY EquityStep
<1>2. EquityInv => PnlIsReal
  BY DEF EquityInv, SamplesReal, PnlIsReal, Equity!PnlIsReal, Equity!Shown, Equity!DayPnl, Equity!Today
<1> QED
  BY <1>1, <1>2, EquityBegins, PTL DEF Equity!Spec

-----------------------------------------------------------------------------
(* Passes over a list.                                                     *)

\* Every set of numbers that is not empty has a least one.
LEMMA LeastNumber ==
  ASSUME NEW N, N \subseteq Nat, N # {}
  PROVE  \E m \in N : \A n \in N : m <= n
<1>1. PICK m \in N : \A n \in N : <<n, m>> \notin OpToRel(<, Nat)
  BY WFMin, NatLessThanWellFounded
<1>2. \A n \in N : ~(n < m)
  BY <1>1 DEF OpToRel
<1> QED
  BY <1>2

\* pass holds what a loop's state is after each of its n turns.
IsPass(pass, n, start, step) ==
    pass[0] = start /\ \A k \in 1 .. n : pass[k] = step[<<k, pass[k - 1]>>]

\* What starts as the loop does and, from a state of its kind, makes its turns.
Follows(other, n, S, start, step) ==
    /\ other[0] = start
    /\ \A k \in 1 .. n : other[k - 1] \in S => other[k] = step[<<k, other[k - 1]>>]

Agree(other, pass, n) == \A k \in 0 .. n : other[k] = pass[k]

\* A loop's turns can be taken one after the other.
LEMMA PassExists ==
  ASSUME NEW S, NEW n \in Nat, NEW start \in S, NEW step \in [(1 .. n) \X S -> S]
  PROVE  \E pass \in [0 .. n -> S] : IsPass(pass, n, start, step)
<1> DEFINE Upto(m) == \E pass \in [0 .. m -> S] : IsPass(pass, m, start, step)
           without == {m \in 0 .. n : ~Upto(m)}
<1> SUFFICES ASSUME without # {} PROVE FALSE
  OBVIOUS
<1>1. PICK m \in without : \A k \in without : m <= k
  <2>1. without \subseteq Nat
    OBVIOUS
  <2> QED
    BY <2>1, LeastNumber
<1>2. m \in 0 .. n /\ ~Upto(m)
  OBVIOUS
<1>3. CASE m = 0
  <2> DEFINE pass == [k \in 0 .. 0 |-> start]
  <2>1. pass \in [0 .. 0 -> S] /\ IsPass(pass, 0, start, step)
    BY DEF IsPass
  <2> QED
    BY <1>2, <1>3, <2>1
<1>4. CASE m # 0
  <2>1. m - 1 \in 0 .. n /\ m \in 1 .. n /\ m - 1 \notin without
    <3>1. m - 1 \in 0 .. n /\ m \in 1 .. n
      BY <1>2, <1>4
    <3> HIDE DEF without
    <3> QED
      BY <1>1, <3>1
  <2>2. PICK less \in [0 .. m - 1 -> S] : IsPass(less, m - 1, start, step)
    BY <2>1
  <2> DEFINE pass == [k \in 0 .. m |-> IF k = m THEN step[<<m, less[m - 1]>>] ELSE less[k]]
  <2>3. less[m - 1] \in S /\ step[<<m, less[m - 1]>>] \in S
    BY <2>1, <2>2
  <2>4. \A k \in 0 .. m : k # m => k \in 0 .. m - 1
    BY <2>1
  <2>5. pass \in [0 .. m -> S]
    BY <2>2, <2>3, <2>4
  <2>6. pass[0] = start
    BY <2>1, <2>2 DEF IsPass
  <2>7. \A k \in 1 .. m : pass[k] = step[<<k, pass[k - 1]>>]
    <3> TAKE k \in 1 .. m
    <3>1. k \in 0 .. m /\ k - 1 \in 0 .. m /\ k - 1 # m /\ (k # m => k \in 1 .. m - 1)
      BY <2>1
    <3>2. pass[k - 1] = less[k - 1]
      BY <3>1
    <3>3. CASE k = m
      BY <3>1, <3>2, <3>3
    <3>4. CASE k # m
      <4>1. pass[k] = less[k] /\ less[k] = step[<<k, less[k - 1]>>]
        BY <2>2, <3>1, <3>4 DEF IsPass
      <4> QED
        BY <3>2, <4>1
    <3> QED
      BY <3>3, <3>4
  <2> QED
    BY <1>2, <2>5, <2>6, <2>7 DEF IsPass
<1> QED
  BY <1>3, <1>4

\* What follows a loop holds the loop's states: the first turns of a longer loop are those
\* of a shorter one.
LEMMA PassUnique ==
  ASSUME NEW S, NEW n \in Nat, NEW start \in S, NEW step \in [(1 .. n) \X S -> S],
         NEW pass, IsPass(pass, n, start, step), \A k \in 0 .. n : pass[k] \in S,
         NEW other, Follows(other, n, S, start, step)
  PROVE  Agree(other, pass, n)
<1> USE DEF Agree
<1> DEFINE wrong == {k \in 0 .. n : other[k] # pass[k]}
<1> SUFFICES ASSUME wrong # {} PROVE FALSE
  OBVIOUS
<1>1. PICK k \in wrong : \A j \in wrong : k <= j
  <2>1. wrong \subseteq Nat
    OBVIOUS
  <2> QED
    BY <2>1, LeastNumber
<1>2. k \in 0 .. n /\ other[k] # pass[k]
  OBVIOUS
<1>3. k # 0
  BY <1>2 DEF IsPass, Follows
<1>4. k \in 1 .. n /\ k - 1 \in 0 .. n /\ k - 1 \notin wrong
  <2>1. k \in 1 .. n /\ k - 1 \in 0 .. n
    BY <1>2, <1>3
  <2> HIDE DEF wrong
  <2> QED
    BY <1>1, <2>1
<1>5. other[k - 1] = pass[k - 1] /\ pass[k - 1] \in S
  BY <1>4
<1> QED
  BY <1>2, <1>4, <1>5 DEF IsPass, Follows

-----------------------------------------------------------------------------
(* What fills change.                                                      *)

\* The amounts of a fill are numbers, and something was bought or sold.
LEMMA FillTypes ==
  ASSUME NEW f \in Ledger!NewFills
  PROVE  /\ f.quantity \in Nat \ {0} /\ f.price \in Nat \ {0} /\ f.fee \in Nat
         /\ f.side \in {"buy", "sell"} /\ f.feeIn \in {"usd", "coin"}
         /\ Ledger!Notional(f) \in Nat \ {0} /\ Ledger!Sign(f.side) \in {1, -1}
<1>1. /\ f.quantity \in Nat \ {0} /\ f.price \in Nat \ {0} /\ f.fee \in Nat
      /\ f.side \in {"buy", "sell"} /\ f.feeIn \in {"usd", "coin"}
  BY BooksAssumption DEF Ledger!NewFills, Ledger!Configured
<1>2. f.quantity * f.price \in Nat \ {0}
  BY <1>1
<1> QED
  BY <1>1, <1>2 DEF Ledger!Notional, Ledger!Sign

\* The code rounds an amount as the venue settles it: what is left of whole units is
\* dropped, from a credit and from a debit (_toward_zero).
LEMMA RoundsAsTheVenue ==
  ASSUME NEW x \in Int
  PROVE  /\ Ledger!ToZero(x) \in Int
         /\ Ledger!ToZero(x) = IF x >= 0 THEN x - (x % Unit) ELSE x + ((-x) % Unit)
<1>1. Unit \in Nat \ {0}
  BY BooksAssumption DEF Ledger!Configured
<1>2. ASSUME NEW y \in Nat
      PROVE  y \div Unit \in Nat /\ y % Unit \in Nat /\ (y \div Unit) * Unit = y - (y % Unit)
  BY <1>1
<1>3. CASE x >= 0
  BY <1>2, <1>3 DEF Ledger!ToZero
<1>4. CASE x < 0
  <2>1. -x \in Nat
    BY <1>4
  <2> DEFINE q == (-x) \div Unit
  <2>2. q \in Nat /\ (-x) % Unit \in Nat /\ q * Unit = (-x) - ((-x) % Unit)
    BY <1>2, <2>1
  <2>3. Ledger!ToZero(x) = -(q * Unit)
    BY <1>4 DEF Ledger!ToZero
  <2> HIDE DEF q
  <2> QED
    BY <1>1, <1>4, <2>2, <2>3
<1> QED
  BY <1>3, <1>4

\* The projection settles every move of a fill as the venue does, and coins exactly.
LEMMA SettledIsPaid ==
  ASSUME NEW f \in Ledger!NewFills, NEW a \in Ledger!Assets
  PROVE  /\ Ledger!SettledChange(f, a) \in Int /\ Ledger!Change(f, a) \in Int
         /\ Ledger!Paid(f, a) = Ledger!SettledChange(f, a)
         /\ a = "coin" => Ledger!Paid(f, a) = Ledger!Change(f, a)
<1> DEFINE m == Ledger!Moves(f)
<1>1. \A i \in 1 .. 3 : m[i].amount \in Int /\ m[i].asset \in {"usd", "coin"}
  <2>1. /\ m[1].asset = "coin" /\ m[1].amount = Ledger!Sign(f.side) * f.quantity
        /\ m[2].asset = "usd" /\ m[2].amount = -(Ledger!Sign(f.side) * Ledger!Notional(f))
        /\ m[3].asset = f.feeIn /\ m[3].amount = -f.fee
    BY DEF Ledger!Moves
  <2>2. /\ Ledger!Sign(f.side) * f.quantity \in Int
        /\ -(Ledger!Sign(f.side) * Ledger!Notional(f)) \in Int /\ -f.fee \in Int
    BY FillTypes
  <2> HIDE DEF m
  <2> QED
    BY <2>1, <2>2, FillTypes
<1> HIDE DEF m
<1>2. \A i \in 1 .. 3 : /\ Ledger!Settled(m[i]) \in Int
                        /\ Ledger!VenueSettles(m[i]) = Ledger!Settled(m[i])
                        /\ m[i].asset = "coin" => Ledger!Settled(m[i]) = m[i].amount
  <2> TAKE i \in 1 .. 3
  <2>1. m[i].amount \in Int /\ m[i].asset \in {"usd", "coin"}
    BY <1>1
  <2>2. CASE m[i].asset = "coin"
    BY <2>1, <2>2 DEF Ledger!Settled, Ledger!VenueSettles
  <2>3. CASE m[i].asset = "usd"
    BY <2>1, <2>3, RoundsAsTheVenue DEF Ledger!Settled, Ledger!VenueSettles
  <2> QED
    BY <2>1, <2>2, <2>3
<1>3. Ledger!SettledChange(f, a) \in Int /\ Ledger!Change(f, a) \in Int
  BY <1>1, <1>2 DEF Ledger!SettledChange, Ledger!Change, m
<1>4. Ledger!Paid(f, a) = Ledger!SettledChange(f, a)
  BY <1>2 DEF Ledger!SettledChange, Ledger!Paid, m
<1>5. a = "coin" => Ledger!Paid(f, a) = Ledger!Change(f, a)
  BY <1>1, <1>2 DEF Ledger!Change, Ledger!Paid, m
<1> QED
  BY <1>3, <1>4, <1>5

-----------------------------------------------------------------------------
(* What the code lists, against the account.                               *)

\* What a projection is after any fill.
Projections ==
    [available : [Ledger!Assets -> Int], exact : [Ledger!Assets -> Int], quantity : Int,
     average : Int \X Int]

LEMMA FillProjects ==
  ASSUME NEW p \in Projections, NEW f \in Ledger!NewFills
  PROVE  /\ Ledger!ApplyFill(p, f) \in Projections
         /\ \A a \in Ledger!Assets : Ledger!ApplyFill(p, f).available[a] =
                                       p.available[a] + Ledger!SettledChange(f, a)
<1>1. /\ p.available \in [Ledger!Assets -> Int] /\ p.exact \in [Ledger!Assets -> Int]
      /\ p.quantity \in Int /\ p.average \in Int \X Int
  BY DEF Projections
<1> DEFINE q == Ledger!ApplyFill(p, f)
<1>2. q.available = [a \in Ledger!Assets |-> p.available[a] + Ledger!SettledChange(f, a)]
  BY DEF Ledger!ApplyFill
<1>3. q.available \in [Ledger!Assets -> Int]
  BY <1>1, <1>2, SettledIsPaid
<1>4. q.exact \in [Ledger!Assets -> Int]
  BY <1>1, SettledIsPaid DEF Ledger!ApplyFill
<1>5. q.quantity \in Int
  BY <1>1, FillTypes DEF Ledger!ApplyFill
<1>6. Ledger!Blend(p.quantity, p.average, f) \in Int \X Int
  <2>1. p.average[1] \in Int /\ p.average[2] \in Int
    BY <1>1
  <2>2. /\ p.quantity * p.average[1] + Ledger!Notional(f) * p.average[2] \in Int
        /\ p.average[2] * (p.quantity + f.quantity) \in Int
    BY <1>1, <2>1, FillTypes
  <2> QED
    BY <2>2, FillTypes DEF Ledger!Blend, Ledger!Unknown
<1>7. q.average \in Int \X Int
  BY <1>1, <1>6 DEF Ledger!ApplyFill
<1>8. q \in Projections
  BY <1>3, <1>4, <1>5, <1>7 DEF Projections, Ledger!ApplyFill
<1> QED
  BY <1>2, <1>8

LEMMA ProjectedInTurn ==
  ASSUME fills \in Seq(Ledger!NewFills), NEW ns
  PROVE  LET p == Ledger!Projected(ns)
         IN  /\ p[0] = Ledger!AtBaseline
             /\ \A k \in 0 .. Len(fills) : p[k] \in Projections
             /\ \A k \in 1 .. Len(fills) :
                  p[k] = IF k \in ns THEN Ledger!ApplyFill(p[k - 1], fills[k]) ELSE p[k - 1]
<1> DEFINE n == Len(fills)
           Next_(k, s) == IF k \in ns THEN Ledger!ApplyFill(s, fills[k]) ELSE s
           Steps(p_) == p_ = [k \in 0 .. n |-> IF k = 0 THEN Ledger!AtBaseline
                                               ELSE IF k \in ns
                                                    THEN Ledger!ApplyFill(p_[k - 1], fills[k])
                                                    ELSE p_[k - 1]]
           p == CHOOSE p_ : Steps(p_)
           step == [x \in (1 .. n) \X Projections |-> Next_(x[1], x[2])]
<1>1. Ledger!Projected(ns) = p
  BY DEF Ledger!Projected
<1>2. n \in Nat /\ \A k \in 1 .. n : fills[k] \in Ledger!NewFills
  OBVIOUS
<1>3. Ledger!AtBaseline \in Projections
  <2>1. OpeningUsd \in Int
    BY BooksAssumption DEF Ledger!Configured
  <2>2. Ledger!Baseline \in [Ledger!Assets -> Int]
    BY <2>1 DEF Ledger!Baseline
  <2> QED
    BY <2>2 DEF Projections, Ledger!AtBaseline, Ledger!Unknown
<1>4. \A k \in 1 .. n, s \in Projections : Next_(k, s) \in Projections
  BY <1>2, FillProjects
<1>5. step \in [(1 .. n) \X Projections -> Projections]
  BY <1>4
<1>6. \A k \in 1 .. n, s \in Projections : step[<<k, s>>] = Next_(k, s)
  OBVIOUS
<1> HIDE DEF step, n
<1>7. PICK pass \in [0 .. n -> Projections] : IsPass(pass, n, Ledger!AtBaseline, step)
  BY <1>2, <1>3, <1>5, PassExists
<1>8. \A k \in 1 .. n : k - 1 \in 0 .. n /\ k \in 0 .. n /\ k # 0
  BY <1>2
<1>9. pass[0] = Ledger!AtBaseline /\ \A k \in 1 .. n : pass[k] = Next_(k, pass[k - 1])
  BY <1>6, <1>7, <1>8 DEF IsPass
<1>10. \A k \in 0 .. n : k = 0 \/ k \in 1 .. n
  BY <1>2
<1>11. \A k \in 0 .. n : pass[k] = IF k = 0 THEN Ledger!AtBaseline ELSE Next_(k, pass[k - 1])
  BY <1>9, <1>10
<1>12. Steps(pass)
  BY <1>7, <1>11
<1>13. Steps(p)
  BY <1>12
<1> HIDE DEF p
<1>14. 0 \in 0 .. n
  BY <1>2
<1>15. p[0] = Ledger!AtBaseline
  BY <1>13, <1>14
<1>16. \A k \in 1 .. n : p[k] = Next_(k, p[k - 1])
  BY <1>8, <1>13
<1>17. Follows(p, n, Projections, Ledger!AtBaseline, step)
  BY <1>6, <1>15, <1>16 DEF Follows
<1>18. Agree(p, pass, n)
  BY <1>2, <1>3, <1>5, <1>7, <1>17, PassUnique
<1>19. \A k \in 0 .. n : p[k] \in Projections
  BY <1>7, <1>18 DEF Agree
<1> QED
  BY <1>1, <1>15, <1>16, <1>19 DEF n

LEMMA SettledInTurn ==
  ASSUME NEW fs \in Seq(Ledger!NewFills), NEW without, NEW a \in Ledger!Assets
  PROVE  LET p == Ledger!Settles(fs, without, a)
         IN  /\ p[0] = 0 /\ \A k \in 0 .. Len(fs) : p[k] \in Int
             /\ \A k \in 1 .. Len(fs) :
                  p[k] = p[k - 1] + IF k \in without THEN 0 ELSE Ledger!Paid(fs[k], a)
<1> DEFINE n == Len(fs)
           Next_(k, s) == s + IF k \in without THEN 0 ELSE Ledger!Paid(fs[k], a)
           Steps(p_) == p_ = [k \in 0 .. n |-> IF k = 0 THEN 0
                                               ELSE p_[k - 1] + IF k \in without THEN 0
                                                                ELSE Ledger!Paid(fs[k], a)]
           p == CHOOSE p_ : Steps(p_)
           step == [x \in (1 .. n) \X Int |-> Next_(x[1], x[2])]
<1>1. Ledger!Settles(fs, without, a) = p
  BY DEF Ledger!Settles
<1>2. n \in Nat /\ \A k \in 1 .. n : fs[k] \in Ledger!NewFills
  OBVIOUS
<1>3. 0 \in Int
  OBVIOUS
<1>4. \A k \in 1 .. n, s \in Int : Next_(k, s) \in Int
  BY <1>2, SettledIsPaid
<1>5. step \in [(1 .. n) \X Int -> Int]
  BY <1>4
<1>6. \A k \in 1 .. n, s \in Int : step[<<k, s>>] = Next_(k, s)
  OBVIOUS
<1> HIDE DEF step, n
<1>7. PICK pass \in [0 .. n -> Int] : IsPass(pass, n, 0, step)
  BY <1>2, <1>3, <1>5, PassExists
<1>8. \A k \in 1 .. n : k - 1 \in 0 .. n /\ k \in 0 .. n /\ k # 0
  BY <1>2
<1>9. pass[0] = 0 /\ \A k \in 1 .. n : pass[k] = Next_(k, pass[k - 1])
  BY <1>6, <1>7, <1>8 DEF IsPass
<1>10. \A k \in 0 .. n : k = 0 \/ k \in 1 .. n
  BY <1>2
<1>11. \A k \in 0 .. n : pass[k] = IF k = 0 THEN 0 ELSE Next_(k, pass[k - 1])
  BY <1>9, <1>10
<1>12. Steps(pass)
  BY <1>7, <1>11
<1>13. Steps(p)
  BY <1>12
<1> HIDE DEF p
<1>14. 0 \in 0 .. n
  BY <1>2
<1>15. p[0] = 0
  BY <1>13, <1>14
<1>16. \A k \in 1 .. n : p[k] = Next_(k, p[k - 1])
  BY <1>8, <1>13
<1>17. Follows(p, n, Int, 0, step)
  BY <1>6, <1>15, <1>16 DEF Follows
<1>18. Agree(p, pass, n)
  BY <1>2, <1>3, <1>5, <1>7, <1>17, PassUnique
<1>19. \A k \in 0 .. n : p[k] \in Int
  BY <1>7, <1>18 DEF Agree
<1> QED
  BY <1>1, <1>15, <1>16, <1>19 DEF n

\* The state of a walk after any fill, without an average or with one.
Walks == [quantity : Nat, average : Nat \X Nat]
Fresh == [quantity |-> 0, average |-> Ledger!Unknown]

\* An average that is known has a quantity under it.
Average(x) == x \in Nat \X Nat /\ (x = Ledger!Unknown \/ x[2] > 0)

LEMMA BlendIsAverage ==
  ASSUME NEW q \in Nat, NEW x, Average(x), NEW f \in Ledger!NewFills
  PROVE  /\ Average(Ledger!Blend(q, x, f))
         /\ q = 0 => Ledger!Blend(q, x, f) = <<Ledger!Notional(f), f.quantity>>
         /\ q = 0 \/ x # Ledger!Unknown => Ledger!Blend(q, x, f) # Ledger!Unknown
<1>1. f.quantity \in Nat \ {0} /\ Ledger!Notional(f) \in Nat
  BY FillTypes
<1>2. CASE q = 0
  BY <1>1, <1>2 DEF Ledger!Blend, Average, Ledger!Unknown
<1>3. CASE q # 0 /\ x = Ledger!Unknown
  BY <1>3 DEF Ledger!Blend, Average, Ledger!Unknown
<1>4. CASE q # 0 /\ x # Ledger!Unknown
  <2>1. x[1] \in Nat /\ x[2] \in Nat /\ x[2] > 0
    BY <1>4 DEF Average
  <2>2. q * x[1] + Ledger!Notional(f) * x[2] \in Nat
    BY <1>1, <2>1
  <2>3. q + f.quantity \in Nat /\ q + f.quantity > 0
    BY <1>1
  <2>4. x[2] * (q + f.quantity) \in Nat /\ x[2] * (q + f.quantity) > 0
    <3> DEFINE c == x[2]
               d == q + f.quantity
    <3>1. c \in Nat /\ d \in Nat /\ c > 0 /\ d > 0
      BY <2>1, <2>3
    <3> HIDE DEF c, d
    <3>2. c * d \in Nat /\ c * d > 0
      BY <3>1
    <3> QED
      BY <3>2 DEF c, d
  <2>5. Ledger!Blend(q, x, f) = <<q * x[1] + Ledger!Notional(f) * x[2], x[2] * (q + f.quantity)>>
    BY <1>4 DEF Ledger!Blend
  <2> HIDE DEF Ledger!Blend
  <2> QED
    BY <1>4, <2>2, <2>4, <2>5 DEF Average, Ledger!Unknown
<1> QED
  BY <1>2, <1>3, <1>4

LEMMA WalkFillKeeps ==
  ASSUME NEW w \in Walks, Average(w.average), NEW f \in Ledger!NewFills, NEW b \in BOOLEAN
  PROVE  /\ Ledger!WalkFill(w, f, b) \in Walks
         /\ Average(Ledger!WalkFill(w, f, b).average)
<1>1. w.quantity \in Nat /\ w.average \in Nat \X Nat
  BY DEF Walks
<1>2. f.quantity \in Nat \ {0} /\ Ledger!Notional(f) \in Nat /\ f.fee \in Nat
  BY FillTypes
<1>3. Average(<<Ledger!Notional(f), f.quantity>>) /\ Average(Ledger!Unknown)
  BY <1>2 DEF Average, Ledger!Unknown
<1>4. Average(Ledger!Blend(w.quantity, w.average, f))
  BY <1>1, BlendIsAverage
<1> DEFINE v == Ledger!WalkFill(w, f, b)
<1>5. v.quantity \in Nat
  BY <1>1, <1>2 DEF Ledger!WalkFill
<1>6. Average(v.average)
  BY <1>3, <1>4, FillTypes DEF Ledger!WalkFill
<1>7. v = [quantity |-> v.quantity, average |-> v.average]
  BY DEF Ledger!WalkFill
<1> HIDE DEF v
<1> QED
  BY <1>5, <1>6, <1>7 DEF Walks, Average, v

\* The walks whose average is one.
PricedWalks == {w \in Walks : Average(w.average)}

LEMMA WalkedInTurn ==
  ASSUME NEW fs \in Seq(Ledger!NewFills), NEW b \in BOOLEAN
  PROVE  LET p == Ledger!Walked(fs, b)
         IN  /\ p[0] = Fresh /\ \A k \in 0 .. Len(fs) : p[k] \in PricedWalks
             /\ \A k \in 1 .. Len(fs) : p[k] = Ledger!WalkFill(p[k - 1], fs[k], b)
<1> DEFINE n == Len(fs)
           Next_(k, s) == Ledger!WalkFill(s, fs[k], b)
           Steps(p_) == p_ = [k \in 0 .. n |-> IF k = 0 THEN Fresh
                                               ELSE Ledger!WalkFill(p_[k - 1], fs[k], b)]
           p == CHOOSE p_ : Steps(p_)
           step == [x \in (1 .. n) \X PricedWalks |-> Next_(x[1], x[2])]
<1>1. Ledger!Walked(fs, b) = p
  BY DEF Ledger!Walked, Fresh
<1>2. n \in Nat /\ \A k \in 1 .. n : fs[k] \in Ledger!NewFills
  OBVIOUS
<1>3. Fresh \in PricedWalks
  BY DEF Fresh, PricedWalks, Walks, Average, Ledger!Unknown
<1>4. \A k \in 1 .. n, s \in PricedWalks : Next_(k, s) \in PricedWalks
  BY <1>2, WalkFillKeeps DEF PricedWalks
<1>5. step \in [(1 .. n) \X PricedWalks -> PricedWalks]
  BY <1>4
<1>6. \A k \in 1 .. n, s \in PricedWalks : step[<<k, s>>] = Next_(k, s)
  OBVIOUS
<1> HIDE DEF step, n
<1>7. PICK pass \in [0 .. n -> PricedWalks] : IsPass(pass, n, Fresh, step)
  BY <1>2, <1>3, <1>5, PassExists
<1>8. \A k \in 1 .. n : k - 1 \in 0 .. n /\ k \in 0 .. n /\ k # 0
  BY <1>2
<1>9. pass[0] = Fresh /\ \A k \in 1 .. n : pass[k] = Next_(k, pass[k - 1])
  BY <1>6, <1>7, <1>8 DEF IsPass
<1>10. \A k \in 0 .. n : k = 0 \/ k \in 1 .. n
  BY <1>2
<1>11. \A k \in 0 .. n : pass[k] = IF k = 0 THEN Fresh ELSE Next_(k, pass[k - 1])
  BY <1>9, <1>10
<1>12. Steps(pass)
  BY <1>7, <1>11
<1>13. Steps(p)
  BY <1>12
<1> HIDE DEF p
<1>14. 0 \in 0 .. n
  BY <1>2
<1>15. p[0] = Fresh
  BY <1>13, <1>14
<1>16. \A k \in 1 .. n : p[k] = Next_(k, p[k - 1])
  BY <1>8, <1>13
<1>17. Follows(p, n, PricedWalks, Fresh, step)
  BY <1>6, <1>15, <1>16 DEF Follows
<1>18. Agree(p, pass, n)
  BY <1>2, <1>3, <1>5, <1>7, <1>17, PassUnique
<1>19. \A k \in 0 .. n : p[k] \in PricedWalks
  BY <1>7, <1>18 DEF Agree
<1> QED
  BY <1>1, <1>15, <1>16, <1>19 DEF n

LEMMA OneMoreSettled ==
  ASSUME NEW fs \in Seq(Ledger!NewFills), NEW f \in Ledger!NewFills, NEW a \in Ledger!Assets
  PROVE  Ledger!Settles(Append(fs, f), {}, a)[Len(fs) + 1] =
           Ledger!Settles(fs, {}, a)[Len(fs)] + Ledger!Paid(f, a)
<1> DEFINE n == Len(fs)
           gs == Append(fs, f)
           p == Ledger!Settles(fs, {}, a)
           q == Ledger!Settles(gs, {}, a)
           step == [x \in (1 .. n) \X Int |-> x[2] + Ledger!Paid(fs[x[1]], a)]
<1>1. /\ n \in Nat /\ gs \in Seq(Ledger!NewFills) /\ Len(gs) = n + 1 /\ gs[n + 1] = f
      /\ \A k \in 1 .. n : gs[k] = fs[k] /\ fs[k] \in Ledger!NewFills
  OBVIOUS
<1>2. /\ p[0] = 0 /\ \A k \in 0 .. n : p[k] \in Int
      /\ \A k \in 1 .. n : p[k] = p[k - 1] + Ledger!Paid(fs[k], a)
  BY SettledInTurn
<1>3. /\ q[0] = 0 /\ \A k \in 0 .. n + 1 : q[k] \in Int
      /\ \A k \in 1 .. n + 1 : q[k] = q[k - 1] + Ledger!Paid(gs[k], a)
  <2> HIDE DEF gs, n
  <2> QED
    BY <1>1, SettledInTurn DEF q
<1>4. step \in [(1 .. n) \X Int -> Int]
  BY <1>1, SettledIsPaid
<1>5. \A k \in 1 .. n, s \in Int : step[<<k, s>>] = s + Ledger!Paid(fs[k], a)
  OBVIOUS
<1> HIDE DEF step, p, q, n, gs
<1>6. \A k \in 1 .. n : k - 1 \in 0 .. n /\ k \in 0 .. n + 1 /\ k \in 1 .. n + 1
  BY <1>1
<1>7. IsPass(p, n, 0, step)
  BY <1>2, <1>5, <1>6 DEF IsPass
<1>8. Follows(q, n, Int, 0, step)
  BY <1>1, <1>3, <1>5, <1>6 DEF Follows
<1>9. Agree(q, p, n)
  <2>1. 0 \in Int
    OBVIOUS
  <2> QED
    BY <1>1, <1>2, <1>4, <1>7, <1>8, <2>1, PassUnique
<1>10. q[n] = p[n]
  BY <1>1, <1>9 DEF Agree
<1>11. q[n + 1] = q[n] + Ledger!Paid(f, a)
  <2>1. n + 1 \in 1 .. n + 1 /\ (n + 1) - 1 = n
    BY <1>1
  <2> QED
    BY <1>1, <1>3, <2>1
<1> QED
  BY <1>10, <1>11 DEF n, gs, p, q

\* What has been projected and what is still missing are together what the venue paid,
\* fill by fill.
LEMMA ProjectedAndMissing ==
  ASSUME fills \in Seq(Ledger!NewFills), NEW ns, NEW a \in Ledger!Assets
  PROVE  /\ Ledger!apply_fills(ns).available[a] \in Int
         /\ Ledger!Settles(fills, ns, a)[Len(fills)] \in Int
         /\ Ledger!apply_fills(ns).available[a] + Ledger!Settles(fills, ns, a)[Len(fills)] =
              Ledger!Baseline[a] + Ledger!Settles(fills, {}, a)[Len(fills)]
<1> DEFINE n == Len(fills)
           p == Ledger!Projected(ns)
           rest == Ledger!Settles(fills, ns, a)
           all == Ledger!Settles(fills, {}, a)
           Even(k) == p[k].available[a] + rest[k] = Ledger!Baseline[a] + all[k]
           wrong == {k \in 0 .. n : ~Even(k)}
<1>1. n \in Nat /\ \A k \in 1 .. n : fills[k] \in Ledger!NewFills
  OBVIOUS
<1>2. /\ p[0] = Ledger!AtBaseline /\ \A k \in 0 .. n : p[k] \in Projections
      /\ \A k \in 1 .. n :
           p[k] = IF k \in ns THEN Ledger!ApplyFill(p[k - 1], fills[k]) ELSE p[k - 1]
  BY ProjectedInTurn
<1>3. /\ rest[0] = 0 /\ \A k \in 0 .. n : rest[k] \in Int
      /\ \A k \in 1 .. n : rest[k] = rest[k - 1] + IF k \in ns THEN 0 ELSE Ledger!Paid(fills[k], a)
  BY SettledInTurn
<1>4. /\ all[0] = 0 /\ \A k \in 0 .. n : all[k] \in Int
      /\ \A k \in 1 .. n : all[k] = all[k - 1] + Ledger!Paid(fills[k], a)
  BY SettledInTurn
<1>5. \A k \in 0 .. n : p[k].available[a] \in Int
  BY <1>2 DEF Projections
<1>6. Ledger!Baseline[a] \in Int /\ Ledger!AtBaseline.available[a] = Ledger!Baseline[a]
  BY BooksAssumption DEF Ledger!Configured, Ledger!Baseline, Ledger!AtBaseline
<1> HIDE DEF n, p, rest, all
<1>7. Even(0)
  BY <1>2, <1>3, <1>4, <1>6
<1>8. ASSUME NEW k \in 1 .. n, Even(k - 1) PROVE Even(k)
  <2>1. k - 1 \in 0 .. n /\ k \in 0 .. n
    BY <1>1
  <2>2. Ledger!SettledChange(fills[k], a) \in Int
        /\ Ledger!Paid(fills[k], a) = Ledger!SettledChange(fills[k], a)
    BY <1>1, SettledIsPaid
  <2>3. p[k].available[a] =
          p[k - 1].available[a] + IF k \in ns THEN Ledger!SettledChange(fills[k], a) ELSE 0
    BY <1>1, <1>2, <1>5, <2>1, FillProjects
  <2>4. rest[k] = rest[k - 1] + IF k \in ns THEN 0 ELSE Ledger!Paid(fills[k], a)
    BY <1>3
  <2>5. all[k] = all[k - 1] + Ledger!Paid(fills[k], a)
    BY <1>4
  <2>6. /\ p[k - 1].available[a] \in Int /\ rest[k - 1] \in Int /\ all[k - 1] \in Int
        /\ Ledger!Paid(fills[k], a) \in Int
    BY <1>3, <1>4, <1>5, <2>1, <2>2
  <2>7. p[k - 1].available[a] + rest[k - 1] = Ledger!Baseline[a] + all[k - 1]
    BY <1>8
  <2> DEFINE x == p[k - 1].available[a]
             y == rest[k - 1]
             z == all[k - 1]
             b == Ledger!Baseline[a]
             c == Ledger!Paid(fills[k], a)
  <2> HIDE DEF Even, x, y, z, b, c
  <2>8. x \in Int /\ y \in Int /\ z \in Int /\ b \in Int /\ c \in Int /\ x + y = b + z
    BY <1>6, <2>6, <2>7 DEF x, y, z, b, c
  <2>9. CASE k \in ns
    <3>1. p[k].available[a] = x + c /\ rest[k] = y /\ all[k] = z + c
      BY <2>2, <2>3, <2>4, <2>5, <2>8, <2>9 DEF x, y, z, c
    <3>2. (x + c) + y = b + (z + c)
      BY <2>8
    <3> QED
      BY <3>1, <3>2 DEF Even, b
  <2>10. CASE k \notin ns
    <3>1. p[k].available[a] = x /\ rest[k] = y + c /\ all[k] = z + c
      BY <2>2, <2>3, <2>4, <2>5, <2>8, <2>10 DEF x, y, z, c
    <3>2. x + (y + c) = b + (z + c)
      BY <2>8
    <3> QED
      BY <3>1, <3>2 DEF Even, b
  <2> QED
    BY <2>9, <2>10
<1> HIDE DEF Even
<1>9. wrong = {}
  <2> SUFFICES ASSUME wrong # {} PROVE FALSE
    OBVIOUS
  <2>1. PICK k \in wrong : \A j \in wrong : k <= j
    <3>1. wrong \subseteq Nat
      BY <1>1
    <3> QED
      BY <3>1, LeastNumber
  <2>2. k \in 0 .. n /\ ~Even(k)
    OBVIOUS
  <2>3. k \in 1 .. n /\ k - 1 \in 0 .. n
    BY <1>1, <1>7, <2>2
  <2>4. k - 1 \notin wrong
    <3> HIDE DEF wrong
    <3> QED
      BY <1>1, <2>1, <2>3
  <2> QED
    BY <1>8, <2>2, <2>3, <2>4
<1>10. n \in 0 .. n /\ Even(n)
  BY <1>1, <1>9
<1> QED
  BY <1>3, <1>5, <1>10 DEF Even, n, p, rest, all, Ledger!apply_fills

-----------------------------------------------------------------------------
(* The books against the account.                                          *)

\* The account is the baseline and what the venue has settled since.
BooksInv ==
    /\ fills \in Seq(Ledger!NewFills)
    /\ funds \in [Ledger!Assets -> Int] /\ funds["coin"] \in Nat
    /\ moved \in [in : Nat, out : Nat]
    /\ \A a \in Ledger!Assets :
         funds[a] = Ledger!Baseline[a] + Ledger!Settles(fills, {}, a)[Len(fills)]
                      + Ledger!MovedIn(a)

LEMMA BooksBegin == Ledger!Init => BooksInv
<1> SUFFICES ASSUME Ledger!Init PROVE BooksInv
  OBVIOUS
<1>1. OpeningUsd \in Nat
  BY BooksAssumption DEF Ledger!Configured
<1>2. /\ fills = <<>> /\ moved = [in |-> 0, out |-> 0] /\ funds = Ledger!Baseline
      /\ fills \in Seq(Ledger!NewFills) /\ Len(fills) = 0
  BY DEF Ledger!Init
<1>3. ASSUME NEW a \in Ledger!Assets
      PROVE  /\ Ledger!Settles(fills, {}, a)[Len(fills)] = 0
             /\ Ledger!MovedIn(a) = 0 /\ Ledger!Baseline[a] \in Nat
  <2>1. Ledger!Settles(fills, {}, a)[0] = 0
    <3>1. fills \in Seq(Ledger!NewFills)
      BY <1>2
    <3> QED
      BY <3>1, SettledInTurn
  <2>2. Ledger!MovedIn(a) = 0
    BY <1>2 DEF Ledger!MovedIn
  <2>3. Ledger!Baseline[a] \in Nat
    BY <1>1 DEF Ledger!Baseline
  <2> QED
    BY <1>2, <2>1, <2>2, <2>3
<1>4. funds["coin"] \in Nat /\ funds \in [Ledger!Assets -> Int]
  BY <1>1, <1>2 DEF Ledger!Baseline, Ledger!Assets
<1> QED
  BY <1>2, <1>3, <1>4 DEF BooksInv

LEMMA CoinsOfAFill ==
  ASSUME NEW f \in Ledger!NewFills
  PROVE  Ledger!Change(f, "coin") =
           Ledger!Sign(f.side) * f.quantity - IF f.feeIn = "coin" THEN f.fee ELSE 0
<1> DEFINE m == Ledger!Moves(f)
<1>1. /\ m[1].asset = "coin" /\ m[1].amount = Ledger!Sign(f.side) * f.quantity
      /\ m[2].asset = "usd"
      /\ m[3].asset = f.feeIn /\ m[3].amount = -f.fee
  BY DEF Ledger!Moves
<1>2. Ledger!Change(f, "coin") =
        m[1].amount + 0 + IF m[3].asset = "coin" THEN m[3].amount ELSE 0
  BY <1>1 DEF Ledger!Change
<1>3. Ledger!Sign(f.side) * f.quantity \in Int /\ f.fee \in Nat
  BY FillTypes
<1> HIDE DEF m
<1> QED
  BY <1>1, <1>2, <1>3

LEMMA TradeKeepsBooks ==
  ASSUME BooksInv, NEW f \in Ledger!NewFills, Ledger!Trade(f)
  PROVE  BooksInv'
<1>1. /\ fills \in Seq(Ledger!NewFills) /\ fills' = Append(fills, f)
      /\ funds' = [a \in Ledger!Assets |-> funds[a] + Ledger!Paid(f, a)]
      /\ \A a \in Ledger!Assets : funds[a] + Ledger!Change(f, a) >= 0
      /\ moved' = moved
  BY DEF BooksInv, Ledger!Trade
<1>2. fills' \in Seq(Ledger!NewFills) /\ Len(fills') = Len(fills) + 1
  BY <1>1
<1>3. "coin" \in Ledger!Assets
  BY DEF Ledger!Assets
<1>4. funds'["coin"] \in Nat
  BY <1>1, <1>3, SettledIsPaid DEF BooksInv
<1>5. ASSUME NEW a \in Ledger!Assets
      PROVE  funds'[a] = Ledger!Baseline[a] + Ledger!Settles(fills', {}, a)[Len(fills')]
                           + Ledger!MovedIn(a)'
  <2>1. Ledger!Settles(fills', {}, a)[Len(fills')] =
          Ledger!Settles(fills, {}, a)[Len(fills)] + Ledger!Paid(f, a)
    BY <1>1, <1>2, OneMoreSettled
  <2>2. Ledger!MovedIn(a)' = Ledger!MovedIn(a) /\ Ledger!MovedIn(a) \in Int
    BY <1>1 DEF Ledger!MovedIn, BooksInv
  <2>3. /\ Ledger!Settles(fills, {}, a)[Len(fills)] \in Int /\ Ledger!Paid(f, a) \in Int
        /\ Ledger!Baseline[a] \in Int
    BY <1>1, SettledInTurn, SettledIsPaid, BooksAssumption
    DEF Ledger!Baseline, Ledger!Configured
  <2>4. funds'[a] = funds[a] + Ledger!Paid(f, a)
    BY <1>1
  <2>5. funds[a] = Ledger!Baseline[a] + Ledger!Settles(fills, {}, a)[Len(fills)]
                     + Ledger!MovedIn(a)
    BY DEF BooksInv
  <2> QED
    BY <2>1, <2>2, <2>3, <2>4, <2>5
<1>6. funds' \in [Ledger!Assets -> Int]
  BY <1>1, SettledIsPaid DEF BooksInv
<1>7. moved' \in [in : Nat, out : Nat]
  BY <1>1 DEF BooksInv
<1> QED
  BY <1>2, <1>4, <1>5, <1>6, <1>7 DEF BooksInv

LEMMA TransferKeepsBooks ==
  ASSUME BooksInv, NEW way, Ledger!Transfer(way)
  PROVE  BooksInv'
<1>1. way \in {"in", "out"}
  BY BooksAssumption DEF Ledger!Configured, Ledger!Transfer
<1> DEFINE one == IF way = "in" THEN 1 ELSE -1
<1>2. /\ fills' = fills /\ moved' = [moved EXCEPT ![way] = 1] /\ moved[way] = 0
      /\ funds' = [funds EXCEPT !["coin"] = funds["coin"] + one]
      /\ way = "out" => funds["coin"] > 0
  BY DEF Ledger!Transfer
<1>3. /\ moved' \in [in : Nat, out : Nat]
      /\ moved'.in - moved'.out = (moved.in - moved.out) + one
  <2>1. moved \in [in : Nat, out : Nat]
    BY DEF BooksInv
  <2>2. CASE way = "in"
    BY <1>2, <2>1, <2>2
  <2>3. CASE way = "out"
    BY <1>2, <2>1, <2>3
  <2> QED
    BY <1>1, <2>2, <2>3
<1>4. /\ funds' \in [Ledger!Assets -> Int] /\ funds'["coin"] = funds["coin"] + one
      /\ funds'["coin"] \in Nat /\ \A a \in Ledger!Assets : a # "coin" => funds'[a] = funds[a]
  <2>1. funds \in [Ledger!Assets -> Int] /\ funds["coin"] \in Nat /\ "coin" \in Ledger!Assets
    BY DEF BooksInv, Ledger!Assets
  <2>2. one \in Int /\ funds["coin"] + one \in Nat
    BY <1>1, <1>2, <2>1
  <2> HIDE DEF one
  <2> QED
    BY <1>2, <2>1, <2>2
<1>5. ASSUME NEW a \in Ledger!Assets
      PROVE  funds'[a] = Ledger!Baseline[a] + Ledger!Settles(fills, {}, a)[Len(fills)]
                           + Ledger!MovedIn(a)'
  <2>1. /\ Ledger!Settles(fills, {}, a)[Len(fills)] \in Int /\ Ledger!Baseline[a] \in Int
    BY SettledInTurn, BooksAssumption DEF BooksInv, Ledger!Baseline, Ledger!Configured
  <2>2. funds[a] = Ledger!Baseline[a] + Ledger!Settles(fills, {}, a)[Len(fills)]
                     + Ledger!MovedIn(a)
    BY DEF BooksInv
  <2>3. moved.in - moved.out \in Int /\ one \in Int
    BY DEF BooksInv
  <2>4. CASE a = "coin"
    BY <1>3, <1>4, <2>1, <2>2, <2>3, <2>4 DEF Ledger!MovedIn
  <2>5. CASE a # "coin"
    BY <1>4, <2>2, <2>5 DEF Ledger!MovedIn
  <2> QED
    BY <2>4, <2>5
<1> QED
  BY <1>2, <1>3, <1>4, <1>5 DEF BooksInv

LEMMA BooksStep == BooksInv /\ [Ledger!Next]_Ledger!vars => BooksInv'
<1> SUFFICES ASSUME BooksInv, [Ledger!Next]_Ledger!vars PROVE BooksInv'
  OBVIOUS
<1>1. ASSUME UNCHANGED <<funds, fills, moved>> PROVE BooksInv'
  BY <1>1 DEF BooksInv, Ledger!MovedIn
<1>2. ASSUME NEW n \in DOMAIN fills, Ledger!Save(n) PROVE BooksInv'
  BY <1>1, <1>2 DEF Ledger!Save
<1> QED
  BY <1>1, <1>2, TradeKeepsBooks, TransferKeepsBooks DEF Ledger!Next, Ledger!vars

\* A projection that stands differs from the account by exactly what the unsaved fills and
\* the transfers moved, for any fills, saved late and in any order, any unit and any
\* baseline: what the explanation gives as the difference, and what a divergence is logged
\* with (apply_fills, explain_window, field_changes).
THEOREM BooksShowWhatIsMissing == Ledger!Spec => []DivergenceIsWhatIsMissing
<1>1. BooksInv => DivergenceIsWhatIsMissing
  <2> SUFFICES ASSUME BooksInv, NEW a \in Ledger!Assets
               PROVE  LET p == Ledger!apply_fills(recorded).available[a]
                          changes == Ledger!field_changes(p, funds[a])
                      IN  /\ Ledger!explain_window(recorded, a).difference = Ledger!Missing(a)
                          /\ changes = {} <=> Ledger!Missing(a) = 0
                          /\ \A c \in changes : c.field = "available" => c.delta = Ledger!Missing(a)
    BY DEF DivergenceIsWhatIsMissing, Ledger!DivergenceIsWhatIsMissing
  <2> DEFINE p == Ledger!apply_fills(recorded).available[a]
             rest == Ledger!Settles(fills, recorded, a)[Len(fills)]
             all == Ledger!Settles(fills, {}, a)[Len(fills)]
             b == Ledger!Baseline[a]
             t == Ledger!MovedIn(a)
             difference == funds[a] - p
  <2>1. p \in Int /\ rest \in Int /\ p + rest = b + all
    BY ProjectedAndMissing DEF BooksInv
  <2>2. all \in Int /\ b \in Int /\ t \in Int
    BY SettledInTurn, BooksAssumption
    DEF BooksInv, Ledger!Baseline, Ledger!Configured, Ledger!MovedIn
  <2>3. funds[a] = b + all + t
    BY DEF BooksInv
  <2>4. Ledger!Missing(a) = rest + t
    BY DEF Ledger!Missing
  <2>5. Ledger!explain_window(recorded, a).difference = difference
    BY DEF Ledger!explain_window
  <2> HIDE DEF p, rest, all, b, t
  <2>6. difference = rest + t
    BY <2>1, <2>2, <2>3
  <2>7. p = funds[a] <=> rest + t = 0
    BY <2>1, <2>2, <2>3
  <2> DEFINE changes == Ledger!field_changes(p, funds[a])
  <2>8. changes = {} <=> p = funds[a]
    BY DEF Ledger!field_changes, Ledger!Compared
  <2>9. \A c \in changes : c.field = "available" => c.delta = difference
    BY DEF Ledger!field_changes, Ledger!Compared
  <2> HIDE DEF changes, difference
  <2>10. /\ Ledger!explain_window(recorded, a).difference = Ledger!Missing(a)
         /\ changes = {} <=> Ledger!Missing(a) = 0
         /\ \A c \in changes : c.field = "available" => c.delta = Ledger!Missing(a)
    BY <2>4, <2>5, <2>6, <2>7, <2>8, <2>9
  <2> QED
    BY <2>10 DEF changes, p
<1> QED
  BY <1>1, BooksBegin, BooksStep, PTL DEF Ledger!Spec

-----------------------------------------------------------------------------
(* The average shown.                                                      *)

InBase == Ledger!Walked(fills, TRUE)[Len(fills)]
InQuote == Ledger!Walked(fills, FALSE)[Len(fills)]

FeesPaidIn(asset) == \A i \in DOMAIN fills : fills[i].fee > 0 => fills[i].feeIn = asset

\* A walk never counts more coins than are held, and one that counts as many knows their
\* average: it has walked with the account since both last held nothing.
Honest(w, held, average) ==
    /\ w.quantity <= held
    /\ w.quantity = held => held = 0 \/ (w.average = average /\ average # Ledger!Unknown)

\* The reading with fees in the coin takes every fee from the coins and is honest whatever
\* happens.  The one without is honest only while no fee was in the coin, and counts more
\* than is held as soon as one was and nothing came from outside.
CostInv ==
    /\ Average(basis) /\ moved.out = 0
    /\ Honest(InBase, funds["coin"], basis)
    /\ FeesPaidIn("usd") => Honest(InQuote, funds["coin"], basis)
    /\ moved.in = 0 => /\ InQuote.quantity >= funds["coin"]
                       /\ InQuote.quantity = funds["coin"] <=> FeesPaidIn("usd")
    /\ moved.in = 0 /\ FeesPaidIn("coin") => InBase.quantity = funds["coin"]

LEMMA OneMoreWalked ==
  ASSUME NEW fs \in Seq(Ledger!NewFills), NEW f \in Ledger!NewFills, NEW b \in BOOLEAN
  PROVE  Ledger!Walked(Append(fs, f), b)[Len(fs) + 1] =
           Ledger!WalkFill(Ledger!Walked(fs, b)[Len(fs)], f, b)
<1> DEFINE n == Len(fs)
           gs == Append(fs, f)
           p == Ledger!Walked(fs, b)
           q == Ledger!Walked(gs, b)
           step == [x \in (1 .. n) \X PricedWalks |-> Ledger!WalkFill(x[2], fs[x[1]], b)]
<1>1. /\ n \in Nat /\ gs \in Seq(Ledger!NewFills) /\ Len(gs) = n + 1 /\ gs[n + 1] = f
      /\ \A k \in 1 .. n : gs[k] = fs[k] /\ fs[k] \in Ledger!NewFills
  OBVIOUS
<1>2. /\ p[0] = Fresh /\ \A k \in 0 .. n : p[k] \in PricedWalks
      /\ \A k \in 1 .. n : p[k] = Ledger!WalkFill(p[k - 1], fs[k], b)
  BY WalkedInTurn
<1>3. /\ q[0] = Fresh /\ \A k \in 0 .. n + 1 : q[k] \in PricedWalks
      /\ \A k \in 1 .. n + 1 : q[k] = Ledger!WalkFill(q[k - 1], gs[k], b)
  <2> HIDE DEF gs, n
  <2> QED
    BY <1>1, WalkedInTurn DEF q
<1>4. step \in [(1 .. n) \X PricedWalks -> PricedWalks]
  BY <1>1, WalkFillKeeps DEF PricedWalks
<1>5. \A k \in 1 .. n, s \in PricedWalks : step[<<k, s>>] = Ledger!WalkFill(s, fs[k], b)
  OBVIOUS
<1> HIDE DEF step, p, q, n, gs
<1>6. \A k \in 1 .. n : k - 1 \in 0 .. n /\ k \in 0 .. n + 1 /\ k \in 1 .. n + 1
  BY <1>1
<1>7. IsPass(p, n, Fresh, step)
  BY <1>2, <1>5, <1>6 DEF IsPass
<1>8. Follows(q, n, PricedWalks, Fresh, step)
  BY <1>1, <1>3, <1>5, <1>6 DEF Follows
<1>9. Agree(q, p, n)
  <2>1. Fresh \in PricedWalks
    BY DEF Fresh, PricedWalks, Walks, Average, Ledger!Unknown
  <2> QED
    BY <1>1, <1>2, <1>4, <1>7, <1>8, <2>1, PassUnique
<1>10. q[n] = p[n]
  BY <1>1, <1>9 DEF Agree
<1>11. q[n + 1] = Ledger!WalkFill(q[n], f, b)
  <2>1. n + 1 \in 1 .. n + 1 /\ (n + 1) - 1 = n
    BY <1>1
  <2> QED
    BY <1>1, <1>3, <2>1
<1> QED
  BY <1>10, <1>11 DEF n, gs, p, q

\* A fill that takes no more coins in fees from the account than from the walk leaves an
\* honest walk honest.
LEMMA HonestStays ==
  ASSUME NEW w \in PricedWalks, NEW f \in Ledger!NewFills, NEW b \in BOOLEAN,
         NEW held \in Nat, NEW average, Average(average), Honest(w, held, average),
         NEW fee \in Nat, fee <= IF b THEN f.fee ELSE 0,
         held + Ledger!Sign(f.side) * f.quantity - fee \in Nat
  PROVE  Honest(Ledger!WalkFill(w, f, b), held + Ledger!Sign(f.side) * f.quantity - fee,
                IF f.side = "buy" THEN Ledger!Blend(held, average, f) ELSE average)
<1> DEFINE base == IF b THEN f.fee ELSE 0
           moves == Ledger!Sign(f.side) * f.quantity
           v == Ledger!WalkFill(w, f, b)
           rest == held + moves - fee
           priced == IF f.side = "buy" THEN Ledger!Blend(held, average, f) ELSE average
<1>1. /\ f.quantity \in Nat \ {0} /\ f.fee \in Nat /\ f.side \in {"buy", "sell"}
      /\ Ledger!Notional(f) \in Nat \ {0}
  BY FillTypes
<1>2. /\ base \in Nat /\ fee <= base /\ moves \in Int
      /\ moves = IF f.side = "buy" THEN f.quantity ELSE -f.quantity
  BY <1>1 DEF Ledger!Sign
<1>3. w.quantity \in Nat /\ Average(w.average) /\ w.quantity <= held
  BY DEF PricedWalks, Walks, Honest
<1>4. v.quantity = IF w.quantity + moves - base < 0 THEN 0 ELSE w.quantity + moves - base
  <2>1. CASE f.side = "buy"
    <3>1. w.quantity + f.quantity - base = w.quantity + moves - base
      BY <1>2, <2>1
    <3> HIDE DEF moves
    <3> QED
      BY <2>1, <3>1 DEF Ledger!WalkFill
  <2>2. CASE f.side # "buy"
    <3>1. w.quantity - (f.quantity + base) = w.quantity + moves - base
      BY <1>1, <1>2, <1>3, <2>2
    <3> HIDE DEF moves
    <3> QED
      BY <2>2, <3>1 DEF Ledger!WalkFill
  <2> QED
    BY <2>1, <2>2
<1>5. v.quantity \in Nat /\ v.quantity <= rest
  <2>1. held + moves - fee \in Nat
    OBVIOUS
  <2> HIDE DEF v, moves, base
  <2> QED
    BY <1>2, <1>3, <1>4, <2>1
<1>6. ASSUME v.quantity = rest, rest # 0
      PROVE  v.average = priced /\ priced # Ledger!Unknown
  <2>1. w.quantity = held /\ ~(w.quantity + moves - base < 0)
    <3> HIDE DEF v, moves, base
    <3> QED
      BY <1>2, <1>3, <1>4, <1>6
  <2>2. held = 0 \/ (w.average = average /\ average # Ledger!Unknown)
    BY <2>1 DEF Honest
  <2>3. CASE f.side = "buy"
    <3>1. ~(w.quantity + f.quantity - base < 0)
      BY <1>2, <2>1, <2>3
    <3>2. v.average = IF w.average = Ledger!Unknown THEN <<Ledger!Notional(f), f.quantity>>
                      ELSE Ledger!Blend(w.quantity, w.average, f)
      BY <2>3, <3>1 DEF Ledger!WalkFill
    <3> HIDE DEF v
    <3>3. CASE held = 0
      <4>1. /\ Ledger!Blend(w.quantity, w.average, f) = <<Ledger!Notional(f), f.quantity>>
            /\ Ledger!Blend(held, average, f) = <<Ledger!Notional(f), f.quantity>>
            /\ Ledger!Blend(held, average, f) # Ledger!Unknown
        BY <1>3, <2>1, <3>3, BlendIsAverage
      <4> QED
        BY <2>3, <3>2, <4>1
    <3>4. CASE held # 0
      <4>1. w.average = average /\ average # Ledger!Unknown
        BY <2>2, <3>4
      <4>2. Ledger!Blend(held, average, f) # Ledger!Unknown
        BY <4>1, BlendIsAverage
      <4> QED
        BY <2>1, <2>3, <3>2, <4>1, <4>2
    <3> QED
      BY <3>3, <3>4
  <2>4. CASE f.side # "buy"
    <3>1. f.side = "sell" /\ ~(w.quantity - (f.quantity + base) < 0)
      BY <1>1, <1>2, <1>3, <2>1, <2>4
    <3>2. v.average = w.average
      BY <3>1 DEF Ledger!WalkFill
    <3>3. held # 0
      BY <1>1, <1>2, <3>1
    <3> QED
      BY <2>2, <2>4, <3>2, <3>3
  <2> QED
    BY <2>3, <2>4
<1> HIDE DEF v, rest, priced
<1>7. Honest(v, rest, priced)
  BY <1>5, <1>6 DEF Honest
<1> QED
  BY <1>7 DEF v, rest, priced, moves

LEMMA ReadingsAreWalks ==
  ASSUME BooksInv
  PROVE  /\ InBase \in PricedWalks /\ InQuote \in PricedWalks
         /\ fills = <<>> => InBase = Fresh /\ InQuote = Fresh
<1>1. fills \in Seq(Ledger!NewFills) /\ Len(fills) \in 0 .. Len(fills)
  BY DEF BooksInv
<1>2. fills = <<>> => Len(fills) = 0
  BY <1>1
<1> QED
  BY <1>1, <1>2, WalkedInTurn DEF InBase, InQuote

LEMMA CostBegins ==
  ASSUME Ledger!Init PROVE CostInv
<1>1. /\ fills = <<>> /\ moved.in = 0 /\ moved.out = 0 /\ basis = Ledger!Unknown
      /\ funds["coin"] = 0 /\ Len(fills) = 0 /\ DOMAIN fills = {}
  BY DEF Ledger!Init, Ledger!Baseline, Ledger!Assets
<1>2. InBase = Fresh /\ InQuote = Fresh
  <2>1. fills \in Seq(Ledger!NewFills)
    BY <1>1
  <2> QED
    BY <1>1, <2>1, WalkedInTurn DEF InBase, InQuote
<1> QED
  BY <1>1, <1>2 DEF CostInv, Honest, Fresh, FeesPaidIn, Average, Ledger!Unknown

LEMMA TradeKeepsCost ==
  ASSUME BooksInv, CostInv, NEW f \in Ledger!NewFills, Ledger!Trade(f)
  PROVE  CostInv'
<1> DEFINE held == funds["coin"]
           moves == Ledger!Sign(f.side) * f.quantity
           fee == IF f.feeIn = "coin" THEN f.fee ELSE 0
           B == InBase
           Q == InQuote
<1>1. /\ fills \in Seq(Ledger!NewFills) /\ fills' = Append(fills, f) /\ moved' = moved
      /\ funds' = [a \in Ledger!Assets |-> funds[a] + Ledger!Paid(f, a)]
      /\ \A a \in Ledger!Assets : funds[a] + Ledger!Change(f, a) >= 0
      /\ basis' = IF f.side = "buy" THEN Ledger!Blend(held, basis, f) ELSE basis
  BY DEF BooksInv, Ledger!Trade
<1>2. /\ f.quantity \in Nat \ {0} /\ f.fee \in Nat /\ f.side \in {"buy", "sell"}
      /\ f.feeIn \in {"usd", "coin"} /\ moves \in Int /\ fee \in Nat /\ fee <= f.fee
      /\ held \in Nat /\ moves = IF f.side = "buy" THEN f.quantity ELSE -f.quantity
  BY FillTypes DEF BooksInv, Ledger!Sign
<1>3. funds'["coin"] = held + moves - fee /\ held + moves - fee \in Nat
  <2>1. "coin" \in Ledger!Assets /\ Ledger!Paid(f, "coin") = moves - fee
        /\ Ledger!Change(f, "coin") = moves - fee
    BY CoinsOfAFill, SettledIsPaid DEF Ledger!Assets
  <2>2. funds'["coin"] = held + (moves - fee) /\ held + (moves - fee) >= 0
    BY <1>1, <2>1
  <2> HIDE DEF moves, fee, held
  <2> QED
    BY <1>2, <2>2
<1>4. /\ InBase' = Ledger!WalkFill(B, f, TRUE) /\ InQuote' = Ledger!WalkFill(Q, f, FALSE)
      /\ B \in PricedWalks /\ Q \in PricedWalks
  <2>1. Len(fills') = Len(fills) + 1 /\ Len(fills) \in 0 .. Len(fills)
    BY <1>1
  <2> QED
    BY <1>1, <2>1, OneMoreWalked, WalkedInTurn DEF InBase, InQuote
<1>5. \A asset : FeesPaidIn(asset)' <=> FeesPaidIn(asset) /\ (f.fee > 0 => f.feeIn = asset)
  <2>1. /\ DOMAIN fills' = DOMAIN fills \cup {Len(fills) + 1} /\ fills'[Len(fills) + 1] = f
        /\ \A i \in DOMAIN fills : fills'[i] = fills[i]
    BY <1>1
  <2> QED
    BY <2>1 DEF FeesPaidIn
<1>6. Average(basis')
  BY <1>1, <1>2, BlendIsAverage DEF CostInv
<1> HIDE DEF held, moves, fee, B, Q
<1>7. Honest(InBase, funds["coin"], basis)'
  <2>1. Honest(B, held, basis) /\ Average(basis)
    BY DEF CostInv, B, held
  <2>2. fee <= IF TRUE THEN f.fee ELSE 0
    BY <1>2
  <2>3. Honest(Ledger!WalkFill(B, f, TRUE), held + moves - fee, basis')
    BY <1>1, <1>2, <1>3, <1>4, <2>1, <2>2, HonestStays DEF moves
  <2> QED
    BY <1>3, <1>4, <2>3
<1>8. ASSUME FeesPaidIn("usd")' PROVE Honest(InQuote, funds["coin"], basis)'
  <2>1. Honest(Q, held, basis) /\ Average(basis)
    BY <1>5, <1>8 DEF CostInv, Q, held
  <2>2. fee <= IF FALSE THEN f.fee ELSE 0
    BY <1>2, <1>5, <1>8 DEF fee
  <2>3. Honest(Ledger!WalkFill(Q, f, FALSE), held + moves - fee, basis')
    BY <1>1, <1>2, <1>3, <1>4, <2>1, <2>2, HonestStays DEF moves
  <2> QED
    BY <1>3, <1>4, <2>3
<1>9. B.quantity \in Nat /\ Q.quantity \in Nat
  BY <1>4 DEF PricedWalks, Walks
<1>10. ASSUME moved'.in = 0
       PROVE  /\ InQuote'.quantity >= funds'["coin"]
              /\ InQuote'.quantity = funds'["coin"] <=> FeesPaidIn("usd")'
  <2>1. Q.quantity >= held /\ (Q.quantity = held <=> FeesPaidIn("usd"))
    BY <1>1, <1>10 DEF CostInv, Q, held
  <2>2. Q.quantity + moves \in Nat
    BY <1>2, <1>3, <1>9, <2>1
  <2>3. Ledger!WalkFill(Q, f, FALSE).quantity = Q.quantity + moves
    <3>1. CASE f.side = "buy"
      <4>1. Q.quantity + f.quantity - 0 = Q.quantity + moves
        BY <1>2, <1>9, <3>1
      <4> QED
        BY <2>2, <3>1, <4>1 DEF Ledger!WalkFill
    <3>2. CASE f.side # "buy"
      <4>1. Q.quantity - (f.quantity + 0) = Q.quantity + moves
        BY <1>2, <1>9, <3>2
      <4> QED
        BY <2>2, <3>2, <4>1 DEF Ledger!WalkFill
    <3> QED
      BY <3>1, <3>2
  <2>4. fee = 0 <=> (f.fee > 0 => f.feeIn = "usd")
    BY <1>2 DEF fee
  <2>5. Q.quantity + moves >= held + moves - fee
    BY <1>2, <1>9, <2>1
  <2>6. Q.quantity + moves = held + moves - fee <=> Q.quantity = held /\ fee = 0
    BY <1>2, <1>9, <2>1
  <2> QED
    BY <1>3, <1>4, <1>5, <2>1, <2>3, <2>4, <2>5, <2>6
<1>11. ASSUME moved'.in = 0, FeesPaidIn("coin")'
       PROVE  InBase'.quantity = funds'["coin"]
  <2>1. B.quantity = held /\ fee = f.fee
    BY <1>1, <1>2, <1>5, <1>11 DEF CostInv, B, held, fee
  <2>2. Ledger!WalkFill(B, f, TRUE).quantity = held + moves - fee
    <3>1. CASE f.side = "buy"
      <4>1. B.quantity + f.quantity - f.fee = held + moves - fee
        BY <1>2, <2>1, <3>1
      <4> QED
        BY <1>3, <3>1, <4>1 DEF Ledger!WalkFill
    <3>2. CASE f.side # "buy"
      <4>1. B.quantity - (f.quantity + f.fee) = held + moves - fee
        BY <1>2, <2>1, <3>2
      <4> QED
        BY <1>3, <3>2, <4>1 DEF Ledger!WalkFill
    <3> QED
      BY <3>1, <3>2
  <2> QED
    BY <1>3, <1>4, <2>2
<1>12. moved'.out = 0
  BY <1>1 DEF CostInv
<1> QED
  BY <1>6, <1>7, <1>8, <1>10, <1>11, <1>12 DEF CostInv

LEMMA CostStep ==
  ASSUME Transfers \subseteq {"in"}, BooksInv, CostInv, [Ledger!Next]_Ledger!vars
  PROVE  CostInv'
<1>1. ASSUME UNCHANGED <<funds, fills, moved, basis>> PROVE CostInv'
  BY <1>1 DEF CostInv, InBase, InQuote, FeesPaidIn
<1>2. ASSUME NEW n \in DOMAIN fills, Ledger!Save(n) PROVE CostInv'
  BY <1>1, <1>2 DEF Ledger!Save
<1>3. ASSUME NEW way \in Transfers, Ledger!Transfer(way) PROVE CostInv'
  <2>1. /\ fills' = fills /\ moved' = [moved EXCEPT !["in"] = 1] /\ basis' = Ledger!Unknown
        /\ funds' = [funds EXCEPT !["coin"] = funds["coin"] + 1]
    BY <1>3 DEF Ledger!Transfer
  <2>2. /\ funds["coin"] \in Nat /\ funds'["coin"] = funds["coin"] + 1
        /\ moved \in [in : Nat, out : Nat]
    BY <2>1 DEF BooksInv, Ledger!Assets
  <2>3. moved'.in = 1 /\ moved'.out = 0
    BY <2>1, <2>2 DEF CostInv
  <2>4. InBase' = InBase /\ InQuote' = InQuote
        /\ FeesPaidIn("usd")' = FeesPaidIn("usd")
    BY <2>1 DEF InBase, InQuote, FeesPaidIn
  <2>5. ASSUME NEW w \in PricedWalks, Honest(w, funds["coin"], basis)
        PROVE  Honest(w, funds["coin"] + 1, Ledger!Unknown)
    BY <2>2, <2>5 DEF Honest, PricedWalks, Walks
  <2>6. Average(Ledger!Unknown)
    BY DEF Average, Ledger!Unknown
  <2>7. InBase \in PricedWalks /\ InQuote \in PricedWalks
    BY ReadingsAreWalks
  <2>8. /\ Honest(InBase, funds["coin"] + 1, Ledger!Unknown)
        /\ FeesPaidIn("usd") => Honest(InQuote, funds["coin"] + 1, Ledger!Unknown)
    BY <2>5, <2>7 DEF CostInv
  <2>9. moved'.in # 0
    BY <2>3
  <2> QED
    BY <2>1, <2>2, <2>3, <2>4, <2>6, <2>8, <2>9 DEF CostInv
<1> QED
  BY <1>1, <1>2, <1>3, TradeKeepsCost DEF Ledger!Next, Ledger!vars

\* The average shown "from our fills" is the one the coins held really have, for any fills,
\* fees in either asset and coins from outside: two ways to read the fees cannot both be
\* wrong and yet fit what is held.  It assumes that no coins are sent away, without which
\* a later walk may end on the same quantity (cost_from_fills).
THEOREM AverageIsReal ==
  ASSUME Transfers \subseteq {"in"} PROVE Ledger!Spec => []CostIsReal
<1>1. BooksInv /\ CostInv => CostIsReal
  <2> SUFFICES ASSUME BooksInv, CostInv PROVE CostIsReal
    OBVIOUS
  <2> DEFINE held == funds["coin"]
             cost == Ledger!cost_from_fills(held, fills)
             Q == InQuote
             B == InBase
             charged == \E i \in DOMAIN fills : fills[i].fee > 0
             Fits(r) == r.quantity = held /\ r.quantity > 0 /\ r.average # Ledger!Unknown
  <2>1. /\ held \in Nat /\ fills \in Seq(Ledger!NewFills) /\ moved.in \in Nat /\ moved.out = 0
        /\ \A i \in DOMAIN fills : fills[i].fee \in Nat
    BY FillTypes DEF BooksInv, CostInv
  <2>2. Q \in Walks /\ B \in Walks /\ (fills = <<>> => Q = Fresh)
    BY ReadingsAreWalks DEF PricedWalks
  <2>3. /\ ~(fills = <<>>) /\ Fits(Q) => cost.average = Q.average
        /\ ~(fills = <<>>) /\ ~Fits(Q) /\ charged /\ Fits(B) => cost.average = B.average
        /\ fills = <<>> \/ (~Fits(Q) /\ ~(charged /\ Fits(B))) => cost.average = Ledger!Unknown
    <3> DEFINE W(b) == Ledger!Walk(fills, b)
               R(b) == Ledger!Walked(fills, b)[Len(fills)]
               FitsW(r) == r.quantity = held /\ r.average # Ledger!Unknown
    <3>1. ASSUME NEW b \in BOOLEAN
          PROVE  /\ FitsW(W(b)) <=> Fits(R(b))
                 /\ Fits(R(b)) => W(b).average = R(b).average
      <4>1. R(b) \in Walks
        BY <2>1, WalkedInTurn DEF R, PricedWalks
      <4>2. W(b) = IF R(b).quantity > 0 THEN R(b)
                   ELSE [R(b) EXCEPT !.average = Ledger!Unknown]
        BY DEF Ledger!Walk, R
      <4> HIDE DEF W, R
      <4>3. CASE R(b).quantity > 0
        BY <4>2, <4>3
      <4>4. CASE ~(R(b).quantity > 0)
        <5>1. W(b).average = Ledger!Unknown
          BY <4>1, <4>2, <4>4 DEF Walks
        <5> QED
          BY <4>4, <5>1
      <4> QED
        BY <4>3, <4>4
    <3>2. cost.average = IF fills = <<>> THEN Ledger!Unknown
                         ELSE IF FitsW(W(FALSE)) THEN W(FALSE).average
                         ELSE IF charged /\ FitsW(W(TRUE)) THEN W(TRUE).average
                         ELSE Ledger!Unknown
      BY DEF Ledger!cost_from_fills
    <3>3. /\ FitsW(W(FALSE)) <=> Fits(Q)
          /\ Fits(Q) => W(FALSE).average = Q.average
      BY <3>1 DEF InQuote
    <3>4. /\ FitsW(W(TRUE)) <=> Fits(B)
          /\ Fits(B) => W(TRUE).average = B.average
      BY <3>1 DEF InBase
    <3> HIDE DEF cost, W, FitsW, Fits, Q, B, charged
    <3> QED
      BY <3>2, <3>3, <3>4
  <2> HIDE DEF cost, charged
  <2>4. ASSUME recorded = DOMAIN fills, moved.in + moved.out > 0 => FeesPaidIn("usd"),
               cost.average # Ledger!Unknown
        PROVE  cost.average = basis /\ basis # Ledger!Unknown
    <3>1. CASE Fits(Q)
      <4>1. FeesPaidIn("usd")
        BY <2>1, <2>4, <3>1 DEF CostInv
      <4> QED
        BY <2>3, <2>4, <3>1, <4>1 DEF CostInv, Honest
    <3>2. CASE ~Fits(Q)
      <4>1. Fits(B) /\ cost.average = B.average
        BY <2>3, <2>4, <3>2
      <4> QED
        BY <4>1 DEF CostInv, Honest
    <3> QED
      BY <3>1, <3>2
  <2>5. ASSUME ~(moved.in + moved.out > 0), held > 0, FeesPaidIn("usd") \/ FeesPaidIn("coin")
        PROVE  cost.average # Ledger!Unknown
    <3>1. moved.in = 0
      BY <2>1, <2>5
    <3>2. fills # <<>>
      <4> SUFFICES ASSUME fills = <<>> PROVE FALSE
        OBVIOUS
      <4>1. Q.quantity = 0
        BY <2>2 DEF Fresh
      <4> QED
        BY <2>1, <2>5, <3>1, <4>1 DEF CostInv
    <3>3. CASE FeesPaidIn("usd")
      <4>1. Fits(Q)
        BY <2>1, <2>5, <3>1, <3>3 DEF CostInv, Honest
      <4> QED
        BY <2>3, <3>2, <4>1
    <3>4. CASE ~FeesPaidIn("usd") /\ FeesPaidIn("coin")
      <4>1. charged
        BY <3>4 DEF FeesPaidIn, charged
      <4>2. Fits(B)
        BY <2>1, <2>5, <3>1, <3>4 DEF CostInv, Honest
      <4> QED
        BY <2>3, <3>2, <4>1, <4>2
    <3> QED
      BY <2>5, <3>3, <3>4
  <2>6. basis[1] * basis[2] = basis[1] * basis[2]
    OBVIOUS
  <2> QED
    BY <2>4, <2>5, <2>6
    DEF CostIsReal, Ledger!CostIsReal, Ledger!SameRatio, FeesPaidIn, cost
<1> QED
  BY <1>1, BooksBegin, BooksStep, CostBegins, CostStep, PTL DEF Ledger!Spec

-----------------------------------------------------------------------------
(* The parts of the account side by side.                                  *)
\* A behaviour of the account is one of each part, which the steps of the others leave
\* alone (the reconciler and the equity sampler are tasks of their own).
LEMMA AccountPartsRunAsAlone == AccountSpec => Spec /\ Ledger!Spec /\ Equity!Spec
<1> DEFINE all == <<vars, books, curve, focus>>
<1>1. AccountInit => Init /\ Ledger!Init /\ Equity!Init
  BY DEF AccountInit
<1>2. [AccountNext]_all => [Next]_vars
  BY DEF AccountNext
<1>3. [AccountNext]_all => [Ledger!Next]_Ledger!vars
  BY DEF AccountNext, books, Ledger!vars
<1>4. [AccountNext]_all => [Equity!Next]_Equity!vars
  BY DEF AccountNext, curve, Equity!vars, Equity!venue
<1> QED
  BY <1>1, <1>2, <1>3, <1>4, PTL DEF AccountSpec, Spec, Ledger!Spec, Equity!Spec

\* Whatever part a behaviour follows: nothing enters the books that no fill explains and
\* no halt was for, no fill is counted twice, a divergence is what the saved fills miss, an average is the real one
\* and so is the day's result (run_once, apply_fills, cost_from_fills, EquitySampler).
THEOREM AccountHolds ==
  /\ AccountSpec => [](NothingEntersUnseen /\ CountedOnce /\ DivergenceIsWhatIsMissing)
  /\ Transfers \subseteq {"in"} => (AccountSpec => []CostIsReal)
  /\ OneListing => (AccountSpec => []PnlIsReal)
<1>1. AccountSpec => [](NothingEntersUnseen /\ CountedOnce /\ DivergenceIsWhatIsMissing)
  BY AccountPartsRunAsAlone, BooksHoldWhatWasSeen, EachFillCountedOnce, BooksShowWhatIsMissing,
     PTL
<1>2. ASSUME Transfers \subseteq {"in"} PROVE AccountSpec => []CostIsReal
  BY <1>2, AccountPartsRunAsAlone, AverageIsReal, PTL
<1>3. ASSUME OneListing PROVE AccountSpec => []PnlIsReal
  BY <1>3, AccountPartsRunAsAlone, DayResultIsReal, PTL
<1> QED
  BY <1>1, <1>2, <1>3
=============================================================================
