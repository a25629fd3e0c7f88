------------------------ MODULE OrderExecutionProofs ------------------------
(***************************************************************************)
(* The safety of the order path for every set of orders and fills, every   *)
(* bound on sends, and both kinds of venue.                                *)
(***************************************************************************)
EXTENDS OrderExecution, FiniteSetTheorems, TLAPS

(* The inductive invariant.  At rest, what a row says is tied to what the   *)
(* venue did; while an operation is under way, what it has read so far is   *)
(* still true when it acts on it.                                           *)

\* The venue's own books, and the store's fills as a part of them.
VenueBooks ==
    \A o \in Orders :
        /\ made[o] = 0 <=> venue[o] = "none"
        /\ made[o] = 0 => executed[o] = {}
        /\ readable[o] \subseteq executed[o]
        /\ fills[o] \subseteq readable[o]

\* Nothing reaches the venue that was not sent for a saved row, and of one
\* client order id at most one request is under way or accepted.
OneRequest ==
    \A o \in Orders :
        /\ row[o] = "absent" => sends[o] = 0
        /\ sends[o] = 0 => made[o] = 0 /\ o \notin wire
        /\ made[o] <= 1
        /\ made[o] = 1 => o \notin wire
        /\ ~DirectSubmit => sends[o] <= 1

\* A settled row agrees with the venue for good.
SettledRows ==
    \A o \in Orders :
        /\ closedBy[o] # "none" => row[o] = "canceled"
        /\ closedBy[o] = "system" => sends[o] = 0
        /\ closedBy[o] = "admin" /\ ~VenueLag => made[o] = 0 /\ o \notin wire
        /\ row[o] \in Terminal /\ closedBy[o] = "none"
             => /\ o \notin wire
                /\ fills[o] = executed[o]
                /\ made[o] = 0 \/ row[o] = venue[o]

\* The current order of the operation under way.
CurrentOrder ==
    /\ pc \notin {"idle", "recover", "choose"} => cur \in Orders
    /\ pc \in {"lookup", "send", "await", "closeLookup", "closeFills"}
         => row[cur] \in Unresolved
    /\ pc \in {"fills", "settle"} => row[cur] \in Unresolved \cup Live
    /\ todo \subseteq Pending
    /\ pc \in {"fills", "settle"} => cur \notin todo
    /\ pc \notin {"recover", "fills", "settle"} => todo = {}
    /\ pc = "choose" => Pending = {}
    /\ pc \in {"lookup", "send", "await"} /\ ~DirectSubmit => Pending \subseteq {cur}

\* What an operation has learnt still holds when it acts on it.
Learnt ==
    /\ pc = "lookup" /\ created => sends[cur] = 0
    /\ pc = "lookup" /\ ~DirectSubmit => created
    /\ pc = "send" => made[cur] = 0 /\ cur \notin wire
    /\ pc = "send" /\ ~DirectSubmit => sends[cur] = 0
    /\ pc = "await" => sends[cur] > 0
    /\ pc = "await" /\ reply = "accepted" => made[cur] = 1
    /\ pc = "await" /\ reply = "refused" => made[cur] = 0 /\ cur \notin wire
    /\ pc # "await" => reply = "none"
    /\ pc = "closeFills" /\ ~VenueLag => made[cur] = 0 /\ cur \notin wire
    /\ pc \in {"fills", "settle"}
         => /\ made[cur] = 1
            /\ snap.executed \subseteq executed[cur]
            /\ snap.status \in Terminal
                 => venue[cur] = snap.status /\ executed[cur] = snap.executed
    /\ pc = "settle" => linked \subseteq fills[cur]

IInv ==
    /\ TypeOK /\ VenueBooks /\ OneRequest /\ SettledRows
    /\ CurrentOrder /\ Learnt

-----------------------------------------------------------------------------
USE OrderAssumption, FillAssumption, ModeAssumption, SendsAssumption
    DEF Unresolved, Live, Terminal, Status, VenueStatus, Snap, OpenAck, Labels,
        Kinds, Pending, store, outside, memory, Finish, GoTo, ReadAs, Views

\* Fills that are as many as those executed, and all among them, are all of them.
LEMMA CoverIsAll ==
  ASSUME NEW S, S \subseteq Fills, NEW T, T \subseteq S,
         Cardinality(T) >= Cardinality(S)
  PROVE  T = S
<1>1. IsFiniteSet(S)
  BY FS_Subset
<1>2. IsFiniteSet(T) /\ Cardinality(T) <= Cardinality(S)
  BY <1>1, FS_Subset
<1> QED
  BY <1>1, <1>2, FS_Subset, FS_CardinalityType

\* An operation that ends without a write leaves everything as it was.
LEMMA FinishKeeps ==
  ASSUME IInv, Finish, UNCHANGED <<row, fills, closedBy>>, UNCHANGED outside
  PROVE  IInv'
<1>1. TypeOK'
  <2>1. created' \in BOOLEAN
    BY Zenon
  <2> QED
    BY <2>1 DEF IInv, TypeOK
<1>2. VenueBooks' /\ OneRequest' /\ SettledRows'
  BY DEF IInv, VenueBooks, OneRequest, SettledRows
<1>3. CurrentOrder' /\ Learnt'
  BY DEF IInv, CurrentOrder, Learnt
<1> QED
  BY <1>1, <1>2, <1>3 DEF IInv

LEMMA RecoveryKeeps ==
  ASSUME IInv, Recovery
  PROVE  IInv'
<1> USE DEF IInv, TypeOK, VenueBooks, OneRequest, SettledRows, CurrentOrder, Learnt
<1>1. ASSUME NEW o \in Orders, RecoverFound(o)
      PROVE  IInv'
  BY <1>1 DEF RecoverFound
<1>2. ASSUME NEW o \in Orders, RecoverNotFound(o)
      PROVE  IInv'
  BY <1>2 DEF RecoverNotFound
<1>3. CASE RecoverFails
  BY <1>3, FinishKeeps DEF RecoverFails
<1>4. CASE RecoverDone
  <2>1. CASE kind = "cycle" /\ Pending = {} /\ GoTo("choose") /\ UNCHANGED snap
    BY <1>4, <2>1 DEF RecoverDone
  <2>2. CASE Finish
    BY <1>4, <2>2, FinishKeeps DEF RecoverDone
  <2> QED
    BY <1>4, <2>1, <2>2 DEF RecoverDone
<1> HIDE DEF IInv
<1> QED
  BY <1>1, <1>2, <1>3, <1>4 DEF Recovery

LEMMA SubmissionKeeps ==
  ASSUME IInv, Submission
  PROVE  IInv'
<1> USE DEF IInv, TypeOK, VenueBooks, OneRequest, SettledRows, CurrentOrder, Learnt
<1>1. CASE CycleWithoutOrder
  BY <1>1, FinishKeeps DEF CycleWithoutOrder
<1>2. ASSUME NEW o \in Orders, CycleSubmit(o)
      PROVE  IInv'
  <2> USE <1>2 DEF CycleSubmit, Reserve
  <2>1. row[o] = "absent"
    OBVIOUS
  <2>2. TypeOK' /\ VenueBooks' /\ OneRequest'
    BY <2>1
  <2>3. SettledRows'
    BY <2>1
  <2>4. CurrentOrder'
    BY <2>1
  <2>5. Learnt'
    BY <2>1
  <2> QED
    BY <2>2, <2>3, <2>4, <2>5
<1>3. ASSUME NEW o \in Orders, CycleResubmit(o)
      PROVE  IInv'
  BY <1>3, FinishKeeps DEF CycleResubmit
<1>4. CASE LookupFound
  BY <1>4 DEF LookupFound
<1>5. CASE LookupNotFound
  BY <1>5 DEF LookupNotFound, Answers, NotFound
<1>6. CASE LookupFails
  <2>1. CASE UNCHANGED <<row, closedBy>>
    BY <1>6, <2>1, FinishKeeps DEF LookupFails
  <2>2. CASE /\ created /\ row[cur] \in Unresolved
           /\ row' = [row EXCEPT ![cur] = "canceled"]
           /\ closedBy' = [closedBy EXCEPT ![cur] = "system"]
    <3> USE <1>6, <2>2 DEF LookupFails
    <3>1. TypeOK'
      OBVIOUS
    <3>2. VenueBooks' /\ OneRequest'
      OBVIOUS
    <3>3. ASSUME NEW o \in Orders, o # cur
          PROVE  row'[o] = row[o] /\ closedBy'[o] = closedBy[o]
      BY <3>3
    <3>4. SettledRows'
      <4> SUFFICES ASSUME NEW o \in Orders
                   PROVE  SettledRows!(o)'
        BY DEF SettledRows
      <4>1. CASE o # cur
        BY <4>1, <3>3
      <4>2. CASE o = cur
        BY <4>2
      <4> QED
        BY <4>1, <4>2
    <3>5. CurrentOrder' /\ Learnt'
      OBVIOUS
    <3> QED
      BY <3>1, <3>2, <3>4, <3>5
  <2> QED
    BY <1>6, <2>1, <2>2 DEF LookupFails, CloseUnreceived
<1>7. CASE Send
  BY <1>7 DEF Send
<1>8. CASE SendRefusedLocally
  <2>1. CASE UNCHANGED row
    BY <1>8, <2>1, FinishKeeps DEF SendRefusedLocally
  <2>2. CASE row' = [row EXCEPT ![cur] = "rejected"]
    <3> USE <1>8, <2>2 DEF SendRefusedLocally
    <3>1. TypeOK'
      OBVIOUS
    <3>2. VenueBooks' /\ OneRequest'
      OBVIOUS
    <3>3. ASSUME NEW o \in Orders, o # cur
          PROVE  row'[o] = row[o] /\ closedBy'[o] = closedBy[o]
      BY <3>3
    <3>4. SettledRows'
      <4> SUFFICES ASSUME NEW o \in Orders
                   PROVE  SettledRows!(o)'
        BY DEF SettledRows
      <4>1. CASE o # cur
        BY <4>1, <3>3
      <4>2. made[cur] = 0 /\ cur \notin wire /\ executed[cur] = {} /\ fills[cur] = {}
        OBVIOUS
      <4>3. CASE o = cur
        BY <4>2, <4>3
      <4> QED
        BY <4>1, <4>3
    <3>5. CurrentOrder' /\ Learnt'
      OBVIOUS
    <3> QED
      BY <3>1, <3>2, <3>4, <3>5
  <2> QED
    BY <1>8, <2>1, <2>2 DEF SendRefusedLocally
<1>9. CASE SendAcknowledged
  BY <1>9 DEF SendAcknowledged
<1>10. CASE SendRejected
  <2>1. CASE UNCHANGED row
    BY <1>10, <2>1, FinishKeeps DEF SendRejected
  <2>2. CASE row' = [row EXCEPT ![cur] = "rejected"]
    <3> USE <1>10, <2>2 DEF SendRejected
    <3>1. TypeOK'
      OBVIOUS
    <3>2. VenueBooks' /\ OneRequest'
      OBVIOUS
    <3>3. ASSUME NEW o \in Orders, o # cur
          PROVE  row'[o] = row[o] /\ closedBy'[o] = closedBy[o]
      BY <3>3
    <3>4. SettledRows'
      <4> SUFFICES ASSUME NEW o \in Orders
                   PROVE  SettledRows!(o)'
        BY DEF SettledRows
      <4>1. CASE o # cur
        BY <4>1, <3>3
      <4>2. made[cur] = 0 /\ cur \notin wire /\ executed[cur] = {} /\ fills[cur] = {}
        OBVIOUS
      <4>3. CASE o = cur
        BY <4>2, <4>3
      <4> QED
        BY <4>1, <4>3
    <3>5. CurrentOrder' /\ Learnt'
      OBVIOUS
    <3> QED
      BY <3>1, <3>2, <3>4, <3>5
  <2> QED
    BY <1>10, <2>1, <2>2 DEF SendRejected, Save
<1>11. CASE SendFails
  <2>1. CASE UNCHANGED row
    BY <1>11, <2>1, FinishKeeps DEF SendFails
  <2>2. CASE row' = [row EXCEPT ![cur] = "unknown"]
    <3> USE <1>11, <2>2 DEF SendFails
    <3>1. TypeOK'
      OBVIOUS
    <3>2. VenueBooks' /\ OneRequest'
      OBVIOUS
    <3>3. ASSUME NEW o \in Orders, o # cur
          PROVE  row'[o] = row[o] /\ closedBy'[o] = closedBy[o]
      BY <3>3
    <3>4. SettledRows'
      <4> SUFFICES ASSUME NEW o \in Orders
                   PROVE  SettledRows!(o)'
        BY DEF SettledRows
      <4>1. CASE o # cur
        BY <4>1, <3>3
      <4>2. CASE o = cur
        BY <4>2
      <4> QED
        BY <4>1, <4>2
    <3>5. CurrentOrder' /\ Learnt'
      OBVIOUS
    <3> QED
      BY <3>1, <3>2, <3>4, <3>5
  <2> QED
    BY <1>11, <2>1, <2>2 DEF SendFails, Save
<1> HIDE DEF IInv
<1> QED
  BY <1>1, <1>2, <1>3, <1>4, <1>5, <1>6, <1>7, <1>8, <1>9, <1>10, <1>11 DEF Submission

LEMMA RecordingKeeps ==
  ASSUME IInv, Recording
  PROVE  IInv'
<1> USE DEF IInv, TypeOK, VenueBooks, OneRequest, SettledRows, CurrentOrder, Learnt
<1>1. CASE RecordFills
  BY <1>1 DEF RecordFills
<1>2. CASE RecordFails
  BY <1>2, FinishKeeps DEF RecordFails
<1>3. CASE Settle
  <2> USE <1>3 DEF Settle
  <2> DEFINE covered == Cardinality(linked) >= Cardinality(snap.executed)
  <2>1. snap.status \in Terminal /\ covered => linked = executed[cur]
    <3>1. linked \subseteq executed[cur] /\ executed[cur] \subseteq Fills
      OBVIOUS
    <3>2. snap.status \in Terminal => executed[cur] = snap.executed
      OBVIOUS
    <3> QED
      BY <3>1, <3>2, CoverIsAll
  <2> HIDE DEF covered
  <2>2. row' = IF covered THEN [row EXCEPT ![cur] = snap.status] ELSE row
    BY DEF covered
  <2>3. UNCHANGED <<fills, closedBy, outside>>
    OBVIOUS
  <2>4. VenueBooks' /\ OneRequest'
    BY <2>2, <2>3
  <2>5. SettledRows'
    <3> SUFFICES ASSUME NEW o \in Orders
                 PROVE  SettledRows!(o)'
      BY DEF SettledRows
    <3>1. CASE o # cur
      BY <3>1, <2>2, <2>3
    <3>2. CASE o = cur /\ ~covered
      BY <3>2, <2>2, <2>3
    <3>3. CASE o = cur /\ covered
      <4>1. row'[o] = snap.status /\ closedBy'[o] = "none" /\ closedBy[o] = "none"
        BY <3>3, <2>2, <2>3
      <4>2. snap.status \in Terminal => fills'[o] = executed'[o]
        <5>1. snap.status \in Terminal => linked = executed[cur]
          BY <3>3, <2>1
        <5>2. linked \subseteq fills[cur] /\ fills[cur] \subseteq executed[cur]
          <6>1. cur \in Orders /\ linked \subseteq fills[cur]
            OBVIOUS
          <6> QED
            BY <6>1, SMTT(20)
        <5>3. snap.status \in Terminal => fills[cur] = executed[cur]
          BY ONLY <5>1, <5>2
        <5> QED
          BY ONLY <5>3, <3>3, <2>3 DEF outside
      <4>3. snap.status \in Terminal => o \notin wire' /\ venue'[o] = snap.status
        BY <3>3, <2>3
      <4> QED
        BY <4>1, <4>2, <4>3
    <3> QED
      BY <3>1, <3>2, <3>3
  <2>6. CASE kind \in {"cycle", "startup"}
    <3>1. TypeOK' /\ CurrentOrder' /\ Learnt'
      BY <2>6, <2>2, <2>3
    <3> QED
      BY <3>1, <2>4, <2>5
  <2>7. CASE kind \notin {"cycle", "startup"}
    <3>1. Finish
      BY <2>7
    <3>2. TypeOK'
      <4>1. row' \in [Orders -> Status]
        BY <2>2
      <4>2. created' \in BOOLEAN
        BY <3>1, Zenon
      <4> QED
        BY <4>1, <4>2, <3>1, <2>3
    <3>3. CurrentOrder' /\ Learnt'
      BY <3>1, <2>2, <2>3
    <3> QED
      BY <3>2, <3>3, <2>4, <2>5
  <2> QED
    BY <2>6, <2>7
<1> HIDE DEF IInv
<1> QED
  BY <1>1, <1>2, <1>3 DEF Recording

LEMMA ClosingKeeps ==
  ASSUME IInv, Closing
  PROVE  IInv'
<1> USE DEF IInv, TypeOK, VenueBooks, OneRequest, SettledRows, CurrentOrder, Learnt
<1>1. CASE CloseLookupNotFound
  BY <1>1 DEF CloseLookupNotFound, Answers, NotFound
<1>2. CASE CloseRefused
  BY <1>2, FinishKeeps DEF CloseRefused
<1>3. CASE CloseApplied
  <2>1. CASE UNCHANGED <<row, closedBy>>
    BY <1>3, <2>1, FinishKeeps DEF CloseApplied
  <2>2. CASE /\ row[cur] \in Unresolved
           /\ row' = [row EXCEPT ![cur] = "canceled"]
           /\ closedBy' = [closedBy EXCEPT ![cur] = "admin"]
    <3> USE <1>3, <2>2 DEF CloseApplied
    <3>1. TypeOK'
      OBVIOUS
    <3>2. VenueBooks' /\ OneRequest'
      OBVIOUS
    <3>3. ASSUME NEW o \in Orders, o # cur
          PROVE  row'[o] = row[o] /\ closedBy'[o] = closedBy[o]
      BY <3>3
    <3>4. SettledRows'
      <4> SUFFICES ASSUME NEW o \in Orders
                   PROVE  SettledRows!(o)'
        BY DEF SettledRows
      <4>1. CASE o # cur
        BY <4>1, <3>3
      <4>2. CASE o = cur
        BY <4>2
      <4> QED
        BY <4>1, <4>2
    <3>5. CurrentOrder' /\ Learnt'
      OBVIOUS
    <3> QED
      BY <3>1, <3>2, <3>4, <3>5
  <2> QED
    BY <1>3, <2>1, <2>2 DEF CloseApplied, CloseUnreceived
<1> HIDE DEF IInv
<1> QED
  BY <1>1, <1>2, <1>3 DEF Closing

LEMMA StartKeeps ==
  ASSUME IInv, Start
  PROVE  IInv'
<1> USE DEF IInv, TypeOK, VenueBooks, OneRequest, SettledRows, CurrentOrder, Learnt
<1>1. CASE CycleStart
  BY <1>1 DEF CycleStart, StartRecovery
<1>2. CASE StartupStart
  BY <1>2 DEF StartupStart, StartRecovery
<1>3. ASSUME NEW o \in Orders, DirectStart(o)
      PROVE  IInv'
  BY <1>3 DEF DirectStart, Reserve
<1>4. ASSUME NEW o \in Orders, RefreshFound(o)
      PROVE  IInv'
  BY <1>4 DEF RefreshFound
<1>5. ASSUME NEW o \in Orders, CloseStart(o)
      PROVE  IInv'
  BY <1>5 DEF CloseStart
<1> HIDE DEF IInv
<1> QED
  BY <1>1, <1>2, <1>3, <1>4, <1>5 DEF Start

LEMMA VenueKeeps ==
  ASSUME IInv, Venue
  PROVE  IInv'
<1> USE DEF IInv, TypeOK, VenueBooks, OneRequest, SettledRows, CurrentOrder, Learnt
<1>1. ASSUME NEW o \in Orders, VenueAccepts(o)
      PROVE  IInv'
  BY <1>1 DEF VenueAccepts, Heard
<1>2. ASSUME NEW o \in Orders, VenueRefuses(o)
      PROVE  IInv'
  BY <1>2 DEF VenueRefuses, Heard
<1>3. ASSUME NEW o \in Orders, RequestLost(o)
      PROVE  IInv'
  BY <1>3 DEF RequestLost
<1>4. ASSUME NEW o \in Orders, VenueEnds(o)
      PROVE  IInv'
  BY <1>4 DEF VenueEnds
<1>5. ASSUME NEW o \in Orders, NEW f \in Fills, VenueExecutes(o, f)
      PROVE  IInv'
  BY <1>5 DEF VenueExecutes
<1>6. ASSUME NEW o \in Orders, NEW f \in Fills, VenuePublishes(o, f)
      PROVE  IInv'
  BY <1>6 DEF VenuePublishes
<1> HIDE DEF IInv
<1> QED
  BY <1>1, <1>2, <1>3, <1>4, <1>5, <1>6 DEF Venue, Arrival

\* The invariant is inductive.
LEMMA Inductive == IInv /\ [Next]_vars => IInv'
<1> SUFFICES ASSUME IInv, [Next]_vars
             PROVE  IInv'
  OBVIOUS
<1>1. CASE Crash
  BY <1>1, FinishKeeps DEF Crash
<1>2. CASE UNCHANGED vars
  BY <1>2 DEF vars, IInv, TypeOK, VenueBooks, OneRequest, SettledRows,
              CurrentOrder, Learnt
<1> QED
  BY <1>1, <1>2, RecoveryKeeps, SubmissionKeeps, RecordingKeeps, ClosingKeeps,
     StartKeeps, VenueKeeps DEF Next, Step

LEMMA Initially == Init => IInv
<1> SUFFICES ASSUME Init PROVE IInv
  OBVIOUS
<1>1. TypeOK
  BY DEF Init, TypeOK
<1>2. VenueBooks /\ OneRequest /\ SettledRows
  BY DEF Init, VenueBooks, OneRequest, SettledRows
<1>3. CurrentOrder /\ Learnt
  BY DEF Init, CurrentOrder, Learnt
<1> QED
  BY <1>1, <1>2, <1>3 DEF IInv

LEMMA Invariance == Spec => []IInv
  BY Initially, Inductive, PTL DEF Spec

\* Type correctness of the order path.
THEOREM TypeCorrect == Spec => []TypeOK
<1>1. IInv => TypeOK
  BY DEF IInv
<1> QED
  BY <1>1, Invariance, PTL

\* ExecutionEngine and the trading cycle never make the venue hold two orders
\* of one client order id.
THEOREM NeverTwoOrders == Spec => []NoDuplicateOrder
<1>1. IInv => NoDuplicateOrder
  BY DEF IInv, OneRequest, NoDuplicateOrder
<1> QED
  BY <1>1, Invariance, PTL

(* TradingCycle._run recovers and stops before deciding: an order is posted *)
(* only when every other order the venue holds has the venue's own status.  *)
THEOREM PostsOnlyWithoutDoubt == Spec => PostsWithoutDoubt
<1> DEFINE Sure(o) ==
      \A p \in Orders \ {o} :
        made[p] > 0 \/ p \in wire
            => \/ row[p] \in Live \cup {venue[p]}
               \/ VenueLag /\ closedBy[p] = "admin"
<1> DEFINE Careful == \A o \in Orders : ~DirectSubmit /\ sends'[o] # sends[o] => Sure(o)
<1>1. IInv /\ Send /\ ~DirectSubmit => Sure(cur)
  <2> SUFFICES ASSUME IInv, Send, ~DirectSubmit, NEW p \in Orders \ {cur},
                      made[p] > 0 \/ p \in wire
               PROVE  \/ row[p] \in Live \cup {venue[p]}
                      \/ VenueLag /\ closedBy[p] = "admin"
    OBVIOUS
  <2>1. p \notin Pending /\ row[p] \in Status
    BY DEF IInv, CurrentOrder, Send, TypeOK
  <2>2. row[p] # "absent" /\ sends[p] # 0 /\ made[p] \in Nat
    BY DEF IInv, OneRequest, TypeOK
  <2>3. closedBy[p] \in {"none", "system", "admin"}
    BY DEF IInv, TypeOK
  <2>4. row[p] \in Terminal /\ closedBy[p] = "none" => row[p] = venue[p]
    BY <2>2 DEF IInv, SettledRows
  <2>5. closedBy[p] # "none" => VenueLag /\ closedBy[p] = "admin"
    BY <2>2, <2>3 DEF IInv, SettledRows
  <2> QED
    BY <2>1, <2>2, <2>4, <2>5
<1>2. IInv /\ [Next]_vars => [Careful]_vars
  <2> SUFFICES ASSUME IInv, Next PROVE Careful
    OBVIOUS
  <2>1. CASE UNCHANGED sends
    BY <2>1
  <2>2. CASE Send
    <3>1. \A o \in Orders : sends'[o] # sends[o] => o = cur
      BY <2>2 DEF Send, IInv, TypeOK
    <3> QED
      BY <1>1, <2>2, <3>1
  <2>3. CASE Submission
    BY <2>1, <2>2, <2>3 DEF Submission, CycleWithoutOrder, CycleSubmit, CycleResubmit,
       Reserve, LookupFound, LookupNotFound, LookupFails, SendRefusedLocally,
       SendAcknowledged, SendRejected, SendFails
  <2>4. CASE Recovery \/ Recording \/ Closing
    BY <2>1, <2>4 DEF Recovery, RecoverFound, RecoverNotFound, RecoverFails, RecoverDone,
       Recording, RecordFills, RecordFails, Settle,
       Closing, CloseLookupNotFound, CloseRefused, CloseApplied
  <2>5. CASE Start \/ Crash \/ Venue
    BY <2>1, <2>5 DEF Start, CycleStart, StartupStart, StartRecovery, DirectStart, Reserve,
       RefreshFound, CloseStart, Crash, Venue, Arrival, VenueAccepts, VenueRefuses,
       RequestLost, VenueEnds, VenueExecutes, VenuePublishes
  <2> QED
    BY <2>3, <2>4, <2>5 DEF Next, Step
<1> QED
  BY <1>2, Invariance, PTL DEF Spec, PostsWithoutDoubt

\* An order closed as never received never reaches the venue.
THEOREM ClosedOrdersStayAway == Spec => []ClosedNeverReceived
<1>1. IInv => ClosedNeverReceived
  BY DEF IInv, TypeOK, OneRequest, SettledRows, ClosedNeverReceived
<1> QED
  BY <1>1, Invariance, PTL

\* No row settles without exactly the fills the venue executed.
THEOREM NoSettlementWithoutFills == Spec => []SettledWithFills
<1>1. IInv => SettledWithFills
  BY DEF IInv, SettledRows, SettledWithFills
<1> QED
  BY <1>1, Invariance, PTL

\* Every order at the venue is accounted for by its row.
THEOREM NoOrphans == Spec => []NoOrphanOrder
<1>1. IInv => NoOrphanOrder
  BY DEF IInv, TypeOK, OneRequest, SettledRows, NoOrphanOrder
<1> QED
  BY <1>1, Invariance, PTL

-----------------------------------------------------------------------------
\* update writes a row's status unconditionally; a settled row is still never
\* written again, and recorded fills stay.
THEOREM SettledRowsStay == Spec => SettledForGood
<1> DEFINE Advance ==
      \A o \in Orders :
        /\ row[o] \in Terminal => row'[o] = row[o]
        /\ fills[o] \subseteq fills'[o]
<1>1. IInv /\ [Next]_vars => [Advance]_vars
  <2> SUFFICES ASSUME IInv, Next PROVE Advance
    OBVIOUS
  <2> USE DEF IInv, TypeOK, CurrentOrder, Advance
  <2>1. CASE UNCHANGED store
    BY <2>1
  <2>2. ASSUME NEW o \in Orders, Reserve(o), pc = "choose" \/ DirectSubmit
        PROVE  Advance
    BY <2>2 DEF Reserve
  <2>3. CASE LookupFails \/ SendRefusedLocally
    BY <2>3 DEF LookupFails, SendRefusedLocally, CloseUnreceived
  <2>4. CASE SendRejected \/ SendFails
    BY <2>4 DEF SendRejected, SendFails, Save
  <2>5. CASE RecordFills
    BY <2>5 DEF RecordFills
  <2>6. CASE Settle
    <3>1. row[cur] \in Unresolved \cup Live
      BY <2>6 DEF Settle
    <3>2. row' = row \/ row' = [row EXCEPT ![cur] = snap.status]
      BY <2>6 DEF Settle
    <3> QED
      BY <2>6, <3>1, <3>2 DEF Settle
  <2>7. CASE CloseApplied
    BY <2>7 DEF CloseApplied, CloseUnreceived
  <2>8. CASE Venue \/ Crash \/ Recovery
    BY <2>1, <2>8 DEF Venue, Arrival, VenueAccepts, VenueRefuses, RequestLost,
       VenueEnds, VenueExecutes, VenuePublishes, Crash, Recovery, RecoverFound,
       RecoverNotFound, RecoverFails, RecoverDone
  <2>9. CASE Start
    BY <2>1, <2>2, <2>9 DEF Start, CycleStart, StartupStart, StartRecovery,
       DirectStart, RefreshFound, CloseStart
  <2>10. CASE Submission
    BY <2>1, <2>2, <2>3, <2>4, <2>10 DEF Submission, CycleWithoutOrder, CycleSubmit,
       CycleResubmit, LookupFound, LookupNotFound, Send, SendAcknowledged
  <2>11. CASE Recording \/ Closing
    BY <2>1, <2>5, <2>6, <2>7, <2>11 DEF Recording, RecordFails, Closing,
       CloseLookupNotFound, CloseRefused
  <2> QED
    BY <2>8, <2>9, <2>10, <2>11 DEF Next, Step
<1> QED
  BY <1>1, Invariance, PTL DEF Spec, SettledForGood

-----------------------------------------------------------------------------
(* The order path implements OrderContract.                                 *)

\* A step that leaves row and closedBy alone leaves every stage alone.
LEMMA SameStages ==
  ASSUME UNCHANGED <<row, closedBy>>
  PROVE  UNCHANGED stages
  BY DEF stages, Stage

\* A step that writes only o's row moves only o's stage.
LEMMA OneStage ==
  ASSUME NEW o \in Orders,
         \A p \in Orders \ {o} : row'[p] = row[p] /\ closedBy'[p] = closedBy[p]
  PROVE  stages' = [stages EXCEPT ![o] = Stage(o)']
  BY DEF stages, Stage

LEMMA NoStage ==
  ASSUME NEW o \in Orders
  PROVE  [stages EXCEPT ![o] = stages[o]] = stages
  BY DEF stages

\* Each step of the order path is a step of the contract, or changes nothing
\* the contract speaks of.
LEMMA ContractStep ==
  ASSUME ~DirectSubmit, IInv, Next
  PROVE  Contract!Next \/ UNCHANGED <<stages, sends, fills>>
<1> DEFINE Goal == Contract!Next \/ UNCHANGED <<stages, sends, fills>>
<1> USE DEF IInv, TypeOK, CurrentOrder, Goal
<1>1. CASE UNCHANGED store /\ UNCHANGED sends
  BY <1>1, SameStages
<1>2. ASSUME NEW o \in Orders, CycleSubmit(o) PROVE Goal
  <2> USE <1>2 DEF CycleSubmit, Reserve
  <2>1. row[o] = "absent" /\ row'[o] = "pending_submit"
    OBVIOUS
  <2>2. stages' = [stages EXCEPT ![o] = Stage(o)']
    BY OneStage
  <2>3. stages[o] = "new" /\ Stage(o)' = "saved"
    BY <2>1 DEF stages, Stage
  <2>4. Contract!SaveOrder(o)
    BY <2>2, <2>3 DEF Contract!SaveOrder
  <2> QED
    BY <2>4 DEF Contract!Next
<1>3. CASE LookupFails \/ CloseApplied
  <2>1. CASE UNCHANGED <<row, closedBy>>
    BY <1>3, <2>1, <1>1 DEF LookupFails, CloseApplied
  <2>2. CASE /\ row' = [row EXCEPT ![cur] = "canceled"]
             /\ \E actor \in {"system", "admin"} :
                    closedBy' = [closedBy EXCEPT ![cur] = actor]
    <3>1. cur \in Orders /\ row[cur] \in Unresolved /\ UNCHANGED <<sends, fills>>
      BY <1>3 DEF LookupFails, CloseApplied
    <3> PICK c \in Orders : c = cur
      BY <3>1
    <3>2. row'[c] = "canceled" /\ closedBy'[c] \in {"system", "admin"}
      BY <2>2, <3>1
    <3>3. stages' = [stages EXCEPT ![c] = Stage(c)']
      BY <2>2, <3>1, OneStage
    <3>4. stages[c] = "saved" /\ Stage(c)' = "dropped"
      BY <3>1, <3>2 DEF stages, Stage
    <3>5. fills[c] = {}
      BY <1>3, <2>2 DEF LookupFails, CloseApplied, VenueBooks, OneRequest, Learnt
    <3>6. Contract!Drop(c)
      BY <3>1, <3>3, <3>4, <3>5 DEF Contract!Drop
    <3> QED
      BY <3>1, <3>6 DEF Contract!Next
  <2> QED
    BY <1>3, <2>1, <2>2 DEF LookupFails, CloseApplied, CloseUnreceived
<1>4. CASE Send
  <2>1. stages[cur] = "saved" /\ sends[cur] = 0 /\ cur \in Orders
    BY <1>4 DEF Send, Learnt, stages, Stage
  <2>2. UNCHANGED <<stages, fills>> /\ sends' = [sends EXCEPT ![cur] = 1]
    BY <1>4, <2>1, SameStages DEF Send
  <2>3. Contract!PostOrder(cur)
    BY <2>1, <2>2 DEF Contract!PostOrder
  <2> QED
    BY <2>1, <2>3 DEF Contract!Next
<1>5. CASE SendRefusedLocally \/ SendRejected \/ SendFails
  <2>1. cur \in Orders /\ row[cur] \in Unresolved /\ UNCHANGED <<sends, fills, closedBy>>
    BY <1>5 DEF SendRefusedLocally, SendRejected, SendFails
  <2> PICK c \in Orders : c = cur
    BY <2>1
  <2>2. stages[c] = "saved" /\ closedBy[c] = "none"
    BY <2>1 DEF stages, Stage, SettledRows
  <2>3. CASE UNCHANGED row
    BY <2>1, <2>3, <1>1
  <2>4. CASE row' = [row EXCEPT ![cur] = "unknown"]
    <3>1. stages' = [stages EXCEPT ![c] = Stage(c)']
      BY <2>1, <2>4, OneStage
    <3>2. Stage(c)' = "saved"
      BY <2>1, <2>4 DEF Stage
    <3> QED
      BY <2>1, <2>2, <3>1, <3>2, NoStage
  <2>5. CASE row' = [row EXCEPT ![cur] = "rejected"]
    <3>1. stages' = [stages EXCEPT ![c] = Stage(c)']
      BY <2>1, <2>5, OneStage
    <3>2. Stage(c)' = "ended"
      BY <2>1, <2>2, <2>5 DEF Stage
    <3>3. sends[c] = 0 => fills[c] = {}
      BY <2>1 DEF OneRequest, VenueBooks
    <3>4. Contract!End(c)
      BY <2>1, <2>2, <3>1, <3>2, <3>3 DEF Contract!End
    <3> QED
      BY <2>1, <3>4 DEF Contract!Next
  <2> QED
    BY <1>5, <2>3, <2>4, <2>5 DEF SendRefusedLocally, SendRejected, SendFails, Save
<1>6. CASE RecordFills
  <2>1. cur \in Orders /\ stages[cur] \in {"saved", "confirmed"} /\ sends[cur] = 1
    BY <1>6 DEF RecordFills, OneRequest, Learnt, stages, Stage
  <2>2. readable[cur] \in SUBSET Fills
    BY <2>1
  <2>3. UNCHANGED <<stages, sends>>
    BY <1>6, SameStages DEF RecordFills
  <2>4. Contract!BookFills(cur)
    BY <1>6, <2>1, <2>2, <2>3 DEF RecordFills, Contract!BookFills
  <2> QED
    BY <2>1, <2>4 DEF Contract!Next
<1>7. CASE Settle
  <2>1. /\ cur \in Orders /\ row[cur] \in Unresolved \cup Live
        /\ sends[cur] = 1 /\ UNCHANGED <<sends, fills, closedBy>>
        /\ snap.status \in Unresolved \cup Live \cup Terminal
    BY <1>7 DEF Settle, OneRequest, Learnt
  <2> PICK c \in Orders : c = cur
    BY <2>1
  <2>2. stages[c] \in {"saved", "confirmed"} /\ closedBy[c] = "none"
    BY <2>1 DEF stages, Stage, SettledRows
  <2>3. CASE UNCHANGED row
    BY <2>1, <2>3, <1>1
  <2>4. CASE row' = [row EXCEPT ![cur] = snap.status]
    <3>1. stages' = [stages EXCEPT ![c] = Stage(c)']
      BY <2>1, <2>4, OneStage
    <3>2. Stage(c)' \in {"saved", "confirmed", "ended"}
      BY <2>1, <2>2, <2>4 DEF Stage
    <3>3. CASE Stage(c)' = stages[c]
      BY <2>1, <3>1, <3>3, NoStage
    <3>4. CASE Stage(c)' = "confirmed" /\ stages[c] = "saved"
      <4>1. Contract!Confirm(c)
        BY <2>1, <3>1, <3>4 DEF Contract!Confirm
      <4> QED
        BY <2>1, <4>1 DEF Contract!Next
    <3>5. CASE Stage(c)' = "ended"
      <4>1. Contract!End(c)
        BY <2>1, <2>2, <3>1, <3>5 DEF Contract!End
      <4> QED
        BY <2>1, <4>1 DEF Contract!Next
    <3>6. CASE Stage(c)' = "saved" /\ stages[c] = "confirmed"
      <4>1. Contract!Doubt(c)
        BY <2>1, <3>1, <3>6 DEF Contract!Doubt
      <4> QED
        BY <2>1, <4>1 DEF Contract!Next
    <3> QED
      BY <2>2, <3>2, <3>3, <3>4, <3>5, <3>6
  <2> QED
    BY <1>7, <2>3, <2>4 DEF Settle
<1>8. CASE Venue \/ Crash \/ Recovery
  BY <1>1, <1>8 DEF Venue, Arrival, VenueAccepts, VenueRefuses, RequestLost,
     VenueEnds, VenueExecutes, VenuePublishes, Crash, Recovery, RecoverFound,
     RecoverNotFound, RecoverFails, RecoverDone
<1>9. CASE Start
  BY <1>1, <1>9 DEF Start, CycleStart, StartupStart, StartRecovery,
     DirectStart, RefreshFound, CloseStart
<1>10. CASE Submission
  BY <1>1, <1>2, <1>3, <1>4, <1>5, <1>10 DEF Submission, CycleWithoutOrder,
     CycleResubmit, LookupFound, LookupNotFound, SendAcknowledged
<1>11. CASE Recording \/ Closing
  BY <1>1, <1>3, <1>6, <1>7, <1>11 DEF Recording, RecordFails, Closing,
     CloseLookupNotFound, CloseRefused
<1> QED
  BY <1>8, <1>9, <1>10, <1>11 DEF Next, Step

\* Driven by the trading cycle alone, the order path implements the contract.
THEOREM ImplementsContract == ~DirectSubmit => (Spec => KeepsContract)
<1> SUFFICES ASSUME ~DirectSubmit
             PROVE  Spec => KeepsContract
  OBVIOUS
<1>1. Init => Contract!Init
  BY DEF Init, Contract!Init, stages, Stage
<1>2. IInv /\ [Next]_vars => [Contract!Next]_<<stages, sends, fills>>
  <2>1. CASE UNCHANGED vars
    BY <2>1, SameStages DEF vars
  <2> QED
    BY <2>1, ContractStep
<1> QED
  BY <1>1, <1>2, Invariance, PTL DEF Spec, KeepsContract, Contract!Spec
=============================================================================
