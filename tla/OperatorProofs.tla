--------------------------- MODULE OperatorProofs ---------------------------
(***************************************************************************)
(* What the operator is shown and may do, for every number of sessions,         *)
(* requests, orders, rows and days: the safety properties that the run of       *)
(* MCOperator checks on a small instance.                                   *)
(***************************************************************************)
EXTENDS MCOperator, FiniteSetTheorems, WellFoundedInduction, TLAPS

-----------------------------------------------------------------------------
(* Sessions.                                                               *)
ControlTypes ==
    /\ now \in Int /\ out \subseteq Sessions
    /\ DOMAIN cookie = Sessions /\ DOMAIN revoked = Sessions
    /\ cookie = [s \in Sessions |-> cookie[s]] /\ revoked = [s \in Sessions |-> revoked[s]]
    /\ \A s \in Sessions : cookie[s] # Nil => cookie[s].issued \in Int
    /\ \A s \in Sessions : revoked[s] # Nil => revoked[s] \in Int

\* SignedOutStaysOut alone does not say what the list of nonces must still hold: a nonce
\* that was dropped belongs to a session that has ended, and a nonce that is held is kept
\* until then.
NonceOutlivesSession ==
    \A s \in out :
       /\ cookie[s] # Nil
       /\ IF revoked[s] = Nil THEN now > cookie[s].issued + TTL
          ELSE revoked[s] = cookie[s].issued + TTL

ControlInv == ControlTypes /\ NonceOutlivesSession

LEMMA ControlsBegin == Controls!Init => ControlInv
  BY DEF Controls!Init, ControlInv, ControlTypes, NonceOutlivesSession

LEMMA ControlsStep == ControlInv /\ [Controls!Next]_Controls!vars => ControlInv'
<1> SUFFICES ASSUME ControlInv, [Controls!Next]_Controls!vars PROVE ControlInv'
  OBVIOUS
<1> USE DEF ControlInv, ControlTypes, NonceOutlivesSession
<1>0. TTL \in Nat /\ Nil \notin Int
  BY OperatorAssumption DEF Controls!Configured
<1>1. ASSUME NEW s \in Sessions, Controls!SignIn(s) PROVE ControlInv'
  BY <1>0, <1>1 DEF Controls!SignIn
<1>2. ASSUME NEW s \in Sessions, Controls!SignOut(s) PROVE ControlInv'
  <2>1. CASE ~ Controls!Live(s)
    BY <1>2, <2>1 DEF Controls!SignOut
  <2>2. CASE Controls!Live(s)
    <3>1. /\ revoked' = Controls!Revoke(s) /\ out' = out \cup {s}
          /\ UNCHANGED <<now, cookie>> /\ cookie[s] # Nil
      BY <1>2, <2>2 DEF Controls!SignOut, Controls!Live
    <3>2. revoked'[s] = cookie[s].issued + TTL /\ revoked'[s] # Nil
      BY <1>0, <3>1 DEF Controls!Revoke
    <3>3. \A t \in Sessions \ {s} :
             revoked'[t] = IF revoked[t] = Nil \/ revoked[t] < now THEN Nil ELSE revoked[t]
      BY <3>1 DEF Controls!Revoke
    <3>4. revoked' = [t \in Sessions |-> revoked'[t]]
      BY <3>1 DEF Controls!Revoke
    <3>5. ControlTypes'
      BY <1>0, <3>1, <3>2, <3>3, <3>4
    <3>6. NonceOutlivesSession'
      BY <1>0, <3>1, <3>2, <3>3
    <3> QED
      BY <3>5, <3>6
  <2> QED
    BY <2>1, <2>2
<1>3. CASE Controls!Restart
  BY <1>3 DEF Controls!Restart
<1>4. CASE Controls!Tick
  BY <1>0, <1>4 DEF Controls!Tick
<1>5. CASE UNCHANGED <<now, cookie, revoked, out>>
  BY <1>5
<1> QED
  BY <1>1, <1>2, <1>3, <1>4, <1>5
  DEF Controls!Next, Controls!vars, Controls!Tighten, Controls!Arrive, Controls!Rearm,
      Controls!RefuseRearm, Controls!CloseRefused, Controls!CloseLocks, Controls!Closes,
      Controls!AlertClose, Controls!Trip

\* As long as the process lives, no request of a session that was signed out is
\* authorised, for any number of sessions and any lifetime of a cookie (_authorize,
\* _revoke): forgetting the nonces of ended sessions lets none of them in again.
THEOREM SignedOutForGood == Controls!Spec => []SignedOutStaysOut
<1>1. ControlInv => SignedOutStaysOut
  <2> SUFFICES ASSUME ControlInv, NEW s \in out PROVE ~ Controls!Authorized(s, "operator")
    BY DEF SignedOutStaysOut, Controls!SignedOutStaysOut
  <2>1. TTL \in Nat
    BY OperatorAssumption DEF Controls!Configured
  <2>2. cookie[s] # Nil /\ cookie[s].issued \in Int /\ now \in Int
        /\ (revoked[s] = Nil => now > cookie[s].issued + TTL)
    BY DEF ControlInv, ControlTypes, NonceOutlivesSession
  <2>3. revoked[s] # Nil \/ ~ Controls!Live(s)
    BY <2>1, <2>2 DEF Controls!Live
  <2> QED
    BY <2>3 DEF Controls!Authorized
<1> QED
  BY <1>1, ControlsBegin, ControlsStep, PTL DEF Controls!Spec

-----------------------------------------------------------------------------
(* The portfolio on the pages.                                             *)

\* What a request has read is no older than the moment it was asked for, and a request
\* that is still reading was asked for no earlier than one of the moments that a page
\* under way overlaps.
RequestsInOrder ==
    /\ held \in Nat
    /\ \A r \in Requests : read[r].asked \in Int /\ read[r].asked <= held
    /\ \A r \in Requests : pc[r] \in {"positions", "answered"} =>
          read[r].balances \in Int /\ read[r].balances >= read[r].asked
    /\ \A r \in Requests : pc[r] = "answered" =>
          read[r].positions \in Int /\ read[r].positions >= read[r].asked
    /\ \A r \in Requests : pc[r] # "idle" =>
          read[r].overlap \subseteq Int /\ read[r].asked \in read[r].overlap
    /\ \A r \in Requests : pc[r] # "idle" => \A q \in Pages!Reading :
          \E since \in read[r].overlap : read[q].asked >= since

\* A portfolio that is called current is no older than one of these moments.
CurrentSince(portfolio, moments) ==
    portfolio.status = "current" =>
       \E since \in moments : portfolio.balances >= since /\ portfolio.positions >= since

\* That holds of the shared snapshot for each page about to be rendered, and of each page.
PagesInv ==
    /\ RequestsInOrder
    /\ DOMAIN pc = Requests /\ DOMAIN read = Requests /\ DOMAIN page = Requests
    /\ snapshot = [balances |-> snapshot.balances, positions |-> snapshot.positions,
                   status |-> snapshot.status]
    /\ \A r \in Requests : read[r] = [asked |-> read[r].asked, overlap |-> read[r].overlap,
                                      balances |-> read[r].balances,
                                      positions |-> read[r].positions]
    /\ \A r \in Requests : pc[r] = "read" => CurrentSince(snapshot, read[r].overlap)
    /\ \A r \in Requests : CurrentSince(page[r].snapshot, page[r].overlap)

LEMMA PagesBegin == Pages!Init => PagesInv
  BY DEF Pages!Init, PagesInv, RequestsInOrder, CurrentSince, Pages!Reading, Pages!Blank,
         Pages!Unread, Pages!NoPage, Pages!None

\* A request that is asked for overlaps itself and those that are reading.
LEMMA AskKeepsPages ==
  ASSUME PagesInv, NEW r \in Requests, Pages!Ask(r)
  PROVE  PagesInv'
<1> USE DEF PagesInv, RequestsInOrder
<1>1. /\ pc[r] = "idle" /\ pc' = [pc EXCEPT ![r] = "balances"]
      /\ UNCHANGED <<held, snapshot, page>>
      /\ read' = [read EXCEPT ![r] =
                    [asked |-> held, overlap |-> {held} \cup {read[q].asked : q \in Pages!Reading},
                     balances |-> -1, positions |-> -1]]
  BY DEF Pages!Ask, Pages!Go, Pages!Unread, Pages!None
<1>2. /\ read'[r].asked = held
      /\ read'[r].overlap = {held} \cup {read[q].asked : q \in Pages!Reading}
      /\ \A q \in Requests : q # r => read'[q] = read[q] /\ pc'[q] = pc[q]
      /\ pc'[r] = "balances" /\ DOMAIN pc' = Requests /\ DOMAIN read' = Requests
  BY <1>1
<1>3. /\ Pages!Reading \subseteq Requests /\ Pages!Reading' \subseteq Pages!Reading \cup {r}
      /\ \A q \in Pages!Reading : q # r
  BY <1>1, <1>2 DEF Pages!Reading
<1>4. \A q \in Pages!Reading' : read'[q].asked \in read'[r].overlap
  BY <1>2, <1>3
<1>5. read'[r].overlap \subseteq Int
  BY <1>2, <1>3
<1>6. ASSUME NEW p \in Requests, p # r, pc[p] # "idle", NEW q \in Pages!Reading'
      PROVE  \E since \in read[p].overlap : read'[q].asked >= since
  <2>1. CASE q = r
    <3>1. read[p].asked \in read[p].overlap /\ held >= read[p].asked
      BY <1>6
    <3> QED
      BY <1>2, <2>1, <3>1
  <2>2. CASE q # r
    <3>1. q \in Pages!Reading /\ read'[q] = read[q]
      BY <1>2, <1>3, <2>2
    <3> QED
      BY <1>6, <3>1
  <2> QED
    BY <2>1, <2>2
<1>7. \A q \in Pages!Reading' : read'[q].asked \in Int /\ read'[q].asked >= read'[q].asked
  BY <1>2, <1>3
<1>8. \A p \in Requests : pc'[p] # "idle" => \A q \in Pages!Reading' :
         \E since \in read'[p].overlap : read'[q].asked >= since
  BY <1>2, <1>4, <1>6, <1>7
<1>9. read'[r] = [asked |-> read'[r].asked, overlap |-> read'[r].overlap,
                  balances |-> read'[r].balances, positions |-> read'[r].positions]
  BY <1>1
<1> HIDE DEF PagesInv, RequestsInOrder
<1>10. RequestsInOrder'
  BY <1>1, <1>2, <1>5, <1>8 DEF PagesInv, RequestsInOrder
<1>11. \A p \in Requests : pc'[p] = "read" => CurrentSince(snapshot', read'[p].overlap)
  BY <1>1, <1>2 DEF PagesInv, CurrentSince
<1> QED
  BY <1>1, <1>2, <1>9, <1>10, <1>11 DEF PagesInv, CurrentSince

\* What is read is what the broker holds then.
LEMMA ReadKeepsPages ==
  ASSUME PagesInv, NEW r \in Requests, Pages!ReadBalances(r) \/ Pages!ReadPositions(r)
  PROVE  PagesInv'
<1> USE DEF PagesInv, RequestsInOrder
<1>1. /\ UNCHANGED <<held, snapshot, page>> /\ DOMAIN pc' = Requests /\ DOMAIN read' = Requests
      /\ \A q \in Requests : read'[q].asked = read[q].asked /\ read'[q].overlap = read[q].overlap
      /\ \A q \in Requests : q # r => read'[q] = read[q] /\ pc'[q] = pc[q]
      /\ read'[r] = [asked |-> read'[r].asked, overlap |-> read'[r].overlap,
                     balances |-> read'[r].balances, positions |-> read'[r].positions]
      /\ pc[r] \in {"balances", "positions"} /\ pc'[r] \in {"positions", "answered"}
  BY DEF Pages!ReadBalances, Pages!ReadPositions, Pages!Go
<1>2. /\ pc'[r] \in {"positions", "answered"} => read'[r].balances \in Int /\ read'[r].balances >= read[r].asked
      /\ pc'[r] = "answered" => read'[r].positions \in Int /\ read'[r].positions >= read[r].asked
  BY DEF Pages!ReadBalances, Pages!ReadPositions, Pages!Go
<1>3. Pages!Reading' = Pages!Reading
  BY <1>1 DEF Pages!Reading
<1>4. RequestsInOrder'
  BY <1>1, <1>2, <1>3 DEF Pages!Reading
<1> HIDE DEF RequestsInOrder
<1> QED
  BY <1>1, <1>4 DEF CurrentSince

\* A portfolio is set by a request that was reading, so it is no older than any page under
\* way allows; a read that failed calls nothing current.
LEMMA SetKeepsPages ==
  ASSUME PagesInv, NEW r \in Requests, Pages!SetPortfolio(r) \/ Pages!ReadFails(r)
  PROVE  PagesInv'
<1> USE DEF PagesInv, RequestsInOrder
<1>1. /\ UNCHANGED <<held, read, page>> /\ r \in Pages!Reading /\ pc' = [pc EXCEPT ![r] = "read"]
      /\ snapshot' = [balances |-> snapshot'.balances, positions |-> snapshot'.positions,
                      status |-> snapshot'.status]
      /\ snapshot'.status = "current" =>
            /\ pc[r] = "answered" /\ snapshot'.balances = read[r].balances
            /\ snapshot'.positions = read[r].positions
  BY DEF Pages!SetPortfolio, Pages!ReadFails, Pages!Go, Pages!Reading
<1>2. /\ Pages!Reading' \subseteq Pages!Reading /\ DOMAIN pc' = Requests
      /\ \A q \in Requests : q # r => pc'[q] = pc[q]
      /\ pc[r] # "idle" /\ pc'[r] = "read"
  BY <1>1 DEF Pages!Reading
<1>3. RequestsInOrder'
  BY <1>1, <1>2
<1>4. ASSUME NEW p \in Requests, pc'[p] = "read" PROVE CurrentSince(snapshot', read'[p].overlap)
  <2>1. PICK since \in read[p].overlap : read[r].asked >= since
    BY <1>1, <1>2, <1>4
  <2>2. since \in Int /\ read[r].asked \in Int
    BY <1>2, <1>4, <2>1
  <2>3. ASSUME snapshot'.status = "current"
        PROVE  snapshot'.balances >= since /\ snapshot'.positions >= since
    <3>1. /\ read[r].balances \in Int /\ read[r].balances >= read[r].asked
          /\ read[r].positions \in Int /\ read[r].positions >= read[r].asked
      BY <1>1, <2>3
    <3> QED
      BY <1>1, <2>1, <2>2, <2>3, <3>1
  <2> QED
    BY <1>1, <2>1, <2>3 DEF CurrentSince
<1> HIDE DEF RequestsInOrder
<1> QED
  BY <1>1, <1>2, <1>3, <1>4 DEF CurrentSince

LEMMA RenderKeepsPages ==
  ASSUME PagesInv, NEW r \in Requests, Pages!Render(r)
  PROVE  PagesInv'
<1> USE DEF PagesInv, RequestsInOrder
<1>1. /\ UNCHANGED <<held, snapshot, read>> /\ pc[r] = "read" /\ pc' = [pc EXCEPT ![r] = "idle"]
      /\ page' = [page EXCEPT ![r] = [asked |-> read[r].asked, overlap |-> read[r].overlap,
                                      snapshot |-> snapshot]]
  BY DEF Pages!Render, Pages!Go
<1>2. \A q \in Requests : page'[q] = IF q = r THEN [asked |-> read[r].asked,
                                                    overlap |-> read[r].overlap,
                                                    snapshot |-> snapshot]
                                     ELSE page[q]
  BY <1>1
<1>3. Pages!Reading' \subseteq Pages!Reading /\ DOMAIN pc' = Requests /\ DOMAIN page' = Requests
      /\ \A q \in Requests : pc'[q] = IF q = r THEN "idle" ELSE pc[q]
  BY <1>1 DEF Pages!Reading
<1>4. RequestsInOrder'
  BY <1>1, <1>3
<1>5. \A q \in Requests : CurrentSince(page'[q].snapshot, page'[q].overlap)
  BY <1>1, <1>2 DEF CurrentSince
<1> HIDE DEF RequestsInOrder
<1> QED
  BY <1>1, <1>3, <1>4, <1>5 DEF CurrentSince

LEMMA PagesStep == PagesInv /\ [Pages!Next]_Pages!vars => PagesInv'
<1> SUFFICES ASSUME PagesInv, [Pages!Next]_Pages!vars PROVE PagesInv'
  OBVIOUS
<1>1. CASE UNCHANGED Pages!vars
  BY <1>1 DEF Pages!vars, PagesInv, RequestsInOrder, CurrentSince, Pages!Reading
<1>2. CASE Pages!BrokerMoves
  <2>1. held' = held + 1 /\ UNCHANGED <<snapshot, pc, read, page>>
    BY <1>2 DEF Pages!BrokerMoves
  <2> QED
    BY <2>1 DEF PagesInv, RequestsInOrder, CurrentSince, Pages!Reading
<1>3. CASE Pages!Restart
  <2>1. /\ held' = held /\ page' = page /\ snapshot' = Pages!Blank
        /\ pc' = [r \in Requests |-> "idle"] /\ read' = [r \in Requests |-> Pages!Unread]
    BY <1>3 DEF Pages!Restart
  <2>2. held \in Nat
    BY DEF PagesInv, RequestsInOrder
  <2>3. RequestsInOrder'
    BY <2>1, <2>2 DEF RequestsInOrder, Pages!Unread
  <2> QED
    BY <2>1, <2>3 DEF PagesInv, RequestsInOrder, CurrentSince, Pages!Unread, Pages!Blank
<1> QED
  BY <1>1, <1>2, <1>3, AskKeepsPages, ReadKeepsPages, SetKeepsPages, RenderKeepsPages
  DEF Pages!Next, Pages!Refresh

\* A page that calls its portfolio current shows nothing older than the oldest request that
\* was still reading when the page was asked for, for any number of overlapping requests in
\* any order, failed reads and restarts (_refresh_portfolio).
THEOREM PagesAreCurrent == Pages!Spec => []CurrentSinceOverlap
<1>1. PagesInv => CurrentSinceOverlap
  BY DEF PagesInv, CurrentSince, CurrentSinceOverlap, Pages!CurrentSinceOverlap
<1> QED
  BY <1>1, PagesBegin, PagesStep, PTL DEF Pages!Spec

-----------------------------------------------------------------------------
(* The trail of an order.                                                  *)
Writers ==
    /\ decision = [o \in Orders |-> decision[o]] /\ status = [o \in Orders |-> status[o]]

\* What the audit spine holds: a row has its signal and its approval before it, fills are
\* recorded before the status that tells of them, and a closure goes with its status.
SpineWhole ==
    \A o \in Orders :
       /\ decision[o] # "none" => o \in signal
       /\ status[o] # "none" => decision[o] = "approved"
       /\ status[o] \in Lineage!Executed => o \in fills
       /\ o \in closed => status[o] = "canceled"

\* What a page has read so far still holds of its order.
PageHolds ==
    /\ trail = [step |-> trail.step, order |-> trail.order, status |-> trail.status,
                fills |-> trail.fills, signal |-> trail.signal, decision |-> trail.decision,
                closure |-> trail.closure]
    /\ trail.step \in {"idle", "fills", "signals", "decisions", "closures", "shown"}
    /\ trail.step # "idle" =>
          /\ trail.order \in Orders /\ status[trail.order] # "none"
          /\ trail.status \in Lineage!Executed => trail.order \in fills
          /\ trail.status = "canceled" => status[trail.order] = "canceled"
    /\ trail.step \in {"signals", "decisions", "closures", "shown"} =>
          (trail.status \in Lineage!Executed => trail.fills)
    /\ trail.step \in {"decisions", "closures", "shown"} => trail.signal
    /\ trail.step \in {"closures", "shown"} => trail.decision = "approved"
    /\ trail.step = "shown" /\ trail.status = "canceled" =>
          trail.closure = (trail.order \in closed)

LineageInv == Writers /\ SpineWhole /\ PageHolds

LEMMA LineageBegins == Lineage!Init => LineageInv
  BY DEF Lineage!Init, LineageInv, Writers, SpineWhole, PageHolds, Lineage!NoPage,
         Lineage!Executed

LEMMA WritersKeep ==
  ASSUME LineageInv, NEW o \in Orders,
         \/ Lineage!RecordSignal(o) \/ Lineage!AuditFails(o) \/ Lineage!Reserve(o)
         \/ Lineage!AddFills(o) \/ Lineage!CloseUnreceived(o)
         \/ \E d \in {"approved", "refused"} : Lineage!RecordDecision(o, d)
         \/ \E s \in {"unknown", "open"} \cup Lineage!Executed \cup Lineage!Ended :
               Lineage!Update(o, s)
  PROVE  LineageInv'
<1> USE DEF LineageInv, Writers, SpineWhole, PageHolds, Lineage!Executed, Lineage!Ended
<1>1. CASE Lineage!RecordSignal(o) \/ Lineage!AuditFails(o)
  BY <1>1 DEF Lineage!RecordSignal, Lineage!AuditFails
<1>2. CASE Lineage!Reserve(o)
  BY <1>2 DEF Lineage!Reserve
<1>3. CASE Lineage!AddFills(o)
  BY <1>3 DEF Lineage!AddFills
<1>4. CASE Lineage!CloseUnreceived(o)
  BY <1>4 DEF Lineage!CloseUnreceived, Lineage!Unresolved
<1>5. ASSUME NEW d, Lineage!RecordDecision(o, d) PROVE LineageInv'
  BY <1>5 DEF Lineage!RecordDecision
<1>6. ASSUME NEW s \in {"unknown", "open"} \cup Lineage!Executed \cup Lineage!Ended,
             Lineage!Update(o, s)
      PROVE  LineageInv'
  BY <1>6 DEF Lineage!Update
<1> QED
  BY <1>1, <1>2, <1>3, <1>4, <1>5, <1>6

LEMMA LineageStep == LineageInv /\ [Lineage!Next]_Lineage!vars => LineageInv'
<1> SUFFICES ASSUME LineageInv, [Lineage!Next]_Lineage!vars PROVE LineageInv'
  OBVIOUS
<1> USE DEF LineageInv, Writers, SpineWhole, PageHolds, Lineage!Executed
<1>1. ASSUME NEW o \in Orders, Lineage!ReadOrder(o) PROVE LineageInv'
  BY <1>1 DEF Lineage!ReadOrder, Lineage!NoPage
<1>2. CASE Lineage!ReadFills
  BY <1>2 DEF Lineage!ReadFills, Lineage!Reads
<1>3. CASE Lineage!ReadSignals
  BY <1>3 DEF Lineage!ReadSignals, Lineage!Reads
<1>4. CASE Lineage!ReadDecisions
  BY <1>4 DEF Lineage!ReadDecisions, Lineage!Reads
<1>5. CASE Lineage!ReadClosures
  <2> DEFINE found == trail.status = "canceled" /\ trail.order \in closed
  <2>1. /\ trail.step = "closures" /\ UNCHANGED <<signal, decision, status, fills, closed>>
        /\ trail' = [trail EXCEPT !.closure = found, !.step = "shown"]
    BY <1>5 DEF Lineage!ReadClosures, Lineage!Reads
  <2>2. trail'.closure = found /\ (trail.status = "canceled" => found = (trail.order \in closed))
    BY <2>1
  <2>3. /\ trail'.step = "shown" /\ trail'.order = trail.order /\ trail'.status = trail.status
        /\ trail'.fills = trail.fills /\ trail'.signal = trail.signal
        /\ trail'.decision = trail.decision
    BY <2>1
  <2> QED
    BY <2>1, <2>2, <2>3
<1>6. CASE Lineage!Unreadable
  BY <1>6 DEF Lineage!Unreadable, Lineage!Reads, Lineage!NoPage
<1>7. CASE UNCHANGED Lineage!vars
  BY <1>7 DEF Lineage!vars
<1> QED
  BY <1>1, <1>2, <1>3, <1>4, <1>5, <1>6, <1>7, WritersKeep DEF Lineage!Next

\* No order of the audit spine has a gap in its lineage and no page shows one, although
\* the page reads the order, its fills, its signal, its decision and its closure at
\* different moments (_lineage_rows, OrderLineage.gaps, unlinked_orders).
THEOREM LineageStaysWhole == Lineage!Spec => []LineageWhole
<1>1. LineageInv => LineageWhole
  <2> SUFFICES ASSUME LineageInv PROVE LineageWhole
    OBVIOUS
  <2> USE DEF LineageInv, Writers, SpineWhole, PageHolds, Lineage!Executed
  <2>1. Lineage!Unlinked = {}
    BY DEF Lineage!Unlinked, Lineage!Gaps
  <2>2. trail.step = "shown" =>
           Lineage!Gaps(trail.signal, trail.decision, trail.status, trail.fills) = {}
    BY DEF Lineage!Gaps
  <2> QED
    BY <2>1, <2>2 DEF LineageWhole, Lineage!LineageWhole
<1> QED
  BY <1>1, LineageBegins, LineageStep, PTL DEF Lineage!Spec
-----------------------------------------------------------------------------
(* The digest of the soak.                                                 *)

\* A sample tells of the interval before it: the process ran through it.  A process that
\* was started again has not yet run for the interval it waits for.
SampledWhileUp ==
    /\ clock \in Int /\ wait \in Int /\ beats \subseteq Int /\ down \subseteq Int
    /\ \A u \in down : u < clock
    /\ up => \A u \in down : u < clock - wait
    /\ \A b \in beats : b <= clock /\ \A u \in down : u < b - Interval \/ b <= u

LEMMA SoakBegins == Soak!Init => SampledWhileUp
  BY DEF Soak!Init, SampledWhileUp

LEMMA SoakStep == SampledWhileUp /\ [Soak!Next]_Soak!vars => SampledWhileUp'
<1> SUFFICES ASSUME SampledWhileUp, [Soak!Next]_Soak!vars PROVE SampledWhileUp'
  OBVIOUS
<1> USE DEF SampledWhileUp
<1>0. Interval \in Nat
  BY OperatorAssumption DEF Soak!Configured
<1>1. CASE Soak!Tick
  <2>1. CASE up
    BY <1>0, <1>1, <2>1 DEF Soak!Tick
  <2>2. CASE ~up
    BY <1>0, <1>1, <2>2 DEF Soak!Tick
  <2> QED
    BY <2>1, <2>2
<1>2. CASE Soak!Sample
  BY <1>0, <1>2 DEF Soak!Sample
<1>3. CASE Soak!SampleFails
  BY <1>0, <1>3 DEF Soak!SampleFails
<1>4. CASE Soak!Stop
  BY <1>4 DEF Soak!Stop
<1>5. CASE Soak!Restart
  BY <1>5 DEF Soak!Restart
<1>6. CASE UNCHANGED <<clock, up, wait, beats, down>>
  BY <1>6
<1> QED
  BY <1>1, <1>2, <1>3, <1>4, <1>5, <1>6
  DEF Soak!Next, Soak!vars, Soak!Disconnect, Soak!OpenIncident, Soak!CloseIncident,
      Soak!Snapshot

\* What \div is for a positive divisor.
LEMMA Division ==
  ASSUME NEW n \in Int, NEW m \in Nat \ {0}
  PROVE  /\ n \div m \in Int
         /\ m * (n \div m) <= n /\ n < m * (n \div m) + m
         /\ n % m = 0 => n = m * (n \div m)
<1>1. n \div m \in Int /\ m * (n \div m) <= n /\ n < m * (n \div m) + m
  OBVIOUS
<1>2. ASSUME n % m = 0 PROVE n = m * (n \div m)
  BY <1>2
<1> QED
  BY <1>1, <1>2

\* A smaller multiple is smaller, and a difference of two multiples is at least one.
LEMMA Multiples ==
  ASSUME NEW m \in Nat \ {0}, NEW i \in Int, NEW j \in Int
  PROVE  /\ i <= j => m * i <= m * j
         /\ m * i < m * j => i + 1 <= j
         /\ m * (i + 1) = m * i + m
<1>1. m * (i + 1) = m * i + m
  OBVIOUS
<1>2. i <= j => m * i <= m * j
  <2>1. m * (j - i) = m * j - m * i /\ m * i \in Int /\ m * j \in Int
    OBVIOUS
  <2>2. ASSUME NEW k \in Nat PROVE m * k >= 0
    OBVIOUS
  <2> QED
    BY <2>1, <2>2
<1>3. j <= i => m * j <= m * i
  <2>1. m * (i - j) = m * i - m * j /\ m * i \in Int /\ m * j \in Int
    OBVIOUS
  <2>2. ASSUME NEW k \in Nat PROVE m * k >= 0
    OBVIOUS
  <2> QED
    BY <2>1, <2>2
<1> QED
  BY <1>1, <1>2, <1>3

\* A day is whole intervals, and a moment that is over an interval before the end of the
\* day is not in the last one.
LEMMA IntervalsOfADay ==
  ASSUME NEW start \in Int, NEW t \in Int, start <= t, t + Interval < start + DayLength
  PROVE  LET k == ((t - start) \div Interval) + 1
         IN  /\ k \in 0 .. (DayLength \div Interval) - 1
             /\ \A b \in Int : (b - start) \div Interval = k =>
                   t < b /\ b - Interval <= t + Interval
<1> DEFINE q == (t - start) \div Interval
           p == DayLength \div Interval
<1>1. Interval \in Nat \ {0} /\ DayLength \in Nat \ {0} /\ DayLength % Interval = 0
  BY OperatorAssumption DEF Soak!Configured
<1>2. q \in Int /\ Interval * q <= t - start /\ t - start < Interval * q + Interval
  BY <1>1, Division
<1>3. p \in Int /\ DayLength = Interval * p
  BY <1>1, Division
<1>4. \A b \in Int : /\ (b - start) \div Interval \in Int
                     /\ Interval * ((b - start) \div Interval) <= b - start
                     /\ b - start < Interval * ((b - start) \div Interval) + Interval
  BY <1>1, Division
<1> HIDE DEF q, p
<1>5. q >= 0
  <2>1. Interval * (-1) < Interval * q
    BY <1>1, <1>2
  <2> QED
    BY <1>1, <1>2, <2>1, Multiples
<1>6. q + 1 <= p - 1
  <2>1. Interval * (q + 1) = Interval * q + Interval
    BY <1>1, <1>2, Multiples
  <2>2. Interval * (q + 1) < Interval * p
    BY <1>1, <1>2, <1>3, <2>1
  <2> QED
    BY <1>1, <1>2, <1>3, <2>2, Multiples
<1>7. ASSUME NEW b \in Int, (b - start) \div Interval = q + 1
      PROVE  t < b /\ b - Interval <= t + Interval
  <2>1. Interval * (q + 1) = Interval * q + Interval
    BY <1>1, <1>2, Multiples
  <2> QED
    BY <1>1, <1>2, <1>4, <1>7, <2>1
<1> QED
  BY <1>2, <1>3, <1>5, <1>6, <1>7 DEF q, p

\* No day of the digest passes with an outage longer than a heartbeat interval within it,
\* whatever the length of a day and of an interval that divides it (_uptime_ok, _day): of
\* two intervals that such an outage meets, the second has no sample of its own.
THEOREM PassesAreEarned == Soak!Spec => []PassIsEarned
<1>1. SampledWhileUp => PassIsEarned
  <2> SUFFICES ASSUME SampledWhileUp, NEW d \in Soak!Days, d < Soak!Today,
                      Soak!DayStatus(d) = "pass",
                      NEW t \in Soak!Start(d) .. Soak!End(d) - Interval - 1,
                      \A u \in t .. t + Interval : u \in down
               PROVE  FALSE
    BY DEF PassIsEarned, Soak!PassIsEarned
  <2> DEFINE start == d * DayLength
             k == ((t - start) \div Interval) + 1
  <2>1. /\ Interval \in Nat \ {0} /\ DayLength \in Nat \ {0} /\ d \in Int /\ clock \in Int
        /\ start \in Int /\ t \in Int /\ start <= t /\ Soak!Start(d) = start
    BY OperatorAssumption DEF Soak!Configured, Soak!Start, Soak!End, Soak!Days, SampledWhileUp
  <2>2. Soak!End(d) = start + DayLength /\ t + Interval < start + DayLength
    BY <2>1 DEF Soak!Start, Soak!End
  <2>3. Soak!End(d) <= clock
    <3> DEFINE today == clock \div DayLength
    <3>1. today \in Int /\ DayLength * today <= clock /\ d + 1 <= today
      BY <2>1, Division DEF Soak!Today
    <3>2. Soak!End(d) = DayLength * (d + 1)
      BY <2>1 DEF Soak!End
    <3> HIDE DEF today
    <3>3. DayLength * (d + 1) <= DayLength * today
      BY <2>1, <3>1, Multiples
    <3> QED
      BY <2>1, <3>1, <3>2, <3>3
  <2>4. /\ k \in 0 .. (DayLength \div Interval) - 1
        /\ \A b \in Int : (b - start) \div Interval = k => t < b /\ b - Interval <= t + Interval
    BY <2>1, <2>2, IntervalsOfADay
  <2>5. Soak!UptimeOk(d)
    BY DEF Soak!DayStatus, Soak!Missing
  <2>6. \E b \in beats : (b - start) \div Interval = k
    <3>1. (IF Soak!End(d) < clock THEN Soak!End(d) ELSE clock) = start + DayLength
      BY <2>1, <2>2, <2>3
    <3>2. start + DayLength > start /\ (start + DayLength) - start = DayLength
      BY <2>1
    <3> HIDE DEF start, k
    <3> QED
      BY <2>1, <2>2, <2>4, <2>5, <3>1, <3>2 DEF Soak!UptimeOk
  <2>7. PICK b \in beats : (b - start) \div Interval = k
    BY <2>6
  <2>8. b \in Int /\ t < b /\ b - Interval <= t + Interval
    BY <2>4, <2>7 DEF SampledWhileUp
  <2> DEFINE u == IF b - Interval <= t THEN t ELSE b - Interval
  <2>9. u \in t .. t + Interval /\ b - Interval <= u /\ u < b
    BY <2>1, <2>8
  <2> QED
    BY <2>1, <2>8, <2>9 DEF SampledWhileUp
<1> QED
  BY <1>1, SoakBegins, SoakStep, PTL DEF Soak!Spec
-----------------------------------------------------------------------------
(* The pages of a history.                                                 *)
RowTypes == at \in [Rows -> Nat]
Newer(r, S) == {s \in S : History!Older(r, History!Place(s))}

\* The instance's operators on finite sets are those of FiniteSets.
LEMMA SameFiniteSets ==
  ASSUME NEW S
  PROVE  /\ History!Cardinality(S) = Cardinality(S)
         /\ History!IsFiniteSet(S) <=> IsFiniteSet(S)
<1>1. History!Cardinality(S) = Cardinality(S)
  BY DEF History!Cardinality, Cardinality
<1>2. History!IsFiniteSet(S) <=> IsFiniteSet(S)
  BY DEF History!IsFiniteSet, IsFiniteSet
<1> QED
  BY <1>1, <1>2

LEMMA FiniteRows ==
  ASSUME NEW S \in SUBSET Rows
  PROVE  IsFiniteSet(S) /\ Cardinality(S) \in Nat
<1>1. IsFiniteSet(Rows)
  BY OperatorAssumption, SameFiniteSets DEF History!Configured
<1> QED
  BY <1>1, FS_Subset, FS_CardinalityType

\* The order of a page is total.
LEMMA RowsAreOrdered ==
  ASSUME RowTypes, NEW a \in Rows, NEW b \in Rows
  PROVE  LET before(x, y) == History!Older(x, History!Place(y))
         IN  /\ ~ before(a, a)
             /\ a # b => before(a, b) \/ before(b, a)
             /\ ~ (before(a, b) /\ before(b, a))
             /\ \A c \in Rows : before(a, b) /\ before(b, c) => before(a, c)
<1>1. Rows \subseteq Int
  BY OperatorAssumption DEF History!Configured
<1> QED
  BY <1>1 DEF RowTypes, History!Older, History!Place

\* The newer of two rows has fewer rows before it on a page.
LEMMA FewerNewer ==
  ASSUME RowTypes, NEW S \in SUBSET Rows, NEW a \in Rows, NEW b \in S,
         History!Older(a, History!Place(b))
  PROVE  /\ Cardinality(Newer(a, S)) \in Nat /\ Cardinality(Newer(b, S)) \in Nat
         /\ Cardinality(Newer(b, S)) < Cardinality(Newer(a, S))
<1>1. /\ Newer(b, S) \in SUBSET Newer(a, S) /\ b \in Newer(a, S) /\ b \notin Newer(b, S)
      /\ Newer(a, S) \in SUBSET Rows /\ Newer(b, S) \in SUBSET Rows
  <2>1. ASSUME NEW c \in Newer(b, S) PROVE c \in Newer(a, S)
    BY RowsAreOrdered DEF Newer
  <2>2. b \in Newer(a, S) /\ b \notin Newer(b, S)
    BY RowsAreOrdered DEF Newer
  <2> QED
    BY <2>1, <2>2 DEF Newer
<1>2. /\ IsFiniteSet(Newer(a, S)) /\ Cardinality(Newer(a, S)) \in Nat
      /\ IsFiniteSet(Newer(b, S)) /\ Cardinality(Newer(b, S)) \in Nat
  BY <1>1, FiniteRows
<1> QED
  BY <1>1, <1>2, FS_Subset

\* Every set of numbers that is not empty has a least one.
LEMMA LeastNumber ==
  ASSUME NEW N, N \subseteq Nat, N # {}
  PROVE  \E m \in N : \A n \in N : m <= n
<1>1. PICK m \in N : \A n \in N : <<n, m>> \notin OpToRel(<, Nat)
  BY WFMin, NatLessThanWellFounded
<1>2. \A n \in N : ~(n < m)
  BY <1>1 DEF OpToRel
<1> QED
  BY <1>2

LEMMA NewerCounts ==
  ASSUME NEW S \in SUBSET Rows, NEW r
  PROVE  Cardinality(Newer(r, S)) \in Nat /\ Cardinality(Newer(r, S)) <= Cardinality(S)
<1>1. Newer(r, S) \in SUBSET S
  BY DEF Newer
<1> QED
  BY <1>1, FiniteRows, FS_Subset

\* A page of a table that has rows is not empty.
LEMMA PageHasRows ==
  ASSUME RowTypes, NEW S \in SUBSET Rows, S # {}, NEW n \in Nat, n > 0
  PROVE  History!Newest(S, n) # {}
<1> DEFINE N == {Cardinality(Newer(r, S)) : r \in S}
<1>1. N \subseteq Nat /\ N # {}
  BY NewerCounts
<1>2. PICK m \in N : \A k \in N : m <= k
  BY <1>1, LeastNumber
<1>3. PICK r \in S : m = Cardinality(Newer(r, S))
  OBVIOUS
<1>4. ASSUME NEW s \in Newer(r, S) PROVE FALSE
  <2>1. s \in S /\ History!Older(r, History!Place(s))
    BY DEF Newer
  <2>2. Cardinality(Newer(s, S)) < m /\ Cardinality(Newer(s, S)) \in N
    BY <1>3, <2>1, FewerNewer
  <2> QED
    BY <1>1, <1>2, <2>2
<1>5. Cardinality({s \in S : History!Older(r, History!Place(s))}) = 0
  <2>1. Newer(r, S) = {}
    BY <1>4
  <2> QED
    BY <2>1, FS_EmptySet DEF Newer
<1> QED
  BY <1>5, SameFiniteSets DEF History!Newest

\* A page has an oldest row: the cursor of the page after it.
LEMMA OldestExists ==
  ASSUME RowTypes, NEW S \in SUBSET Rows, S # {}
  PROVE  \E m \in S : \A s \in S \ {m} : History!Older(m, History!Place(s))
<1> DEFINE N == {Cardinality(S) - Cardinality(Newer(r, S)) : r \in S}
<1>1. N \subseteq Nat /\ N # {}
  <2>1. ASSUME NEW r \in S PROVE Cardinality(S) - Cardinality(Newer(r, S)) \in Nat
    BY NewerCounts, FiniteRows
  <2> QED
    BY <2>1
<1>2. PICK k \in N : \A j \in N : k <= j
  BY <1>1, LeastNumber
<1>3. PICK m \in S : k = Cardinality(S) - Cardinality(Newer(m, S))
  OBVIOUS
<1>4. ASSUME NEW s \in S \ {m}, ~ History!Older(m, History!Place(s)) PROVE FALSE
  <2>1. History!Older(s, History!Place(m))
    BY <1>4, RowsAreOrdered
  <2>2. Cardinality(Newer(m, S)) < Cardinality(Newer(s, S))
    BY <2>1, FewerNewer
  <2>3. k <= Cardinality(S) - Cardinality(Newer(s, S))
    BY <1>2
  <2> QED
    BY <1>3, <2>2, <2>3, NewerCounts, FiniteRows
<1> QED
  BY <1>4
\* The refusals of a set of gates.
Under(S, T) == {r \in S : GateOf[r] \in T}

LEMMA UnderOneMore ==
  ASSUME NEW S \in SUBSET Rows, NEW T, NEW g \in T
  PROVE  /\ Cardinality(Under(S, T)) \in Nat
         /\ Cardinality(Under(S, T)) =
               Cardinality({r \in S : GateOf[r] = g}) + Cardinality(Under(S, T \ {g}))
<1> DEFINE A == {r \in S : GateOf[r] = g}
           B == Under(S, T \ {g})
<1>1. Under(S, T) = A \cup B /\ A \cap B = {} /\ A \in SUBSET Rows /\ B \in SUBSET Rows
  BY DEF Under
<1>2. /\ IsFiniteSet(A) /\ IsFiniteSet(B) /\ Cardinality(A) \in Nat /\ Cardinality(B) \in Nat
  BY <1>1, FiniteRows
<1> HIDE DEF A, B
<1>3. Cardinality(A \cup B) = Cardinality(A) + Cardinality(B) - Cardinality(A \cap B)
  BY <1>2, FS_Union
<1>4. Cardinality(Under(S, T)) = Cardinality(A) + Cardinality(B)
  <2>1. Cardinality(A \cap B) = 0
    BY <1>1, FS_EmptySet
  <2> QED
    BY <1>1, <1>2, <1>3, <2>1
<1> QED
  BY <1>2, <1>4 DEF A, B

LEMMA LinesAddUp ==
  ASSUME NEW S \in SUBSET Rows
  PROVE  History!MapThenSumSet(LAMBDA g : History!Cardinality({r \in S : GateOf[r] = g}),
                               History!Lines(S)) = Cardinality(S)
<1> DEFINE T == History!Lines(S)
           pick(s) == CHOOSE x \in s : TRUE
           step(f) == [s \in SUBSET T |->
                         IF s = {} THEN 0
                         ELSE History!Cardinality({r \in S : GateOf[r] = pick(s)}) + f[s \ {pick(s)}]]
           sum == CHOOSE f : f = step(f)
<1>1. History!MapThenSumSet(LAMBDA g : History!Cardinality({r \in S : GateOf[r] = g}), T) = sum[T]
  BY DEF History!MapThenSumSet, History!MapThenFoldSet
<1>2. IsFiniteSet(T)
  <2> DEFINE image == {GateOf[r] : r \in S}
             gate == [r \in S |-> GateOf[r]]
  <2>1. gate \in Surjection(S, image)
    BY DEF Surjection
  <2>2. IsFiniteSet(image)
    <3> HIDE DEF gate, image
    <3> QED
      BY <2>1, FiniteRows, FS_Surjection
  <2>3. IsFiniteSet(Gates)
    BY OperatorAssumption, SameFiniteSets DEF History!Configured
  <2> HIDE DEF image
  <2>4. IsFiniteSet(Gates \cup image)
    BY <2>2, <2>3, FS_Union
  <2> QED
    BY <2>4 DEF image, History!Lines
<1>3. \A s \in SUBSET T : s # {} => pick(s) \in s
  OBVIOUS
<1>4. Cardinality(Under(S, {})) = 0
  <2>1. Under(S, {}) = {}
    BY DEF Under
  <2> QED
    BY <2>1, FS_EmptySet
<1> DEFINE count == [s \in SUBSET T |-> Cardinality(Under(S, s))]
<1> HIDE DEF T, pick
\* What is claimed of the sum satisfies its defining equation, so there is such a function.
<1>5. count = step(count)
  <2>1. ASSUME NEW s \in SUBSET T
        PROVE  count[s] = IF s = {} THEN 0
                          ELSE History!Cardinality({r \in S : GateOf[r] = pick(s)})
                               + count[s \ {pick(s)}]
    <3>1. CASE s = {}
      BY <1>4, <3>1
    <3>2. CASE s # {}
      BY <1>3, <3>2, UnderOneMore, SameFiniteSets
    <3> QED
      BY <3>1, <3>2
  <2> QED
    BY <2>1
<1>6. sum = step(sum)
  BY <1>5
<1> HIDE DEF sum
\* There is only one: two would first differ on a smallest set of gates.
<1>7. \A s \in SUBSET T : sum[s] = Cardinality(Under(S, s))
  <2> DEFINE wrong == {s \in SUBSET T : sum[s] # Cardinality(Under(S, s))}
             N == {Cardinality(s) : s \in wrong}
  <2> SUFFICES ASSUME wrong # {} PROVE FALSE
    OBVIOUS
  <2>1. \A s \in SUBSET T : IsFiniteSet(s) /\ Cardinality(s) \in Nat
    BY <1>2, FS_Subset, FS_CardinalityType
  <2>2. N \subseteq Nat /\ N # {}
    BY <2>1
  <2>3. PICK n \in N : \A k \in N : n <= k
    BY <2>2, LeastNumber
  <2>4. PICK s \in wrong : n = Cardinality(s)
    OBVIOUS
  <2>5. sum[s] = IF s = {} THEN 0
                 ELSE History!Cardinality({r \in S : GateOf[r] = pick(s)}) + sum[s \ {pick(s)}]
    BY <1>6
  <2>6. s # {}
    BY <1>4, <2>4, <2>5
  <2> DEFINE rest == s \ {pick(s)}
  <2>7. rest \in SUBSET T /\ Cardinality(rest) < n
    BY <1>3, <2>1, <2>4, <2>6, FS_RemoveElement
  <2>8. sum[rest] = Cardinality(Under(S, rest))
    <3>1. CASE rest \in wrong
      <4>1. Cardinality(rest) \in N
        BY <3>1
      <4> QED
        BY <2>2, <2>3, <2>7, <4>1
    <3>2. CASE rest \notin wrong
      BY <2>7, <3>2
    <3> QED
      BY <3>1, <3>2
  <2> QED
    BY <1>3, <2>4, <2>5, <2>6, <2>8, UnderOneMore, SameFiniteSets
<1>8. Under(S, T) = S
  BY DEF Under, T, History!Lines
<1> QED
  BY <1>1, <1>7, <1>8 DEF T
-----------------------------------------------------------------------------
Walking == reader \in {"count", "rows", "page"}

TableTypes ==
    /\ RowTypes /\ moment \in Nat /\ moment > 0
    /\ committed \subseteq Rows /\ \A r \in committed : at[r] # 0
    /\ state = [r \in Rows |-> state[r]]
    /\ query.limit \in Nat /\ query.limit > 0
    /\ report = [shown |-> report.shown, truncated |-> report.truncated,
                 refused |-> report.refused, listed |-> report.listed]
    /\ reader \in {"idle", "count", "rows", "page", "end", "totals", "markers", "outcomes",
                   "gates", "shown"}

\* The rows of the pages so far are at or before the cursor and the rows that are still to
\* come are beyond it: what a page shows twice, or what a walk misses, is on the wrong side.
CursorDivides ==
    Walking =>
       /\ steady \subseteq History!Matching(query) /\ walked \subseteq committed
       /\ cursor = [at |-> cursor.at, key |-> cursor.key] /\ cursor.at \in Nat /\ cursor.key \in Int
       /\ \A r \in walked : cursor # History!NoCursor /\ ~ History!Older(r, cursor)
       /\ \A r \in steady : \/ r \in walked \/ cursor = History!NoCursor
                            \/ History!Older(r, cursor)

\* The refusals were counted before their gates were, and none goes away.
RefusalsStay ==
    /\ reader \in {"outcomes", "gates"} => query.status = "any"
    /\ reader = "gates" =>
          report.refused \in Nat /\ report.refused <= Cardinality(History!Matching(query))

HistoryInv == TableTypes /\ CursorDivides /\ RefusalsStay /\ WalkIsExact

LEMMA HistoryBegins == History!Init => HistoryInv
  BY DEF History!Init, HistoryInv, TableTypes, RowTypes, CursorDivides, Walking, RefusalsStay,
         WalkIsExact, History!WalkIsExact, History!NoQuery, History!NoReport, History!NoCursor

\* What is recorded meanwhile keeps what has matched, but for an order that settles.
LEMMA TableKeeps ==
  ASSUME HistoryInv,
         \/ History!Tick
         \/ \E r \in Rows : History!Make(r) \/ History!Commit(r) \/ History!Settle(r)
  PROVE  HistoryInv'
<1> USE DEF TableTypes, RowTypes, Walking
<1>1. UNCHANGED <<reader, query, cursor, walked, twice, report>>
  BY DEF History!Tick, History!Make, History!Commit, History!Settle
<1>2. TableTypes'
  <2>1. CASE History!Tick
    BY <2>1 DEF HistoryInv, History!Tick
  <2>2. ASSUME NEW r \in Rows, History!Make(r) PROVE TableTypes'
    BY <2>2 DEF HistoryInv, History!Make
  <2>3. ASSUME NEW r \in Rows, History!Commit(r) PROVE TableTypes'
    BY <2>3 DEF HistoryInv, History!Commit
  <2>4. ASSUME NEW r \in Rows, History!Settle(r) PROVE TableTypes'
    BY <2>4 DEF HistoryInv, History!Settle
  <2> QED
    BY <2>1, <2>2, <2>3, <2>4
<1>3. committed \subseteq committed' /\ \A r \in committed : at'[r] = at[r]
  BY DEF HistoryInv, History!Tick, History!Make, History!Commit, History!Settle
<1>4. /\ steady' \subseteq steady
      /\ steady \subseteq History!Matching(query) => steady' \subseteq History!Matching(query)'
  <2>1. CASE History!Tick \/ \E r \in Rows : History!Make(r) \/ History!Commit(r)
    BY <1>1, <1>3, <2>1 DEF HistoryInv, History!Matching, History!Tick, History!Make, History!Commit
  <2>2. ASSUME NEW r \in Rows, History!Settle(r)
        PROVE  /\ steady' \subseteq steady
               /\ steady \subseteq History!Matching(query) => steady' \subseteq History!Matching(query)'
    BY <1>1, <2>2 DEF HistoryInv, History!Matching, History!Settle
  <2> QED
    BY <2>1, <2>2
<1>5. query.status = "any" => History!Matching(query) \subseteq History!Matching(query)'
  BY <1>1, <1>3 DEF History!Matching
<1>6. CursorDivides'
  <2>1. walked \subseteq committed => \A r \in walked : History!Older(r, cursor)' <=> History!Older(r, cursor)
    BY <1>1, <1>3 DEF History!Older
  <2>2. steady \subseteq History!Matching(query) =>
           \A r \in steady : History!Older(r, cursor)' <=> History!Older(r, cursor)
    BY <1>1, <1>3 DEF History!Older, History!Matching
  <2> QED
    BY <1>1, <1>3, <1>4, <2>1, <2>2 DEF HistoryInv, CursorDivides, History!NoCursor
<1>7. RefusalsStay'
  <2>1. ASSUME reader = "gates" PROVE report.refused <= Cardinality(History!Matching(query)')
    <3>1. History!Matching(query)' \in SUBSET Rows /\ History!Matching(query) \in SUBSET Rows
      BY <1>2 DEF HistoryInv, History!Matching
    <3>2. History!Matching(query) \in SUBSET History!Matching(query)'
      BY <1>5, <2>1 DEF HistoryInv, RefusalsStay
    <3>3. /\ Cardinality(History!Matching(query)) <= Cardinality(History!Matching(query)')
          /\ Cardinality(History!Matching(query)') \in Nat
          /\ Cardinality(History!Matching(query)) \in Nat
      BY <3>1, <3>2, FiniteRows, FS_Subset
    <3> QED
      BY <2>1, <3>3 DEF HistoryInv, RefusalsStay
  <2> QED
    BY <1>1, <2>1 DEF HistoryInv, RefusalsStay
<1>8. WalkIsExact'
  BY <1>1, <1>4 DEF HistoryInv, WalkIsExact, History!WalkIsExact
<1> QED
  BY <1>2, <1>6, <1>7, <1>8 DEF HistoryInv
\* The next page shows none of the rows before it, and passes over none that are older.
LEMMA PageKeeps ==
  ASSUME HistoryInv, History!ReadRows PROVE HistoryInv'
<1> DEFINE found == History!Beyond(query, cursor)
           new == History!Newest(found, query.limit)
<1>0. /\ reader = "rows" /\ walked' = walked \cup new /\ twice' = (twice \/ new \cap walked # {})
      /\ IF History!Cardinality(found) > query.limit
         THEN /\ reader' = "page"
              /\ cursor' = History!Place(CHOOSE r \in new :
                                            \A s \in new \ {r} : History!Older(r, History!Place(s)))
         ELSE reader' = "end" /\ UNCHANGED cursor
      /\ UNCHANGED <<moment, at, committed, state, query, total, steady, report>>
  BY DEF History!ReadRows, History!table
<1>1. /\ RowTypes /\ found \in SUBSET Rows /\ new \in SUBSET found /\ found \subseteq committed
      /\ query.limit \in Nat /\ query.limit > 0
  BY DEF HistoryInv, TableTypes, History!Beyond, History!Matching, History!Newest
<1>2. /\ steady \subseteq History!Matching(query) /\ walked \subseteq committed
      /\ cursor.at \in Nat /\ cursor.key \in Int
      /\ \A r \in walked : cursor # History!NoCursor /\ ~ History!Older(r, cursor)
      /\ \A r \in steady : r \in walked \/ cursor = History!NoCursor \/ History!Older(r, cursor)
  BY <1>0 DEF HistoryInv, CursorDivides, Walking
<1>3. \A r \in found : cursor = History!NoCursor \/ History!Older(r, cursor)
  BY DEF History!Beyond
<1>4. steady \subseteq walked \cup found
  BY <1>2 DEF History!Beyond
<1>5. TableTypes' /\ RefusalsStay'
  BY <1>0 DEF HistoryInv, TableTypes, RowTypes, RefusalsStay
<1>6. new \cap walked = {}
  BY <1>1, <1>2, <1>3
<1>7. \A r \in found : Cardinality(Newer(r, found)) \in Nat /\ Cardinality(found) \in Nat
  BY <1>1, NewerCounts, FiniteRows
<1>8. \A r \in found : r \in new <=> Cardinality(Newer(r, found)) < query.limit
  BY SameFiniteSets DEF History!Newest, Newer
<1> HIDE DEF found, new
<1>9. CASE ~ (Cardinality(found) > query.limit)
  <2>1. ASSUME NEW r \in found PROVE r \in new
    <3>1. Newer(r, found) \in SUBSET found /\ r \notin Newer(r, found)
      BY <1>1, RowsAreOrdered DEF Newer
    <3>2. Cardinality(Newer(r, found)) < Cardinality(found)
      BY <1>1, <1>7, <3>1, FS_Subset, FiniteRows
    <3> QED
      BY <1>1, <1>7, <1>8, <1>9, <3>2
  <2>2. reader' = "end"
    BY <1>0, <1>9, SameFiniteSets
  <2>3. WalkIsExact'
    BY <1>0, <1>4, <1>6, <2>1, <2>2 DEF HistoryInv, WalkIsExact, History!WalkIsExact
  <2> QED
    BY <1>5, <2>2, <2>3 DEF HistoryInv, CursorDivides, Walking
<1>10. CASE Cardinality(found) > query.limit
  <2> DEFINE oldest(r) == \A s \in new \ {r} : History!Older(r, History!Place(s))
             m == CHOOSE r \in new : oldest(r)
  <2>1. reader' = "page" /\ cursor' = History!Place(m)
    BY <1>0, <1>10, SameFiniteSets
  <2>2. new # {}
    <3>1. found # {}
      BY <1>1, <1>10, FS_EmptySet
    <3> QED
      BY <1>1, <3>1, PageHasRows DEF new
  <2>3. m \in new /\ oldest(m)
    <3>1. \E r \in new : oldest(r)
      BY <1>1, <2>2, OldestExists
    <3> QED
      BY <3>1
  <2> HIDE DEF m
  <2>4. /\ m \in Rows /\ at[m] \in Nat /\ at[m] # 0 /\ m \in Int
        /\ cursor' = [at |-> at[m], key |-> m] /\ cursor' # History!NoCursor
    BY <1>1, <2>1, <2>3, OperatorAssumption
    DEF HistoryInv, TableTypes, RowTypes, History!Place, History!NoCursor, History!Configured
  <2>5. \A r \in Rows : History!Older(r, cursor)' <=> History!Older(r, History!Place(m))
    BY <1>0, <2>4 DEF History!Older, History!Place
  <2>6. ASSUME NEW r \in new PROVE ~ History!Older(r, cursor)'
    <3>1. ~ History!Older(r, History!Place(m))
      BY <1>1, <2>3, RowsAreOrdered
    <3> QED
      BY <1>1, <2>5, <3>1
  <2>7. ASSUME NEW r \in walked PROVE ~ History!Older(r, cursor)'
    <3>1. ~ History!Older(r, cursor) /\ History!Older(m, cursor) /\ r \in Rows
      BY <1>1, <1>2, <1>3, <2>3 DEF HistoryInv, TableTypes
    <3>2. at[r] \in Nat /\ r \in Int
      BY <3>1, OperatorAssumption DEF HistoryInv, TableTypes, RowTypes, History!Configured
    <3>3. ~ History!Older(r, History!Place(m))
      BY <1>2, <2>4, <3>1, <3>2 DEF History!Older, History!Place
    <3> QED
      BY <2>5, <3>1, <3>3
  <2>8. ASSUME NEW r \in found, r \notin new PROVE History!Older(r, cursor)'
    <3>1. r \in Rows /\ m \in found /\ r # m
      BY <1>1, <2>3, <2>8
    <3>2. ~ History!Older(m, History!Place(r))
      <4> SUFFICES ASSUME History!Older(m, History!Place(r)) PROVE FALSE
        OBVIOUS
      <4>1. Cardinality(Newer(r, found)) < Cardinality(Newer(m, found))
        BY <1>1, <3>1, FewerNewer
      <4> QED
        BY <1>1, <1>7, <1>8, <2>3, <2>8, <3>1, <4>1
    <3>3. History!Older(r, History!Place(m))
      BY <1>1, <3>1, <3>2, RowsAreOrdered
    <3> QED
      BY <2>5, <3>1, <3>3
  <2>9. /\ cursor' = [at |-> cursor'.at, key |-> cursor'.key]
        /\ cursor'.at \in Nat /\ cursor'.key \in Int
    BY <2>4
  <2>10. CursorDivides'
    <3>1. steady' \subseteq History!Matching(query)'
      BY <1>0, <1>2 DEF History!Matching
    <3>2. walked' \subseteq committed'
      BY <1>0, <1>1, <1>2
    <3>3. \A r \in walked' : cursor' # History!NoCursor /\ ~ History!Older(r, cursor)'
      BY <1>0, <2>4, <2>6, <2>7
    <3>4. \A r \in steady' : r \in walked' \/ History!Older(r, cursor)'
      BY <1>0, <1>4, <2>8
    <3> QED
      BY <2>9, <3>1, <3>2, <3>3, <3>4 DEF CursorDivides, History!NoCursor
  <2>11. WalkIsExact'
    BY <1>0, <1>6, <2>1 DEF HistoryInv, WalkIsExact, History!WalkIsExact
  <2> QED
    BY <1>5, <2>10, <2>11 DEF HistoryInv
<1> QED
  BY <1>9, <1>10

LEMMA HistoryStep == HistoryInv /\ [History!Next]_History!vars => HistoryInv'
<1> SUFFICES ASSUME HistoryInv, [History!Next]_History!vars PROVE HistoryInv'
  OBVIOUS
<1> USE DEF HistoryInv, TableTypes, RowTypes, Walking, History!table
<1>1. ASSUME NEW q \in History!Queries, History!Ask(q) PROVE HistoryInv'
  <2>1. /\ reader' = "count" /\ query' = q /\ cursor' = History!NoCursor /\ walked' = {}
        /\ steady' = History!Matching(q)
        /\ UNCHANGED <<moment, at, committed, state, total, twice, report>>
    BY <1>1 DEF History!Ask
  <2>2. q.limit \in Nat /\ q.limit > 0
    BY OperatorAssumption DEF History!Queries, History!Configured
  <2>3. History!Matching(query)' = History!Matching(q)
    BY <2>1 DEF History!Matching
  <2> QED
    BY <2>1, <2>2, <2>3
    DEF CursorDivides, RefusalsStay, WalkIsExact, History!WalkIsExact, History!NoCursor
<1>2. ASSUME NEW q \in History!Queries, History!AskMarkers(q) \/ History!AskRefusals(q)
      PROVE  HistoryInv'
  <2>1. q.limit \in Nat /\ q.limit > 0
    BY OperatorAssumption DEF History!Queries, History!Configured
  <2> QED
    BY <1>2, <2>1 DEF History!AskMarkers, History!AskRefusals, CursorDivides, RefusalsStay,
                      WalkIsExact, History!WalkIsExact
<1>3. CASE History!ReadTotal \/ History!Follow \/ History!Unavailable
  BY <1>3 DEF History!ReadTotal, History!Follow, History!Unavailable, CursorDivides,
              RefusalsStay, WalkIsExact, History!WalkIsExact, History!Matching, History!Older,
              History!NoCursor
<1>4. CASE History!Leave
  BY <1>4 DEF History!Leave, CursorDivides, RefusalsStay, WalkIsExact, History!WalkIsExact,
              History!NoQuery, History!NoReport
<1>5. CASE History!ReadTotals
  BY <1>5 DEF History!ReadTotals, CursorDivides, RefusalsStay, WalkIsExact, History!WalkIsExact
<1>6. CASE History!ReadMarkers
  <2>1. PICK cut, rows : report' = [History!NoReport EXCEPT !.truncated = cut, !.shown = rows]
    BY <1>6 DEF History!ReadMarkers
  <2>2. /\ report' = [shown |-> report'.shown, truncated |-> report'.truncated,
                      refused |-> report'.refused, listed |-> report'.listed]
        /\ report'.refused = 0 /\ report'.listed = 0
    BY <2>1 DEF History!NoReport
  <2>3. /\ reader' = "shown"
        /\ UNCHANGED <<moment, at, committed, state, query, cursor, walked, twice, steady>>
    BY <1>6 DEF History!ReadMarkers
  <2> QED
    BY <2>2, <2>3 DEF CursorDivides, RefusalsStay, WalkIsExact, History!WalkIsExact
<1>7. CASE History!ReadOutcomes
  <2>1. /\ reader = "outcomes" /\ reader' = "gates"
        /\ report' = [report EXCEPT !.refused = Cardinality(History!Matching(query))]
        /\ UNCHANGED <<moment, at, committed, state, query, cursor, walked, twice, steady>>
    BY <1>7, SameFiniteSets DEF History!ReadOutcomes
  <2>2. Cardinality(History!Matching(query)) \in Nat
    <3>1. History!Matching(query) \in SUBSET Rows
      BY DEF History!Matching
    <3> QED
      BY <3>1, FiniteRows
  <2>3. History!Matching(query)' = History!Matching(query)
    BY <2>1 DEF History!Matching
  <2> QED
    BY <2>1, <2>2, <2>3 DEF CursorDivides, RefusalsStay, WalkIsExact, History!WalkIsExact
<1>8. CASE History!ReadGates
  <2> DEFINE S == History!Matching(query)
  <2>1. S \in SUBSET Rows
    BY DEF History!Matching
  <2>2. /\ reader = "gates" /\ reader' = "shown"
        /\ report' = [report EXCEPT !.listed = Cardinality(S)]
        /\ UNCHANGED <<moment, at, committed, state, query, cursor, walked, twice, steady>>
    BY <1>8, <2>1, LinesAddUp DEF History!ReadGates
  <2>3. report'.listed = Cardinality(S) /\ report'.refused = report.refused
    BY <2>2
  <2> QED
    BY <2>1, <2>2, <2>3, FiniteRows
    DEF CursorDivides, RefusalsStay, WalkIsExact, History!WalkIsExact
<1>9. CASE UNCHANGED History!vars
  BY <1>9 DEF History!vars, CursorDivides, RefusalsStay, WalkIsExact, History!WalkIsExact,
              History!Matching, History!Older, History!NoCursor
<1> QED
  BY <1>1, <1>2, <1>3, <1>4, <1>5, <1>6, <1>7, <1>8, <1>9, TableKeeps, PageKeeps
  DEF History!Next

\* A walk over any number of pages shows no row twice and misses none that has matched
\* since it began, whatever is recorded or settled between two pages; and the refusals
\* listed by gate, known to this build or not, are no fewer than the refusals reported
\* (SqlAlchemyHistory._page, refusals).
THEOREM WalksAreExact == History!Spec => []WalkIsExact
<1>1. HistoryInv => WalkIsExact
  BY DEF HistoryInv
<1> QED
  BY <1>1, HistoryBegins, HistoryStep, PTL DEF History!Spec
-----------------------------------------------------------------------------
(* The alerts.                                                             *)

Alert == [id : Nat \ {0}, dismissed : BOOLEAN]

AlertTypes ==
    /\ raised \in Nat /\ alerts \in Seq(Alert)
    /\ sending \in [Emitters -> [id : Nat, left : Int]]
    /\ \A i \in DOMAIN alerts : alerts[i].id <= raised
    /\ \A e \in Emitters : sending[e].id <= raised

\* An alert is in one place only: with one task that delivers it, or listed once.
OnePlace ==
    /\ \A i, j \in DOMAIN alerts : alerts[i].id = alerts[j].id => i = j
    /\ \A e, f \in Emitters : sending[e].id = sending[f].id => e = f \/ sending[e].id = 0
    /\ \A i \in DOMAIN alerts, e \in Emitters : alerts[i].id # sending[e].id

\* SavedBeforeDismissed, told of the places of the list.
DismissalsAreSaved == \A i \in DOMAIN alerts : alerts[i].dismissed => alerts[i].id \in saved

AlertsInv == AlertTypes /\ OnePlace /\ DismissalsAreSaved

LEMMA AlertsBegin == Init => AlertsInv
  BY DEF Init, AlertsInv, AlertTypes, OnePlace, DismissalsAreSaved, Quiet

LEMMA AlertsHaveIds ==
  ASSUME AlertsInv, NEW i \in DOMAIN alerts
  PROVE  alerts[i] \in Alert /\ alerts[i].id \in Nat /\ 0 < alerts[i].id /\ alerts[i].id <= raised
<1>1. alerts[i] \in Alert /\ alerts[i].id <= raised
  BY DEF AlertsInv, AlertTypes
<1>2. alerts[i].id \in Nat \ {0}
  BY <1>1, Zenon DEF Alert
<1> QED
  BY <1>1, <1>2

\* What only the deliveries change.
LEMMA SendingKeeps ==
  ASSUME AlertsInv, UNCHANGED <<alerts, saved, raised>>, NEW e \in Emitters, NEW n \in Int,
         sending' = [sending EXCEPT ![e].left = n]
  PROVE  AlertsInv'
<1>1. sending' \in [Emitters -> [id : Nat, left : Int]]
  BY DEF AlertsInv, AlertTypes
<1>2. \A f \in Emitters : sending'[f].id = sending[f].id
  BY DEF AlertsInv, AlertTypes
<1> QED
  BY <1>1, <1>2 DEF AlertsInv, AlertTypes, OnePlace, DismissalsAreSaved

LEMMA AlertsStep == AlertsInv /\ [Next]_vars => AlertsInv'
<1> SUFFICES ASSUME AlertsInv, [Next]_vars PROVE AlertsInv'
  OBVIOUS
<1>1. ASSUME NEW e \in Emitters, Raise(e) PROVE AlertsInv'
  <2>1. /\ sending' = [sending EXCEPT ![e] = [id |-> raised + 1, left |-> Destinations]]
        /\ raised' = raised + 1 /\ UNCHANGED <<alerts, saved>>
    BY <1>1 DEF Raise
  <2>2. /\ \A f \in Emitters \ {e} : sending'[f] = sending[f]
        /\ sending'[e].id = raised + 1
        /\ sending' \in [Emitters -> [id : Nat, left : Int]]
    BY <2>1, DestinationsAssumption DEF AlertsInv, AlertTypes
  <2>3. /\ raised \in Nat /\ \A f \in Emitters : sending[f].id \in Nat /\ sending[f].id <= raised
        /\ \A i \in DOMAIN alerts : alerts[i].id \in Nat /\ alerts[i].id <= raised
    BY AlertsHaveIds DEF AlertsInv, AlertTypes
  <2>4. AlertTypes'
    BY <2>1, <2>2, <2>3 DEF AlertsInv, AlertTypes
  <2>5. OnePlace'
    BY <2>1, <2>2, <2>3 DEF AlertsInv, OnePlace
  <2>6. DismissalsAreSaved'
    BY <2>1, Zenon DEF AlertsInv, DismissalsAreSaved
  <2> QED
    BY <2>4, <2>5, <2>6 DEF AlertsInv
<1>2. ASSUME NEW e \in Emitters, Deliver(e) PROVE AlertsInv'
  <2>1. sending' = [sending EXCEPT ![e].left = sending[e].left - 1]
        /\ UNCHANGED <<alerts, saved, raised>>
    BY <1>2 DEF Deliver
  <2>2. sending[e].left - 1 \in Int
    BY DEF AlertsInv, AlertTypes
  <2> QED
    BY <2>1, <2>2, SendingKeeps
<1>3. ASSUME NEW e \in Emitters, List(e) PROVE AlertsInv'
  <2> DEFINE a == [id |-> sending[e].id, dismissed |-> FALSE]
             n == Len(alerts)
  <2>1. /\ sending[e] # Quiet /\ sending[e].left = 0 /\ alerts' = Append(alerts, a)
        /\ sending' = [sending EXCEPT ![e] = Quiet] /\ UNCHANGED <<raised, saved>>
    BY <1>3 DEF List
  <2>2. sending[e] = [id |-> sending[e].id, left |-> sending[e].left] /\ sending[e].id \in Nat
    BY DEF AlertsInv, AlertTypes
  <2>3. a \in Alert /\ a.id = sending[e].id /\ a.id # 0 /\ a.dismissed = FALSE
    BY <2>1, <2>2 DEF Alert, Quiet
  <2> HIDE DEF a
  <2>4. /\ alerts' \in Seq(Alert) /\ DOMAIN alerts = 1 .. n /\ DOMAIN alerts' = 1 .. n + 1
        /\ n \in Nat /\ alerts'[n + 1] = a /\ \A i \in 1 .. n : alerts'[i] = alerts[i]
    BY <2>1, <2>3 DEF AlertsInv, AlertTypes
  <2>5. /\ \A f \in Emitters \ {e} : sending'[f] = sending[f]
        /\ sending'[e].id = 0 /\ sending' \in [Emitters -> [id : Nat, left : Int]]
    BY <2>1 DEF AlertsInv, AlertTypes, Quiet
  <2> HIDE DEF n
  <2>6. AlertTypes'
    BY <2>1, <2>3, <2>4, <2>5 DEF AlertsInv, AlertTypes
  <2>7. OnePlace'
    <3>1. \A i \in 1 .. n + 1 : i \in 1 .. n \/ i = n + 1
      BY <2>4
    <3>2. \A i \in 1 .. n : alerts[i].id # a.id /\ alerts[i].id # 0
      BY <2>3, <2>4, AlertsHaveIds DEF AlertsInv, OnePlace
    <3>3. \A f \in Emitters \ {e} : sending[f].id # a.id
      BY <2>3 DEF AlertsInv, OnePlace
    <3>4. \A i, j \in 1 .. n + 1 : alerts'[i].id = alerts'[j].id => i = j
      BY <2>4, <3>1, <3>2 DEF AlertsInv, OnePlace
    <3>5. \A f, g \in Emitters :
             sending'[f].id = sending'[g].id => f = g \/ sending'[f].id = 0
      BY <2>5 DEF AlertsInv, OnePlace
    <3>6. \A i \in 1 .. n + 1, f \in Emitters : alerts'[i].id # sending'[f].id
      <4> TAKE i \in 1 .. n + 1, f \in Emitters
      <4>1. alerts'[i].id # 0 /\ \A g \in Emitters \ {e} : alerts'[i].id # sending[g].id
        BY <2>3, <2>4, <3>1, <3>2, <3>3 DEF AlertsInv, OnePlace
      <4>2. f = e => sending'[f].id = 0
        BY <2>5
      <4>3. f # e => sending'[f].id = sending[f].id /\ f \in Emitters \ {e}
        BY <2>5
      <4> QED
        BY <4>1, <4>2, <4>3
    <3> QED
      BY <2>4, <3>4, <3>5, <3>6 DEF OnePlace
  <2>8. DismissalsAreSaved'
    BY <2>1, <2>3, <2>4 DEF AlertsInv, DismissalsAreSaved
  <2> QED
    BY <2>6, <2>7, <2>8 DEF AlertsInv
<1>4. ASSUME NEW b \in Browsers, Dismiss(b) PROVE AlertsInv'
  <2>1. /\ saved' = saved \cup {alerts[i].id : i \in Fresh(b)}
        /\ alerts' = [i \in DOMAIN alerts |->
                         [alerts[i] EXCEPT !.dismissed = alerts[i].dismissed \/ i \in Fresh(b)]]
        /\ UNCHANGED <<sending, raised>>
    BY <1>4 DEF Dismiss, Mark
  <2>2. alerts \in Seq(Alert) /\ \A i \in DOMAIN alerts : alerts[i] \in Alert
    BY AlertsHaveIds DEF AlertsInv, AlertTypes
  <2>3. ASSUME NEW i \in DOMAIN alerts
        PROVE  /\ alerts'[i] \in Alert /\ alerts'[i].id = alerts[i].id
               /\ alerts'[i].dismissed => alerts[i].dismissed \/ i \in Fresh(b)
    <3> DEFINE d == alerts[i].dismissed \/ i \in Fresh(b)
    <3>1. alerts'[i] = [alerts[i] EXCEPT !.dismissed = d]
      BY <2>1, Zenon
    <3>2. d \in BOOLEAN
      OBVIOUS
    <3> HIDE DEF d
    <3>3. alerts[i] \in Alert
      BY <2>2
    <3>4. alerts'[i] \in Alert /\ alerts'[i].id = alerts[i].id /\ alerts'[i].dismissed = d
      BY <3>1, <3>2, <3>3 DEF Alert
    <3>5. alerts'[i].dismissed => d
      BY <3>4, Zenon
    <3> QED
      BY <3>4, <3>5, Zenon DEF d
  <2>4. alerts' \in Seq(Alert) /\ DOMAIN alerts' = DOMAIN alerts
    <3>1. DOMAIN alerts' = DOMAIN alerts
      BY <2>1, Zenon
    <3>2. alerts' = [i \in DOMAIN alerts |-> alerts'[i]]
      BY <2>1
    <3> QED
      BY <2>2, <2>3, <3>1, <3>2
  <2>5. AlertTypes' /\ OnePlace'
    <3>1. \A i \in DOMAIN alerts : alerts'[i].id = alerts[i].id
      BY <2>3
    <3>2. UNCHANGED <<raised, sending>>
      BY <2>1
    <3> QED
      BY <2>4, <3>1, <3>2 DEF AlertsInv, AlertTypes, OnePlace
  <2>6. ASSUME NEW i \in DOMAIN alerts, alerts'[i].dismissed PROVE alerts'[i].id \in saved'
    <3>1. CASE i \in Fresh(b)
      <4>1. alerts[i].id \in {alerts[k].id : k \in Fresh(b)}
        BY <3>1
      <4>2. alerts[i].id \in saved'
        BY <2>1, <4>1
      <4>3. alerts'[i].id = alerts[i].id
        BY <2>3
      <4> QED
        BY <4>2, <4>3, Zenon
    <3>2. CASE alerts[i].dismissed
      <4>1. alerts[i].id \in saved
        BY <3>2, Zenon DEF AlertsInv, DismissalsAreSaved
      <4>2. alerts[i].id \in saved'
        BY <2>1, <4>1, Zenon
      <4> QED
        BY <2>3, <4>2, Zenon
    <3> QED
      BY <2>3, <2>6, <3>1, <3>2, Zenon
  <2> QED
    BY <2>4, <2>5, <2>6, Zenon DEF AlertsInv, DismissalsAreSaved
<1>5. ASSUME NEW b \in Browsers, DismissUnsure(b) PROVE AlertsInv'
  BY <1>5 DEF DismissUnsure, AlertsInv, AlertTypes, OnePlace, DismissalsAreSaved
<1>6. ASSUME NEW b \in Browsers, Show(b) PROVE AlertsInv'
  BY <1>6 DEF Show, AlertsInv, AlertTypes, OnePlace, DismissalsAreSaved
<1>7. CASE Restart
  <2>1. alerts' = <<>> /\ sending' = [e \in Emitters |-> Quiet] /\ UNCHANGED <<raised, saved>>
    BY <1>7 DEF Restart
  <2> QED
    BY <2>1 DEF AlertsInv, AlertTypes, OnePlace, DismissalsAreSaved, Quiet
<1>8. CASE UNCHANGED vars
  BY <1>8 DEF vars, view, AlertsInv, AlertTypes, OnePlace, DismissalsAreSaved
<1> QED
  BY <1>1, <1>2, <1>3, <1>4, <1>5, <1>6, <1>7, <1>8 DEF Next

LEMMA AlertsStay == Init /\ [][Next]_vars => [](OnePlace /\ SavedBeforeDismissed)
<1>1. AlertsInv => OnePlace /\ SavedBeforeDismissed
  BY DEF AlertsInv, DismissalsAreSaved, SavedBeforeDismissed, Dismissed
<1> QED
  BY <1>1, AlertsBegin, AlertsStep, PTL

\* An alert is listed at most once, however many tasks deliver and however often the
\* process starts again, and one that is marked as read is named by a saved event,
\* whatever part of the dismissal failed (emit_alert, dismiss_alerts).
THEOREM AlertsAreAccountedFor == Spec => [](OnePlace /\ SavedBeforeDismissed)
  BY AlertsStay, PTL DEF Spec
-----------------------------------------------------------------------------
(* The composition that the run checks.                                    *)

\* A behaviour of the composition is a behaviour of each of its parts.
LEMMA OperatorPartsRunAsAlone ==
  OperatorSpec => /\ Init /\ [][Next]_vars
                  /\ Pages!Spec /\ History!Spec /\ Lineage!Spec /\ Soak!Spec /\ Controls!Spec
<1> DEFINE all == <<vars, pages, history, lineage, soak, controls, focus>>
<1> USE DEF pages, history, lineage, soak, controls
<1>1. OperatorInit => /\ Init /\ Pages!Init /\ History!Init /\ Lineage!Init /\ Soak!Init
                      /\ Controls!Init
  BY DEF OperatorInit
<1>2. [OperatorNext]_all => [Pages!Next]_Pages!vars
  BY DEF OperatorNext, Pages!vars
<1>3. [OperatorNext]_all => [History!Next]_History!vars
  BY DEF OperatorNext, History!vars
<1>4. [OperatorNext]_all => [Lineage!Next]_Lineage!vars
  BY DEF OperatorNext, Lineage!vars
<1>5. [OperatorNext]_all => [Soak!Next]_Soak!vars
  BY DEF OperatorNext, Soak!vars
<1>6. [OperatorNext]_all => [Controls!Next]_Controls!vars
  BY DEF OperatorNext, Controls!vars
<1>7. [OperatorNext]_all => [Next]_vars
  BY DEF OperatorNext
<1> QED
  BY <1>1, <1>2, <1>3, <1>4, <1>5, <1>6, <1>7, PTL
  DEF OperatorSpec, Pages!Spec, History!Spec, Lineage!Spec, Soak!Spec, Controls!Spec

\* Whatever part of the console a behaviour follows, the operator is not misled: pages are
\* no older than what they overlap, walks are exact, lineages whole and passes earned, and who signed out
\* is refused (_refresh_portfolio, _page, _lineage_rows, _day, _authorize); and alerts are
\* listed once and dismissed only with their event (dismiss_alerts).
THEOREM OperatorHolds ==
  OperatorSpec =>
     [](/\ CurrentSinceOverlap /\ WalkIsExact /\ LineageWhole /\ PassIsEarned /\ SignedOutStaysOut
        /\ OnePlace /\ SavedBeforeDismissed)
  BY OperatorPartsRunAsAlone, PagesAreCurrent, WalksAreExact, LineageStaysWhole, PassesAreEarned,
     SignedOutForGood, AlertsStay, PTL
=============================================================================
