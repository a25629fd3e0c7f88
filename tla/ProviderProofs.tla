--------------------------- MODULE ProviderProofs ---------------------------
(***************************************************************************)
(* What stands behind the broker interface, for every number of calls, orders, *)
(* pages and retries: the HTTP client, and what the adapters do with it.       *)
(***************************************************************************)
EXTENDS MCProvider, SequenceTheorems, FiniteSetTheorems, WellFoundedInduction, TLAPS

-----------------------------------------------------------------------------
(* The client.                                                             *)

\* A call that is not over has not been carried out: AppliedOnce alone does not say
\* that a request that is sent again was not carried out before.
NotYetApplied ==
    /\ applied \in [Calls -> Nat] /\ pc \in [Calls -> {"idle", "admit", "acquire", "sent", "sleep"}]
    /\ \A c \in Calls : applied[c] <= IF pc[c] = "idle" THEN 1 ELSE 0

LEMMA CallBegins == Init => NotYetApplied
  BY DEF Init, NotYetApplied

LEMMA CallStep == NotYetApplied /\ [Next]_vars => NotYetApplied'
<1> SUFFICES ASSUME NotYetApplied, [Next]_vars PROVE NotYetApplied'
  OBVIOUS
<1> USE DEF NotYetApplied, call, breaker, bucket, Go
<1>1. ASSUME NEW c \in Calls, Step(c) PROVE NotYetApplied'
  <2>1. CASE Begin(c) \/ Admit(c) \/ CircuitOpen(c) \/ Acquire(c) \/ TryAgain(c)
             \/ RateLimitExceeded(c) \/ BackedOff(c)
    BY <2>1 DEF Begin, Admit, CircuitOpen, Acquire, TryAgain, RateLimitExceeded, BackedOff
  <2>2. CASE Throttled(c) \/ Renew(c)
    BY <2>2 DEF Throttled, Renew, Retried, Carried
  <2>3. ASSUME NEW answer_ \in Answer, Answered(c, answer_) PROVE NotYetApplied'
    BY <2>3 DEF Answered, Carried
  <2> QED
    BY <1>1, <2>1, <2>2, <2>3 DEF Step
<1>2. CASE Healthy \/ Tick \/ UNCHANGED vars
  BY <1>2 DEF Healthy, Tick, vars
<1> QED
  BY <1>1, <1>2 DEF Next

\* A request that changes something at the provider is carried out at most once, for any
\* number of overlapping calls, 429 answers and credential refreshes (request_json,
\* _request_once): only answers that say that it was not carried out are retried.
THEOREM CarriedOutAtMostOnce == Spec => []AppliedOnce
<1>1. NotYetApplied => AppliedOnce
  BY DEF NotYetApplied, AppliedOnce
<1> QED
  BY <1>1, CallBegins, CallStep, PTL DEF Spec

-----------------------------------------------------------------------------
(* Changing an order.                                                      *)
Sized(o) ==
    /\ o = [size |-> o.size, filled |-> o.filled, status |-> o.status]
    /\ o.size \in Nat /\ o.filled \in Nat /\ o.filled <= o.size

AmendmentTypes ==
    /\ Sized(order) /\ Sized(next) /\ target \in Nat /\ Size \in Nat
    /\ held = [status |-> held.status, filled |-> held.filled] /\ held.filled \in Nat

\* The order has never been larger than the larger of the two quantities, and has room
\* while it is live.
OrderBounded ==
    /\ order.size \in {Size, target}
    /\ order.status \in {"open", "cancel_queued", "filled", "canceled"}
    /\ order.status \in {"open", "cancel_queued"} => order.filled < order.size

\* A replacement is posted once, and has room until it is filled.
ReplacementBounded ==
    /\ next.size = 0 => next.status = "none"
    /\ next.size > 0 => next.status # "none" /\ nextCache # "none"
    /\ next.status \in {"open", "underway"} => next.filled < next.size

\* An order that the adapter holds as canceled is canceled at the venue with what it had
\* filled then, and only such an order gets a replacement: its fills are final when the
\* replacement's quantity is computed from them.
ReplacedAfterCancel ==
    /\ held.status = "canceled" => order.status = "canceled" /\ held.filled = order.filled
    /\ edit = "submit" => held.status = "canceled" /\ target > held.filled
    /\ next.size > 0 => order.status = "canceled" /\ next.size + order.filled <= target

AmendmentInv == AmendmentTypes /\ OrderBounded /\ ReplacementBounded /\ ReplacedAfterCancel

LEMMA AmendmentBegins == Amendment!Configured /\ Amendment!Init => AmendmentInv
  BY DEF Amendment!Init, Amendment!Configured, Amendment!Seen, Amendment!Live, AmendmentInv,
         AmendmentTypes, Sized, OrderBounded, ReplacementBounded, ReplacedAfterCancel

LEMMA AmendmentStep ==
  ASSUME CancelIsFinal, AmendmentInv, [Amendment!Next]_Amendment!vars
  PROVE  AmendmentInv'
<1> USE DEF AmendmentInv, AmendmentTypes, Sized, OrderBounded, ReplacementBounded,
            ReplacedAfterCancel, Amendment!fixed, Amendment!atVenue, Amendment!Ends,
            Amendment!Live, Amendment!Terminal
<1>1. CASE Amendment!Execute \/ Amendment!CancelTakes
  <2>1. CASE Amendment!Execute
    <3>1. /\ order'.size = order.size /\ order'.filled = order.filled + 1
          /\ order' = [size |-> order'.size, filled |-> order'.filled, status |-> order'.status]
      BY <2>1 DEF Amendment!Execute
    <3>2. order'.status = IF order.filled + 1 = order.size THEN "filled" ELSE order.status
      BY <2>1 DEF Amendment!Execute
    <3>3. order.filled < order.size /\ UNCHANGED <<target, next, held, nextCache, edit>>
      BY <2>1 DEF Amendment!Execute
    <3>4. AmendmentTypes'
      BY <3>1, <3>3
    <3>5. OrderBounded' /\ ReplacementBounded' /\ ReplacedAfterCancel'
      BY <2>1, <3>1, <3>2, <3>3 DEF Amendment!Execute
    <3> QED
      BY <3>4, <3>5
  <2>2. CASE Amendment!CancelTakes
    BY <2>2 DEF Amendment!CancelTakes
  <2> QED
    BY <1>1, <2>1, <2>2
<1>2. CASE Amendment!ExecuteNext \/ Amendment!ReplacementArrives
  <2>1. CASE Amendment!ExecuteNext
    <3>1. /\ next'.size = next.size /\ next'.filled = next.filled + 1
          /\ next' = [size |-> next'.size, filled |-> next'.filled, status |-> next'.status]
      BY <2>1 DEF Amendment!ExecuteNext
    <3>2. next'.status = IF next.filled + 1 = next.size THEN "filled" ELSE next.status
      BY <2>1 DEF Amendment!ExecuteNext
    <3>3. next.filled < next.size /\ UNCHANGED <<target, order, held, nextCache, edit>>
      BY <2>1 DEF Amendment!ExecuteNext
    <3>4. AmendmentTypes'
      BY <3>1, <3>3
    <3>5. OrderBounded' /\ ReplacementBounded' /\ ReplacedAfterCancel'
      BY <2>1, <3>1, <3>2, <3>3 DEF Amendment!ExecuteNext
    <3> QED
      BY <3>4, <3>5
  <2>2. CASE Amendment!ReplacementArrives
    BY <2>2 DEF Amendment!ReplacementArrives
  <2> QED
    BY <1>2, <2>1, <2>2
<1>3. CASE Amendment!Ask
  BY <1>3 DEF Amendment!Ask, Amendment!Seen
<1>4. CASE \/ Amendment!Settled \/ Amendment!ChoosePath \/ Amendment!EditRefused
           \/ Amendment!CancelRefused \/ Amendment!CancelReadFails \/ Amendment!Refuse
           \/ UNCHANGED Amendment!vars
  BY <1>4 DEF Amendment!Settled, Amendment!ChoosePath, Amendment!EditRefused,
              Amendment!CancelRefused, Amendment!CancelReadFails, Amendment!Refuse, Amendment!vars
<1>5. CASE Amendment!EditTakes
  BY <1>5 DEF Amendment!EditTakes
<1>6. CASE Amendment!EditReadBack \/ Amendment!CancelReadBack \/ Amendment!Poll
  BY <1>6 DEF Amendment!EditReadBack, Amendment!CancelReadBack, Amendment!Poll, Amendment!Seen
<1>7. CASE Amendment!CoinbaseCancelTakes
  BY <1>7 DEF Amendment!CoinbaseCancelTakes
<1>8. CASE Amendment!GeminiCancelTakes
  BY <1>8 DEF Amendment!GeminiCancelTakes
<1>9. CASE Amendment!Replace \/ Amendment!Recovered
  BY <1>9 DEF Amendment!Replace, Amendment!MayReplace, Amendment!Recovered
<1>10. CASE Amendment!PostNext
  <2>1. CASE next.size = 0
    BY <1>10, <2>1 DEF Amendment!PostNext, Amendment!Remaining
  <2>2. CASE next.size > 0
    BY <1>10, <2>2 DEF Amendment!PostNext
  <2> QED
    BY <2>1, <2>2
<1> QED
  BY <1>1, <1>2, <1>3, <1>4, <1>5, <1>6, <1>7, <1>8, <1>9, <1>10 DEF Amendment!Next

\* An order and its replacement never execute more than the new total, for every size,
\* every target and every number of attempts, with lost answers and fills at any moment,
\* when the venue answers a cancel once the order is canceled (edit_order,
\* replacement_quantity).
THEOREM AmendedWithinTotal ==
  ASSUME CancelIsFinal PROVE Amendment!Spec => []WithinTotal
<1>1. Amendment!Configured
  BY ProviderAssumption
<1>2. AmendmentInv => WithinTotal
  BY <1>1 DEF AmendmentInv, AmendmentTypes, Sized, OrderBounded, ReplacedAfterCancel, WithinTotal,
              Amendment!WithinTotal, Amendment!Live, Amendment!Configured
<1>3. AmendmentInv /\ [Amendment!Next]_Amendment!vars => AmendmentInv'
  BY AmendmentStep
<1>4. Amendment!Init => AmendmentInv
  BY <1>1, AmendmentBegins
<1> QED
  BY <1>2, <1>3, <1>4, PTL DEF Amendment!Spec

-----------------------------------------------------------------------------
(* The account listing.                                                    *)

\* The pages of a listing are newer than the last write answered when it began, and a
\* listing is kept until the next write is answered.
ListingKnows ==
    /\ written \in Nat /\ answered \in Nat /\ answered <= written
    /\ reader \in [Tasks -> {"idle", "balances", "positions"}] /\ pages \in [Tasks -> Nat]
    /\ oldest \in [Tasks -> Nat] /\ began \in [Tasks -> Nat] /\ shown \in [Tasks -> Int]
    /\ snapshot \in [at : Int, knows : Int, since : Int, until : Int]
    /\ snapshot # Account!NoSnapshot =>
          snapshot.knows >= snapshot.since /\ snapshot.until = answered
    /\ \A t \in Tasks : reader[t] # "idle" =>
          began[t] <= answered /\ (pages[t] > 0 => oldest[t] >= began[t])
    /\ moment \in Nat

LEMMA ListingBegins == Account!Init => ListingKnows
  BY DEF Account!Init, ListingKnows, Account!NoSnapshot, Account!None

LEMMA ListingStep ==
  ASSUME Account!Configured, ListingKnows, [Account!Next]_Account!vars
  PROVE  ListingKnows'
<1> USE DEF ListingKnows, Account!Configured
<1>1. CASE UNCHANGED Account!vars \/ Account!Tick
  BY <1>1 DEF Account!vars, Account!Tick
<1>2. ASSUME NEW t \in Tasks, Account!Write(t) \/ Account!WriteAnswered(t)
      PROVE  ListingKnows'
  BY <1>2 DEF Account!Write, Account!WriteAnswered, Account!NoSnapshot, Account!None
<1>3. ASSUME NEW t \in Tasks, Account!GetBalances(t) \/ Account!PositionsListed(t)
      PROVE  ListingKnows'
  BY <1>3 DEF Account!GetBalances, Account!PositionsListed, Account!List
<1>4. ASSUME NEW t \in Tasks, Account!PositionsReused(t) \/ Account!ListingFails(t)
      PROVE  ListingKnows'
  BY <1>4 DEF Account!PositionsReused, Account!ListingFails
<1>5. ASSUME NEW t \in Tasks, Account!ReadPage(t)
      PROVE  ListingKnows'
  BY <1>5 DEF Account!ReadPage
<1>6. ASSUME NEW t \in Tasks, Account!Listed(t)
      PROVE  ListingKnows'
  BY <1>6 DEF Account!Listed
<1> QED
  BY <1>1, <1>2, <1>3, <1>4, <1>5, <1>6 DEF Account!Next

\* Positions know of every order write answered before their listing began, and no write
\* was answered since it ended, for any number of tasks that list and write at once, every
\* length of the listing and of its freshness (get_positions, _private).
THEOREM PositionsKnowWrites == Account!Spec => WritesSeen
<1> DEFINE Known == \A t \in Tasks : shown'[t] \notin {shown[t], Account!None} =>
                       shown'[t] >= snapshot'.since /\ snapshot'.until = answered
<1>1. Account!Configured
  BY ProviderAssumption
<1>2. ListingKnows /\ [Account!Next]_Account!vars => ListingKnows'
  BY <1>1, ListingStep
<1>3. ListingKnows /\ [Account!Next]_Account!vars => [Known]_Account!vars
  <2> SUFFICES ASSUME ListingKnows, Account!Next, NEW t \in Tasks,
                      shown'[t] \notin {shown[t], Account!None}
               PROVE  shown'[t] >= snapshot'.since /\ snapshot'.until = answered
    OBVIOUS
  <2>1. ASSUME NEW u \in Tasks, Account!PositionsReused(u)
        PROVE  shown'[t] >= snapshot'.since /\ snapshot'.until = answered
    BY <2>1 DEF Account!PositionsReused, Account!Reusable, ListingKnows
  <2>2. ASSUME NEW u \in Tasks, Account!Listed(u)
        PROVE  shown'[t] >= snapshot'.since /\ snapshot'.until = answered
    BY <1>1, <2>2 DEF Account!Listed, Account!Configured, ListingKnows
  <2>3. ASSUME NEW u \in Tasks,
               \/ Account!Write(u) \/ Account!WriteAnswered(u) \/ Account!GetBalances(u)
               \/ Account!PositionsListed(u) \/ Account!ReadPage(u) \/ Account!ListingFails(u)
        PROVE  shown'[t] \in {shown[t], Account!None}
    BY <2>3 DEF Account!Write, Account!WriteAnswered, Account!GetBalances,
                Account!PositionsListed, Account!ReadPage, Account!ListingFails
  <2>4. Account!Tick => shown' = shown
    BY DEF Account!Tick
  <2> QED
    BY <2>1, <2>2, <2>3, <2>4 DEF Account!Next
<1> QED
  BY <1>2, <1>3, ListingBegins, PTL DEF Account!Spec, WritesSeen, Account!WritesSeen

-----------------------------------------------------------------------------
(* The check of the sandbox.                                               *)

\* Every order at the venue is still to be cleaned up, reported or one whose answer was
\* lost, and what is reported or lost makes the run fail.
NothingOverlooked ==
    /\ venue \in [Probe!Placed -> Probe!AtVenue \cup {"none", "underway", "done"}]
    /\ \A o \in Probe!Placed : venue[o] \in Probe!AtVenue => o \in resting \cup left \cup lost
    /\ \A o \in Probe!Placed : venue[o] = "underway" => o \in lost
    /\ lost # {} => "fail" \in results
    /\ stage = "end" => resting = {} /\ (left # {} => "fail" \in results)

LEMMA ProbeBegins == Probe!Init => NothingOverlooked
  BY DEF Probe!Init, NothingOverlooked, Probe!AtVenue

\* No step goes straight to the end: the last one is followed by the cleanup.
LEMMA StepsLeadToCleanup ==
  ASSUME NEW s \in {"funded", "details", "market", "rest", "undersized", "loop"}
  PROVE  Probe!AfterStep(s) # "end"
<1> DEFINE i == CHOOSE i \in DOMAIN Probe!Steps : Probe!Steps[i] = s
<1>1. DOMAIN Probe!Steps = 1 .. 12
  BY DEF Probe!Steps
<1>2. \E k \in 1 .. 12 : Probe!Steps[k] = s
  BY DEF Probe!Steps
<1>3. i \in 1 .. 12 /\ Probe!Steps[i] = s
  BY <1>1, <1>2
<1>4. i # 12
  BY <1>3 DEF Probe!Steps
<1>5. \A k \in 1 .. 12 : Probe!Steps[k] # "end"
  BY DEF Probe!Steps
<1>6. Probe!AfterStep(s) = Probe!Steps[i + 1]
  BY DEF Probe!AfterStep
<1> HIDE DEF i
<1> QED
  BY <1>3, <1>4, <1>5, <1>6

LEMMA ProbeStep ==
  ASSUME CancelIsFinal, NothingOverlooked, [Probe!Next]_Probe!vars
  PROVE  NothingOverlooked'
<1> USE DEF NothingOverlooked, Probe!AtVenue, Probe!Goes, Probe!Reports, Probe!CancelOf
<1>1. CASE UNCHANGED Probe!vars
  BY <1>1 DEF Probe!vars
<1>2. CASE Probe!Stopped \/ Probe!NotReady \/ Probe!PartialSkipped \/ Probe!Recover
           \/ Probe!NothingPartial
  BY <1>2 DEF Probe!Stopped, Probe!NotReady, Probe!PartialSkipped, Probe!Recover,
              Probe!NothingPartial
<1>3. ASSUME NEW s \in {"funded", "details", "market", "loop"}, NEW r, Probe!Plain(s, r)
      PROVE  NothingOverlooked'
  BY <1>3, StepsLeadToCleanup DEF Probe!Plain
<1>4. CASE Probe!FundedQuote \/ \E r \in Probe!Results :
              Probe!SymbolDetails(r) \/ Probe!CappedMarketOrder(r) \/ Probe!TradingLoop(r)
  BY <1>3, <1>4 DEF Probe!FundedQuote, Probe!SymbolDetails, Probe!CappedMarketOrder,
                    Probe!TradingLoop
<1>5. CASE Probe!CancelRest \/ Probe!CancelPartial
  BY <1>5 DEF Probe!CancelRest, Probe!CancelPartial, Probe!Placed
<1>6. ASSUME NEW canceled \in BOOLEAN, Probe!ConfirmRest(canceled)
      PROVE  NothingOverlooked'
  BY <1>6 DEF Probe!ConfirmRest
<1>7. CASE Probe!Ends
  BY <1>7 DEF Probe!Ends
<1>8. ASSUME NEW o \in Probe!Placed, Probe!Fills(o) \/ Probe!Arrives(o)
      PROVE  NothingOverlooked'
  BY <1>8 DEF Probe!Fills, Probe!Arrives
<1>9. ASSUME NEW o \in Probe!Placed,
             Probe!Rests(o) \/ Probe!FillsAtOnce(o) \/ Probe!Rejected(o) \/ Probe!AnswerLost(o)
      PROVE  NothingOverlooked'
  <2>1. Probe!After(o) # "end"
    BY StepsLeadToCleanup DEF Probe!After, Probe!Placed
  <2> QED
    BY <1>9, <2>1 DEF Probe!Rests, Probe!FillsAtOnce, Probe!Rejected, Probe!AnswerLost
<1>10. ASSUME NEW o \in Probe!Placed,
              Probe!CleansSettled(o) \/ Probe!CleansLive(o) \/ Probe!CleanFails(o)
       PROVE  NothingOverlooked'
  BY <1>10 DEF Probe!CleansSettled, Probe!CleansLive, Probe!CleanFails
<1> QED
  BY <1>1, <1>2, <1>4, <1>5, <1>6, <1>7, <1>8, <1>9, <1>10 DEF Probe!Next

\* However its steps stop, and whatever the request budget, the sandbox check reports what
\* it leaves at the venue, and leaves nothing when it passes, when the venue answers a
\* cancel once the order is canceled (_cancel_leftovers).
THEOREM SandboxLeftClean ==
  ASSUME CancelIsFinal PROVE Probe!Spec => []LeavesNothing
<1>1. NothingOverlooked /\ [Probe!Next]_Probe!vars => NothingOverlooked'
  BY ProbeStep
<1>2. NothingOverlooked => LeavesNothing
  BY DEF NothingOverlooked, LeavesNothing, Probe!LeavesNothing, Probe!Outcome, Probe!AtVenue
<1> QED
  BY <1>1, <1>2, ProbeBegins, PTL DEF Probe!Spec

-----------------------------------------------------------------------------
(* Finding an order.                                                       *)

\* Every set of numbers that is not empty has a least one, and the greatest row of a
\* listing exists: what the cursor of the next page is taken from.
LEMMA LeastNumber ==
  ASSUME NEW S, S \subseteq Nat, S # {}
  PROVE  \E m \in S : \A n \in S : m <= n
<1>1. PICK m \in S : \A n \in S : <<n, m>> \notin OpToRel(<, Nat)
  BY WFMin, NatLessThanWellFounded
<1>2. \A n \in S : ~(n < m)
  BY <1>1 DEF OpToRel
<1> QED
  BY <1>2

LEMMA GreatestNumber ==
  ASSUME NEW n \in Int, NEW S, S \subseteq 1 .. n, S # {}
  PROVE  \E m \in S : \A k \in S : k <= m
<1> DEFINE T == {n - k : k \in S}
<1>1. T \subseteq Nat /\ T # {}
  <2>1. ASSUME NEW k \in S PROVE n - k \in Nat
    <3>1. k \in 1 .. n
      OBVIOUS
    <3> QED
      BY <3>1
  <2>2. T # {}
    OBVIOUS
  <2> QED
    BY <2>1, <2>2
<1>2. PICK t \in T : \A u \in T : t <= u
  BY <1>1, LeastNumber
<1>3. PICK m \in S : t = n - m
  OBVIOUS
<1>4. ASSUME NEW k \in S PROVE k <= m
  <2>1. n - m <= n - k
    BY <1>2, <1>3
  <2> QED
    BY <2>1
<1> QED
  BY <1>4

SearchTypes ==
    /\ clock \in Nat /\ savedAt \in Int /\ savedAt >= -1 /\ savedAt <= clock
    /\ listed \in Seq([id : Others \cup {"mine"}, at : Int])
    /\ search = [pages |-> search.pages, since |-> search.since, cursor |-> search.cursor,
                 there |-> search.there]
    /\ search.pages \in Nat /\ search.since \in Int /\ search.cursor \in Int

\* The order is listed at a moment of the venue's clock after the row was saved.
ListedAfterSave ==
    /\ wire # "none" => savedAt # -1
    /\ \A i \in DOMAIN listed :
          listed[i].id = "mine" => wire = "arrived" /\ listed[i].at >= savedAt - Skew

\* An order that was there when the search began is in the rows still to be read.
StillAhead ==
    search # Search!NoSearch =>
        /\ search.pages > 0
        /\ search.there => \E i \in DOMAIN listed :
              /\ listed[i].id = "mine" /\ listed[i].at >= search.since
              /\ search.pages = 1 \/ i < search.cursor

\* What is held or was answered as settled is settled so at the venue.
SettledAlike ==
    /\ status \in {"open", "filled", "canceled"}
    /\ cache \in {"filled", "canceled"} => status = cache
    /\ answer \in {"filled", "canceled"} => status = answer

SearchInv == SearchTypes /\ ListedAfterSave /\ StillAhead /\ SettledAlike

LEMMA SearchBegins == Search!Init => SearchInv
  BY DEF Search!Init, Search!Never, Search!NoSearch, SearchInv, SearchTypes, ListedAfterSave,
         StillAhead, SettledAlike

\* The rows of a page are the newest of those ahead, and the cursor leaves all others
\* ahead.
LEMMA PagesLeaveNoGap ==
  ASSUME PageLimit \in Nat, SearchTypes, NEW i \in Search!Beyond
  PROVE  i < Search!Least(Search!OnPage) /\ Search!Least(Search!OnPage) \in Int
<1> DEFINE from == IF search.pages = 1 THEN Len(listed) ELSE search.cursor - 1
<1>1. from \in Int
  BY DEF SearchTypes
<1>2. Search!Rest \subseteq 1 .. from
  BY DEF Search!Rest
<1> HIDE DEF from
<1>3. i \in Search!Rest
  BY DEF Search!Beyond
<1>4. PICK m \in Search!Rest : \A k \in Search!Rest : k <= m
  BY <1>1, <1>2, <1>3, GreatestNumber
<1>5. m \in Search!OnPage
  BY <1>1, <1>2, <1>4 DEF Search!OnPage
<1>6. Search!OnPage \subseteq Nat /\ Search!OnPage # {}
  <2>1. Search!OnPage \subseteq 1 .. from
    BY <1>2 DEF Search!OnPage
  <2>2. 1 .. from \subseteq Nat
    BY <1>1
  <2> QED
    BY <1>5, <2>1, <2>2
<1>7. \E l \in Search!OnPage : \A k \in Search!OnPage : l <= k
  BY <1>6, LeastNumber
<1>8. Search!Least(Search!OnPage) \in Search!OnPage
  BY <1>7 DEF Search!Least
<1>9. ASSUME NEW k \in Search!OnPage PROVE i < k
  <2>1. PICK j \in Search!Rest : j > i /\ ~(j - i < PageLimit)
    BY <1>3 DEF Search!Beyond, Search!OnPage
  <2>2. k \in Search!Rest /\ (j > k => j - k < PageLimit)
    BY <1>9, <2>1 DEF Search!OnPage
  <2> QED
    BY <1>1, <1>2, <1>3, <2>1, <2>2
<1>10. Search!OnPage \subseteq Int
  BY <1>6
<1> QED
  BY <1>8, <1>9, <1>10

\* A search that reads on to its end finds an order that was there when it began.
LEMMA AheadIsFound ==
  ASSUME SearchInv, search # Search!NoSearch, search.there, ~Search!OnThisPage
  PROVE  \E i \in Search!Beyond \cap DOMAIN listed :
            listed[i].id = "mine" /\ listed[i].at >= search.since
<1>1. PICK i \in DOMAIN listed :
            /\ listed[i].id = "mine" /\ listed[i].at >= search.since
            /\ search.pages = 1 \/ i < search.cursor
  BY DEF SearchInv, StillAhead
<1>2. i \in Search!Rest
  <2>1. DOMAIN listed = 1 .. Len(listed) /\ Len(listed) \in Nat /\ search.cursor \in Int
    BY DEF SearchInv, SearchTypes
  <2> QED
    BY <1>1, <2>1 DEF Search!Rest
<1> QED
  BY <1>1, <1>2 DEF Search!OnThisPage, Search!Beyond

\* The venue lists one more order, with the search under way as it was.
LEMMA ListedKeeps ==
  ASSUME SearchInv, Skew \in Nat, NEW id \in Others \cup {"mine"}, Search!Listed(id),
         id = "mine" => wire' = "arrived" /\ savedAt # -1,
         wire' \in {wire, "arrived"}, wire = "arrived" => wire' = "arrived",
         wire = "none" /\ id # "mine" => wire' = "none", savedAt # -1 \/ wire' = wire,
         cache' \in {cache, "open"},
         UNCHANGED <<clock, savedAt, status, search, answer>>
  PROVE  SearchInv'
<1> DEFINE row == [id |-> id, at |-> clock - Skew]
<1>1. listed' = Append(listed, row) /\ row \in [id : Others \cup {"mine"}, at : Int]
      /\ listed \in Seq([id : Others \cup {"mine"}, at : Int])
  BY DEF Search!Listed, SearchInv, SearchTypes
<1>2. /\ listed' \in Seq([id : Others \cup {"mine"}, at : Int])
      /\ DOMAIN listed' = 1 .. Len(listed) + 1 /\ DOMAIN listed = 1 .. Len(listed)
      /\ \A i \in DOMAIN listed : listed'[i] = listed[i]
      /\ listed'[Len(listed) + 1] = row /\ Len(listed) \in Nat
  BY <1>1
<1> HIDE DEF row
<1>3. SearchTypes'
  BY <1>2 DEF SearchInv, SearchTypes
<1>4. ListedAfterSave'
  <2>1. ASSUME NEW i \in DOMAIN listed', listed'[i].id = "mine"
        PROVE  wire' = "arrived" /\ listed'[i].at >= savedAt - Skew
    <3>1. CASE i \in DOMAIN listed
      BY <1>2, <2>1, <3>1 DEF SearchInv, ListedAfterSave
    <3>2. CASE i = Len(listed) + 1
      <4>1. row.id = id /\ row.at = clock - Skew
        BY DEF row
      <4>2. clock \in Nat /\ savedAt \in Int /\ savedAt <= clock
        BY DEF SearchInv, SearchTypes
      <4> QED
        BY <1>2, <2>1, <3>2, <4>1, <4>2
    <3> QED
      BY <1>2, <3>1, <3>2
  <2> QED
    BY <2>1 DEF SearchInv, ListedAfterSave
<1>5. StillAhead' /\ SettledAlike'
  <2>1. StillAhead'
    BY <1>2 DEF SearchInv, StillAhead
  <2>2. SettledAlike'
    BY DEF SearchInv, SettledAlike
  <2> QED
    BY <2>1, <2>2
<1> QED
  BY <1>3, <1>4, <1>5 DEF SearchInv

\* A search ends: nothing is ahead of it any more.
LEMMA EndsKeep ==
  ASSUME SearchInv, search' = Search!NoSearch,
         cache' \in {cache, status, "none"}, answer' \in {answer, cache, status, "none", "failed", "unasked"},
         UNCHANGED <<clock, savedAt, wire, listed, status>>
  PROVE  SearchInv'
  BY DEF SearchInv, SearchTypes, ListedAfterSave, StillAhead, SettledAlike, Search!NoSearch,
         Search!Never

LEMMA SearchStep ==
  ASSUME Search!Configured, SearchInv, [Search!Next]_Search!vars
  PROVE  SearchInv'
<1>0. Skew \in Nat /\ Margin \in Nat /\ Skew <= Margin /\ PageLimit \in Nat
      /\ "mine" \notin Others
  BY DEF Search!Configured
<1> USE <1>0 DEF Search!venue, Search!adapter
<1>1. CASE UNCHANGED Search!vars \/ Search!Tick
  <2>1. /\ UNCHANGED <<savedAt, wire, listed, status, cache, search, answer>>
        /\ clock' = clock \/ clock' = clock + 1
    BY <1>1 DEF Search!vars, Search!Tick
  <2>2. SearchTypes'
    <3>0. clock \in Nat /\ savedAt \in Int /\ savedAt >= -1 /\ savedAt <= clock
      BY DEF SearchInv, SearchTypes
    <3>1. clock' \in Nat /\ savedAt \in Int /\ savedAt >= -1 /\ savedAt <= clock'
      BY <2>1, <3>0
    <3>2. UNCHANGED <<savedAt, listed, search>>
      BY <2>1
    <3> QED
      BY <3>1, <3>2, Zenon DEF SearchInv, SearchTypes
  <2>3. ListedAfterSave' /\ StillAhead'
    BY <2>1 DEF SearchInv, ListedAfterSave, StillAhead, Search!NoSearch
  <2>4. SettledAlike'
    BY <2>1 DEF SearchInv, SettledAlike
  <2> QED
    BY <2>2, <2>3, <2>4 DEF SearchInv
<1>2. CASE Search!Save
  <2>1. savedAt = -1 /\ savedAt' = clock
        /\ UNCHANGED <<clock, wire, listed, status, cache, search, answer>>
    BY <1>2 DEF Search!Save, Search!Never
  <2> QED
    BY <2>1 DEF SearchInv, SearchTypes, ListedAfterSave, StillAhead, SettledAlike
<1>3. CASE Search!SubmitTimesOut
  BY <1>3 DEF Search!SubmitTimesOut, Search!Never, SearchInv, SearchTypes, ListedAfterSave,
              StillAhead, SettledAlike
<1>4. ASSUME NEW s \in Search!Terminal, Search!Settle(s)
      PROVE  SearchInv'
  BY <1>4 DEF Search!Settle, Search!Terminal, SearchInv, SearchTypes, ListedAfterSave, StillAhead,
              SettledAlike
<1>5. CASE Search!Arrive \/ Search!SubmitAcknowledged \/ \E o \in Others : Search!OtherOrder(o)
  <2>1. CASE Search!Arrive
    BY <2>1, ListedKeeps DEF Search!Arrive, SearchInv, ListedAfterSave
  <2>2. CASE Search!SubmitAcknowledged
    BY <2>2, ListedKeeps DEF Search!SubmitAcknowledged, Search!Never
  <2>3. ASSUME NEW o \in Others, Search!OtherOrder(o) PROVE SearchInv'
    BY <2>3, ListedKeeps DEF Search!OtherOrder
  <2> QED
    BY <1>5, <2>1, <2>2, <2>3
<1>6. CASE Search!Restart
  BY <1>6, EndsKeep DEF Search!Restart
<1>7. CASE Search!Cached
  BY <1>7 DEF Search!Cached, SearchInv, SearchTypes, ListedAfterSave, StillAhead, SettledAlike
<1>8. CASE Search!Lookup \/ Search!LookupFails \/ Search!PageFinds \/ Search!PageEnds
           \/ Search!CutShort \/ Search!PageFails
  BY <1>8, EndsKeep DEF Search!Lookup, Search!LookupFails, Search!PageFinds, Search!PageEnds,
       Search!CutShort, Search!PageFails, Search!Found, Search!Absent, Search!Failed
<1>9. ASSUME NEW readable \in BOOLEAN, Search!Begin(readable)
      PROVE  SearchInv'
  <2> DEFINE since == IF readable THEN savedAt - Margin ELSE -1 - Skew
  <2>1. /\ search' = [pages |-> 1, since |-> since, cursor |-> 0, there |-> Search!There]
        /\ UNCHANGED <<clock, savedAt, wire, listed, status, cache>> /\ answer' = "searching"
    BY <1>9 DEF Search!Begin, Search!Never
  <2>2. since \in Int /\ \A n \in Int : n >= savedAt - Skew => n >= since
    BY DEF SearchInv, SearchTypes
  <2> HIDE DEF since
  <2>4. SearchTypes' /\ ListedAfterSave' /\ SettledAlike'
    BY <2>1, <2>2 DEF SearchInv, SearchTypes, ListedAfterSave, SettledAlike
  <2>5. StillAhead'
    <3>1. ASSUME NEW i \in DOMAIN listed PROVE listed[i].at \in Int
      <4>1. listed \in Seq([id : Others \cup {"mine"}, at : Int]) /\ i \in 1 .. Len(listed)
        BY DEF SearchInv, SearchTypes
      <4>2. listed[i] \in [id : Others \cup {"mine"}, at : Int]
        BY <4>1, ElementOfSeq
      <4> QED
        BY <4>2
    <3>2. \A i \in DOMAIN listed : listed[i].id = "mine" => listed[i].at >= since
      BY <2>2, <3>1 DEF SearchInv, ListedAfterSave
    <3> QED
      BY <2>1, <3>2 DEF StillAhead, Search!There
  <2> QED
    BY <2>4, <2>5 DEF SearchInv
<1>10. CASE Search!PageGoesOn
  <2>1. /\ search # Search!NoSearch /\ ~Search!OnThisPage
        /\ search' = [search EXCEPT !.pages = @ + 1, !.cursor = Search!Least(Search!OnPage)]
        /\ UNCHANGED <<clock, savedAt, wire, listed, status, cache, answer>>
    BY <1>10 DEF Search!PageGoesOn
  <2>2. PICK k : k \in Search!Beyond
    BY <1>10 DEF Search!PageGoesOn
  <2>3. Search!Least(Search!OnPage) \in Int
        /\ \A i \in Search!Beyond : i < Search!Least(Search!OnPage)
    BY <2>2, PagesLeaveNoGap DEF SearchInv
  <2>4. SearchTypes' /\ ListedAfterSave' /\ SettledAlike'
    <3>1. search' = [pages |-> search.pages + 1, since |-> search.since,
                     cursor |-> Search!Least(Search!OnPage), there |-> search.there]
      BY <2>1 DEF SearchInv, SearchTypes
    <3>2. ListedAfterSave' /\ SettledAlike'
      BY <2>1 DEF SearchInv, ListedAfterSave, SettledAlike
    <3>3. search'.pages = search.pages + 1 /\ search'.since = search.since
          /\ search'.cursor = Search!Least(Search!OnPage) /\ search'.there = search.there
      BY <3>1
    <3>4. search' = [pages |-> search'.pages, since |-> search'.since, cursor |-> search'.cursor,
                     there |-> search'.there]
      BY <3>1
    <3>5. search'.pages \in Nat /\ search'.since \in Int /\ search'.cursor \in Int
      BY <2>3, <3>3 DEF SearchInv, SearchTypes
    <3> QED
      BY <2>1, <3>2, <3>4, <3>5 DEF SearchInv, SearchTypes
  <2>5. StillAhead'
    <3>1. search'.pages = search.pages + 1 /\ search'.there = search.there
          /\ search'.since = search.since /\ search'.cursor = Search!Least(Search!OnPage)
      BY <2>1 DEF SearchInv, SearchTypes
    <3> QED
      BY <2>1, <2>3, <3>1, AheadIsFound DEF SearchInv, SearchTypes, StillAhead
  <2> QED
    BY <2>4, <2>5 DEF SearchInv
<1> QED
  BY <1>1, <1>2, <1>3, <1>4, <1>5, <1>6, <1>7, <1>8, <1>9, <1>10 DEF Search!Next

\* An adapter says that there is no such order only if the venue did not have it when it
\* was asked, and answers with a settlement only as the venue made it: for every number of
\* orders of others, page size, page budget and search margin that covers the skew of the
\* two clocks, with requests that arrive late and restarts (get_order,
\* _find_by_client_order_id).
THEOREM SearchAnswersHold == Search!Spec => AnswersHold
<1> DEFINE Ruled == answer' = "none" /\ answer # "none" =>
                        IF search # Search!NoSearch THEN ~search.there ELSE ~Search!There
           Alike == answer' \in Search!Terminal => answer' = status
<1>1. Search!Configured
  BY ProviderAssumption
<1>2. SearchInv /\ [Search!Next]_Search!vars => SearchInv'
  BY <1>1, SearchStep
<1>3. SearchInv /\ [Search!Next]_Search!vars => [Ruled /\ Alike]_Search!vars
  <2> SUFFICES ASSUME SearchInv, Search!Next PROVE Ruled /\ Alike
    OBVIOUS
  <2>1. CASE answer' = answer
    BY <2>1 DEF SearchInv, SettledAlike, Search!Terminal
  <2>2. CASE Search!Lookup
    BY <2>2 DEF Search!Lookup, Search!Asked, Search!Found, Search!Absent, Search!Terminal,
                SearchInv, SettledAlike
  <2>3. CASE Search!PageFinds
    BY <2>3 DEF Search!PageFinds, Search!Found, SearchInv, SettledAlike
  <2>4. CASE Search!PageEnds
    BY <2>4, AheadIsFound DEF Search!PageEnds, Search!Absent, Search!Terminal
  <2>5. CASE Search!Cached
    BY <2>5 DEF Search!Cached, SearchInv, SettledAlike, Search!Terminal
  <2>6. CASE answer' \in {"failed", "searching", "unasked"}
    BY <2>6 DEF Search!Terminal
  <2> QED
    BY <2>1, <2>2, <2>3, <2>4, <2>5, <2>6
    DEF Search!Next, Search!Tick, Search!Arrive, Search!Save, Search!Restart,
        Search!SubmitAcknowledged, Search!SubmitTimesOut, Search!OtherOrder, Search!Settle,
        Search!LookupFails, Search!Begin, Search!PageGoesOn, Search!CutShort, Search!PageFails,
        Search!Failed
<1> QED
  BY <1>2, <1>3, SearchBegins, PTL DEF Search!Spec, AnswersHold, Search!AnswersHold

-----------------------------------------------------------------------------
(* The rate.                                                               *)

\* The equation of SentWithin: the sum of what was sent in each tick up to w ticks ago.
SumsBack(f, sum) == sum = [w \in 0 .. Span |-> IF w = 0 THEN f[0] ELSE f[w] + sum[w - 1]]

LEMMA SpanIsNumber == Span \in Nat /\ Span >= 2 /\ Capacity \in Nat
  BY CountsAssumption DEF Span

\* There are such sums, on the ticks up to n ago for every n.
LEMMA SumsBackExist == ASSUME NEW f PROVE \E sum : SumsBack(f, sum)
<1> DEFINE Part(n, sum) == sum = [w \in 0 .. n |-> IF w = 0 THEN f[0] ELSE f[w] + sum[w - 1]]
           without == {n \in Nat : ~ \E sum : Part(n, sum)}
<1>1. \A n \in Nat : \E sum : Part(n, sum)
  <2> SUFFICES ASSUME without # {} PROVE FALSE
    OBVIOUS
  <2>1. PICK n \in without : \A k \in without : n <= k
    BY LeastNumber
  <2>2. n \in Nat /\ ~ \E sum : Part(n, sum)
    OBVIOUS
  <2>3. CASE n = 0
    <3> DEFINE sum == [w \in 0 .. 0 |-> f[0]]
    <3>1. \A w \in 0 .. 0 : w = 0
      OBVIOUS
    <3>2. Part(0, sum)
      BY <3>1
    <3> QED
      BY <2>2, <2>3, <3>2
  <2>4. CASE n # 0
    <3>1. n - 1 \in Nat /\ n - 1 \notin without
      <4> HIDE DEF without
      <4> QED
        BY <2>1, <2>2, <2>4
    <3>2. PICK less : Part(n - 1, less)
      BY <3>1
    <3> DEFINE sum == [w \in 0 .. n |-> IF w = 0 THEN f[0] ELSE f[w] + less[w - 1]]
    <3>3. ASSUME NEW w \in 0 .. n, w # 0 PROVE sum[w - 1] = less[w - 1]
      <4>1. w - 1 \in 0 .. n /\ w - 1 \in 0 .. n - 1
        BY <2>2, <3>3
      <4>2. less[w - 1] = IF w - 1 = 0 THEN f[0] ELSE f[w - 1] + less[w - 1 - 1]
        BY <3>2, <4>1
      <4>3. sum[w - 1] = IF w - 1 = 0 THEN f[0] ELSE f[w - 1] + less[w - 1 - 1]
        BY <4>1
      <4> QED
        BY <4>2, <4>3
    <3>4. Part(n, sum)
      BY <3>3
    <3> QED
      BY <2>2, <3>4
  <2> QED
    BY <2>3, <2>4
<1> QED
  BY <1>1, SpanIsNumber DEF SumsBack

\* Sums of members of a set that addition does not leave are members of it.
Closed(S) == S \subseteq Nat /\ \A x, y \in S : x + y \in S

LEMMA NumbersAreClosed == Closed(Nat) /\ Closed({0})
  BY DEF Closed

LEMMA SumsBackStay ==
  ASSUME NEW S, Closed(S), NEW f \in [0 .. Span -> S], NEW sum, SumsBack(f, sum)
  PROVE  sum \in [0 .. Span -> S]
<1> DEFINE wrong == {w \in 0 .. Span : sum[w] \notin S}
<1>1. wrong = {}
  <2> SUFFICES ASSUME wrong # {} PROVE FALSE
    OBVIOUS
  <2>1. PICK w \in wrong : \A k \in wrong : w <= k
    <3>1. wrong \subseteq Nat
      BY SpanIsNumber
    <3> QED
      BY <3>1, LeastNumber
  <2>2. w \in 0 .. Span /\ sum[w] \notin S
    OBVIOUS
  <2>3. w # 0
    BY <2>2, SpanIsNumber DEF SumsBack
  <2>4. w - 1 \in 0 .. Span /\ w - 1 \notin wrong
    <3>1. w - 1 \in 0 .. Span /\ ~(w <= w - 1)
      BY <2>2, <2>3, SpanIsNumber
    <3> HIDE DEF wrong
    <3> QED
      BY <2>1, <3>1
  <2>5. sum[w - 1] \in S /\ f[w] \in S
    BY <2>2, <2>4
  <2>6. sum[w] = f[w] + sum[w - 1]
    BY <2>2, <2>3 DEF SumsBack
  <2> QED
    BY <2>2, <2>5, <2>6 DEF Closed
<1> QED
  BY <1>1 DEF SumsBack

\* Whatever was sent up to w ticks ago, and may be sent now, came from a full bucket and
\* the w tokens added since.
WithinRate ==
    \A sum : SumsBack(sends, sum) => \A w \in 0 .. Span : sum[w] + Refilled <= Capacity + w
RateInv ==
    sends \in [0 .. Span -> Nat] /\ tokens \in 0 .. Capacity /\ idle \in 0 .. Capacity /\ WithinRate

LEMMA RefilledIsNumber ==
  ASSUME tokens \in 0 .. Capacity, idle \in 0 .. Capacity
  PROVE  Refilled \in 0 .. Capacity
  BY SpanIsNumber DEF Refilled, Least

LEMMA RateBegins == Init => RateInv
<1> SUFFICES ASSUME Init PROVE RateInv
  OBVIOUS
<1>1. /\ sends = [w \in 0 .. Span |-> 0] /\ tokens = Capacity /\ idle = 0
      /\ Refilled = Capacity
  BY SpanIsNumber DEF Init, Refilled, Least
<1>2. ASSUME NEW sum, SumsBack(sends, sum), NEW w \in 0 .. Span
      PROVE  sum[w] + Refilled <= Capacity + w
  <2>1. sends \in [0 .. Span -> {0}]
    BY <1>1
  <2>2. sum \in [0 .. Span -> {0}]
    BY <1>2, <2>1, SumsBackStay, NumbersAreClosed
  <2> QED
    BY <1>1, <2>2, SpanIsNumber
<1> QED
  BY <1>1, <1>2, SpanIsNumber DEF RateInv, WithinRate

\* A send takes a token.
LEMMA AcquireKeepsRate ==
  ASSUME RateInv, NEW c \in Calls, Acquire(c) PROVE RateInv'
<1>1. /\ sends \in [0 .. Span -> Nat] /\ Refilled \in 1 .. Capacity
      /\ sends' = [sends EXCEPT ![0] = sends[0] + 1]
      /\ tokens' = Refilled - 1 /\ idle' = 0
  BY RefilledIsNumber, SpanIsNumber DEF Acquire, RateInv
<1>2. /\ sends' \in [0 .. Span -> Nat] /\ tokens' \in 0 .. Capacity /\ idle' \in 0 .. Capacity
      /\ Refilled' = Refilled - 1
  <2>1. sends' \in [0 .. Span -> Nat]
    BY <1>1, SpanIsNumber
  <2>2. Refilled' = IF Capacity < tokens' + idle' THEN Capacity ELSE tokens' + idle'
    BY DEF Refilled, Least
  <2>3. tokens' \in 0 .. Capacity /\ tokens' + idle' = Refilled - 1 /\ idle' \in 0 .. Capacity
    BY <1>1, SpanIsNumber
  <2> QED
    BY <1>1, <2>1, <2>2, <2>3, SpanIsNumber
<1>3. ASSUME NEW sum, SumsBack(sends', sum), NEW w \in 0 .. Span
      PROVE  sum[w] + Refilled' <= Capacity + w
  <2> DEFINE less == [k \in 0 .. Span |-> sum[k] - 1]
  <2>1. sum \in [0 .. Span -> Nat]
    BY <1>2, <1>3, SumsBackStay, NumbersAreClosed
  <2>2. ASSUME NEW k \in 0 .. Span
        PROVE  less[k] = IF k = 0 THEN sends[0] ELSE sends[k] + less[k - 1]
    <3>1. CASE k = 0
      <4>1. sum[0] = sends'[0]
        BY <1>3, <3>1 DEF SumsBack
      <4> QED
        BY <1>1, <3>1, <4>1
    <3>2. CASE k # 0
      <4>1. k - 1 \in 0 .. Span
        BY <3>2, SpanIsNumber
      <4>2. sum[k] = sends'[k] + sum[k - 1]
        BY <1>3, <3>2 DEF SumsBack
      <4>3. sends'[k] = sends[k] /\ sends[k] \in Nat /\ sum[k - 1] \in Nat
        BY <1>1, <2>1, <3>2, <4>1
      <4>4. less[k] = sum[k] - 1 /\ less[k - 1] = sum[k - 1] - 1
        BY <4>1
      <4> QED
        BY <3>2, <4>2, <4>3, <4>4
    <3> QED
      BY <3>1, <3>2
  <2>3. SumsBack(sends, less)
    BY <2>2 DEF SumsBack
  <2>4. less[w] + Refilled <= Capacity + w
    BY <2>3 DEF RateInv, WithinRate
  <2>5. less[w] = sum[w] - 1 /\ sum[w] \in Nat
    BY <2>1
  <2> QED
    BY <1>1, <1>2, <2>4, <2>5, SpanIsNumber
<1> QED
  BY <1>2, <1>3 DEF RateInv, WithinRate

\* A tick adds a token and makes every send one tick older.
LEMMA TickKeepsRate ==
  ASSUME RateInv, Tick PROVE RateInv'
<1>1. /\ sends \in [0 .. Span -> Nat] /\ tokens \in 0 .. Capacity /\ idle \in 0 .. Capacity
      /\ sends' = [w \in 0 .. Span |-> IF w = 0 THEN 0 ELSE sends[w - 1]]
      /\ tokens' = tokens /\ idle' = Least(idle + 1, Capacity)
  BY DEF Tick, RateInv
<1>2. sends' \in [0 .. Span -> Nat]
  BY <1>1, SpanIsNumber
<1>3. /\ idle' \in 0 .. Capacity /\ Refilled \in 0 .. Capacity /\ Refilled' \in 0 .. Capacity
      /\ Refilled' <= Refilled + 1
  BY <1>1, SpanIsNumber DEF Refilled, Least
<1>4. ASSUME NEW sum, SumsBack(sends', sum), NEW w \in 0 .. Span
      PROVE  sum[w] + Refilled' <= Capacity + w
  <2> DEFINE less == [k \in 0 .. Span |-> IF k = Span THEN sends[Span] + sum[Span] ELSE sum[k + 1]]
  <2>1. sum \in [0 .. Span -> Nat]
    BY <1>2, <1>4, SumsBackStay, NumbersAreClosed
  <2>2. sum[0] = 0 /\ \A k \in 1 .. Span : sum[k] = sends[k - 1] + sum[k - 1]
    BY <1>1, <1>4, SpanIsNumber DEF SumsBack
  <2>3. \A k \in 0 .. Span : k # 0 => less[k - 1] = sum[k]
    <3> TAKE k \in 0 .. Span
    <3> HAVE k # 0
    <3>1. k - 1 \in 0 .. Span /\ k - 1 # Span /\ k - 1 + 1 = k
      BY SpanIsNumber
    <3> QED
      BY <3>1
  <2>4. ASSUME NEW k \in 0 .. Span
        PROVE  less[k] = IF k = 0 THEN sends[0] ELSE sends[k] + less[k - 1]
    <3>1. CASE k = Span
      BY <2>3, <3>1, SpanIsNumber
    <3>2. CASE k # Span
      <4>1. k + 1 \in 1 .. Span /\ k + 1 - 1 = k
        BY <3>2, SpanIsNumber
      <4>2. less[k] = sends[k] + sum[k]
        BY <2>2, <3>2, <4>1
      <4>3. k = 0 => sends[k] + sum[k] = sends[0]
        BY <1>1, <2>2
      <4> QED
        BY <2>3, <4>2, <4>3
    <3> QED
      BY <3>1, <3>2
  <2>5. SumsBack(sends, less)
    BY <2>4 DEF SumsBack
  <2>6. CASE w = 0
    BY <1>3, <2>2, <2>6, SpanIsNumber
  <2>7. CASE w # 0
    <3>1. w - 1 \in 0 .. Span
      BY <2>7, SpanIsNumber
    <3>2. less[w - 1] + Refilled <= Capacity + (w - 1)
      BY <2>5, <3>1 DEF RateInv, WithinRate
    <3>3. less[w - 1] = sum[w] /\ sum[w] \in Nat
      BY <2>1, <2>3, <2>7
    <3> HIDE DEF less
    <3> QED
      BY <1>3, <3>2, <3>3, SpanIsNumber
  <2> QED
    BY <2>6, <2>7
<1> QED
  BY <1>1, <1>2, <1>3, <1>4 DEF RateInv, WithinRate

LEMMA RateStep == RateInv /\ [Next]_vars => RateInv'
<1> SUFFICES ASSUME RateInv, [Next]_vars PROVE RateInv'
  OBVIOUS
<1>1. ASSUME UNCHANGED sends, (tokens' = Refilled /\ idle' = 0) \/ UNCHANGED bucket PROVE RateInv'
  <2>1. tokens' \in 0 .. Capacity /\ idle' \in 0 .. Capacity /\ Refilled' = Refilled
    BY <1>1, RefilledIsNumber, SpanIsNumber DEF RateInv, bucket, Refilled, Least
  <2> QED
    BY <1>1, <2>1 DEF RateInv, WithinRate
<1>2. ASSUME NEW c \in Calls, Step(c) PROVE RateInv'
  <2>1. CASE Acquire(c)
    BY <2>1, AcquireKeepsRate
  <2>2. CASE ~Acquire(c)
    BY <1>1, <1>2, <2>2
    DEF Step, Begin, Admit, CircuitOpen, TryAgain, RateLimitExceeded, Throttled, Renew,
        BackedOff, Answered
  <2> QED
    BY <2>1, <2>2
<1>3. CASE Tick
  BY <1>3, TickKeepsRate
<1>4. CASE Healthy \/ UNCHANGED vars
  BY <1>1, <1>4 DEF Healthy, vars
<1> QED
  BY <1>2, <1>3, <1>4 DEF Next

LEMMA RateStays == Init /\ [][Next]_vars => []RateBound
<1>1. RateInv => RateBound
  <2> SUFFICES ASSUME RateInv, NEW w \in 0 .. Span PROVE SentWithin[w] <= Capacity + w
    BY DEF RateBound
  <2>1. SumsBack(sends, SentWithin)
    BY SumsBackExist DEF SentWithin, SumsBack
  <2>2. SentWithin \in [0 .. Span -> Nat]
    BY <2>1, SumsBackStay, NumbersAreClosed DEF RateInv
  <2>3. SentWithin[w] + Refilled <= Capacity + w
    BY <2>1 DEF RateInv, WithinRate
  <2>4. Refilled \in Nat /\ SentWithin[w] \in Nat
    BY <2>2, RefilledIsNumber DEF RateInv
  <2> QED
    BY <2>3, <2>4, SpanIsNumber
<1> QED
  BY <1>1, RateBegins, RateStep, PTL

\* In no stretch of time that is at most two ticks longer than the bucket needs to fill are
\* more requests sent than it holds and one for each tick of it, for any number of
\* overlapping calls, retries and refused waits, and any capacity (try_acquire, acquire).
THEOREM SendsWithinRate == Spec => []RateBound
  BY RateStays, PTL DEF Spec

-----------------------------------------------------------------------------
(* Sums.                                                                   *)

\* The equation of the running sums of f over the subsets of S: the members of a set are
\* taken one by one, in the order in which CHOOSE finds them.
First(s) == CHOOSE x \in s : TRUE
RunningSums(f, S, sum) ==
    sum = [s \in SUBSET S |-> IF s = {} THEN 0 ELSE f[First(s)] + sum[s \ {First(s)}]]

\* The subsets of at most n members.
UpTo(S, n) == {s \in SUBSET S : Cardinality(s) <= n}

LEMMA OneLess ==
  ASSUME NEW S, IsFiniteSet(S), NEW s \in SUBSET S, NEW x \in s
  PROVE  /\ s \ {x} \in SUBSET S /\ Cardinality(s) \in Nat /\ Cardinality(s \ {x}) \in Nat
         /\ Cardinality(s \ {x}) = Cardinality(s) - 1
<1>1. IsFiniteSet(s)
  BY FS_Subset
<1> QED
  BY <1>1, FS_RemoveElement, FS_CardinalityType

\* There are such sums: on the sets of at most n members for every n, by taking one more
\* member at a time.
LEMMA SumsExist ==
  ASSUME NEW S, IsFiniteSet(S), NEW f \in [S -> Int]
  PROVE  \E sum : RunningSums(f, S, sum)
<1> DEFINE Part(n, sum) ==
             sum = [s \in UpTo(S, n) |->
                      IF s = {} THEN 0 ELSE f[First(s)] + sum[s \ {First(s)}]]
           without == {n \in Nat : ~ \E sum : Part(n, sum)}
<1>1. \A s \in SUBSET S : s # {} => First(s) \in s
  BY DEF First
<1>2. \A s \in SUBSET S : Cardinality(s) \in Nat /\ (Cardinality(s) = 0 <=> s = {})
  BY FS_Subset, FS_CardinalityType, FS_EmptySet
<1> HIDE DEF First
<1>3. \A n \in Nat : \E sum : Part(n, sum)
  <2> SUFFICES ASSUME without # {} PROVE FALSE
    OBVIOUS
  <2>1. PICK n \in without : \A k \in without : n <= k
    BY LeastNumber
  <2>2. CASE n = 0
    <3>1. UpTo(S, 0) = {{}}
      BY <1>2 DEF UpTo
    <3> DEFINE sum == [s \in UpTo(S, 0) |-> 0]
    <3>2. Part(0, sum)
      BY <3>1
    <3> QED
      BY <2>2, <3>2
  <2>3. CASE n # 0
    <3>1. n - 1 \in Nat /\ n - 1 \notin without
      <4> HIDE DEF without
      <4>1. n \in Nat
        BY DEF without
      <4> QED
        BY <2>1, <2>3, <4>1
    <3>2. PICK less : Part(n - 1, less)
      BY <3>1
    <3> DEFINE sum == [s \in UpTo(S, n) |->
                         IF s = {} THEN 0 ELSE f[First(s)] + less[s \ {First(s)}]]
    <3>3. ASSUME NEW s \in UpTo(S, n), s # {}
          PROVE  sum[s \ {First(s)}] = less[s \ {First(s)}]
      <4> DEFINE r == s \ {First(s)}
      <4>1. r \in UpTo(S, n - 1) /\ r \in UpTo(S, n)
        BY <1>1, <3>1, <3>3, OneLess DEF UpTo
      <4>2. less[r] = IF r = {} THEN 0 ELSE f[First(r)] + less[r \ {First(r)}]
        BY <3>2, <4>1
      <4>3. sum[r] = IF r = {} THEN 0 ELSE f[First(r)] + less[r \ {First(r)}]
        BY <4>1
      <4> QED
        BY <4>2, <4>3
    <3>4. Part(n, sum)
      BY <3>3
    <3> QED
      BY <3>4
  <2> QED
    BY <2>2, <2>3
<1>4. Cardinality(S) \in Nat /\ UpTo(S, Cardinality(S)) = SUBSET S
  BY FS_CardinalityType, FS_Subset DEF UpTo
<1>5. PICK sum : Part(Cardinality(S), sum)
  BY <1>3, <1>4
<1> QED
  BY <1>4, <1>5 DEF RunningSums

\* Any member may be taken first.
AnyOrder(f, S, sum) ==
    \A s \in SUBSET S : sum[s] \in Int /\ \A x \in s : sum[s] = f[x] + sum[s \ {x}]

LEMMA SumsCommute ==
  ASSUME NEW S, IsFiniteSet(S), NEW f \in [S -> Int], NEW sum, RunningSums(f, S, sum)
  PROVE  AnyOrder(f, S, sum)
<1> DEFINE Good(s) == sum[s] \in Int /\ \A x \in s : sum[s] = f[x] + sum[s \ {x}]
           wrong == {s \in SUBSET S : ~Good(s)}
           N == {Cardinality(s) : s \in wrong}
<1> SUFFICES ASSUME wrong # {} PROVE FALSE
  BY DEF AnyOrder
<1> HIDE DEF Good
<1>1. \A s \in SUBSET S : s # {} => First(s) \in s
  BY DEF First
<1>2. N \subseteq Nat /\ N # {}
  <2>1. \A s \in wrong : Cardinality(s) \in Nat
    BY FS_Subset, FS_CardinalityType
  <2> QED
    BY <2>1
<1>3. PICK n \in N : \A k \in N : n <= k
  BY <1>2, LeastNumber
<1>4. PICK s \in wrong : n = Cardinality(s)
  OBVIOUS
<1>5. \A t \in SUBSET S : sum[t] = IF t = {} THEN 0 ELSE f[First(t)] + sum[t \ {First(t)}]
  BY DEF RunningSums
<1>6. ASSUME NEW x \in s PROVE s \ {x} \in SUBSET S /\ Good(s \ {x})
  <2>1. s \ {x} \in SUBSET S /\ Cardinality(s \ {x}) < n
    BY <1>4, OneLess
  <2>2. s \ {x} \notin wrong
    <3> SUFFICES ASSUME s \ {x} \in wrong PROVE FALSE
      OBVIOUS
    <3>1. Cardinality(s \ {x}) \in N
      OBVIOUS
    <3> QED
      <4>1. n <= Cardinality(s \ {x})
        BY <1>3, <3>1
      <4>2. n \in Int /\ Cardinality(s \ {x}) \in Int
        BY <1>2, <3>1
      <4> QED
        BY <2>1, <4>1, <4>2
  <2> QED
    BY <2>1, <2>2
<1>7. CASE s = {}
  <2>1. sum[s] = 0
    BY <1>5, <1>7
  <2>2. Good(s)
    BY <1>7, <2>1 DEF Good
  <2> QED
    BY <2>2
<1>8. CASE s # {}
  <2> DEFINE y == First(s)
  <2>1. y \in s /\ y \in S /\ sum[s] = f[y] + sum[s \ {y}]
    BY <1>1, <1>5, <1>8
  <2> HIDE DEF y
  <2>2. sum[s] \in Int
    BY <1>6, <2>1 DEF Good
  <2>3. ASSUME NEW x \in s PROVE sum[s] = f[x] + sum[s \ {x}]
    <3>1. CASE x = y
      BY <2>1, <3>1
    <3>2. CASE x # y
      <4>1. x \in s \ {y} /\ y \in s \ {x} /\ (s \ {y}) \ {x} = (s \ {x}) \ {y}
        BY <2>1, <3>2
      <4>2. sum[s \ {y}] = f[x] + sum[(s \ {y}) \ {x}] /\ sum[s \ {y}] \in Int
        BY <1>6, <2>1, <4>1 DEF Good
      <4>3. sum[s \ {x}] = f[y] + sum[(s \ {x}) \ {y}] /\ sum[s \ {x}] \in Int
        BY <1>6, <2>1, <4>1 DEF Good
      <4>4. sum[(s \ {x}) \ {y}] \in Int
        <5>1. (s \ {x}) \ {y} \in SUBSET S /\ Cardinality((s \ {x}) \ {y}) < n
          <6>1. s \ {x} \in SUBSET S /\ Cardinality(s \ {x}) < n /\ Cardinality(s \ {x}) \in Int
            BY <1>4, OneLess
          <6>2. /\ (s \ {x}) \ {y} \in SUBSET S
                /\ Cardinality((s \ {x}) \ {y}) = Cardinality(s \ {x}) - 1
            BY <4>1, <6>1, OneLess
          <6>3. n \in Int
            BY <1>2
          <6> QED
            BY <6>1, <6>2, <6>3
        <5>2. (s \ {x}) \ {y} \notin wrong
          <6> SUFFICES ASSUME (s \ {x}) \ {y} \in wrong PROVE FALSE
            OBVIOUS
          <6>1. Cardinality((s \ {x}) \ {y}) \in N
            OBVIOUS
          <6> QED
            <7>1. n <= Cardinality((s \ {x}) \ {y})
              BY <1>3, <6>1
            <7>2. n \in Int /\ Cardinality((s \ {x}) \ {y}) \in Int
              BY <1>2, <6>1
            <7> QED
              BY <5>1, <7>1, <7>2
        <5> QED
          BY <5>1, <5>2 DEF Good
      <4>5. f[x] \in Int /\ f[y] \in Int
        BY <2>1
      <4>6. sum[(s \ {y}) \ {x}] = sum[(s \ {x}) \ {y}]
        BY <4>1
      <4> HIDE DEF wrong, N
      <4> QED
        BY <2>1, <4>2, <4>3, <4>4, <4>5, <4>6
    <3> QED
      BY <3>1, <3>2
  <2> QED
    BY <2>2, <2>3 DEF Good
<1> QED
  BY <1>7, <1>8

\* A sum depends only on the members it is over.
LEMMA SumsAgree ==
  ASSUME NEW S, IsFiniteSet(S), NEW f \in [S -> Int], NEW sum, RunningSums(f, S, sum),
         NEW T, S \subseteq T, NEW g, \A x \in S : f[x] = g[x],
         NEW more, RunningSums(g, T, more)
  PROVE  sum[S] = more[S]
<1> DEFINE wrong == {s \in SUBSET S : sum[s] # more[s]}
           N == {Cardinality(s) : s \in wrong}
<1> SUFFICES ASSUME wrong # {} PROVE FALSE
  OBVIOUS
<1>1. \A s \in SUBSET S : s # {} => First(s) \in s
  BY DEF First
<1>2. N \subseteq Nat /\ N # {}
  BY FS_Subset, FS_CardinalityType
<1>3. PICK n \in N : \A k \in N : n <= k
  BY <1>2, LeastNumber
<1>4. PICK s \in wrong : n = Cardinality(s)
  OBVIOUS
<1>5. /\ sum[s] = IF s = {} THEN 0 ELSE f[First(s)] + sum[s \ {First(s)}]
      /\ more[s] = IF s = {} THEN 0 ELSE g[First(s)] + more[s \ {First(s)}]
  BY DEF RunningSums
<1>6. s # {}
  BY <1>5
<1> DEFINE rest == s \ {First(s)}
<1>7. rest \in SUBSET S /\ Cardinality(rest) < n
  BY <1>1, <1>4, <1>6, OneLess
<1>8. rest \notin wrong
  <2> SUFFICES ASSUME rest \in wrong PROVE FALSE
    OBVIOUS
  <2>1. Cardinality(rest) \in N
    OBVIOUS
  <2> QED
    BY <1>2, <1>3, <1>7, <2>1
<1> QED
  BY <1>1, <1>5, <1>6, <1>7, <1>8

\* One member more adds its value.
Extends(g, f, S, x) ==
    /\ f \in [S -> Int] /\ x \notin S /\ g \in [S \cup {x} -> Int]
    /\ \A y \in S : f[y] = g[y]

LEMMA OneMoreSummand ==
  ASSUME NEW S, IsFiniteSet(S), NEW f, NEW x, NEW g, Extends(g, f, S, x)
  PROVE  /\ Sim!SumFunction(f) \in Int
         /\ Sim!SumFunction(g) = Sim!SumFunction(f) + g[x]
<1> USE DEF Extends
<1>a. PICK T : T = S \cup {x}
  OBVIOUS
<1>1. IsFiniteSet(T) /\ g \in [T -> Int]
  BY <1>a, FS_AddElement
<1>2. \E sum : RunningSums(f, S, sum) /\ Sim!SumFunction(f) = sum[S]
  <2> DEFINE sum == CHOOSE h : RunningSums(f, S, h)
  <2>1. RunningSums(f, S, sum)
    BY SumsExist
  <2>2. Sim!SumFunction(f) = sum[S]
    BY DEF Sim!SumFunction, Sim!SumFunctionOnSet, Sim!FoldFunctionOnSet, Sim!MapThenFoldSet,
           RunningSums, First
  <2> QED
    BY <2>1, <2>2
<1>3. \E sum : RunningSums(g, T, sum) /\ Sim!SumFunction(g) = sum[T]
  <2> DEFINE sum == CHOOSE h : RunningSums(g, T, h)
  <2>1. RunningSums(g, T, sum)
    BY <1>1, SumsExist
  <2>2. Sim!SumFunction(g) = sum[T]
    BY <1>1 DEF Sim!SumFunction, Sim!SumFunctionOnSet, Sim!FoldFunctionOnSet, Sim!MapThenFoldSet,
           RunningSums, First
  <2> QED
    BY <2>1, <2>2
<1>4. PICK sum : RunningSums(f, S, sum) /\ Sim!SumFunction(f) = sum[S]
  BY <1>2
<1>5. PICK more : RunningSums(g, T, more) /\ Sim!SumFunction(g) = more[T]
  BY <1>3
<1>6. sum[S] \in Int
  BY <1>4, SumsCommute DEF AnyOrder
<1>7. more[T] = g[x] + more[T \ {x}] /\ g[x] \in Int
  <2>1. AnyOrder(g, T, more)
    BY <1>1, <1>5, SumsCommute
  <2> QED
    BY <1>a, <1>1, <2>1 DEF AnyOrder
<1>8. T \ {x} = S
  BY <1>a
<1>9. sum[S] = more[S]
  <2>1. S \subseteq T
    BY <1>a
  <2> QED
    BY <1>4, <1>5, <2>1, SumsAgree
<1>10. Sim!SumFunction(f) \in Int
  BY <1>4, <1>6
<1>11. Sim!SumFunction(g) = g[x] + Sim!SumFunction(f)
  BY <1>4, <1>5, <1>7, <1>8, <1>9
<1> QED
  BY <1>7, <1>10, <1>11

-----------------------------------------------------------------------------
(* The simulated broker.                                                   *)

Sides == {"none", "buy", "sell"}
Fills == [side : Sides, quantity : Int, price : Int]

Statuses ==
    {"none", "open", "unknown", "rejected", "canceled", "filled", "partially_filled"}
OrderTypes == [status : Statuses, side : Sides, limit : Int, filled : Int]
BookTypes(b) ==
    b \in [placed : Seq(Orders), orders : [Orders -> OrderTypes], fills : [Orders -> Seq(Fills)],
          index : [Orders -> Nat], dollars : Int, coins : Int, position : Int, raised : BOOLEAN]

\* An id that is free has no fills.
FreeIds(b) == \A o \in Orders : b.orders[o] = Sim!Absent => b.fills[o] = <<>>

\* An id that is taken stays so.
StayTaken(b, c) == \A o \in Orders : b.orders[o] # Sim!Absent => c.orders[o] # Sim!Absent

SimTypes ==
    /\ BookTypes(book) /\ FreeIds(book) /\ \A o \in unknown : book.orders[o] # Sim!Absent
    /\ bid \in Quotes /\ unknown \subseteq Orders /\ early \in BOOLEAN /\ broken \in BOOLEAN

\* BooksFollowFills, and no order that timed out has a fill: accepting it when it is
\* looked up starts its fills anew.
SimInv ==
    /\ SimTypes
    /\ early \/ (Sim!Balanced(book) /\ \A o \in unknown : book.fills[o] = <<>>)
    /\ broken \/ book.position = book.coins

LEMMA SimNumbers ==
  /\ IsFiniteSet(Orders) /\ Quotes \subseteq Nat /\ Schedule \in Seq(Nat)
  /\ Slip \in Nat /\ FeeRate \in Nat /\ StartDollars \in Nat /\ Spread \in Nat
  /\ Quantity \in Nat /\ Scale \in Nat
  BY ProviderAssumption DEF Sim!Configured, Sim!IsFiniteSet, IsFiniteSet

LEMMA FinitelyManyFills ==
  ASSUME NEW b, b.fills \in [Orders -> Seq(Fills)]
  PROVE  IsFiniteSet(Sim!OnRecord(b))
<1> DEFINE of(o) == {o} \X DOMAIN b.fills[o]
           all == {of(o) : o \in Orders}
<1>1. ASSUME NEW o \in Orders PROVE IsFiniteSet(of(o))
  <2>1. DOMAIN b.fills[o] = 1 .. Len(b.fills[o]) /\ Len(b.fills[o]) \in Nat
    OBVIOUS
  <2>2. IsFiniteSet(1 .. Len(b.fills[o]))
    BY <2>1, FS_Interval
  <2>3. IsFiniteSet({o})
    BY FS_Singleton
  <2> QED
    BY <2>1, <2>2, <2>3, FS_Product
<1>2. IsFiniteSet(all)
  <2> DEFINE m == [o \in Orders |-> of(o)]
  <2>1. m \in Surjection(Orders, all)
    BY DEF Surjection
  <2> HIDE DEF m, all
  <2> QED
    BY <2>1, SimNumbers, FS_Surjection
<1>3. IsFiniteSet(UNION all)
  <2>1. \A T \in all : IsFiniteSet(T)
    BY <1>1
  <2> HIDE DEF all
  <2> QED
    BY <1>2, <2>1, FS_UNION
<1> QED
  BY <1>3 DEF Sim!OnRecord

\* What one fill more moves (_apply_fill).
Adds(fill, b, c) ==
    /\ Sim!CoinsMoved(b) \in Int /\ Sim!DollarsMoved(b) \in Int
    /\ Sim!CoinsMoved(c) = Sim!CoinsMoved(b) + Sim!Sign(fill.side) * fill.quantity
    /\ Sim!DollarsMoved(c) = Sim!DollarsMoved(b)
            + (Sim!Sign(fill.side) + FeeRate) * (fill.quantity * fill.price)

LEMMA OneMoreFill ==
  ASSUME NEW b, b.fills \in [Orders -> Seq(Fills)], NEW o \in Orders, NEW fill \in Fills,
         NEW c, c.fills = [b.fills EXCEPT ![o] = Append(b.fills[o], fill)]
  PROVE  Adds(fill, b, c)
<1> DEFINE S == Sim!OnRecord(b)
           x == <<o, Len(b.fills[o]) + 1>>
           worth(f) == Sim!Sign(f.side) * f.quantity
           paid(f) == (Sim!Sign(f.side) + FeeRate) * (f.quantity * f.price)
<1>1. IsFiniteSet(S)
  BY FinitelyManyFills
<1>2. x \notin S
  BY DEF Sim!OnRecord
<1>3. Sim!OnRecord(c) = S \cup {x}
  <2>1. \A p \in Orders : DOMAIN b.fills[p] = 1 .. Len(b.fills[p]) /\ Len(b.fills[p]) \in Nat
    OBVIOUS
  <2>2. \A p \in Orders :
           DOMAIN c.fills[p] = IF p = o THEN (1 .. Len(b.fills[o])) \cup {Len(b.fills[o]) + 1}
                               ELSE DOMAIN b.fills[p]
    <3>1. DOMAIN c.fills[o] = 1 .. Len(b.fills[o]) + 1
      BY <2>1
    <3>2. 1 .. Len(b.fills[o]) + 1 = (1 .. Len(b.fills[o])) \cup {Len(b.fills[o]) + 1}
      BY <2>1
    <3>3. \A p \in Orders : p # o => c.fills[p] = b.fills[p]
      OBVIOUS
    <3> QED
      BY <3>1, <3>2, <3>3
  <2>3. \A p : p \in Sim!OnRecord(c) <=> \E q \in Orders : p \in {q} \X DOMAIN c.fills[q]
    BY DEF Sim!OnRecord
  <2>4. \A p : p \in S <=> \E q \in Orders : p \in {q} \X DOMAIN b.fills[q]
    BY DEF Sim!OnRecord
  <2> HIDE DEF S
  <2> QED
    BY <2>1, <2>2, <2>3, <2>4
<1>4. \A p \in S : b.fills[p[1]][p[2]] \in Fills /\ c.fills[p[1]][p[2]] = b.fills[p[1]][p[2]]
  BY DEF Sim!OnRecord
<1>5. c.fills[x[1]][x[2]] = fill
  OBVIOUS
<1>6. \A f \in Fills : worth(f) \in Int /\ paid(f) \in Int
  BY SimNumbers DEF Fills, Sim!Sign
<1> HIDE DEF S, x, worth, paid
<1>7. /\ Sim!CoinsMoved(b) = Sim!SumFunction([p \in S |-> worth(b.fills[p[1]][p[2]])])
      /\ Sim!CoinsMoved(c) = Sim!SumFunction([p \in S \cup {x} |-> worth(c.fills[p[1]][p[2]])])
      /\ Sim!DollarsMoved(b) = Sim!SumFunction([p \in S |-> paid(b.fills[p[1]][p[2]])])
      /\ Sim!DollarsMoved(c) = Sim!SumFunction([p \in S \cup {x} |-> paid(c.fills[p[1]][p[2]])])
  <2>1. S = Sim!OnRecord(b)
    BY DEF S
  <2> QED
    BY <1>3, <2>1 DEF Sim!CoinsMoved, Sim!DollarsMoved, worth, paid
<1>8. Sim!CoinsMoved(b) \in Int /\ Sim!CoinsMoved(c) = Sim!CoinsMoved(b) + worth(fill)
  <2> DEFINE f == [p \in S |-> worth(b.fills[p[1]][p[2]])]
             g == [p \in S \cup {x} |-> worth(c.fills[p[1]][p[2]])]
  <2>1. f \in [S -> Int] /\ g \in [S \cup {x} -> Int] /\ g[x] = worth(fill)
    BY <1>4, <1>5, <1>6
  <2>2. \A y \in S : f[y] = g[y]
    BY <1>4
  <2> HIDE DEF f, g
  <2>3. Extends(g, f, S, x)
    BY <1>2, <2>1, <2>2 DEF Extends
  <2>4. Sim!SumFunction(f) \in Int /\ Sim!SumFunction(g) = Sim!SumFunction(f) + g[x]
    BY <1>1, <2>3, OneMoreSummand
  <2> QED
    BY <1>7, <2>1, <2>4 DEF f, g
<1>9. Sim!DollarsMoved(b) \in Int /\ Sim!DollarsMoved(c) = Sim!DollarsMoved(b) + paid(fill)
  <2> DEFINE f == [p \in S |-> paid(b.fills[p[1]][p[2]])]
             g == [p \in S \cup {x} |-> paid(c.fills[p[1]][p[2]])]
  <2>1. f \in [S -> Int] /\ g \in [S \cup {x} -> Int] /\ g[x] = paid(fill)
    BY <1>4, <1>5, <1>6
  <2>2. \A y \in S : f[y] = g[y]
    BY <1>4
  <2> HIDE DEF f, g
  <2>3. Extends(g, f, S, x)
    BY <1>2, <2>1, <2>2 DEF Extends
  <2>4. Sim!SumFunction(f) \in Int /\ Sim!SumFunction(g) = Sim!SumFunction(f) + g[x]
    BY <1>1, <2>3, OneMoreSummand
  <2> QED
    BY <1>7, <2>1, <2>4 DEF f, g
<1> QED
  BY <1>8, <1>9 DEF worth, paid, Adds

\* The same fills move the same.
LEMMA SameFills ==
  ASSUME NEW b, NEW c, b.fills = c.fills
  PROVE  Sim!CoinsMoved(b) = Sim!CoinsMoved(c) /\ Sim!DollarsMoved(b) = Sim!DollarsMoved(c)
  BY DEF Sim!CoinsMoved, Sim!DollarsMoved, Sim!OnRecord

\* What filling an order does to the book: it keeps its types, its free ids and the fills
\* of other orders, and keeps the balances and the position what the fills say, or raises.
Kept(o, b, c) ==
    /\ BookTypes(c) /\ FreeIds(c) /\ StayTaken(b, c)
    /\ \A p \in Orders : p # o => c.fills[p] = b.fills[p]
    /\ Sim!Balanced(b) => Sim!Balanced(c)
    /\ b.raised \/ b.position = b.coins => c.raised \/ c.position = c.coins

LEMMA FillKeeps ==
  ASSUME NEW b, BookTypes(b), FreeIds(b), NEW o \in Orders, b.raised = FALSE,
         NEW quantity \in Int, NEW price \in Int
  PROVE  Kept(o, b, Sim!ApplyFill(b, o, quantity, price))
<1> DEFINE filled == b.orders[o].filled + quantity
           status_ == IF filled >= Quantity THEN "filled" ELSE "partially_filled"
           side == b.orders[o].side
           fill == [side |-> side, quantity |-> quantity, price |-> price]
           order_ == [b.orders[o] EXCEPT !.filled = filled, !.status = status_]
           noted == [b EXCEPT !.fills[o] = Append(@, fill), !.orders[o] = order_]
           notional == quantity * price
           c == Sim!ApplyFill(b, o, quantity, price)
<1>1. fill \in Fills /\ notional \in Int /\ Sim!Sign(side) \in Int /\ side \in Sides
  <2>1. side \in Sides
    BY DEF BookTypes, OrderTypes
  <2> QED
    BY <2>1 DEF Fills, Sim!Sign
<1>2. order_ \in OrderTypes /\ order_.status # "none"
  <2>1. b.orders[o] \in OrderTypes
    BY DEF BookTypes
  <2>2. filled \in Int /\ status_ \in {"filled", "partially_filled"}
    BY <2>1 DEF OrderTypes
  <2> HIDE DEF filled, status_
  <2> QED
    BY <2>1, <2>2 DEF OrderTypes, Statuses
<1> HIDE DEF fill, order_, notional
<1>3. c = Sim!Accounted(noted, side, quantity, price)
  BY DEF Sim!ApplyFill, fill, order_
<1>4. /\ BookTypes(noted)
      /\ noted.placed = b.placed /\ noted.index = b.index
      /\ noted.orders = [b.orders EXCEPT ![o] = order_]
      /\ noted.fills = [b.fills EXCEPT ![o] = Append(@, fill)]
      /\ noted.dollars = b.dollars /\ noted.coins = b.coins /\ noted.position = b.position
      /\ noted.raised = b.raised
  <2>1. Append(b.fills[o], fill) \in Seq(Fills)
    BY <1>1 DEF BookTypes
  <2>2. BookTypes(noted)
    BY <1>2, <2>1 DEF BookTypes
  <2> QED
    BY <2>2 DEF BookTypes
<1> HIDE DEF noted
<1> DEFINE moved == [noted EXCEPT !.coins = @ + Sim!Sign(side) * quantity,
                                  !.dollars = @ - Sim!Sign(side) * notional - FeeRate * notional]
<1>m. /\ BookTypes(moved)
      /\ moved.orders = noted.orders /\ moved.fills = noted.fills
      /\ moved.coins = b.coins + Sim!Sign(side) * quantity
      /\ moved.dollars = b.dollars - Sim!Sign(side) * notional - FeeRate * notional
      /\ moved.position = b.position /\ moved.raised = b.raised
  <2>1. FeeRate \in Int
    BY SimNumbers
  <2>2. Sim!Sign(side) * quantity \in Int /\ Sim!Sign(side) * notional \in Int /\ FeeRate * notional \in Int
    BY <1>1, <2>1
  <2>3. b.dollars \in Int /\ b.coins \in Int
    BY DEF BookTypes
  <2>4. /\ noted.coins + Sim!Sign(side) * quantity \in Int
        /\ noted.dollars - Sim!Sign(side) * notional - FeeRate * notional \in Int
    BY <1>4, <2>2, <2>3
  <2>5. BookTypes(moved)
    BY <1>4, <2>4 DEF BookTypes
  <2> QED
    BY <1>4, <2>5 DEF BookTypes
<1>n. c = IF side = "buy" /\ noted.position + quantity = 0
          THEN [moved EXCEPT !.raised = TRUE]
          ELSE [moved EXCEPT !.position = @ + Sim!Sign(side) * quantity]
  BY <1>3 DEF Sim!Accounted, notional
<1> HIDE DEF c, side, moved
<1>5. /\ BookTypes(c)
      /\ c.orders = [b.orders EXCEPT ![o] = order_]
      /\ c.fills = [b.fills EXCEPT ![o] = Append(@, fill)]
      /\ c.coins = b.coins + Sim!Sign(side) * quantity
      /\ c.dollars = b.dollars - Sim!Sign(side) * notional - FeeRate * notional
      /\ c.raised = TRUE \/ c.position = b.position + Sim!Sign(side) * quantity
  <2>1. CASE side = "buy" /\ noted.position + quantity = 0
    <3>1. c = [moved EXCEPT !.raised = TRUE]
      BY <1>n, <2>1
    <3> QED
      BY <1>4, <1>m, <3>1 DEF BookTypes
  <2>2. CASE ~(side = "buy" /\ noted.position + quantity = 0)
    <3>1. c = [moved EXCEPT !.position = @ + Sim!Sign(side) * quantity]
      BY <1>n, <2>2
    <3>2. moved.position + Sim!Sign(side) * quantity \in Int
      <4>1. Sim!Sign(side) * quantity \in Int /\ moved.position \in Int
        BY <1>1, <1>m DEF BookTypes
      <4> QED
        BY <4>1
    <3>3. BookTypes(c)
      BY <1>m, <3>1, <3>2 DEF BookTypes
    <3> QED
      BY <1>4, <1>m, <3>1, <3>3 DEF BookTypes
  <2> QED
    BY <2>1, <2>2
<1>6. BookTypes(c)
  BY <1>5
<1>7. FreeIds(c)
  <2>1. c.orders[o] # Sim!Absent
    BY <1>2, <1>5 DEF BookTypes, Sim!Absent
  <2>2. \A p \in Orders : p # o => c.orders[p] = b.orders[p] /\ c.fills[p] = b.fills[p]
    BY <1>5 DEF BookTypes
  <2> QED
    BY <2>1, <2>2 DEF FreeIds
<1>8. ASSUME Sim!Balanced(b) PROVE Sim!Balanced(c)
  <2>1. Adds(fill, b, c)
    <3>1. b.fills \in [Orders -> Seq(Fills)]
      BY DEF BookTypes
    <3>2. c.fills = [b.fills EXCEPT ![o] = Append(b.fills[o], fill)]
      BY <1>5
    <3> QED
      BY <1>1, <3>1, <3>2, OneMoreFill
  <2>2. fill.side = side /\ fill.quantity = quantity /\ fill.quantity * fill.price = notional
    BY DEF fill, notional
  <2>3. FeeRate \in Int /\ StartDollars \in Int
    BY SimNumbers
  <2>4. (Sim!Sign(side) + FeeRate) * notional = Sim!Sign(side) * notional + FeeRate * notional
    BY <1>1, <2>3
  <2>5. Sim!Sign(side) * notional \in Int /\ FeeRate * notional \in Int
    BY <1>1, <2>3
  <2>6. c.coins = Sim!CoinsMoved(c)
    BY <1>5, <1>8, <2>1, <2>2 DEF Sim!Balanced, Adds
  <2>7. c.dollars = StartDollars - Sim!DollarsMoved(c)
    BY <1>5, <1>8, <2>1, <2>2, <2>3, <2>4, <2>5 DEF Sim!Balanced, Adds
  <2> QED
    BY <2>6, <2>7 DEF Sim!Balanced
<1>9. b.raised \/ b.position = b.coins => c.raised \/ c.position = c.coins
  BY <1>5
<1>10. StayTaken(b, c) /\ \A p \in Orders : p # o => c.fills[p] = b.fills[p]
  <2>1. c.orders[o] # Sim!Absent
    BY <1>2, <1>5 DEF BookTypes, Sim!Absent
  <2> QED
    BY <1>5, <2>1 DEF BookTypes, StayTaken
<1> QED
  BY <1>6, <1>7, <1>8, <1>9, <1>10 DEF Kept, c

\* A step of the schedule (_fill_next_limit).
LEMMA LimitKeeps ==
  ASSUME NEW b, BookTypes(b), FreeIds(b), NEW o \in Orders, b.raised = FALSE
  PROVE  Kept(o, b, Sim!FillNextLimit(b, o))
<1> DEFINE i == b.index[o] + 1
           next_ == [b EXCEPT !.index[o] = i]
<1>1. i \in Nat /\ i > 0
  BY DEF BookTypes
<1>2. /\ BookTypes(next_) /\ next_.orders = b.orders /\ next_.fills = b.fills
      /\ next_.dollars = b.dollars /\ next_.coins = b.coins
      /\ next_.position = b.position /\ next_.raised = b.raised
  BY <1>1 DEF BookTypes
<1> HIDE DEF i, next_
<1>3. BookTypes(next_) /\ FreeIds(next_) /\ next_.raised = FALSE
  BY <1>2 DEF FreeIds
<1>4. Sim!Balanced(next_) <=> Sim!Balanced(b)
  BY <1>2, SameFills DEF Sim!Balanced
<1>5. next_.raised = b.raised /\ next_.position = b.position /\ next_.coins = b.coins
  BY <1>2
<1>6. CASE i > Len(Schedule)
  BY <1>6 DEF Sim!FillNextLimit, Kept, StayTaken, i
<1>7. CASE i <= Len(Schedule) /\ Schedule[i] <= b.orders[o].filled
  <2>1. Sim!FillNextLimit(b, o) = next_
    BY <1>1, <1>7, SimNumbers DEF Sim!FillNextLimit, i, next_
  <2> QED
    BY <1>2, <1>3, <1>4, <1>5, <2>1 DEF Kept, StayTaken
<1>8. CASE i <= Len(Schedule) /\ ~(Schedule[i] <= b.orders[o].filled)
  <2> DEFINE quantity == Schedule[i] - b.orders[o].filled
             price == b.orders[o].limit * Scale
  <2>1. Sim!FillNextLimit(b, o) = Sim!ApplyFill(next_, o, quantity, price)
    BY <1>1, <1>8, SimNumbers DEF Sim!FillNextLimit, i, next_
  <2>2. quantity \in Int /\ price \in Int
    <3>1. b.orders[o].filled \in Int /\ b.orders[o].limit \in Int
      BY DEF BookTypes, OrderTypes
    <3>2. Schedule[i] \in Int /\ Scale \in Int
      BY <1>1, <1>8, SimNumbers
    <3> QED
      BY <3>1, <3>2
  <2> HIDE DEF quantity, price
  <2>3. Kept(o, next_, Sim!ApplyFill(next_, o, quantity, price))
    BY <1>3, <2>2, FillKeeps
  <2> QED
    BY <1>2, <1>4, <1>5, <2>1, <2>3 DEF Kept, StayTaken
<1>9. i > Len(Schedule) \/ i <= Len(Schedule)
  BY <1>1, SimNumbers
<1> QED
  BY <1>6, <1>7, <1>8, <1>9

\* An order is stored as new: nothing was filled under its id (_store_rejected,
\* _accept_order).
StoredOver(b, c) ==
    /\ BookTypes(c) /\ FreeIds(c) /\ StayTaken(b, c) /\ c.fills = b.fills /\ c.raised = FALSE
    /\ c.position = b.position /\ c.coins = b.coins /\ c.dollars = b.dollars

LEMMA StoredKeeps ==
  ASSUME NEW b, BookTypes(b), FreeIds(b), NEW o \in Orders, b.fills[o] = <<>>,
         NEW order_ \in OrderTypes, order_ # Sim!Absent
  PROVE  StoredOver(b, Sim!Stored(b, o, order_))
<1> DEFINE c == Sim!Stored(b, o, order_)
<1>1. c = [b EXCEPT !.placed = Append(@, o), !.orders[o] = order_,
                    !.fills[o] = <<>>, !.index[o] = 0, !.raised = FALSE]
  BY DEF Sim!Stored
<1>2. Append(b.placed, o) \in Seq(Orders) /\ <<>> \in Seq(Fills) /\ 0 \in Nat
  BY DEF BookTypes
<1> HIDE DEF c
<1>3. BookTypes(c)
  BY <1>1, <1>2 DEF BookTypes
<1>4. /\ c.orders = [b.orders EXCEPT ![o] = order_] /\ c.coins = b.coins
      /\ c.dollars = b.dollars /\ c.position = b.position /\ c.raised = FALSE
  BY <1>1 DEF BookTypes
<1>5. c.fills = b.fills
  <2>1. c.fills = [b.fills EXCEPT ![o] = <<>>] /\ b.fills \in [Orders -> Seq(Fills)]
    BY <1>1 DEF BookTypes
  <2> QED
    BY <2>1
<1>6. FreeIds(c)
  BY <1>4, <1>5 DEF FreeIds, BookTypes
<1>7. StoredOver(b, c)
  BY <1>3, <1>4, <1>5, <1>6 DEF StoredOver, StayTaken, BookTypes
<1> QED
  BY <1>7 DEF c

\* An order is accepted as new, and filled at once if it can be (_accept_order).
AcceptedOver(o, b, c) ==
    /\ BookTypes(c) /\ FreeIds(c) /\ StayTaken(b, c)
    /\ Sim!Balanced(b) => Sim!Balanced(c)
    /\ \A p \in Orders : p # o => c.fills[p] = b.fills[p]
    /\ b.position = b.coins => c.raised \/ c.position = c.coins

LEMMA AcceptedKeeps ==
  ASSUME bid \in Quotes, NEW b, BookTypes(b), FreeIds(b), NEW o \in Orders, b.fills[o] = <<>>,
         NEW side \in Sides, NEW limit \in Int
  PROVE  AcceptedOver(o, b, Sim!Accepted(b, o, side, limit))
<1>c. PICK c : c = Sim!Accepted(b, o, side, limit)
  OBVIOUS
<1> DEFINE order_ == [status |-> "open", side |-> side, limit |-> limit, filled |-> 0]
           open == Sim!Stored(b, o, order_)
<1>1. order_ \in OrderTypes /\ order_ # Sim!Absent
  BY DEF OrderTypes, Statuses, Sim!Absent
<1>2. c = IF limit = 0 THEN Sim!ApplyFill(open, o, Quantity, Sim!MarketPrice(side))
          ELSE IF Sim!Marketable(order_) THEN Sim!FillNextLimit(open, o) ELSE open
  BY <1>c DEF Sim!Accepted
<1> HIDE DEF order_
<1>a. StoredOver(b, open)
  BY <1>1, StoredKeeps
<1> HIDE DEF open
<1>3. /\ BookTypes(open) /\ FreeIds(open) /\ StayTaken(b, open) /\ open.fills = b.fills /\ open.raised = FALSE
      /\ open.position = b.position /\ open.coins = b.coins
      /\ Sim!Balanced(b) => Sim!Balanced(open)
  BY <1>a, SameFills DEF StoredOver, Sim!Balanced
<1>4. Quantity \in Int /\ Sim!MarketPrice(side) \in Int
  <2>1. bid \in Int /\ Spread \in Int /\ Scale \in Int /\ Slip \in Int /\ Quantity \in Int
    BY SimNumbers
  <2> QED
    BY <2>1 DEF Sim!MarketPrice, Sim!Ask
<1>6. Kept(o, open, c) \/ c = open
  <2>1. Kept(o, open, Sim!ApplyFill(open, o, Quantity, Sim!MarketPrice(side)))
    BY <1>3, <1>4, FillKeeps
  <2>2. Kept(o, open, Sim!FillNextLimit(open, o))
    BY <1>3, LimitKeeps
  <2> QED
    BY <1>2, <2>1, <2>2
<1> QED
  BY <1>c, <1>3, <1>6 DEF Kept, StayTaken, AcceptedOver

\* A lookup of an order that timed out takes its id out first (get_order).
LEMMA PoppedKeeps ==
  ASSUME NEW b, BookTypes(b), FreeIds(b), NEW o \in Orders
  PROVE  /\ BookTypes(Sim!Popped(b, o)) /\ FreeIds(Sim!Popped(b, o))
         /\ \A p \in Orders : p # o => Sim!Popped(b, o).orders[p] = b.orders[p]
         /\ Sim!Popped(b, o).fills = [b.fills EXCEPT ![o] = <<>>]
         /\ Sim!Popped(b, o).coins = b.coins /\ Sim!Popped(b, o).dollars = b.dollars
         /\ Sim!Popped(b, o).position = b.position
<1> DEFINE c == Sim!Popped(b, o)
           rest == Sim!RemoveFirst(b.placed, o)
<1>1. rest \in Seq(Orders)
  <2> DEFINE I == {i \in 1 .. Len(b.placed) : b.placed[i] = o}
             least == CHOOSE x \in I : \A y \in I : x <= y
  <2>0. b.placed \in Seq(Orders)
    BY DEF BookTypes
  <2>1. CASE I = {}
    BY <2>0, <2>1 DEF Sim!RemoveFirst
  <2>2. CASE I # {}
    <3>1. I \subseteq Nat
      BY <2>0
    <3>2. \E x \in I : \A y \in I : x <= y
      <4> HIDE DEF I
      <4> QED
        BY <2>2, <3>1, LeastNumber
    <3>3. least \in I
      <4> HIDE DEF I
      <4> QED
        BY <3>2
    <3>4. rest = SubSeq(b.placed, 1, least - 1) \o SubSeq(b.placed, least + 1, Len(b.placed))
      BY <2>2 DEF Sim!RemoveFirst, Sim!RemoveAt, Sim!SelectInSeq, Sim!Min
    <3>5. least \in 1 .. Len(b.placed) /\ Len(b.placed) \in Nat
      BY <2>0, <3>3
    <3> HIDE DEF least
    <3>6. /\ SubSeq(b.placed, 1, least - 1) \in Seq(Orders)
          /\ SubSeq(b.placed, least + 1, Len(b.placed)) \in Seq(Orders)
      BY <2>0, <3>5
    <3> QED
      BY <3>4, <3>6
  <2> QED
    BY <2>1, <2>2
<1>2. c = [b EXCEPT !.placed = rest, !.orders[o] = Sim!Absent, !.fills[o] = <<>>, !.index[o] = 0]
  BY DEF Sim!Popped
<1>3. Sim!Absent \in OrderTypes /\ <<>> \in Seq(Fills)
  BY DEF Sim!Absent, OrderTypes, Statuses, Sides
<1> HIDE DEF c, rest
<1>4. BookTypes(c)
  BY <1>1, <1>2, <1>3 DEF BookTypes
<1>5. /\ c.orders = [b.orders EXCEPT ![o] = Sim!Absent] /\ c.fills = [b.fills EXCEPT ![o] = <<>>]
      /\ c.coins = b.coins /\ c.dollars = b.dollars /\ c.position = b.position
  BY <1>2 DEF BookTypes
<1>6. FreeIds(c)
  BY <1>5 DEF FreeIds, BookTypes
<1> QED
  <2>1. \A p \in Orders : p # o => c.orders[p] = b.orders[p]
    BY <1>5 DEF BookTypes
  <2> QED
    BY <1>4, <1>5, <1>6, <2>1 DEF c

\* A step of the limit orders, one after the other (advance).
Sound(b) ==
    /\ BookTypes(b) /\ FreeIds(b) /\ StayTaken(book, b)
    /\ Sim!Balanced(book) => Sim!Balanced(b)
    /\ book.position = book.coins => b.raised \/ b.position = b.coins

LEMMA AdvanceKeeps ==
  ASSUME SimTypes PROVE Sound(Sim!Advanced)
<1> DEFINE n == Len(book.placed)
           start == [book EXCEPT !.raised = FALSE]
           Steps(after) ==
             after = [k \in 0 .. n |-> IF k = 0 THEN start
                                       ELSE Sim!Turn(after[k - 1], book.placed[k])]
           after == CHOOSE a_ : Steps(a_)
<1>1. Sim!Advanced = after[n]
  BY DEF Sim!Advanced
<1>2. n \in Nat /\ \A k \in 1 .. n : book.placed[k] \in Orders
  BY DEF SimTypes, BookTypes
<1>3. \E a_ : Steps(a_)
  <2> DEFINE Part(m, a_) ==
               a_ = [k \in 0 .. m |-> IF k = 0 THEN start
                                      ELSE Sim!Turn(a_[k - 1], book.placed[k])]
             without == {m \in Nat : ~ \E a_ : Part(m, a_)}
  <2> HIDE DEF start, n
  <2>1. without = {}
    <3> SUFFICES ASSUME without # {} PROVE FALSE
      OBVIOUS
    <3>1. PICK m \in without : \A k \in without : m <= k
      BY LeastNumber
    <3>2. CASE m = 0
      <4> DEFINE a_ == [k \in 0 .. 0 |-> start]
      <4>1. Part(0, a_)
        OBVIOUS
      <4> QED
        BY <3>2, <4>1
    <3>3. CASE m # 0
      <4>1. m - 1 \in Nat /\ m - 1 \notin without
        <5> HIDE DEF without
        <5>1. m \in Nat
          BY DEF without
        <5> QED
          BY <3>1, <3>3, <5>1
      <4>2. PICK less : Part(m - 1, less)
        BY <4>1
      <4> DEFINE a_ == [k \in 0 .. m |-> IF k = 0 THEN start
                                         ELSE Sim!Turn(less[k - 1], book.placed[k])]
      <4>3. \A k \in 0 .. m - 1 : a_[k] = less[k]
        BY <4>1, <4>2
      <4>4. \A k \in 0 .. m : k # 0 => a_[k - 1] = less[k - 1]
        <5>1. m \in Nat
          OBVIOUS
        <5>2. \A k \in 0 .. m : k # 0 => k - 1 \in 0 .. m - 1
          BY <5>1
        <5> HIDE DEF a_
        <5> QED
          BY <4>3, <5>2
      <4>5. \A k \in 0 .. m : a_[k] = IF k = 0 THEN start ELSE Sim!Turn(a_[k - 1], book.placed[k])
        BY <4>4
      <4>6. Part(m, a_)
        BY <4>5
      <4> QED
        BY <4>6
    <3> QED
      BY <3>2, <3>3
  <2> QED
    BY <1>2, <2>1 DEF n
<1>4. Steps(after)
  BY <1>3
<1> HIDE DEF after, n
<1>5. Sound(start)
  <2>1. BookTypes(book) /\ FreeIds(book)
    BY DEF SimTypes
  <2>2. BookTypes(start) /\ start.orders = book.orders /\ start.fills = book.fills
        /\ start.coins = book.coins /\ start.dollars = book.dollars
        /\ start.position = book.position
    BY <2>1 DEF BookTypes
  <2> HIDE DEF start
  <2> QED
    BY <2>1, <2>2, SameFills DEF Sound, FreeIds, StayTaken, Sim!Balanced
<1>6. ASSUME NEW b, Sound(b), NEW o \in Orders PROVE Sound(Sim!Turn(b, o))
  <2>1. CASE b.raised \/ b.orders[o].status \in Sim!Done \/ ~Sim!Marketable(b.orders[o])
    BY <1>6, <2>1 DEF Sim!Turn
  <2>2. CASE ~(b.raised \/ b.orders[o].status \in Sim!Done \/ ~Sim!Marketable(b.orders[o]))
    <3>1. BookTypes(b) /\ FreeIds(b) /\ b.raised = FALSE
      <4>1. BookTypes(b) /\ FreeIds(b)
        BY <1>6 DEF Sound
      <4> QED
        BY <2>2, <4>1 DEF BookTypes
    <3> DEFINE c == Sim!FillNextLimit(b, o)
    <3>2. Kept(o, b, c)
      BY <3>1, LimitKeeps
    <3>3. Sim!Turn(b, o) = c
      BY <2>2 DEF Sim!Turn
    <3> HIDE DEF c
    <3>4. Sound(c)
      BY <1>6, <3>1, <3>2 DEF Kept, Sound, StayTaken
    <3> QED
      BY <3>3, <3>4
  <2> QED
    BY <2>1, <2>2
<1>7. \A k \in 0 .. n : Sound(after[k])
  <2> DEFINE wrong == {k \in 0 .. n : ~Sound(after[k])}
  <2> SUFFICES ASSUME wrong # {} PROVE FALSE
    OBVIOUS
  <2>1. wrong \subseteq Nat
    BY <1>2
  <2>2. PICK k \in wrong : \A j \in wrong : k <= j
    BY <2>1, LeastNumber
  <2>3. k \in 0 .. n /\ ~Sound(after[k])
    OBVIOUS
  <2>4. k # 0
    <3>1. 0 \in 0 .. n
      BY <1>2
    <3>2. after[0] = start
      BY <1>4, <3>1
    <3> QED
      BY <1>5, <2>3, <3>2
  <2>5. k - 1 \in 0 .. n /\ k \in 1 .. n /\ k \in Int
    BY <1>2, <2>3, <2>4
  <2>6. after[k] = Sim!Turn(after[k - 1], book.placed[k])
    BY <1>4, <2>4, <2>5
  <2>7. k - 1 \notin wrong
    <3> HIDE DEF wrong
    <3> QED
      BY <2>2, <2>5
  <2>8. Sound(after[k - 1])
    BY <2>5, <2>7
  <2> QED
    BY <1>2, <1>6, <2>3, <2>5, <2>6, <2>8
<1> QED
  BY <1>1, <1>2, <1>7

LEMMA SimBegins == Sim!Init => SimInv
<1> SUFFICES ASSUME Sim!Init PROVE SimInv
  OBVIOUS
<1>1. book = [placed |-> <<>>, orders |-> [o \in Orders |-> Sim!Absent],
              fills |-> [o \in Orders |-> <<>>], index |-> [o \in Orders |-> 0],
              dollars |-> StartDollars, coins |-> 0, position |-> 0, raised |-> FALSE]
  BY DEF Sim!Init, Sim!NewBook
<1>2. Sim!Absent \in OrderTypes /\ StartDollars \in Int
  BY SimNumbers DEF Sim!Absent, OrderTypes, Statuses, Sides
<1>3. SimTypes
  <2>1. BookTypes(book)
    <3>1. <<>> \in Seq(Orders) /\ <<>> \in Seq(Fills)
      OBVIOUS
    <3> QED
      BY <1>1, <1>2, <3>1 DEF BookTypes
  <2>2. FreeIds(book)
    BY <1>1 DEF FreeIds
  <2> QED
    BY <2>1, <2>2 DEF SimTypes, Sim!Init
\* Nothing was filled, and the sum of nothing is 0.
<1>4. Sim!OnRecord(book) = {}
  BY <1>1 DEF Sim!OnRecord
<1>5. ASSUME NEW f, DOMAIN f = {}, f \in [{} -> Int] PROVE Sim!SumFunction(f) = 0
  <2> DEFINE sum == CHOOSE h : RunningSums(f, {}, h)
  <2>1. RunningSums(f, {}, sum)
    BY <1>5, SumsExist, FS_EmptySet
  <2>2. Sim!SumFunction(f) = sum[{}]
    BY <1>5 DEF Sim!SumFunction, Sim!SumFunctionOnSet, Sim!FoldFunctionOnSet,
                Sim!MapThenFoldSet, RunningSums, First
  <2> HIDE DEF sum
  <2> QED
    BY <2>1, <2>2 DEF RunningSums
<1>6. Sim!CoinsMoved(book) = 0 /\ Sim!DollarsMoved(book) = 0
  BY <1>4, <1>5 DEF Sim!CoinsMoved, Sim!DollarsMoved
<1>7. Sim!Balanced(book)
  BY <1>1, <1>2, <1>6 DEF Sim!Balanced
<1> QED
  BY <1>1, <1>3, <1>7 DEF SimInv, Sim!Init

\* An order of the environment is new to the book, or was put there by a timeout.
LEMMA SimStep == SimInv /\ [Sim!Next]_Sim!vars => SimInv'
<1> SUFFICES ASSUME SimInv, [Sim!Next]_Sim!vars PROVE SimInv'
  OBVIOUS
<1>1. /\ SimTypes /\ BookTypes(book) /\ FreeIds(book) /\ bid \in Quotes /\ unknown \subseteq Orders
      /\ early \in BOOLEAN /\ broken \in BOOLEAN
      /\ \A o \in unknown : book.orders[o] # Sim!Absent
      /\ early \/ (Sim!Balanced(book) /\ \A o \in unknown : book.fills[o] = <<>>)
      /\ broken \/ book.position = book.coins
  BY DEF SimInv, SimTypes
<1>2. \A limit \in Sim!Limits : limit \in Int
  BY SimNumbers DEF Sim!Limits
\* What is left to show of a call that leaves the book as b.
<1>3. ASSUME NEW b, BookTypes(b), FreeIds(b), Sim!Becomes(b), bid' = bid,
             unknown' \subseteq Orders, early' \in BOOLEAN,
             \A o \in unknown' : b.orders[o] # Sim!Absent,
             early' \/ (Sim!Balanced(b) /\ \A o \in unknown' : b.fills[o] = <<>>),
             book.position = book.coins => b.raised \/ b.position = b.coins
      PROVE  SimInv'
  <2>1. book' = b /\ broken' = (broken \/ b.raised)
    BY <1>3 DEF Sim!Becomes
  <2>2. b.raised \in BOOLEAN
    BY <1>3 DEF BookTypes
  <2>3. SimTypes'
    BY <1>1, <1>3, <2>1, <2>2 DEF SimTypes, BookTypes, FreeIds
  <2>4. Sim!Balanced(b) => Sim!Balanced(book')
    BY <2>1
  <2>5. (Sim!Balanced(book))' <=> Sim!Balanced(book')
    BY DEF Sim!Balanced, Sim!CoinsMoved, Sim!DollarsMoved, Sim!OnRecord
  <2> QED
    BY <1>1, <1>3, <2>1, <2>2, <2>3, <2>4, <2>5 DEF SimInv
<1>4. ASSUME NEW o \in Orders, NEW side \in {"buy", "sell"}, NEW limit \in Sim!Limits,
             Sim!SubmitOrder(o, side, limit)
      PROVE  SimInv'
  <2>1. /\ book.orders[o] = Sim!Absent /\ bid' = bid /\ unknown' = unknown /\ early' = early
        /\ Sim!Becomes(Sim!Accepted(book, o, side, limit))
    BY <1>4 DEF Sim!SubmitOrder
  <2>2. book.fills[o] = <<>> /\ side \in Sides /\ limit \in Int
    BY <1>1, <1>2, <2>1 DEF FreeIds, Sides
  <2> DEFINE c == Sim!Accepted(book, o, side, limit)
  <2>3. /\ BookTypes(c) /\ FreeIds(c) /\ StayTaken(book, c)
        /\ Sim!Balanced(book) => Sim!Balanced(c)
        /\ \A p \in Orders : p # o => c.fills[p] = book.fills[p]
        /\ book.position = book.coins => c.raised \/ c.position = c.coins
    BY <1>1, <2>2, AcceptedKeeps DEF AcceptedOver
  <2>4. o \notin unknown
    BY <1>1, <2>1
  <2> HIDE DEF c
  <2> QED
    BY <1>1, <1>3, <2>1, <2>3, <2>4 DEF c, StayTaken
<1>5. ASSUME NEW o \in Orders, NEW side \in {"buy", "sell"}, NEW limit \in Sim!Limits,
             Sim!SubmitRejected(o, side, limit) \/ Sim!SubmitTimesOut(o, side, limit)
      PROVE  SimInv'
  <2>1. PICK status_ \in {"rejected", "unknown"} :
           Sim!Becomes(Sim!Stored(book, o, [status |-> status_, side |-> side, limit |-> limit,
                                            filled |-> 0]))
    BY <1>5 DEF Sim!SubmitRejected, Sim!SubmitTimesOut
  <2>2. /\ book.orders[o] = Sim!Absent /\ bid' = bid /\ early' = early
        /\ unknown' = unknown \/ unknown' = unknown \cup {o}
    BY <1>5 DEF Sim!SubmitRejected, Sim!SubmitTimesOut
  <2> DEFINE order_ == [status |-> status_, side |-> side, limit |-> limit, filled |-> 0]
             c == Sim!Stored(book, o, order_)
  <2>3. order_ \in OrderTypes /\ order_ # Sim!Absent
    BY <1>2 DEF OrderTypes, Statuses, Sides, Sim!Absent
  <2>4. book.fills[o] = <<>>
    BY <1>1, <2>2 DEF FreeIds
  <2>5. c.orders[o] = order_
    BY <1>1 DEF Sim!Stored, BookTypes
  <2>6. Sim!Becomes(c)
    BY <2>1
  <2> HIDE DEF order_
  <2>7. StoredOver(book, c)
    BY <1>1, <2>3, <2>4, StoredKeeps
  <2> HIDE DEF c
  <2>8. BookTypes(c) /\ FreeIds(c) /\ c.fills = book.fills /\ c.position = book.position
        /\ c.coins = book.coins /\ c.dollars = book.dollars
    BY <2>7 DEF StoredOver
  <2>9. Sim!Balanced(book) => Sim!Balanced(c)
    BY <2>8, SameFills DEF Sim!Balanced
  <2>10. \A p \in unknown' : c.orders[p] # Sim!Absent
    BY <1>1, <2>2, <2>3, <2>5, <2>7 DEF StoredOver, StayTaken
  <2>11. early' \/ (Sim!Balanced(c) /\ \A p \in unknown' : c.fills[p] = <<>>)
    BY <1>1, <2>2, <2>4, <2>8, <2>9
  <2> QED
    BY <1>1, <1>3, <2>2, <2>6, <2>8, <2>10, <2>11
<1>6. ASSUME NEW o \in Orders, Sim!GetOrder(o) PROVE SimInv'
  <2> DEFINE b == Sim!Popped(book, o)
             side == book.orders[o].side
             limit == book.orders[o].limit
             c == Sim!Accepted(b, o, side, limit)
  <2>1. /\ o \in unknown /\ unknown' = unknown \ {o} /\ bid' = bid /\ early' = early
        /\ Sim!Becomes(c)
    BY <1>6 DEF Sim!GetOrder
  <2>2. side \in Sides /\ limit \in Int
    BY <1>1 DEF BookTypes, OrderTypes
  <2>3. /\ BookTypes(b) /\ FreeIds(b) /\ b.fills = [book.fills EXCEPT ![o] = <<>>]
        /\ \A p \in Orders : p # o => b.orders[p] = book.orders[p]
        /\ b.coins = book.coins /\ b.dollars = book.dollars /\ b.position = book.position
    BY <1>1, PoppedKeeps
  <2>4. book.fills \in [Orders -> Seq(Fills)]
    BY <1>1 DEF BookTypes
  <2>5. b.fills[o] = <<>>
    BY <2>3, <2>4
  <2> HIDE DEF b, side, limit
  <2>6. /\ BookTypes(c) /\ FreeIds(c) /\ StayTaken(b, c)
        /\ Sim!Balanced(b) => Sim!Balanced(c)
        /\ \A p \in Orders : p # o => c.fills[p] = b.fills[p]
        /\ b.position = b.coins => c.raised \/ c.position = c.coins
    <3>1. AcceptedOver(o, b, c)
      BY <1>1, <2>2, <2>3, <2>5, AcceptedKeeps
    <3> HIDE DEF c
    <3> QED
      BY <3>1 DEF AcceptedOver
  <2> HIDE DEF c
  <2>7. early \/ Sim!Balanced(c)
    <3>1. CASE ~early
      <4>1. b.fills = book.fills
        BY <1>1, <2>1, <2>3, <2>4, <3>1
      <4> QED
        BY <1>1, <2>3, <2>6, <3>1, <4>1, SameFills DEF Sim!Balanced
    <3> QED
      BY <3>1
  <2>8. \A p \in unknown' : c.orders[p] # Sim!Absent
    BY <1>1, <2>1, <2>3, <2>6 DEF StayTaken
  <2>9. \A p \in unknown' : c.fills[p] = book.fills[p]
    BY <1>1, <2>1, <2>3, <2>4, <2>6
  <2> QED
    BY <1>1, <1>3, <2>1, <2>3, <2>6, <2>7, <2>8, <2>9
<1>7. ASSUME Sim!Advance PROVE SimInv'
  <2> DEFINE c == Sim!Advanced
  <2>1. /\ Sim!Becomes(c) /\ bid' = bid /\ unknown' = unknown
        /\ early' = (early \/ \E o \in unknown : c.fills[o] # book.fills[o])
    BY <1>7 DEF Sim!Advance
  <2>2. Sound(c)
    BY <1>1, AdvanceKeeps DEF SimTypes
  <2> HIDE DEF c
  <2>3. \A p \in unknown' : c.orders[p] # Sim!Absent
    BY <1>1, <2>1, <2>2 DEF StayTaken, Sound
  <2>4. early' \in BOOLEAN
    BY <1>1, <2>1
  <2>5. early' \/ (Sim!Balanced(c) /\ \A o \in unknown' : c.fills[o] = <<>>)
    BY <1>1, <2>1, <2>2 DEF Sound
  <2> QED
    BY <1>1, <1>3, <2>1, <2>2, <2>3, <2>4, <2>5 DEF Sound
<1>8. ASSUME NEW q \in Quotes, Sim!SetQuote(q) PROVE SimInv'
  BY <1>1, <1>8, SameFills
  DEF Sim!SetQuote, SimInv, SimTypes, FreeIds, Sim!Balanced, Sim!CoinsMoved,
      Sim!DollarsMoved, Sim!OnRecord
<1>9. CASE UNCHANGED Sim!vars
  BY <1>1, <1>9 DEF Sim!vars, SimInv, SimTypes, FreeIds, Sim!Balanced, Sim!CoinsMoved,
      Sim!DollarsMoved, Sim!OnRecord
<1> QED
  BY <1>4, <1>5, <1>6, <1>7, <1>8, <1>9 DEF Sim!Next

\* The simulator's balances and its position are what its recorded fills add up to, for
\* any orders, schedule, prices and rates, but for an order filled before its timeout was
\* resolved and an accounting that raised (_apply_fill, _apply_accounting, get_order).
THEOREM SimulatedBooksFollow == Sim!Spec => []BooksFollowFills
<1>1. SimInv => BooksFollowFills
  BY DEF SimInv, BooksFollowFills, Sim!BooksFollowFills, Sim!BalancesFollow, Sim!PositionFollows
<1> QED
  BY <1>1, SimBegins, SimStep, PTL DEF Sim!Spec

-----------------------------------------------------------------------------
(* The composition that the run checks.                                    *)

\* A behaviour of the composition is a behaviour of each of its parts.
LEMMA PartsRunAsAlone ==
  ProviderSpec => Amendment!Spec /\ Account!Spec /\ Probe!Spec /\ Search!Spec /\ Sim!Spec
                  /\ (Init /\ [][Next]_vars)
<1> DEFINE all == <<vars, sim, finding, amending, listing, probing, focus>>
<1> USE DEF finding, amending, listing, probing, Amendment!vars, Amendment!fixed,
            Amendment!atVenue, Account!vars, Probe!vars, Search!vars
<1>1. ProviderInit => Amendment!Init /\ Account!Init /\ Probe!Init /\ Search!Init /\ Sim!Init /\ Init
  BY DEF ProviderInit
<1>2. [ProviderNext]_all => [Amendment!Next]_Amendment!vars
  <2>1. Search!Next => provider' = provider
    BY DEF Search!Next, Search!Tick, Search!Arrive, Search!Save, Search!Restart,
           Search!SubmitAcknowledged, Search!SubmitTimesOut, Search!OtherOrder, Search!Settle,
           Search!Cached, Search!Lookup, Search!LookupFails, Search!Begin, Search!PageFinds,
           Search!PageEnds, Search!PageGoesOn, Search!CutShort, Search!PageFails
  <2> QED
    BY <2>1 DEF ProviderNext
<1>3. [ProviderNext]_all => [Account!Next]_Account!vars
  BY DEF ProviderNext
<1>4. [ProviderNext]_all => [Probe!Next]_Probe!vars
  BY DEF ProviderNext
<1>5. [ProviderNext]_all => [Search!Next]_Search!vars
  <2>1. Amendment!Next => provider' = provider
    BY DEF Amendment!Next, Amendment!Execute, Amendment!ExecuteNext, Amendment!CancelTakes,
           Amendment!ReplacementArrives, Amendment!Ask, Amendment!Settled, Amendment!ChoosePath,
           Amendment!EditTakes, Amendment!EditRefused, Amendment!EditReadBack,
           Amendment!CoinbaseCancelTakes, Amendment!GeminiCancelTakes, Amendment!CancelRefused,
           Amendment!CancelReadBack, Amendment!CancelReadFails, Amendment!Refuse,
           Amendment!Replace, Amendment!Recovered, Amendment!PostNext, Amendment!Poll
  <2> QED
    BY <2>1 DEF ProviderNext
<1>6. [ProviderNext]_all => [Next]_vars
  BY DEF ProviderNext
<1>7. [ProviderNext]_all => [Sim!Next]_Sim!vars
  BY DEF ProviderNext, sim, Sim!vars
<1> QED
  BY <1>1, <1>2, <1>3, <1>4, <1>5, <1>6, <1>7, PTL
  DEF ProviderSpec, Amendment!Spec, Account!Spec, Probe!Spec, Search!Spec, Sim!Spec

\* Behind the broker interface, whichever part a behaviour follows: requests are carried
\* out once and sent at the bucket's rate, the simulator's books follow its fills, a
\* search answers for the venue and kept listings know of the writes before them
\* (request_json, _apply_fill, get_order, get_positions); and, when the venue answers a
\* cancel once the order is canceled, an amended order stays within its total and the
\* sandbox is left clean (edit_order, _cancel_leftovers).
THEOREM ProviderHolds ==
  /\ ProviderSpec => /\ [](AppliedOnce /\ RateBound /\ BooksFollowFills)
                     /\ AnswersHold /\ WritesSeen
  /\ CancelIsFinal => (ProviderSpec => [](WithinTotal /\ LeavesNothing))
<1>1. NotYetApplied => AppliedOnce
  BY DEF NotYetApplied, AppliedOnce
<1>2. Init /\ [][Next]_vars => []AppliedOnce
  BY <1>1, CallBegins, CallStep, PTL
<1>3. ProviderSpec => /\ [](AppliedOnce /\ RateBound /\ BooksFollowFills)
                      /\ AnswersHold /\ WritesSeen
  BY <1>2, RateStays, PartsRunAsAlone, SimulatedBooksFollow, SearchAnswersHold,
     PositionsKnowWrites, PTL
<1>4. ASSUME CancelIsFinal PROVE ProviderSpec => [](WithinTotal /\ LeavesNothing)
  BY <1>4, PartsRunAsAlone, AmendedWithinTotal, SandboxLeftClean, PTL
<1> QED
  BY <1>3, <1>4
=============================================================================
