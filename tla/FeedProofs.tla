----------------------------- MODULE FeedProofs -----------------------------
(***************************************************************************)
(* The watch-only feed's switch and its charts, for every number of requests,   *)
(* every page and batch size, every retention and every width of a bar; and the *)
(* market feed's candles and storm alerts, for every length of history and      *)
(* every timeout.                                                          *)
(***************************************************************************)
EXTENDS MCFeed, FiniteSetTheorems, SequenceTheorems,
        WellFoundedInduction, TLAPS

-----------------------------------------------------------------------------
(* The switch.                                                             *)

\* What RunsAsSaved leaves open: a service that could not read the choice has the feed off
\* and nobody turning it off, and a request that waits names a choice or undoes a start.
SwitchInv ==
    /\ choice = [count |-> choice.count, on |-> choice.on] /\ choice.count \in Nat
    /\ waiting = [r \in Switchers |-> waiting[r]]
    /\ \A r \in Switchers : waiting[r] \in Nat \cup {-1}
    /\ ~up => \A r \in Switchers : waiting[r] = 0
    /\ up /\ origin = -2 => ~feed /\ \A r \in Switchers : waiting[r] \in {0, -1}
    /\ RunsAsSaved

LEMMA SwitchBegins == Control!Init => SwitchInv
  BY DEF Control!Init, SwitchInv, RunsAsSaved, Control!RunsAsSaved, Control!Idle

LEMMA SwitchStep == SwitchInv /\ [Control!Next]_Control!vars => SwitchInv'
<1> SUFFICES ASSUME SwitchInv, [Control!Next]_Control!vars PROVE SwitchInv'
  OBVIOUS
<1> USE DEF SwitchInv, RunsAsSaved, Control!RunsAsSaved, Control!Idle, Control!Undo,
            Control!Unreadable, Control!Environment
<1>1. CASE Control!Boot
  BY <1>1 DEF Control!Boot
<1>2. CASE Control!Crash
  BY <1>2 DEF Control!Crash
<1>3. ASSUME NEW r \in Switchers, Control!TurnOn(r) PROVE SwitchInv'
  BY <1>3 DEF Control!TurnOn, Control!NextSave
<1>4. ASSUME NEW r \in Switchers, Control!TurnOnUnsaved(r) PROVE SwitchInv'
  <2>1. /\ ~feed /\ waiting[r] = 0 /\ waiting' = [waiting EXCEPT ![r] = -1]
        /\ UNCHANGED <<up, feed, origin>>
    BY <1>4 DEF Control!TurnOnUnsaved
  <2>4. /\ waiting' = [q \in Switchers |-> waiting'[q]]
        /\ \A q \in Switchers : waiting'[q] \in {waiting[q], -1}
    BY <2>1
  <2>5. up'
    BY <1>4 DEF Control!TurnOnUnsaved
  <2>2. CASE UNCHANGED <<choice, untold>>
    BY <2>1, <2>2, <2>4, <2>5
  <2>3. CASE choice' = Control!NextSave(TRUE) /\ untold' = TRUE
    BY <2>1, <2>3, <2>4, <2>5 DEF Control!NextSave
  <2> QED
    BY <1>4, <2>2, <2>3 DEF Control!TurnOnUnsaved, Control!SaveRaises
<1>5. ASSUME NEW r \in Switchers, Control!TurnOff(r) PROVE SwitchInv'
  <2>1. /\ up /\ up' = up /\ feed' = FALSE /\ origin # -2 /\ origin' = origin
        /\ choice' = [count |-> choice.count + 1, on |-> FALSE]
        /\ waiting' = [waiting EXCEPT ![r] = choice.count + 1]
    BY <1>5 DEF Control!TurnOff, Control!NextSave
  <2>2. \A q \in Switchers : waiting'[q] \in Nat \cup {-1}
    BY <2>1
  <2>3. waiting' = [q \in Switchers |-> waiting'[q]]
    BY <2>1
  <2>4. choice'.count \in Nat /\ choice'.on = FALSE /\ choice' = [count |-> choice'.count, on |-> choice'.on]
    BY <2>1
  <2> QED
    BY <2>1, <2>2, <2>3, <2>4
<1>6. ASSUME NEW r \in Switchers, Control!Stopped(r) PROVE SwitchInv'
  BY <1>6 DEF Control!Stopped
<1>7. CASE UNCHANGED Control!vars
  BY <1>7 DEF Control!vars
<1>8. ASSUME NEW r \in Switchers, Control!TurnOffUnsaved(r) PROVE SwitchInv'
  <2>1. up /\ feed /\ UNCHANGED <<up, feed, origin, waiting>>
    BY <1>8 DEF Control!TurnOffUnsaved
  <2>2. CASE UNCHANGED <<choice, untold>>
    BY <2>1, <2>2
  <2>3. CASE choice' = Control!NextSave(FALSE) /\ untold' = TRUE
    BY <2>1, <2>3 DEF Control!NextSave
  <2> QED
    BY <1>8, <2>2, <2>3 DEF Control!TurnOffUnsaved, Control!SaveRaises
<1> QED
  BY <1>1, <1>2, <1>3, <1>4, <1>5, <1>6, <1>7, <1>8 DEF Control!Next

\* The feed runs exactly when the newest saved choice says so, through any number of
\* overlapping requests, saves that raise whether or not they were committed, and restarts;
\* what a save that raised left behind is followed from the next start or saved choice
\* (set_feed, start_watch_feed, SqlAlchemyFeedSetting.save).
THEOREM FeedRunsAsSaved == Control!Spec => []RunsAsSaved
<1>1. SwitchInv => RunsAsSaved
  BY DEF SwitchInv
<1> QED
  BY <1>1, SwitchBegins, SwitchStep, PTL DEF Control!Spec
-----------------------------------------------------------------------------
(* Numbers and finite sets.                                                *)

\* Every set of numbers that is not empty has a least one.
LEMMA LeastNumber ==
  ASSUME NEW N, N \subseteq Nat, N # {}
  PROVE  \E m \in N : \A n \in N : m <= n
<1>1. PICK m \in N : \A n \in N : <<n, m>> \notin OpToRel(<, Nat)
  BY WFMin, NatLessThanWellFounded
<1>2. \A n \in N : ~(n < m)
  BY <1>1 DEF OpToRel
<1> QED
  BY <1>2

\* The earliest and the newest of some candles are among them.
LEMMA EndsAreMembers ==
  ASSUME NEW a \in Int, NEW b \in Int, NEW S, S \subseteq a .. b, S # {}
  PROVE  /\ Chart!Min(S) \in S /\ \A x \in S : Chart!Min(S) <= x
         /\ Chart!Max(S) \in S /\ \A x \in S : x <= Chart!Max(S)
<1>1. \E m \in S : \A x \in S : m <= x
  <2> DEFINE N == {x - a : x \in S}
  <2>1. \A x \in S : x \in Int /\ x - a \in Nat
    OBVIOUS
  <2>2. N \subseteq Nat /\ N # {}
    BY <2>1
  <2>3. PICK m \in N : \A n \in N : m <= n
    BY <2>2, LeastNumber
  <2>4. PICK x \in S : m = x - a
    OBVIOUS
  <2>5. \A y \in S : x - a <= y - a
    BY <2>3, <2>4
  <2> QED
    BY <2>1, <2>5
<1>2. \E m \in S : \A x \in S : x <= m
  <2> DEFINE N == {b - x : x \in S}
  <2>1. \A x \in S : x \in Int /\ b - x \in Nat
    OBVIOUS
  <2>2. N \subseteq Nat /\ N # {}
    BY <2>1
  <2>3. PICK m \in N : \A n \in N : m <= n
    BY <2>2, LeastNumber
  <2>4. PICK x \in S : m = b - x
    OBVIOUS
  <2>5. \A y \in S : b - x <= b - y
    BY <2>3, <2>4
  <2> QED
    BY <2>1, <2>5
<1>3. \A x \in S : x \in Int
  OBVIOUS
<1>4. Chart!Min(S) \in S /\ \A x \in S : Chart!Min(S) <= x
  BY <1>1, <1>3 DEF Chart!Min
<1>5. Chart!Max(S) \in S /\ \A x \in S : x <= Chart!Max(S)
  BY <1>2, <1>3 DEF Chart!Max
<1> QED
  BY <1>4, <1>5

LEMMA CountedCandles ==
  ASSUME NEW a \in Int, NEW b \in Int, NEW S, S \subseteq a .. b
  PROVE  /\ Chart!Cardinality(S) \in Nat
         /\ Chart!Cardinality(S) > 0 <=> S # {}
<1>1. Chart!Cardinality(S) = Cardinality(S)
  BY DEF Chart!Cardinality, Cardinality
<1>2. IsFiniteSet(a .. b)
  BY FS_Interval
<1>3. IsFiniteSet(S) /\ Cardinality(S) \in Nat
  <2>1. S \in SUBSET (a .. b)
    OBVIOUS
  <2> QED
    BY <1>2, <2>1, FS_Subset, FS_CardinalityType
<1>4. Cardinality(S) = 0 <=> S = {}
  BY <1>3, FS_EmptySet
<1> HIDE DEF Cardinality
<1>5. Chart!Cardinality(S) \in Nat
  BY <1>1, <1>3
<1>6. Chart!Cardinality(S) = 0 <=> S = {}
  BY <1>1, <1>4
<1>7. \A n \in Nat : n > 0 <=> n # 0
  OBVIOUS
<1>8. Chart!Cardinality(S) > 0 <=> Chart!Cardinality(S) # 0
  BY <1>5, <1>7
<1> QED
  BY <1>5, <1>6, <1>8

LEMMA Multiples ==
  ASSUME NEW m \in Nat \ {0}, NEW i \in Int, NEW j \in Int, i <= j
  PROVE  m * i <= m * j /\ m * i \in Int /\ m * j \in Int
<1>1. m * (j - i) = m * j - m * i /\ m * i \in Int /\ m * j \in Int
  OBVIOUS
<1>2. ASSUME NEW k \in Nat PROVE m * k >= 0
  OBVIOUS
<1> QED
  BY <1>1, <1>2

-----------------------------------------------------------------------------
(* The candles of a coin.                                                  *)
Sizes == Reach \in Nat /\ Retention \in Nat /\ Retention >= Reach /\ Page \in Nat /\ Page > 0

LEMMA SizesFit == Sizes
  BY ChartAssumption DEF Sizes, Chart!Configured

CandleTypes ==
    /\ now \in Nat /\ stored \subseteq traded
    /\ traded \subseteq Int /\ \A t \in traded : -Reach <= t /\ t < now
    /\ collect \in {"idle", "page", "prune"} /\ cursor \in Int /\ end \in Int
    /\ collect # "idle" => end <= now
    /\ collect = "page" => cursor <= now

\* Within the reach of the backfill, what is stored has no hole before it: pages are
\* saved oldest first, and only what is older is pruned.
NoHoles ==
    /\ \A t \in traded, u \in stored : now - Reach <= t /\ t < u => t \in stored
    /\ collect = "page" => \A t \in traded : now - Reach <= t /\ t < cursor => t \in stored

CandlesInv == CandleTypes /\ NoHoles

\* What a step does to the candles: nothing within reach is taken from the table, and a
\* candle is added to the market only when it closes.
CandlesMove ==
    /\ now' \in Nat /\ now' >= now /\ traded \subseteq traded'
    /\ \A t \in traded' : t \in traded \/ t >= now
    /\ \A t \in stored : t >= now - Reach => t \in stored'

LEMMA CandlesBegin == Chart!Init => CandlesInv
  BY SizesFit DEF Chart!Init, CandlesInv, CandleTypes, NoHoles, Sizes

LEMMA CandlesStep ==
  ASSUME CandlesInv, Chart!Tick \/ Chart!Feed PROVE CandlesInv' /\ CandlesMove
<1> USE SizesFit DEF Sizes, CandlesInv, CandleTypes, NoHoles, CandlesMove, Chart!clock,
                     Chart!feed, Chart!Idle
<1>1. CASE Chart!Tick
  <2>1. traded \subseteq traded'
    BY <1>1 DEF Chart!Tick
  <2>2. now' = now + 1 /\ UNCHANGED <<stored, collect, cursor, end>>
    BY <1>1 DEF Chart!Tick
  <2>3. \A t \in traded' : t \in traded \/ t = now
    BY <1>1 DEF Chart!Tick
  <2>4. CandleTypes'
    <3>1. stored' \subseteq traded'
      BY <2>1, <2>2
    <3>2. ASSUME NEW t \in traded' PROVE t \in Int /\ -Reach <= t /\ t < now'
      <4>1. CASE t \in traded
        BY <2>2, <4>1
      <4>2. CASE t = now
        BY <2>2, <4>2
      <4> QED
        BY <2>3, <4>1, <4>2
    <3>3. now' \in Nat /\ (collect' # "idle" => end' <= now') /\ (collect' = "page" => cursor' <= now')
      BY <2>2
    <3>4. collect' \in {"idle", "page", "prune"} /\ cursor' \in Int /\ end' \in Int
      BY <2>2
    <3> QED
      BY <3>1, <3>2, <3>3, <3>4
  <2>5. CandlesMove
    BY <2>1, <2>2, <2>3
  <2>6. \A u \in stored : u < now /\ u \in Int
    OBVIOUS
  <2>7. NoHoles'
    <3>1. ASSUME NEW t \in traded', NEW u \in stored', now' - Reach <= t, t < u PROVE t \in stored'
      <4>1. u \in stored /\ u < now /\ u \in Int
        BY <2>2, <2>6
      <4>2. t # now
        BY <3>1, <4>1
      <4>3. t \in traded /\ t \in Int
        BY <2>3, <4>2
      <4>4. now - Reach <= t
        BY <2>2, <3>1, <4>3
      <4> QED
        BY <2>2, <3>1, <4>1, <4>3, <4>4
    <3>2. ASSUME collect' = "page", NEW t \in traded', now' - Reach <= t, t < cursor' PROVE t \in stored'
      <4>1. t # now
        BY <2>2, <3>2
      <4>2. t \in traded /\ t \in Int
        BY <2>3, <4>1
      <4>3. now - Reach <= t
        BY <2>2, <3>2, <4>2
      <4> QED
        BY <2>2, <3>2, <4>2, <4>3
    <3> QED
      BY <3>1, <3>2
  <2> QED
    BY <2>4, <2>5, <2>7
<1>2. CASE Chart!CollectStart
  <2>1. /\ collect' = "page" /\ end' = now /\ cursor' = Chart!Resume(now)
        /\ UNCHANGED <<now, traded, stored>>
    BY <1>2 DEF Chart!CollectStart
  <2>2. CASE stored = {}
    <3>1. cursor' = now - Reach
      BY <2>1, <2>2 DEF Chart!Resume
    <3> QED
      BY <2>1, <3>1
  <2>3. CASE stored # {}
    <3> DEFINE newest == Chart!Max(stored)
    <3>1. newest \in stored /\ \A t \in stored : t <= newest
      <4>1. stored \subseteq -Reach .. now /\ -Reach \in Int /\ now \in Int
        OBVIOUS
      <4> HIDE DEF CandlesInv, newest
      <4>2. Chart!Max(stored) \in stored /\ \A t \in stored : t <= Chart!Max(stored)
        BY <2>3, <4>1, EndsAreMembers
      <4> QED
        BY <4>2 DEF newest
    <3>2. cursor' = IF now - Reach > newest + 1 THEN now - Reach ELSE newest + 1
      BY <2>1, <2>3 DEF Chart!Resume, Chart!Newest, Chart!Later
    <3> HIDE DEF newest
    <3> QED
      BY <2>1, <3>1, <3>2
  <2> QED
    BY <2>2, <2>3
<1>3. CASE Chart!CollectPage
  <2> DEFINE to == IF end < cursor + Page THEN end ELSE cursor + Page
  <2>1. /\ collect = "page" /\ cursor < end /\ cursor' = to
        /\ stored' = stored \cup {t \in traded : cursor <= t /\ t < to}
        /\ UNCHANGED <<now, traded, collect, end>>
    BY <1>3 DEF Chart!CollectPage, Chart!Sooner, Chart!Fetched
  <2>2. to \in Int /\ to <= end /\ cursor < to
    BY <2>1
  <2> HIDE DEF to
  <2>3. CandleTypes'
    <3>1. stored' \subseteq traded'
      BY <2>1
    <3>2. now' \in Nat /\ (collect' # "idle" => end' <= now') /\ (collect' = "page" => cursor' <= now')
      BY <2>1, <2>2
    <3>3. collect' \in {"idle", "page", "prune"} /\ cursor' \in Int /\ end' \in Int
      BY <2>1, <2>2
    <3>4. \A t \in traded' : t \in Int /\ -Reach <= t /\ t < now'
      BY <2>1
    <3> QED
      BY <3>1, <3>2, <3>3, <3>4
  <2>4. \A t \in traded : now - Reach <= t /\ t < to => t \in stored'
    BY <2>1, <2>2
  <2>5. NoHoles'
    BY <2>1, <2>2, <2>4
  <2>6. CandlesMove
    BY <2>1
  <2> QED
    BY <2>3, <2>5, <2>6
<1>4. CASE Chart!CollectDone \/ Chart!CollectFails \/ Chart!Cancelled \/ Chart!PruneLater
  <2>1. UNCHANGED <<now, traded, stored>>
    BY <1>4 DEF Chart!CollectDone, Chart!CollectFails, Chart!Cancelled, Chart!PruneLater
  <2>2. collect' \in {"idle", "prune"} /\ cursor' \in Int /\ end' \in Int /\ (collect' # "idle" => end' = end /\ collect # "idle")
    BY <1>4 DEF Chart!CollectDone, Chart!CollectFails, Chart!Cancelled, Chart!PruneLater
  <2>3. CandleTypes'
    BY <2>1, <2>2
  <2>4. NoHoles'
    BY <2>1, <2>2
  <2>5. CandlesMove
    BY <2>1, <2>2
  <2> QED BY <2>3, <2>4, <2>5
<1>5. CASE Chart!PruneDue
  <2>1. /\ collect = "prune" /\ collect' = "idle" /\ cursor' = 0 /\ end' = 0
        /\ stored' = stored \ Chart!Oldest(end - Retention) /\ UNCHANGED <<now, traded>>
    BY <1>5 DEF Chart!PruneDue
  <2>2. \A t \in Chart!Oldest(end - Retention) : t < now - Reach
    BY <2>1 DEF Chart!Oldest
  <2>3. CandleTypes'
    <3>1. stored' \subseteq traded'
      BY <2>1
    <3>2. \A t \in traded' : t \in Int /\ -Reach <= t /\ t < now'
      BY <2>1
    <3> QED
      BY <2>1, <3>1, <3>2
  <2>4. \A t \in stored : t >= now - Reach => t \in stored'
    BY <2>1, <2>2
  <2>5. stored' \subseteq stored
    BY <2>1
  <2>6. NoHoles'
    BY <2>1, <2>4, <2>5
  <2>7. CandlesMove
    BY <2>1, <2>4
  <2> QED
    BY <2>3, <2>6, <2>7
<1> QED
  BY <1>1, <1>2, <1>3, <1>4, <1>5 DEF Chart!Feed

-----------------------------------------------------------------------------
(* A chart's read.                                                         *)

\* Whole bars in order, all but the last of which have ended.
EdgesFit(e) ==
    /\ Len(e) \in Nat /\ Len(e) >= 1
    /\ \A k \in 1 .. Len(e) : e[k] \in Int
    /\ \A k, j \in 1 .. Len(e) : k <= j => e[k] <= e[j]
    /\ \A k \in 1 .. Len(e) - 1 : e[k] <= now

LEMMA EdgesOfAChart ==
  ASSUME NEW w \in Windows, NEW i \in Intervals, now \in Nat
  PROVE  EdgesFit(Chart!Edges(w, i))
<1> DEFINE n == w \div i
           final == (now \div i) * i + i
           e == Chart!Edges(w, i)
<1>1. w \in Nat \ {0} /\ i \in Nat \ {0} /\ w % i = 0
  BY ChartAssumption DEF Chart!Configured
<1>2. w = i * n /\ n \in Nat
  BY <1>1
<1>3. i * (now \div i) <= now /\ now \div i \in Nat
  BY <1>1
<1>4. final = i * (now \div i) + i /\ final \in Int
  BY <1>1, <1>3
<1>5. e = [k \in 1 .. n + 1 |-> final - w + i * (k - 1)]
  BY DEF Chart!Edges
<1> HIDE DEF n, final, e
<1>6. Len(e) = n + 1
  BY <1>2, <1>5
<1>7. ASSUME NEW k \in 1 .. n + 1
      PROVE  e[k] = final - w + i * (k - 1) /\ e[k] \in Int /\ k - 1 \in Int /\ i * (k - 1) \in Int
  BY <1>1, <1>2, <1>4, <1>5
<1>8. ASSUME NEW k \in 1 .. n + 1, NEW j \in 1 .. n + 1, k <= j PROVE e[k] <= e[j]
  <2>1. i * (k - 1) <= i * (j - 1)
    BY <1>1, <1>7, <1>8, Multiples
  <2> QED
    BY <1>1, <1>4, <1>7, <2>1
<1>9. ASSUME NEW k \in 1 .. n PROVE e[k] <= now
  <2>1. i * (k - 1) <= i * (n - 1)
    BY <1>1, <1>2, Multiples
  <2>2. i * (n - 1) = w - i
    BY <1>1, <1>2
  <2>3. k \in 1 .. n + 1
    BY <1>2
  <2> QED
    BY <1>1, <1>3, <1>4, <1>7, <2>1, <2>2, <2>3
<1>10. EdgesFit(e)
  BY <1>2, <1>6, <1>7, <1>8, <1>9 DEF EdgesFit
<1> QED
  BY <1>10 DEF e

\* The coin's candles in a bar, and what a group of one bar says: its ends are in the
\* table while they are within reach, and it counts them all once a later one has some.
TradedIn(k) == {t \in traded : query.edges[k] <= t /\ t < query.edges[k + 1]}
EndHolds(k, t) ==
    /\ t \in Int /\ query.edges[k] <= t
    /\ t >= now - Reach => t \in stored
GroupHolds(k) ==
    /\ groups[k].count \in Nat
    /\ groups[k].count > 0 => EndHolds(k, groups[k].first) /\ EndHolds(k, groups[k].last)
LaterGroup(k) == \E j \in k + 1 .. Len(query.edges) - 1 : groups[j].count > 0
GroupIsWhole(k) ==
    query.edges[k] >= now - Reach /\ LaterGroup(k)
        => groups[k].count = Chart!Cardinality(TradedIn(k))

ReadInv ==
    /\ step # "sent" => answer.bars = <<>>
    /\ step = "sent" => BarsAreWhole
    /\ step \in {"groups", "latest", "edges"} => EdgesFit(query.edges)
    /\ step \in {"latest", "edges"} =>
          /\ \A k \in 1 .. Len(query.edges) - 1 : GroupHolds(k)
          /\ \A k \in 1 .. Len(query.edges) - 2 : GroupIsWhole(k)

ChartInv == CandlesInv /\ ReadInv

LEMMA ChartBegins == Chart!Init => ChartInv
<1> SUFFICES ASSUME Chart!Init PROVE ChartInv
  OBVIOUS
<1>1. ReadInv
  BY DEF Chart!Init, ReadInv, Chart!NoAnswer
<1> QED
  BY <1>1, CandlesBegin DEF ChartInv

\* The queries already made hold through what the clock and the feed do meanwhile.
LEMMA ReadOutlivesFeed ==
  ASSUME ChartInv, step # "sent", CandlesMove, UNCHANGED <<step, query, groups, latest, answer>>
  PROVE  ReadInv'
<1> USE SizesFit DEF Sizes
<1>0. now \in Nat /\ now' \in Nat /\ now <= now' /\ traded \subseteq Int
  BY DEF ChartInv, CandlesInv, CandleTypes, CandlesMove
<1> DEFINE e == query.edges
<1>1. step' # "sent" /\ answer'.bars = <<>>
  BY DEF ChartInv, ReadInv
<1>2. ASSUME step \in {"groups", "latest", "edges"} PROVE EdgesFit(e)'
  <2>1. EdgesFit(e)
    BY <1>2 DEF ChartInv, ReadInv
  <2>2. ASSUME NEW k \in 1 .. Len(e) - 1 PROVE e[k] <= now'
    <3>1. e[k] \in Int /\ e[k] <= now
      BY <2>1 DEF EdgesFit
    <3> QED
      BY <1>0, <3>1
  <2> QED
    BY <2>1, <2>2 DEF EdgesFit
<1>3. ASSUME step \in {"latest", "edges"}, NEW k \in 1 .. Len(e) - 1 PROVE GroupHolds(k)'
  <2>1. GroupHolds(k) /\ EdgesFit(e) /\ k \in 1 .. Len(e)
    BY <1>3 DEF ChartInv, ReadInv, EdgesFit
  <2>2. ASSUME NEW t, EndHolds(k, t) PROVE EndHolds(k, t)'
    <3>1. t \in Int /\ query.edges[k] <= t /\ (t >= now - Reach => t \in stored)
      BY <2>2 DEF EndHolds
    <3>2. t >= now' - Reach => t >= now - Reach
      BY <1>0, <3>1
    <3>3. t \in stored /\ t >= now - Reach => t \in stored'
      BY DEF CandlesMove
    <3> QED
      BY <3>1, <3>2, <3>3 DEF EndHolds
  <2> QED
    BY <2>1, <2>2 DEF GroupHolds
<1>4. ASSUME step \in {"latest", "edges"}, NEW k \in 1 .. Len(e) - 2 PROVE GroupIsWhole(k)'
  <2>1. GroupIsWhole(k) /\ EdgesFit(e)
    BY <1>4 DEF ChartInv, ReadInv
  <2>2. k \in 1 .. Len(e) /\ k + 1 \in 1 .. Len(e) /\ k + 1 \in 1 .. Len(e) - 1
    BY <2>1 DEF EdgesFit
  <2>3. e[k] \in Int /\ e[k + 1] \in Int /\ e[k + 1] <= now
    BY <2>1, <2>2 DEF EdgesFit
  <2>4. TradedIn(k)' = TradedIn(k)
    <3>1. ASSUME NEW t \in traded', t < e[k + 1] PROVE t \in traded
      BY <1>0, <2>3, <3>1 DEF CandlesMove
    <3>2. traded \subseteq traded'
      BY DEF CandlesMove
    <3> QED
      BY <3>1, <3>2 DEF TradedIn
  <2>5. e[k] >= now' - Reach => e[k] >= now - Reach
    BY <1>0, <2>3
  <2> QED
    BY <2>1, <2>4, <2>5 DEF GroupIsWhole, LaterGroup
<1> QED
  BY <1>1, <1>2, <1>3, <1>4 DEF ReadInv

\* The first query: what is stored of a bar within reach is all of it, once a later bar
\* has a stored candle.
LEMMA GroupsRead ==
  ASSUME ChartInv, Chart!ReadGroups PROVE ReadInv'
<1> USE SizesFit DEF Sizes
<1> DEFINE e == query.edges
<1>1. /\ step = "groups" /\ step' = "latest"
      /\ groups' = [k \in 1 .. Len(e) - 1 |->
            [count |-> Chart!Cardinality(Chart!InBar(k)), first |-> Chart!Earliest(Chart!InBar(k)),
             last |-> Chart!Newest(Chart!InBar(k))]]
      /\ UNCHANGED <<now, traded, stored, query, latest, answer>>
  BY DEF Chart!ReadGroups, Chart!clock, Chart!Bars
<1>2. EdgesFit(e) /\ answer.bars = <<>>
  BY <1>1 DEF ChartInv, ReadInv
<1>3. /\ now \in Nat /\ now \in Int /\ -Reach \in Int
      /\ stored \subseteq -Reach .. now /\ stored \subseteq traded
      /\ \A t \in traded : t \in Int
  BY DEF ChartInv, CandlesInv, CandleTypes
<1>4. \A k : Chart!InBar(k) \subseteq stored /\ Chart!InBar(k) \subseteq -Reach .. now
  BY <1>3 DEF Chart!InBar
<1>5. ASSUME NEW k \in 1 .. Len(e) - 1
      PROVE  /\ groups'[k].count = Chart!Cardinality(Chart!InBar(k))
             /\ groups'[k].first = Chart!Earliest(Chart!InBar(k))
             /\ groups'[k].last = Chart!Newest(Chart!InBar(k))
  BY <1>1
<1>6. ASSUME NEW k \in 1 .. Len(e) - 1
      PROVE  groups'[k].count \in Nat /\ (groups'[k].count > 0 <=> Chart!InBar(k) # {})
  <2>1. Chart!InBar(k) \subseteq -Reach .. now /\ -Reach \in Int /\ now \in Int
    BY <1>3, <1>4
  <2> QED
    BY <1>5, <2>1, CountedCandles
<1>7. ASSUME NEW k \in 1 .. Len(e) - 1 PROVE GroupHolds(k)'
  <2>1. ASSUME groups'[k].count > 0
        PROVE  groups'[k].first \in Chart!InBar(k) /\ groups'[k].last \in Chart!InBar(k)
    <3>1. Chart!InBar(k) # {} /\ Chart!InBar(k) \subseteq -Reach .. now
      BY <1>4, <1>6, <2>1
    <3>2. Chart!Min(Chart!InBar(k)) \in Chart!InBar(k) /\ Chart!Max(Chart!InBar(k)) \in Chart!InBar(k)
      BY <1>3, <3>1, EndsAreMembers
    <3> QED
      BY <1>5, <3>1, <3>2 DEF Chart!Earliest, Chart!Newest
  <2>2. ASSUME NEW t \in Chart!InBar(k) PROVE EndHolds(k, t)'
    BY <1>1, <1>3 DEF Chart!InBar, EndHolds
  <2> QED
    BY <1>6, <2>1, <2>2 DEF GroupHolds
<1>8. ASSUME NEW k \in 1 .. Len(e) - 2 PROVE GroupIsWhole(k)'
  <2> SUFFICES ASSUME e[k] >= now - Reach, NEW j \in k + 1 .. Len(e) - 1, groups'[j].count > 0
               PROVE  groups'[k].count = Chart!Cardinality(TradedIn(k))'
    BY <1>1 DEF GroupIsWhole, LaterGroup
  <2>1. /\ k \in 1 .. Len(e) /\ k + 1 \in 1 .. Len(e) /\ j \in 1 .. Len(e) /\ k + 1 <= j
        /\ j \in 1 .. Len(e) - 1 /\ k \in 1 .. Len(e) - 1
    BY <1>2 DEF EdgesFit
  <2>2. e[k] \in Int /\ e[k + 1] \in Int /\ e[j] \in Int /\ e[k + 1] <= e[j]
    BY <1>2, <2>1 DEF EdgesFit
  <2>3. PICK u \in Chart!InBar(j) : TRUE
    BY <1>6, <2>1
  <2>4. u \in stored /\ u \in Int /\ e[j] <= u
    BY <1>3, <2>3 DEF Chart!InBar
  <2>5. ASSUME NEW t \in traded, e[k] <= t, t < e[k + 1] PROVE t \in stored
    <3>1. t \in Int /\ now - Reach <= t /\ t < u
      BY <1>3, <2>2, <2>4, <2>5
    <3> QED
      BY <2>4, <3>1 DEF ChartInv, CandlesInv, NoHoles
  <2>6. TradedIn(k) = Chart!InBar(k)
    BY <1>3, <2>5 DEF TradedIn, Chart!InBar
  <2>7. TradedIn(k)' = TradedIn(k)
    BY <1>1 DEF TradedIn
  <2> QED
    BY <1>5, <2>1, <2>6, <2>7
<1>9. EdgesFit(e)'
  BY <1>1, <1>2 DEF EdgesFit
<1> QED
  BY <1>1, <1>2, <1>7, <1>8, <1>9 DEF ReadInv

\* The last query: a bar within reach is shown, for its ends are still in the table.
LEMMA BarsRead ==
  ASSUME ChartInv, Chart!ReadEdges PROVE ReadInv'
<1> USE SizesFit DEF Sizes
<1> DEFINE e == query.edges
<1>1. /\ step = "edges" /\ step' = "sent" /\ UNCHANGED <<now, traded, stored>>
      /\ answer'.bars = [k \in 1 .. Len(e) - 1 |-> Chart!Bar(k)] /\ answer'.edges = e
  BY DEF Chart!ReadEdges, Chart!clock, Chart!Bars
<1>2. EdgesFit(e) /\ now \in Nat
  BY <1>1 DEF ChartInv, ReadInv, CandlesInv, CandleTypes
<1>3. /\ \A k \in 1 .. Len(e) - 1 : GroupHolds(k)
      /\ \A k \in 1 .. Len(e) - 2 : GroupIsWhole(k)
  BY <1>1 DEF ChartInv, ReadInv
<1>4. Len(e) - 1 \in Nat /\ Len(answer'.bars) = Len(e) - 1
  BY <1>1, <1>2 DEF EdgesFit
<1>5. ASSUME NEW k \in 1 .. Len(e) - 1
      PROVE  answer'.bars[k].count = IF Chart!Shown(k) THEN groups[k].count ELSE 0
  BY <1>1 DEF Chart!Bar
<1>6. ASSUME NEW k \in (Chart!Finished)', (answer.edges[k] >= now - Reach)', Chart!Followed(k)'
      PROVE  answer'.bars[k].count = Chart!Cardinality(Chart!Traded(k))'
  <2>1. k \in 1 .. Len(e) - 2 /\ k \in 1 .. Len(e) - 1 /\ k \in Int /\ k \in 1 .. Len(e)
    BY <1>2, <1>4 DEF Chart!Finished, EdgesFit
  <2>2. e[k] >= now - Reach /\ e[k] \in Int
    BY <1>1, <1>2, <1>6, <2>1 DEF EdgesFit
  <2>3. PICK j \in k + 1 .. Len(e) - 1 : answer'.bars[j].count > 0
    BY <1>4, <1>6 DEF Chart!Followed
  <2>4. j \in 1 .. Len(e) - 1
    BY <2>1
  <2>5. groups[j].count > 0
    <3>1. answer'.bars[j].count = IF Chart!Shown(j) THEN groups[j].count ELSE 0
      BY <1>5, <2>4
    <3> QED
      BY <2>3, <3>1
  <2>6. groups[k].count = Chart!Cardinality(TradedIn(k))
    BY <1>3, <2>1, <2>2, <2>5 DEF GroupIsWhole, LaterGroup
  <2>7. groups[k].count \in Nat /\ (groups[k].count > 0 => Chart!Shown(k))
    <3>1. GroupHolds(k)
      BY <1>3, <2>1
    <3>2. ASSUME NEW t, EndHolds(k, t) PROVE t \in stored
      <4>1. t \in Int /\ e[k] <= t /\ (t >= now - Reach => t \in stored)
        BY <3>2 DEF EndHolds
      <4> QED
        BY <1>2, <2>2, <4>1
    <3> QED
      BY <3>1, <3>2 DEF GroupHolds, Chart!Shown
  <2>8. answer'.bars[k].count = groups[k].count
    <3>1. \A n \in Nat : ~(n > 0) => n = 0
      OBVIOUS
    <3> QED
      BY <1>5, <2>1, <2>7, <3>1
  <2>9. (Chart!Traded(k))' = TradedIn(k)
    BY <1>1 DEF Chart!Traded, TradedIn
  <2> QED
    BY <2>6, <2>8, <2>9
<1>7. BarsAreWhole'
  BY <1>6 DEF BarsAreWhole, Chart!BarsAreWhole
<1> QED
  BY <1>1, <1>7 DEF ReadInv

LEMMA EmptyIsWhole == answer.bars = <<>> => BarsAreWhole
  BY DEF BarsAreWhole, Chart!BarsAreWhole, Chart!Finished

LEMMA ChartStep == ChartInv /\ [Chart!Next]_Chart!vars => ChartInv'
<1> SUFFICES ASSUME ChartInv, [Chart!Next]_Chart!vars PROVE ChartInv'
  OBVIOUS
<1> DEFINE Still == UNCHANGED <<now, traded, stored, collect, cursor, end>>
<1>1. Still => CandlesInv'
  BY DEF ChartInv, CandlesInv, CandleTypes, NoHoles
<1>2. CASE step # "sent" /\ (Chart!Tick \/ Chart!Feed)
  <2>1. CandlesInv' /\ CandlesMove
    BY <1>2, CandlesStep DEF ChartInv
  <2>2. UNCHANGED <<step, query, groups, latest, answer>>
    BY <1>2 DEF Chart!Tick, Chart!Feed, Chart!CollectStart, Chart!CollectPage, Chart!CollectDone,
                Chart!CollectFails, Chart!Cancelled, Chart!PruneDue, Chart!PruneLater, Chart!read
  <2> QED
    BY <1>2, <2>1, <2>2, ReadOutlivesFeed DEF ChartInv
<1>3. CASE Chart!Sent
  <2>1. Still /\ step' = "idle" /\ answer'.bars = <<>>
    BY <1>3 DEF Chart!Sent, Chart!NoAnswer, Chart!clock, Chart!feed
  <2> QED
    BY <1>1, <2>1 DEF ChartInv, ReadInv
<1>4. ASSUME NEW w \in Windows, NEW i \in Intervals \cup {None}, Chart!Ask(w, i) PROVE ChartInv'
  <2>1. PICK width \in Intervals : query'.edges = Chart!Edges(w, width)
    BY <1>4 DEF Chart!Ask, Chart!Fitting
  <2>2. Still /\ step = "idle" /\ step' = "groups" /\ UNCHANGED answer
    BY <1>4 DEF Chart!Ask, Chart!clock, Chart!feed
  <2>3. EdgesFit(Chart!Edges(w, width))
    BY EdgesOfAChart DEF ChartInv, CandlesInv, CandleTypes
  <2>4. EdgesFit(query.edges)'
    BY <2>1, <2>2, <2>3 DEF EdgesFit
  <2> QED
    BY <1>1, <2>2, <2>4 DEF ChartInv, ReadInv
<1>5. CASE Chart!Refuse \/ Chart!ReadFails
  <2>1. Still /\ step' = "sent" /\ answer'.bars = <<>>
    BY <1>5 DEF Chart!Refuse, Chart!ReadFails, Chart!NoAnswer, Chart!clock, Chart!feed
  <2>2. BarsAreWhole'
    BY <2>1 DEF BarsAreWhole, Chart!BarsAreWhole, Chart!Finished
  <2> QED
    BY <1>1, <2>1, <2>2 DEF ChartInv, ReadInv
<1>6. CASE Chart!ReadGroups
  <2>1. Still
    BY <1>6 DEF Chart!ReadGroups, Chart!clock, Chart!feed
  <2> QED
    BY <1>1, <1>6, <2>1, GroupsRead DEF ChartInv
<1>7. CASE Chart!ReadEdges
  <2>1. Still
    BY <1>7 DEF Chart!ReadEdges, Chart!clock, Chart!feed
  <2> QED
    BY <1>1, <1>7, <2>1, BarsRead DEF ChartInv
<1>8. CASE Chart!ReadLatest
  <2>1. Still /\ UNCHANGED <<query, groups, answer>> /\ step = "latest" /\ step' = "edges"
    BY <1>8 DEF Chart!ReadLatest, Chart!clock, Chart!feed
  <2>2. ReadInv'
    BY <2>1 DEF ChartInv, ReadInv, EdgesFit, GroupHolds, EndHolds, GroupIsWhole, LaterGroup, TradedIn
  <2> QED
    BY <1>1, <2>1, <2>2 DEF ChartInv
<1>9. CASE UNCHANGED Chart!vars
  <2>1. Still /\ UNCHANGED <<step, query, groups, latest, answer>>
    BY <1>9 DEF Chart!vars, Chart!clock, Chart!feed, Chart!read
  <2>2. ReadInv'
    BY <2>1 DEF ChartInv, ReadInv, EdgesFit, GroupHolds, EndHolds, GroupIsWhole, LaterGroup, TradedIn,
                BarsAreWhole, Chart!BarsAreWhole, Chart!Finished, Chart!Followed, Chart!Traded
  <2> QED
    BY <1>1, <2>1, <2>2 DEF ChartInv
<1> QED
  BY <1>2, <1>3, <1>4, <1>5, <1>6, <1>7, <1>8, <1>9 DEF Chart!Next, Chart!Read

\* A chart's finished bar before its newest candle counts every candle of the coin,
\* whatever the feed, its failures and its prune do between the read's three queries
\* (WatchOnlyFeed._collect and _prune, SqlAlchemyCandleReads.read).
THEOREM ChartsAreWhole == Chart!Spec => []BarsAreWhole
<1>1. ChartInv => BarsAreWhole
  BY EmptyIsWhole DEF ChartInv, ReadInv
<1> QED
  BY <1>1, ChartBegins, ChartStep, PTL DEF Chart!Spec

-----------------------------------------------------------------------------
(* The watchlist and the coins the feed works on.                          *)

NeverTraded == Symbols \ Trading

\* The list names each coin once and has its audit record; the feed has read, waits for
\* and works through coins that are not traded.
Listed ==
    /\ list \in Seq(Symbols) /\ Len(list) <= Limit /\ audit = list
    /\ \A i, j \in 1 .. Len(list) : list[i] = list[j] => i = j
    /\ adding \in [Requests -> Symbols \cup {None}]

Worked ==
    /\ symbols \subseteq NeverTraded /\ todo \in Seq(NeverTraded)
    /\ have \subseteq NeverTraded /\ pruned \subseteq NeverTraded

WatchInv == Listed /\ Worked

LEMMA WatchBegins == Init => WatchInv
  BY SymbolsAssumption, LimitsAssumption DEF Init, WatchInv, Listed, Worked

\* The members of a list without repetition are as many as its places, and finitely many.
LEMMA WatchedCounted ==
  ASSUME Listed PROVE IsFiniteSet(Watched) /\ Cardinality(Watched) = Len(list)
<1> DEFINE n == Len(list)
           f == [i \in 1 .. n |-> list[i]]
<1>1. n \in Nat
  BY DEF Listed
<1>2. Watched = {list[i] : i \in 1 .. n}
  BY <1>1 DEF Listed, Watched, ToSet
<1>3. f \in Surjection(1 .. n, Watched) /\ f \in Injection(1 .. n, Watched)
  <2>1. f \in [1 .. n -> Watched] /\ \A x \in Watched : \E i \in 1 .. n : f[i] = x
    BY <1>2
  <2>2. \A i, j \in 1 .. n : f[i] = f[j] => i = j
    BY DEF Listed
  <2> QED
    BY <2>1, <2>2 DEF Surjection, Injection, IsInjective
<1> HIDE DEF f, n
<1>4. IsFiniteSet(1 .. n) /\ Cardinality(1 .. n) = n
  <2>1. 1 \in Int /\ n \in Int /\ (IF 1 > n THEN 0 ELSE n - 1 + 1) = n
    BY <1>1
  <2>2. /\ IsFiniteSet(1 .. n)
        /\ Cardinality(1 .. n) = IF 1 > n THEN 0 ELSE n - 1 + 1
    BY <2>1, FS_Interval
  <2> QED
    BY <2>1, <2>2
<1>5. IsFiniteSet(Watched) /\ Cardinality(Watched) = Cardinality(1 .. n)
  BY <1>3, <1>4, FS_Surjection
<1> QED
  BY <1>4, <1>5 DEF n

\* An order that is saved keeps the invariant when it has at most Limit coins, each once.
LEMMA ChangeKeepsList ==
  ASSUME WatchInv, NEW order \in Seq(Symbols), Change(order), Len(order) <= Limit,
         \A i, j \in 1 .. Len(order) : order[i] = order[j] => i = j,
         adding' \in [Requests -> Symbols \cup {None}]
  PROVE  Listed'
  BY DEF WatchInv, Listed, Change

LEMMA AddKeepsWatch == ASSUME WatchInv, NEW r \in Requests, AddSave(r) PROVE WatchInv'
<1> DEFINE s == adding[r]
           order == Append(list, s)
<1>1. /\ s \in Symbols \cup {None} /\ s \notin Watched /\ Len(list) < Limit /\ Change(order)
      /\ adding' = [adding EXCEPT ![r] = None] /\ UNCHANGED <<symbols, todo, have, pruned>>
  BY DEF AddSave, WatchInv, Listed, loop, status
<1>2. list \in Seq(Symbols) /\ \A i \in 1 .. Len(list) : list[i] # s
  <2>1. list \in Seq(Symbols)
    BY DEF WatchInv, Listed
  <2> QED
    BY <1>1, <2>1 DEF Watched, ToSet
<1>3. s \in Symbols
  BY DEF AddSave, WatchInv, Listed
<1>4. order \in Seq(Symbols) /\ Len(order) = Len(list) + 1 /\ Len(order) <= Limit
  BY <1>1, <1>2, <1>3, LimitsAssumption
<1>5. \A i, j \in 1 .. Len(order) : order[i] = order[j] => i = j
  BY <1>2, <1>3 DEF WatchInv, Listed
<1>6. adding' \in [Requests -> Symbols \cup {None}]
  BY <1>1 DEF WatchInv, Listed
<1> HIDE DEF order
<1>7. Listed'
  BY <1>1, <1>4, <1>5, <1>6, ChangeKeepsList
<1>8. Worked'
  BY <1>1 DEF WatchInv, Worked
<1> QED
  BY <1>7, <1>8 DEF WatchInv

LEMMA RemoveKeepsWatch == ASSUME WatchInv, NEW s \in Symbols, RemoveSymbol(s) PROVE WatchInv'
<1>1. PICK i \in DOMAIN list : Change(RemoveAt(list, i))
  BY DEF RemoveSymbol
<1> DEFINE n == Len(list)
           order == RemoveAt(list, i)
<1>2. list \in Seq(Symbols) /\ n \in Nat /\ i \in 1 .. n /\ n <= Limit
  BY DEF WatchInv, Listed
<1>3. /\ SubSeq(list, 1, i - 1) \in Seq(Symbols) /\ Len(SubSeq(list, 1, i - 1)) = i - 1
      /\ \A k \in 1 .. i - 1 : SubSeq(list, 1, i - 1)[k] = list[k]
  <2>1. \A k \in 1 .. i - 1 : k \in 1 .. n
    BY <1>2
  <2>2. 1 \in Nat /\ i - 1 \in Nat
    BY <1>2
  <2> QED
    BY <1>2, <2>1, <2>2, SubSeqProperties
<1>4. /\ SubSeq(list, i + 1, n) \in Seq(Symbols) /\ Len(SubSeq(list, i + 1, n)) = n - i
      /\ \A k \in 1 .. n - i : SubSeq(list, i + 1, n)[k] = list[k + i]
  <2>1. \A k \in i + 1 .. n : k \in 1 .. n
    BY <1>2
  <2> QED
    BY <1>2, <2>1, SubSeqProperties
<1> DEFINE before == SubSeq(list, 1, i - 1)
           after == SubSeq(list, i + 1, n)
<1>5. order = before \o after
  BY DEF RemoveAt
<1> HIDE DEF order, before, after
<1>6. /\ before \in Seq(Symbols) /\ Len(before) = i - 1
      /\ after \in Seq(Symbols) /\ Len(after) = n - i
  BY <1>3, <1>4 DEF before, after
<1>7. order \in Seq(Symbols) /\ Len(order) = n - 1
  <2>1. before \o after \in Seq(Symbols) /\ Len(before \o after) = Len(before) + Len(after)
    BY <1>6, ConcatProperties
  <2>2. (i - 1) + (n - i) = n - 1
    BY <1>2
  <2> QED
    BY <1>5, <1>6, <2>1, <2>2
<1>8. ASSUME NEW k \in 1 .. n - 1
      PROVE  order[k] = IF k < i THEN list[k] ELSE list[k + 1]
  <2>1. order[k] = IF k <= i - 1 THEN before[k] ELSE after[k - (i - 1)]
    BY <1>5, <1>2, <1>6, ConcatProperties
  <2>2. CASE k < i
    <3>1. k \in 1 .. i - 1 /\ k <= i - 1
      BY <1>2, <2>2
    <3> QED
      BY <1>3, <2>1, <2>2, <3>1 DEF before
  <2>3. CASE ~(k < i)
    <3>1. k - (i - 1) \in 1 .. n - i /\ ~(k <= i - 1) /\ k - (i - 1) + i = k + 1
      BY <1>2, <2>3
    <3> QED
      BY <1>4, <2>1, <2>3, <3>1 DEF after
  <2> QED
    BY <2>2, <2>3
<1>9. \A j, k \in 1 .. Len(order) : order[j] = order[k] => j = k
  <2> SUFFICES ASSUME NEW j \in 1 .. n - 1, NEW k \in 1 .. n - 1, order[j] = order[k] PROVE j = k
    BY <1>7
  <2> DEFINE at(m) == IF m < i THEN m ELSE m + 1
  <2>1. at(j) \in 1 .. n /\ at(k) \in 1 .. n
    BY <1>2
  <2>2. list[at(j)] = list[at(k)]
    BY <1>8
  <2>3. at(j) = at(k)
    BY <2>1, <2>2 DEF WatchInv, Listed
  <2> QED
    BY <1>2, <2>3
<1>10. Len(order) <= Limit
  BY <1>2, <1>7, LimitsAssumption
<1>11. adding' \in [Requests -> Symbols \cup {None}]
  BY DEF RemoveSymbol, WatchInv, Listed
<1>12. Listed'
  BY <1>1, <1>7, <1>9, <1>10, <1>11, ChangeKeepsList DEF order
<1>13. Worked'
  BY DEF RemoveSymbol, WatchInv, Worked, loop
<1> QED
  BY <1>12, <1>13 DEF WatchInv

LEMMA MoveKeepsWatch == ASSUME WatchInv, NEW i \in 1 .. Limit, MoveDown(i) PROVE WatchInv'
<1> DEFINE order == [list EXCEPT ![i] = list[i + 1], ![i + 1] = list[i]]
<1>1. list \in Seq(Symbols) /\ i \in 1 .. Len(list) /\ i + 1 \in 1 .. Len(list) /\ i # i + 1
  BY LimitsAssumption DEF MoveDown, WatchInv, Listed
<1>2. order \in Seq(Symbols) /\ Len(order) = Len(list)
  BY <1>1
<1>3. ASSUME NEW k \in 1 .. Len(list)
      PROVE  order[k] = IF k = i THEN list[i + 1] ELSE IF k = i + 1 THEN list[i] ELSE list[k]
  BY <1>1
<1>4. Change(order)
  BY DEF MoveDown
<1> HIDE DEF order
<1>5. \A j, k \in 1 .. Len(order) : order[j] = order[k] => j = k
  BY <1>1, <1>2, <1>3 DEF WatchInv, Listed
<1>6. Len(order) <= Limit /\ adding' \in [Requests -> Symbols \cup {None}]
  BY <1>2 DEF MoveDown, WatchInv, Listed
<1>7. Listed'
  BY <1>2, <1>4, <1>5, <1>6, ChangeKeepsList
<1>8. Worked'
  BY DEF MoveDown, WatchInv, Worked, loop, status
<1> QED
  BY <1>7, <1>8 DEF WatchInv

LEMMA CycleKeepsWatch == ASSUME WatchInv, CycleStart PROVE WatchInv'
<1> DEFINE coins == {s \in WatchOnly : until[s] = 0}
<1>1. Listed' /\ UNCHANGED <<have, pruned>>
  BY DEF CycleStart, WatchInv, Listed, saved
<1>2. WatchOnly \subseteq NeverTraded
  BY DEF WatchOnly, Watched, ToSet, WatchInv, Listed, NeverTraded
<1>3. IsFiniteSet(coins) /\ Cardinality(coins) \in Nat
  <2>1. IsFiniteSet(Watched)
    BY WatchedCounted DEF WatchInv
  <2>2. coins \in SUBSET Watched
    BY DEF WatchOnly
  <2> QED
    BY <2>1, <2>2, FS_Subset, FS_CardinalityType
<1>4. todo' \in [1 .. Cardinality(coins) -> coins] /\ symbols' = WatchOnly
  BY DEF CycleStart, InListOrder
<1>5. coins \subseteq NeverTraded
  BY <1>2
<1> HIDE DEF coins
<1>6. todo' \in Seq(NeverTraded)
  BY <1>3, <1>4, <1>5
<1> QED
  BY <1>1, <1>2, <1>4, <1>6 DEF WatchInv, Worked

LEMMA WatchStep == WatchInv /\ [Next]_vars => WatchInv'
<1> SUFFICES ASSUME WatchInv, [Next]_vars PROVE WatchInv'
  OBVIOUS
<1>1. ASSUME NEW r \in Requests, NEW s \in Symbols, AddStart(r, s) PROVE WatchInv'
  BY <1>1 DEF AddStart, WatchInv, Listed, Worked, loop, status
<1>2. ASSUME NEW r \in Requests, AddFails(r) PROVE WatchInv'
  BY <1>2 DEF AddFails, WatchInv, Listed, Worked, loop, status
<1>3. CASE CollectWorks
  <2>1. /\ todo # <<>> /\ todo \in Seq(NeverTraded) /\ todo' = Tail(todo)
        /\ have' \subseteq have \cup {Head(todo)} /\ UNCHANGED <<symbols, pruned>>
    BY <1>3 DEF CollectWorks, WatchInv, Worked
  <2>2. Head(todo) \in NeverTraded /\ Tail(todo) \in Seq(NeverTraded)
    BY <2>1
  <2>3. Listed'
    BY <1>3 DEF CollectWorks, WatchInv, Listed, saved
  <2> QED
    BY <2>1, <2>2, <2>3 DEF WatchInv, Worked
<1>4. CASE CollectFails
  <2>1. /\ todo # <<>> /\ todo \in Seq(NeverTraded) /\ todo' = Tail(todo)
        /\ UNCHANGED <<symbols, have, pruned>>
    BY <1>4 DEF CollectFails, WatchInv, Worked
  <2>2. Listed'
    BY <1>4 DEF CollectFails, WatchInv, Listed, saved
  <2> QED
    BY <2>1, <2>2 DEF WatchInv, Worked
<1>5. CASE CycleEnd
  BY <1>5 DEF CycleEnd, WatchInv, Listed, Worked, saved, status
<1>6. CASE Tick
  BY <1>6 DEF Tick, WatchInv, Listed, Worked, saved
<1>7. CASE UNCHANGED vars
  BY <1>7 DEF vars, saved, loop, status, WatchInv, Listed, Worked
<1> QED
  BY <1>1, <1>2, <1>3, <1>4, <1>5, <1>6, <1>7, AddKeepsWatch, RemoveKeepsWatch, MoveKeepsWatch,
     CycleKeepsWatch DEF Next

LEMMA ListStays == Init /\ [][Next]_vars => [](ListSound /\ TradingUntouched)
<1>1. WatchInv => ListSound /\ TradingUntouched
  <2> SUFFICES ASSUME WatchInv PROVE ListSound /\ TradingUntouched
    OBVIOUS
  <2>1. Len(list) <= Limit /\ audit = list /\ Cardinality(Watched) = Len(list)
    BY WatchedCounted DEF WatchInv, Listed
  <2> QED
    BY <2>1 DEF WatchInv, Worked, NeverTraded, ListSound, TradingUntouched
<1> QED
  BY <1>1, WatchBegins, WatchStep, PTL

\* "Up to nine coins", each once and with its audit record, also when several requests
\* were told the coin may be added; and the feed neither collects nor prunes a coin the
\* trading feed collects, whatever leaves the list during a cycle (SqlAlchemyWatchlist,
\* WatchOnlyFeed.run_cycle).
THEOREM ListStaysSound == Spec => [](ListSound /\ TradingUntouched)
  BY ListStays, PTL DEF Spec

-----------------------------------------------------------------------------
(* The feed of the traded symbols: its candles.                              *)

\* No bucket is stored before it has closed.  While the task is connected, or about to be,
\* the newest bucket known to be closed is at least as late as every stored one, and while
\* it fills a gap every stored one is before the gap's end; the bucket it holds is newer.
StreamInv ==
    /\ bucket \in Nat /\ HistoryBars <= bucket
    /\ last \in Int /\ open \in Int /\ next \in Int /\ goal \in Int
    /\ \A x \in store : x \in Nat /\ x < bucket
    /\ last >= -1 /\ last < bucket /\ goal <= bucket
    /\ open # -1 => open > last /\ open <= bucket /\ task = "up"
    /\ fed \in store \cup {-1} /\ filled \in store \cup {-1}
    /\ task \in {"connecting", "up", "waiting"} => \A x \in store : x <= last
    /\ task \in {"starting", "filling"} => next \in Nat /\ next <= goal
    /\ task = "filling" => \A x \in store : x < goal

LEMMA NewestIsStored ==
  ASSUME StreamInv
  PROVE  /\ Market!Newest(store) \in store \cup {-1}
         /\ \A x \in store : x <= Market!Newest(store)
<1>1. CASE store = {}
  BY <1>1 DEF Market!Newest, Market!NoBucket
<1>2. CASE store # {}
  <2>1. store \subseteq 0 .. bucket /\ 0 \in Int /\ bucket \in Int
    BY DEF StreamInv
  <2>2. Chart!Max(store) \in store /\ \A x \in store : x <= Chart!Max(store)
    BY <1>2, <2>1, EndsAreMembers
  <2>3. Market!Max(store) = Chart!Max(store)
    BY DEF Market!Max, Chart!Max
  <2> QED
    BY <1>2, <2>2, <2>3 DEF Market!Newest
<1> QED
  BY <1>1, <1>2

LEMMA StreamBegins ==
  ASSUME Market!Init PROVE StreamInv
<1>1. /\ bucket = HistoryBars /\ bucket \in Nat \ {0}
      /\ store = {} /\ task = "down" /\ last = -1 /\ open = -1
      /\ next = 0 /\ goal = 0 /\ fed = -1 /\ filled = -1
  BY MarketAssumption DEF Market!Configured, Market!Init, Market!NoBucket
<1> QED
  BY <1>1 DEF StreamInv

\* A page stores buckets that have closed, before the end of the gap.
LEMMA PageKeepsStream ==
  ASSUME StreamInv, NEW label \in {"starting", "filling"}, Market!SavePage(label)
  PROVE  StreamInv' /\ last' = last /\ fed' = fed
<1> DEFINE upTo == Market!PageEnd
<1>1. /\ task = label /\ next < goal /\ store' = store \cup (next .. upTo - 1) /\ next' = upTo
      /\ filled' = Market!Later(filled, upTo - 1)
      /\ UNCHANGED <<bucket, task, last, open, goal, switch, fed>>
  BY DEF Market!SavePage
<1>2. /\ next \in Nat /\ goal \in Nat /\ upTo \in Nat /\ next < upTo /\ upTo <= goal
      /\ PageSize \in Nat \ {0}
  BY <1>1, MarketAssumption DEF StreamInv, Market!PageEnd, Market!Configured
<1> HIDE DEF upTo
<1>3. \A x \in next .. upTo - 1 : x \in Nat /\ x < goal /\ x < bucket
  BY <1>1, <1>2 DEF StreamInv
<1>4. filled' \in store' \cup {-1}
  <2>1. upTo - 1 \in next .. upTo - 1
    BY <1>2
  <2>2. filled' \in {filled, upTo - 1}
    BY <1>1 DEF Market!Later
  <2> QED
    BY <1>1, <2>1, <2>2 DEF StreamInv
<1>5. task' \notin {"connecting", "up", "waiting"}
  BY <1>1
<1>6. open' = -1
  BY <1>1 DEF StreamInv
<1>7. \A x \in store' : x \in Nat /\ x < bucket /\ (task = "filling" => x < goal)
  BY <1>1, <1>3 DEF StreamInv
<1> QED
  BY <1>1, <1>2, <1>4, <1>5, <1>6, <1>7 DEF StreamInv

\* The stream closes the bucket it held: one nobody stored before.
LEMMA UpdateKeepsStream ==
  ASSUME StreamInv, NEW b \in 0 .. bucket, Market!Update(b)
  PROVE  /\ StreamInv'
         /\ last' # last => last' > last /\ last' > filled /\ last' > fed
<1>1. /\ task = "up" /\ b > last /\ b >= open /\ open' = b
      /\ UNCHANGED <<bucket, task, next, goal, switch, filled>>
      /\ IF open # -1 /\ b > open THEN last' = open /\ Market!OnCandle(open)
         ELSE UNCHANGED <<last, store, fed>>
  BY DEF Market!Update, Market!NoBucket
<1>2. CASE ~(open # -1 /\ b > open)
  BY <1>1, <1>2 DEF StreamInv
<1>3. CASE open # -1 /\ b > open
  <2>1. /\ last' = open /\ open > last /\ open \in Nat /\ open < bucket /\ b \in Nat /\ b <= bucket
    BY <1>1, <1>3 DEF StreamInv
  <2>2. \/ store' = store \cup {open} /\ fed' = open
        \/ UNCHANGED <<store, fed>>
    BY <1>1, <1>3 DEF Market!OnCandle
  <2>3. \A x \in store : x <= last
    BY <1>1 DEF StreamInv
  <2>4. last' > filled /\ last' > fed
    BY <2>1, <2>3 DEF StreamInv
  <2>5. StreamInv'
    <3>1. fed' \in store' \cup {-1} /\ filled' \in store' \cup {-1}
      BY <1>1, <2>2 DEF StreamInv
    <3>2. \A x \in store' : x \in Nat /\ x < bucket /\ x <= last'
      BY <2>1, <2>2, <2>3 DEF StreamInv
    <3> QED
      BY <1>1, <1>3, <2>1, <3>1, <3>2 DEF StreamInv
  <2> QED
    BY <2>1, <2>4, <2>5
<1> QED
  BY <1>2, <1>3

LEMMA StreamStep ==
  ASSUME StreamInv, [Market!Next]_Market!vars
  PROVE  /\ StreamInv'
         /\ task' = "up" /\ last' # last => last' > last /\ last' > filled /\ last' > fed
<1> USE DEF StreamInv
<1>1. CASE Market!Start
  BY <1>1, MarketAssumption DEF Market!Start, Market!Configured
<1>2. ASSUME NEW label \in {"starting", "filling"}, Market!SavePage(label)
      PROVE  StreamInv' /\ last' = last /\ fed' = fed
  BY <1>2, PageKeepsStream
<1>3. CASE Market!StartFails
  BY <1>3 DEF Market!StartFails
<1>4. CASE Market!Started
  <2>1. /\ task = "starting" /\ task' = "connecting" /\ last' = Market!Newest(store)
        /\ UNCHANGED <<bucket, store, open, next, goal, switch, fed, filled>>
    BY <1>4 DEF Market!Started
  <2> QED
    BY <2>1, NewestIsStored
<1>5. CASE Market!Connects
  BY <1>5 DEF Market!Connects
<1>6. ASSUME NEW b \in 0 .. bucket, Market!Update(b)
      PROVE  /\ StreamInv'
             /\ last' # last => last' > last /\ last' > filled /\ last' > fed
  BY <1>6, UpdateKeepsStream
<1>7. CASE Market!Drop
  <2>1. /\ open' = -1 /\ goal' = bucket /\ next' = Market!Later(last, Market!Newest(store)) + 1
        /\ task' = (IF last >= bucket - 1 THEN "waiting" ELSE "filling")
        /\ task \in {"connecting", "up"}
        /\ UNCHANGED <<bucket, store, last, switch, fed, filled>>
    BY <1>7 DEF Market!Drop, Market!NoBucket
  <2>2. next' \in Nat /\ next' <= bucket
    BY <2>1, NewestIsStored DEF Market!Later
  <2> QED
    BY <2>1, <2>2
<1>8. CASE Market!FillFails
  BY <1>8 DEF Market!FillFails
<1>9. CASE Market!Filled
  BY <1>9 DEF Market!Filled
<1>10. CASE Market!Reconnect
  BY <1>10 DEF Market!Reconnect
<1>11. CASE Market!Tick
  <2>1. /\ bucket' = bucket + 1 /\ HistoryBars \in Nat
        /\ UNCHANGED <<store, task, last, open, next, goal, switch, fed, filled>>
    BY <1>11, MarketAssumption DEF Market!Tick, Market!Configured
  <2> QED
    BY <2>1
<1>12. CASE Market!Crash
  BY <1>12 DEF Market!Crash, Market!NoBucket
<1>13. CASE UNCHANGED Market!vars
  BY <1>13 DEF Market!vars
<1> QED
  BY <1>1, <1>2, <1>3, <1>4, <1>5, <1>6, <1>7, <1>8, <1>9, <1>10, <1>11, <1>12, <1>13
  DEF Market!Next, Market!StartPage, Market!FillPage

\* The stream never emits a bucket twice nor one a backfill has stored, for any page size
\* and length of history, through drops that cut a bucket short, late updates, failed pages
\* and saves, and restarts (_update_bucket, _backfill_gap).
THEOREM StreamEmitsNewBuckets == Market!Spec => EmitsNewBuckets
<1>1. ASSUME StreamInv, [Market!Next]_Market!vars
      PROVE  [task' = "up" /\ last' # last =>
                last' > last /\ last' > filled /\ last' > fed]_Market!vars
  BY <1>1, StreamStep
<1> QED
  BY <1>1, StreamBegins, StreamStep, PTL
  DEF Market!Spec, EmitsNewBuckets, Market!EmitsNewBuckets

-----------------------------------------------------------------------------
(* The connection and its storm alert.                                     *)

Due == alerted >= Interval
Lasted == upFor >= HealthyAfter

\* A runtime that holds the stream healthy, and was told of its newest disconnect, has a
\* connection that is up and has lasted; and an alert that does not stand was the interval
\* ago or the stream has recovered since.
AlertInv ==
    /\ alerted \in 0 .. Interval /\ upFor \in Nat
    /\ healthy /\ ~missed => conn = "up" /\ Lasted
    /\ ~active => calm \/ Due

LEMMA AlertBegins ==
  ASSUME Health!Configured, Health!Init PROVE AlertInv
<1>1. alerted \in 0 .. Interval /\ upFor \in Nat
  BY DEF Health!Init, Health!Configured
<1>2. healthy = FALSE /\ calm = TRUE
  BY DEF Health!Init
<1> QED
  BY <1>1, <1>2, Zenon DEF AlertInv

\* Time passes: an age grows up to its cap.
LEMMA AgesGrow ==
  ASSUME NEW a \in Nat, NEW cap \in Nat
  PROVE  /\ Health!Older(a, cap) \in 0 .. cap
         /\ \A n \in 0 .. cap : a >= n => Health!Older(a, cap) >= n
  BY DEF Health!Older, Health!Least, Health!Never

LEMMA DropKeepsAlerts ==
  ASSUME Health!Configured, AlertInv, Health!Drop
  PROVE  AlertInv' /\ (alerted' < alerted => Due \/ calm) /\ conn' = "waiting"
<1>1. /\ conn' = "waiting" /\ upFor' = upFor /\ (healthy' = FALSE \/ missed' = TRUE)
      /\ \/ /\ ~active \/ Due
            /\ \/ active' = TRUE /\ alerted' = 0
               \/ active' = FALSE /\ UNCHANGED <<alerted, calm>>
         \/ UNCHANGED <<active, alerted, calm>>
  BY Zenon DEF Health!Drop, Health!OnDisconnect, Due
<1>2. UNCHANGED alerted => (Due' <=> Due) /\ ~(alerted' < alerted)
  BY DEF AlertInv, Due
<1>3. alerted' \in 0 .. Interval /\ upFor' \in Nat
  BY <1>1 DEF AlertInv, Health!Configured
<1>4. (~active' => calm' \/ Due') /\ (alerted' < alerted => Due \/ calm)
  <2>1. CASE UNCHANGED <<active, alerted, calm>>
    BY <1>2, <2>1, Zenon DEF AlertInv
  <2>2. CASE (~active \/ Due) /\ active' = TRUE
    BY <2>2, Zenon DEF AlertInv
  <2>3. CASE (~active \/ Due) /\ UNCHANGED <<alerted, calm>>
    BY <1>2, <2>3, Zenon DEF AlertInv
  <2> QED
    BY <1>1, <2>1, <2>2, <2>3, Zenon
<1> QED
  BY <1>1, <1>3, <1>4, Zenon DEF AlertInv

\* A report of health, or a closed candle: the alert is cleared only by one that lasted.
LEMMA ReportKeepsAlerts ==
  ASSUME Health!Configured, AlertInv, conn = "up",
         \/ Lasted /\ healthy' = TRUE /\ missed' = FALSE /\ Health!ClearRecoveredStorm(TRUE)
         \/ UNCHANGED <<healthy, missed>> /\ Health!ClearRecoveredStorm(healthy)
         \/ UNCHANGED <<healthy, missed, active, alerted, calm>>,
         conn' = conn, upFor' = upFor
  PROVE  /\ AlertInv' /\ ~(alerted' < alerted)
         /\ active /\ ~active' => Health!Recovered(drops)
<1> DEFINE few == Health!Cardinality(Health!Recent(drops)) < Threshold
<1>1. alerted' = alerted
  BY Zenon DEF Health!ClearRecoveredStorm
<1>2. (Lasted \/ missed) /\ few <=> Health!Recovered(drops)
  BY DEF Lasted, Health!Recovered
<1>3. /\ healthy' /\ ~missed' => (healthy /\ ~missed) \/ Lasted
      /\ calm => calm'
      /\ active /\ ~active' => (healthy \/ Lasted) /\ few
      /\ active /\ ~active' => (Health!Recovered(drops) => calm')
  <2>1. CASE healthy' = TRUE /\ Lasted /\ Health!ClearRecoveredStorm(TRUE)
    <3>1. /\ active' <=> active /\ ~few
          /\ calm' <=> calm \/ Health!Recovered(drops)
      BY <2>1 DEF Health!ClearRecoveredStorm
    <3> HIDE DEF few
    <3> QED
      BY <2>1, <3>1, Zenon
  <2>2. CASE UNCHANGED <<healthy, missed>> /\ Health!ClearRecoveredStorm(healthy)
    <3>1. /\ active' <=> active /\ ~(healthy /\ few)
          /\ calm' <=> calm \/ Health!Recovered(drops)
      BY <2>2 DEF Health!ClearRecoveredStorm
    <3> HIDE DEF few
    <3> QED
      BY <2>2, <3>1, Zenon
  <2>3. CASE UNCHANGED <<healthy, missed, active, alerted, calm>>
    BY <2>3
  <2> QED
    BY <2>1, <2>2, <2>3
<1> HIDE DEF few
<1>4. healthy' /\ ~missed' => conn' = "up" /\ Lasted
  BY <1>3, Zenon DEF AlertInv
<1>5. active /\ ~active' => Health!Recovered(drops)
  BY <1>2, <1>3, Zenon DEF AlertInv
<1>6. (Due' <=> Due) /\ (Lasted' <=> Lasted) /\ ~(alerted' < alerted)
      /\ alerted' \in 0 .. Interval /\ upFor' \in Nat
  BY <1>1 DEF AlertInv, Due, Lasted
<1>7. ~active' => calm' \/ Due'
  BY <1>3, <1>5, <1>6, Zenon DEF AlertInv
<1> QED
  BY <1>4, <1>5, <1>6, <1>7, Zenon DEF AlertInv

LEMMA AlertStep ==
  ASSUME Health!Configured, AlertInv, [Health!Next]_Health!vars
  PROVE  /\ AlertInv' /\ (alerted' < alerted => Due \/ calm)
         /\ active /\ ~active' /\ conn' = "up" => Health!Recovered(drops)
<1> USE DEF Health!stream, Health!report, Health!alerts
<1> DEFINE Kept == AlertInv' /\ (alerted' < alerted => Due \/ calm)
           Clears == active /\ ~active' /\ conn' = "up" => Health!Recovered(drops)
<1>1. CASE Health!Drop
  BY <1>1, DropKeepsAlerts, Zenon
<1>2. ASSUME UNCHANGED <<upFor, healthy, missed, active, alerted, calm>>,
             conn' = conn \/ conn # "up"
      PROVE  Kept /\ Clears
  <2>1. ~(alerted' < alerted) /\ (Due' <=> Due) /\ (Lasted' <=> Lasted)
        /\ alerted' \in 0 .. Interval /\ upFor' \in Nat
    BY <1>2 DEF AlertInv, Due, Lasted
  <2> QED
    BY <1>2, <2>1, Zenon DEF AlertInv
<1>3. CASE Health!Connects
  <2>1. /\ conn = "connecting" /\ upFor' = 0 /\ UNCHANGED <<healthy, missed>>
        /\ UNCHANGED <<active, alerted, calm>>
    BY <1>3 DEF Health!Connects
  <2>2. ~(alerted' < alerted) /\ (Due' <=> Due) /\ alerted' \in 0 .. Interval /\ upFor' \in Nat
    BY <2>1 DEF AlertInv, Due
  <2>3. healthy' => missed'
    BY <2>1, Zenon DEF AlertInv
  <2> QED
    BY <2>1, <2>2, <2>3, Zenon DEF AlertInv
<1>4. CASE Health!Tick
  <2>1. /\ UNCHANGED <<conn, healthy, missed, active, calm>>
        /\ alerted' = Health!Older(alerted, Interval)
        /\ upFor' = IF conn = "up" THEN Health!Older(upFor, HealthyAfter + Timeout + 1)
                    ELSE upFor
    BY <1>4 DEF Health!Tick
  <2>2. /\ alerted \in Nat /\ Interval \in Nat /\ upFor \in Nat /\ HealthyAfter \in Nat
        /\ HealthyAfter + Timeout + 1 \in Nat /\ HealthyAfter \in 0 .. HealthyAfter + Timeout + 1
        /\ Interval \in 0 .. Interval
    BY DEF AlertInv, Health!Configured
  <2>3. alerted' \in 0 .. Interval /\ upFor' \in Nat /\ (Due => Due') /\ (Lasted => Lasted')
    <3>1. alerted' \in 0 .. Interval /\ (alerted >= Interval => alerted' >= Interval)
      BY <2>1, <2>2, AgesGrow
    <3>2. upFor' \in Nat /\ (upFor >= HealthyAfter => upFor' >= HealthyAfter)
      <4> DEFINE cap == HealthyAfter + Timeout + 1
      <4>1. cap \in Nat /\ HealthyAfter \in 0 .. cap /\ upFor \in Nat
        BY <2>2
      <4>2. upFor' = IF conn = "up" THEN Health!Older(upFor, cap) ELSE upFor
        BY <2>1
      <4> HIDE DEF cap
      <4> QED
        BY <4>1, <4>2, AgesGrow
    <3> QED
      BY <3>1, <3>2 DEF Due, Lasted
  <2>4. ~(alerted' < alerted)
    <3>1. alerted \in 0 .. Interval /\ alerted >= alerted
      BY DEF AlertInv
    <3>2. alerted' >= alerted
      BY <2>1, <2>2, <3>1, AgesGrow
    <3> QED
      BY <2>2, <2>3, <3>2
  <2> QED
    BY <2>1, <2>3, <2>4, Zenon DEF AlertInv
<1>5. ASSUME NEW c \in BOOLEAN, Health!OtherMessage(c) PROVE Kept /\ Clears
  <2>1. CASE c = TRUE
    BY <1>5, <2>1, ReportKeepsAlerts, Zenon DEF Health!OtherMessage
  <2>2. CASE c = FALSE
    BY <1>5, <2>2, ReportKeepsAlerts, Zenon DEF Health!OtherMessage
  <2> QED
    BY <2>1, <2>2
<1>6. CASE Health!Heartbeat
  BY <1>6, ReportKeepsAlerts, Zenon DEF Health!Heartbeat, Lasted
<1>7. CASE Health!Reconnects
  BY <1>2, <1>7 DEF Health!Reconnects
<1>8. CASE Health!ProviderFails \/ Health!ProviderReturns
  BY <1>2, <1>8 DEF Health!ProviderFails, Health!ProviderReturns
<1>9. CASE UNCHANGED Health!vars
  BY <1>2, <1>9 DEF Health!vars
<1> QED
  BY <1>1, <1>3, <1>4, <1>5, <1>6, <1>7, <1>8, <1>9, Zenon
  DEF Health!Next, Health!ConnectFails, Health!Broken,
      Health!RecvTimeout, Health!HeartbeatStale

\* Two storm alerts are the interval apart unless the stream recovered in between, and while
\* the stream is connected an alert is cleared only by a connection that lasted with few
\* disconnects in the window, for any thresholds and timeouts, and as far as the runtime was
\* told: a disconnect whose journal write fails never reaches it
\* (on_disconnect, _alert_once, on_stream_healthy).
THEOREM StormAlertsAreSpaced == Health!Spec => SpacedAlerts /\ ClearsOnlyRecovered
<1>1. ASSUME AlertInv, [Health!Next]_Health!vars
      PROVE  /\ [alerted' < alerted => alerted >= Interval \/ calm]_Health!vars
             /\ [active /\ ~active' /\ conn' = "up" =>
                   Health!Recovered(drops)]_Health!vars
  BY <1>1, HealthAssumption, AlertStep, Zenon DEF Due
<1> QED
  BY <1>1, HealthAssumption, AlertBegins, AlertStep, PTL
  DEF Health!Spec, SpacedAlerts, ClearsOnlyRecovered, Health!SpacedAlerts, Health!ClearsOnlyRecovered

-----------------------------------------------------------------------------
(* The feeds together.                                                     *)

LEMMA FeedPartsRunAsAlone ==
  FeedSpec => /\ Init /\ [][Next]_vars
              /\ Control!Spec /\ Chart!Spec /\ Market!Spec /\ Health!Spec
<1> DEFINE all == <<vars, control, chart, candles, connection, focus>>
<1>1. FeedInit => Init /\ Control!Init /\ Chart!Init /\ Market!Init /\ Health!Init
  BY DEF FeedInit
<1>2. [FeedNext]_all => [Next]_vars
  BY DEF FeedNext
<1>3. [FeedNext]_all => [Control!Next]_Control!vars
  BY DEF FeedNext, control, Control!vars
<1>4. [FeedNext]_all => [Chart!Next]_Chart!vars
  BY DEF FeedNext, chart, Chart!vars, Chart!clock, Chart!feed, Chart!read
<1>5. [FeedNext]_all => [Market!Next]_Market!vars
  BY DEF FeedNext, candles, Market!vars
<1>6. [FeedNext]_all => [Health!Next]_Health!vars
  BY DEF FeedNext, connection, Health!vars, Health!stream, Health!report, Health!alerts
<1> QED
  BY <1>1, <1>2, <1>3, <1>4, <1>5, <1>6, PTL
  DEF FeedSpec, Control!Spec, Chart!Spec, Market!Spec, Health!Spec

\* Whatever part of the feeds a behaviour follows: the watch-only feed runs as saved, its
\* charts are whole, its list is sound and the traded coins are left alone; the stream emits
\* new buckets only, and its storm alerts are spaced and kept (set_feed, _collect, read,
\* CoinbaseWebSocketIngestor, PaperRuntime).
THEOREM FeedHolds ==
  FeedSpec => /\ [](RunsAsSaved /\ BarsAreWhole /\ ListSound /\ TradingUntouched)
              /\ EmitsNewBuckets /\ SpacedAlerts /\ ClearsOnlyRecovered
  BY FeedPartsRunAsAlone, FeedRunsAsSaved, ChartsAreWhole, ListStays, StreamEmitsNewBuckets,
     StormAlertsAreSpaced, PTL
=============================================================================
