---------------------------- MODULE MarketCandles ----------------------------
(***************************************************************************)
(* The candles of one watch-only coin: how the feed collects them page by    *)
(* page and prunes them, and how a chart of them is read meanwhile.  A read   *)
(* is three queries, each of which sees the table as it then is.             *)
(*                                                                         *)
(* The unit of time is one five-minute candle; candle t opens at t.  A       *)
(* candle is its time alone: an aggregate's prices follow from which candles  *)
(* are in it.                                                              *)
(***************************************************************************)
EXTENDS Integers, Sequences, FiniteSetsExt

CONSTANTS
    Reach,     \* BACKFILL_DAYS, in candles
    Page,      \* MAX_CANDLES_PER_REQUEST
    Retention, \* WATCH_FEED_RETENTION_DAYS, in candles
    Batch,     \* PRUNE_BATCH
    Windows,   \* the windows a chart can have
    Intervals, \* the widths of a bar
    MaxPoints, \* MAX_POINTS
    StaleAfter,\* candles after which a symbol is stale
    Bound,     \* the clock's last value
    None

\* from_env: a retention shorter than the backfill is refused at startup.
Configured ==
    /\ {Page, Batch, MaxPoints, Reach} \subseteq Nat \ {0}
    /\ Retention \in Nat /\ Retention >= Reach /\ Windows \cup Intervals \subseteq Nat \ {0}
    /\ \A w \in Windows, i \in Intervals : w % i = 0

VARIABLES
    now,    \* the candle now forming
    traded, \* closed candles in which the coin traded, as the provider has them
    stored, \* market_candles
    pc,     \* the feed: "idle", "page" or "prune"
    cursor, \* the candles before it have been asked for
    end,    \* the bucket in which the cycle started, which it collects up to
    failing,\* the symbol's status says it fails
    step,   \* the read's next query: "idle", "groups", "latest", "edges" or "sent"
    query,  \* its bars' edges, its clock and the feed's report
    groups, \* per bar: how many candles, the first and the last
    latest, \* the newest stored candle
    answer  \* the payload

clock == <<now, traded>>
feed == <<pc, cursor, end, failing>>
read == <<step, query, groups, latest, answer>>
vars == <<clock, stored, feed, read>>

NoQuery == [edges |-> <<>>, now |-> 0, failing |-> FALSE]
NoAnswer == [bars |-> <<>>, edges |-> <<>>, freshness |-> "unread"]

Init ==
    /\ now = 0 /\ traded \in SUBSET (-Reach .. -1) /\ stored = {}
    /\ pc = "idle" /\ cursor = 0 /\ end = 0 /\ failing = FALSE
    /\ step = "idle" /\ query = NoQuery /\ groups = <<>> /\ latest = None /\ answer = NoAnswer

-----------------------------------------------------------------------------
(* The provider (external): the candle that closes is there if the coin traded. *)
Tick ==
    /\ now < Bound
    /\ now' = now + 1
    /\ traded' \in {traded, traded \cup {now}}
    /\ UNCHANGED <<stored, feed, read>>

-----------------------------------------------------------------------------
(* WatchOnlyFeed._collect, for this coin                                     *)
Newest(times) == IF times = {} THEN None ELSE Max(times)
Earliest(times) == IF times = {} THEN None ELSE Min(times)
Later(a, b) == IF a > b THEN a ELSE b
Sooner(a, b) == IF a < b THEN a ELSE b

\* After the newest stored candle, but no further back than the backfill.
Resume(t) ==
    IF stored = {} THEN t - Reach ELSE Later(t - Reach, Newest(stored) + 1)

CollectStart ==
    /\ pc = "idle" /\ pc' = "page"
    /\ end' = now /\ cursor' = Resume(now)
    /\ UNCHANGED <<clock, stored, failing, read>>

\* get_candles: the closed candles of the page, each of which passes validation.
Fetched(from, to) == {t \in traded : from <= t /\ t < to}

\* Mutant: the newest page first.
CollectNewestFirst ==
    LET from == Later(cursor, end - Page) IN
    /\ pc = "page" /\ cursor < end
    /\ stored' = stored \cup Fetched(from, end) /\ end' = from
    /\ UNCHANGED <<clock, pc, cursor, failing, read>>

\* A page is saved before the next is asked for.
CollectPage ==
    LET to == Sooner(end, cursor + Page) IN
    /\ pc = "page" /\ cursor < end
    /\ stored' = stored \cup Fetched(cursor, to) /\ cursor' = to
    /\ UNCHANGED <<clock, pc, end, failing, read>>

\* The cycle's variables go with it.
Idle == pc' = "idle" /\ cursor' = 0 /\ end' = 0

CollectDone ==
    /\ pc = "page" /\ cursor >= end
    /\ pc' = "prune" /\ failing' = FALSE
    /\ UNCHANGED <<clock, stored, cursor, end, read>>

\* The request fails, or the circuit or the limiter refuses it, or a candle is not
\* valid: the pages before it stay.
CollectFails ==
    /\ pc = "page" /\ cursor < end
    /\ pc' = "prune" /\ failing' = TRUE
    /\ UNCHANGED <<clock, stored, cursor, end, read>>

\* The feed is turned off, the process ends or the coin leaves the list: the next
\* cycle starts from what is stored.
Cancelled ==
    /\ pc # "idle" /\ Idle /\ failing' = FALSE
    /\ UNCHANGED <<clock, stored, read>>

\* prune_before: the oldest first, so many at a time.
Oldest(cutoff) ==
    {t \in stored : t < cutoff /\ Cardinality({u \in stored : u < t}) < Batch}

PruneDue ==
    /\ pc = "prune" /\ Idle
    /\ stored' = stored \ Oldest(end - Retention)
    /\ UNCHANGED <<clock, failing, read>>

\* It pruned within the hour, or the prune failed.
PruneLater ==
    /\ pc = "prune" /\ Idle
    /\ UNCHANGED <<clock, stored, failing, read>>

-----------------------------------------------------------------------------
(* A chart                                                                  *)
Fitting(w) == {i \in Intervals : w \div i <= MaxPoints}

\* candle_query: whole bars, the last of which is the one now running.
Edges(w, i) ==
    LET last == (now \div i) * i + i IN
    [k \in 1 .. (w \div i) + 1 |-> last - w + i * (k - 1)]

\* A window and an interval, or none: then the finest that fits.
Ask(w, i) ==
    LET width == IF i = None THEN Min(Fitting(w)) ELSE i IN
    /\ step = "idle" /\ Fitting(w) # {} /\ width \in Fitting(w)
    /\ query' = [edges |-> Edges(w, width), now |-> now, failing |-> failing]
    /\ step' = "groups"
    /\ UNCHANGED <<clock, stored, feed, groups, latest, answer>>

\* Too many points, no symbol, more than nine, one named twice or not a USD product.
Refuse ==
    /\ step = "idle" /\ step' = "sent"
    /\ answer' = [NoAnswer EXCEPT !.freshness = "refused"]
    /\ UNCHANGED <<clock, stored, feed, query, groups, latest>>

Bars == 1 .. Len(query.edges) - 1

InBar(k) == {t \in stored : query.edges[k] <= t /\ t < query.edges[k + 1]}

ReadGroups ==
    /\ step = "groups" /\ step' = "latest"
    /\ groups' = [k \in Bars |->
          [count |-> Cardinality(InBar(k)), first |-> Earliest(InBar(k)),
           last |-> Newest(InBar(k))]]
    /\ UNCHANGED <<clock, stored, feed, query, latest, answer>>

ReadLatest ==
    /\ step = "latest" /\ step' = "edges" /\ latest' = Newest(stored)
    /\ UNCHANGED <<clock, stored, feed, query, groups, answer>>

\* _symbol_payload.  A bar whose first or last candle is gone meanwhile has no values.
Shown(k) == groups[k].count > 0 /\ {groups[k].first, groups[k].last} \subseteq stored

Bar(k) ==
    LET count == IF Shown(k) THEN groups[k].count ELSE 0 IN
    [count |-> count, grouped |-> groups[k].count,
     state |-> IF k = Max(Bars) THEN "in_progress"
               ELSE IF count = 0 THEN "gap"
               ELSE IF count >= query.edges[k + 1] - query.edges[k] THEN "complete"
               ELSE "partial"]

\* _freshness: at the query's time, from the feed's report and the newest candle.
Freshness ==
    IF query.failing THEN "unavailable"
    ELSE IF latest = None THEN "not_collected"
    ELSE IF query.now - (latest + 1) > StaleAfter THEN "stale"
    ELSE "fresh"

ReadEdges ==
    /\ step = "edges" /\ step' = "sent"
    /\ answer' = [bars |-> [k \in Bars |-> Bar(k)], edges |-> query.edges,
                  freshness |-> Freshness]
    /\ query' = NoQuery /\ groups' = <<>> /\ latest' = None
    /\ UNCHANGED <<clock, stored, feed>>

\* The table cannot be read: the page says so and shows no chart.
ReadFails ==
    /\ step # "idle" /\ step' = "sent"
    /\ answer' = [NoAnswer EXCEPT !.freshness = "unreadable"]
    /\ query' = NoQuery /\ groups' = <<>> /\ latest' = None
    /\ UNCHANGED <<clock, stored, feed>>

\* The answer is with its reader.
Sent ==
    /\ step = "sent" /\ step' = "idle" /\ answer' = NoAnswer
    /\ UNCHANGED <<clock, stored, feed, query, groups, latest>>

Feed ==
    \/ CollectStart \/ CollectPage \/ CollectDone \/ CollectFails \/ Cancelled
    \/ PruneDue \/ PruneLater

Read ==
    \/ \E w \in Windows, i \in Intervals \cup {None} : Ask(w, i)
    \/ Refuse \/ ReadGroups \/ ReadLatest \/ ReadEdges \/ ReadFails

Next == Sent \/ (step # "sent" /\ (Tick \/ Feed \/ Read))

Spec == Init /\ [][Next]_vars

-----------------------------------------------------------------------------
Finished == 1 .. Len(answer.bars) - 1
Traded(k) == {t \in traded : answer.edges[k] <= t /\ t < answer.edges[k + 1]}
Followed(k) == \E j \in k + 1 .. Len(answer.bars) : answer.bars[j].count > 0

\* A finished bar within the backfill's reach that has candles after it counts every
\* candle the coin traded in: what a chart shows as a gap or as partial before its
\* newest candle is the market's doing, not that of a page that failed, a feed that
\* was off, a prune or a query that ran while they were at work (_collect, read).
BarsAreWhole ==
    \A k \in Finished :
        answer.edges[k] >= now - Reach /\ Followed(k)
            => answer.bars[k].count = Cardinality(Traded(k))

\* "A bar with no candles is a gap": not one that has some.  Violated when the window
\* reaches past the retention and the prune takes the bar's first candle during the
\* read; see the README.
GapsAreEmpty ==
    \A k \in Finished : answer.bars[k].state = "gap" => answer.bars[k].grouped = 0
=============================================================================
