----------------------------- MODULE MarketData -----------------------------
(***************************************************************************)
(* The candles of one traded symbol: the bounded backfill at startup, the   *)
(* stream that emits a bucket once a newer one begins, the REST gap fill    *)
(* after a disconnect, and the validation a closed candle passes before it  *)
(* is stored and reaches the trading cycle.                                *)
(*                                                                         *)
(* Time is counted in buckets: now is the bucket in progress.  One task     *)
(* runs everything; the clock moves, the connection drops and the process   *)
(* dies while it waits.                                                    *)
(***************************************************************************)
EXTENDS Integers, FiniteSetsExt

CONSTANTS
    HistoryBars, \* bars of history a candle is validated with, itself included
    PageSize,    \* candles in one REST request
    Lapses,      \* a candle may not arrive, its quote be stale or its save fail
    MaxBucket    \* bound: the last bucket modelled

\* What the configuration guarantees of these numbers.
Configured ==
    /\ HistoryBars \in Nat \ {0, 1} /\ PageSize \in Nat \ {0}
    /\ MaxBucket \in Nat /\ MaxBucket >= HistoryBars /\ Lapses \in BOOLEAN

VARIABLES
    now,    \* the bucket in progress
    store,  \* buckets in the candle store
    pc,     \* what the market-data task is doing
    last,   \* last_candle_at: the newest bucket known to be closed, or -1
    open,   \* the bucket held in _open_buckets, or -1
    cursor, \* next bucket the backfill under way asks for
    goal,   \* its end (exclusive)
    switch, \* "running" or "halted"
    fed,    \* the newest bucket the trading cycle has seen (history)
    filled  \* the newest bucket a backfill has stored (history)

vars == <<now, store, pc, last, open, cursor, goal, switch, fed, filled>>

NoBucket == -1
Labels == {"down", "starting", "connecting", "up", "filling", "waiting", "failed"}

Newest(S) == IF S = {} THEN NoBucket ELSE Max(S)
Later(a, b) == IF a < b THEN b ELSE a

Init ==
    /\ now = HistoryBars /\ store = {} /\ pc = "down"
    /\ last = NoBucket /\ open = NoBucket /\ cursor = 0 /\ goal = 0
    /\ switch = "running" /\ fed = NoBucket /\ filled = NoBucket

-----------------------------------------------------------------------------
(* HistoricalCandleBackfiller.run: page by page, each saved on its own.  A  *)
(* page that is not complete and contiguous ends it with an error.          *)
PageEnd == IF goal < cursor + PageSize THEN goal ELSE cursor + PageSize

SavePage(label) ==
    /\ pc = label /\ cursor < goal
    /\ store' = store \cup cursor .. PageEnd - 1
    /\ filled' = Later(filled, PageEnd - 1)
    /\ cursor' = PageEnd
    /\ UNCHANGED <<now, pc, last, open, goal, switch, fed>>

\* PaperRuntime.start: the history window is read again, stored or not.
Start ==
    /\ pc = "down" /\ pc' = "starting"
    /\ cursor' = now - HistoryBars /\ goal' = now
    /\ UNCHANGED <<now, store, last, open, switch, fed, filled>>

StartPage == SavePage("starting")

StartFails ==
    /\ pc = "starting" /\ cursor < goal /\ pc' = "down"
    /\ UNCHANGED <<now, store, last, open, cursor, goal, switch, fed, filled>>

Started ==
    /\ pc = "starting" /\ cursor = goal
    /\ pc' = "connecting" /\ last' = Newest(store)
    /\ UNCHANGED <<now, store, open, cursor, goal, switch, fed, filled>>

-----------------------------------------------------------------------------
(* CoinbaseWebSocketIngestor                                                *)
Connects ==
    /\ pc = "connecting" /\ pc' = "up"
    /\ UNCHANGED <<now, store, last, open, cursor, goal, switch, fed, filled>>

\* validate_candles on the latest stored bars followed by the candle.  The
\* backfill at startup stores HistoryBars bars, so there are always enough.
Contiguous(b) ==
    LET prior == {x \in store : Cardinality({y \in store : y >= x}) < HistoryBars}
    IN prior = (b - HistoryBars + 1) .. (b - 1)

\* on_candle: a candle that is not valid, or has no fresh quote, or cannot be
\* saved, goes no further.
OnCandle(b) ==
    \/ /\ Contiguous(b)
       /\ store' = store \cup {b} /\ fed' = b
    \/ /\ Lapses \/ ~Contiguous(b)
       /\ UNCHANGED <<store, fed>>

\* _update_bucket: an update for bucket b, the one in progress or an older one.
Update(b) ==
    /\ pc = "up" /\ (Lapses \/ b = now)
    /\ b > last /\ b >= open
    /\ IF open # NoBucket /\ b > open
       THEN last' = open /\ OnCandle(open)
       ELSE UNCHANGED <<last, store, fed>>
    /\ open' = b
    /\ UNCHANGED <<now, pc, cursor, goal, switch, filled>>

-----------------------------------------------------------------------------
(* A disconnect: the bucket in progress is dropped, and the buckets closed   *)
(* since the last one known are filled, up to the one in progress.          *)

\* Mutant: the bucket in progress is kept through the disconnect.
DropKeepsBucket ==
    /\ pc \in {"connecting", "up"}
    /\ goal' = now /\ cursor' = Later(last, Newest(store)) + 1
    /\ pc' = IF last >= now - 1 THEN "waiting" ELSE "filling"
    /\ UNCHANGED <<now, store, last, open, switch, fed, filled>>

Drop ==
    /\ pc \in {"connecting", "up"}
    /\ open' = NoBucket
    /\ goal' = now /\ cursor' = Later(last, Newest(store)) + 1
    /\ pc' = IF last >= now - 1 THEN "waiting" ELSE "filling"
    /\ UNCHANGED <<now, store, last, switch, fed, filled>>

FillPage == SavePage("filling")

\* The task ends with an error, and _run halts trading.
FillFails ==
    /\ pc = "filling" /\ cursor < goal
    /\ pc' = "failed" /\ switch' = "halted"
    /\ UNCHANGED <<now, store, last, open, cursor, goal, fed, filled>>

Filled ==
    /\ pc = "filling" /\ cursor >= goal
    /\ pc' = "waiting" /\ last' = goal - 1
    /\ UNCHANGED <<now, store, open, cursor, goal, switch, fed, filled>>

\* The reconnect delay is over.
Reconnect ==
    /\ pc = "waiting" /\ pc' = "connecting"
    /\ UNCHANGED <<now, store, last, open, cursor, goal, switch, fed, filled>>

-----------------------------------------------------------------------------
(* The candles channel sends the bucket in progress every second, so a      *)
(* connection that is up delivers each one, unless the provider lapses.     *)
Tick ==
    /\ now < MaxBucket /\ now' = now + 1
    /\ Lapses \/ pc # "up" \/ open = now
    /\ UNCHANGED <<store, pc, last, open, cursor, goal, switch, fed, filled>>

\* The process ends; an administrator may have re-armed before the next start.
Crash ==
    /\ pc # "down" /\ pc' = "down"
    /\ last' = NoBucket /\ open' = NoBucket
    /\ switch' \in {switch, "running"}
    /\ UNCHANGED <<now, store, cursor, goal, fed, filled>>

Next ==
    \/ Start \/ StartPage \/ StartFails \/ Started \/ Connects
    \/ \E b \in 0 .. now : Update(b)
    \/ Drop \/ FillPage \/ FillFails \/ Filled \/ Reconnect
    \/ Tick \/ Crash

Spec == Init /\ [][Next]_vars

-----------------------------------------------------------------------------
\* Every variable holds a value of its kind, and a bucket that has not closed
\* is never in the store.
TypeOK ==
    /\ now \in HistoryBars .. MaxBucket
    /\ store \subseteq 0 .. now - 1
    /\ pc \in Labels /\ switch \in {"running", "halted"}
    /\ last \in NoBucket .. now - 1 /\ open \in NoBucket .. now
    /\ cursor \in 0 .. MaxBucket + 1 /\ goal \in 0 .. MaxBucket
    /\ fed \in NoBucket .. now - 1 /\ filled \in NoBucket .. now - 1

\* The stream never emits a bucket twice, nor one that a backfill has stored
\* ("the stream must not emit one of them again"): not after a disconnect that
\* cut a bucket short, a late update, or a restart.
EmitsNewBuckets ==
    [][pc' = "up" /\ last' # last => last' > last /\ last' > filled /\ last' > fed]_vars

\* "A forced WebSocket disconnect is recovered with gap fill and no unexplained
\* data loss": a stream that fed the cycle, and is up again, has every recent
\* bucket up to the newest one known to be closed in the store.
NoDataLoss ==
    pc = "up" /\ fed # NoBucket => (last - HistoryBars + 1) .. last \subseteq store
=============================================================================
