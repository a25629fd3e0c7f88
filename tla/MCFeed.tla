-------------------------------- MODULE MCFeed --------------------------------
(***************************************************************************)
(* The two feeds of market data.  The watch-only feed at work, the requests   *)
(* that turn it on and off, and the candles of one of its coins with the     *)
(* charts read from them; the traded symbol's candles, and the clock of the   *)
(* connection they come from.  The five share no variable: a behaviour       *)
(* follows one of them.                                                     *)
(***************************************************************************)
EXTENDS Watchlist

CONSTANTS
    EnvOn, MaxSaves, MaxTasks, Switchers,
    Reach, Page, Retention, Batch, Windows, Intervals, MaxPoints, StaleAfter, Bound,
    HistoryBars, PageSize, Lapses, MaxBucket,
    Timeout, HealthyAfter, Threshold, Window, Interval, BaseDelay, MaxDelay, Punctual

VARIABLES
    up, feed, ending, choice, origin, waiting, untold,
    now, traded, stored, collect, cursor, end, failing, step, query, groups, latest, answer,
    bucket, store, task, last, open, next, goal, switch, fed, filled,
    conn, provider, beat, upFor, silent, steady, healthy, delay, wait,
    drops, active, alerted, calm, missed,
    focus  \* the part this behaviour follows

Control == INSTANCE FeedSwitch WITH saved <- choice, Requests <- Switchers
control == <<up, feed, ending, choice, origin, waiting, untold>>

Chart == INSTANCE MarketCandles WITH pc <- collect
chart == <<now, traded, stored, collect, cursor, end, failing, step, query, groups, latest,
           answer>>

Market == INSTANCE MarketData WITH now <- bucket, pc <- task, cursor <- next
candles == <<bucket, store, task, last, open, next, goal, switch, fed, filled>>

Health == INSTANCE StreamHealth
connection == <<conn, provider, beat, upFor, silent, steady, healthy, delay, wait, drops,
                active, alerted, calm, missed>>

ASSUME ChartAssumption == Chart!Configured
ASSUME MarketAssumption == Market!Configured
ASSUME HealthAssumption == Health!Configured

\* What a behaviour does not follow stays at one initial value.
FeedInit ==
    /\ Init /\ Control!Init /\ Chart!Init /\ Market!Init /\ Health!Init
    /\ focus \in {"work", "switch", "chart", "candles", "connection"}
    /\ focus # "chart" => traded = {}

FeedNext ==
    \/ focus = "work" /\ Next /\ UNCHANGED <<control, chart, candles, connection, focus>>
    \/ focus = "switch" /\ Control!Next
       /\ UNCHANGED <<vars, chart, candles, connection, focus>>
    \/ focus = "chart" /\ Chart!Next
       /\ UNCHANGED <<vars, control, candles, connection, focus>>
    \/ focus = "candles" /\ Market!Next
       /\ UNCHANGED <<vars, control, chart, connection, focus>>
    \/ focus = "connection" /\ Health!Next
       /\ UNCHANGED <<vars, control, chart, candles, focus>>

\* The watch-only loop runs and time passes, and its provider answers, one way or the
\* other.  The stream's task runs, a provider that is up sends heartbeats, and candles
\* close again and again on a connection that takes messages.
FeedSpec ==
    /\ FeedInit /\ [][FeedNext]_<<vars, control, chart, candles, connection, focus>>
    /\ WF_vars(focus = "work" /\ CycleStart)
    /\ WF_vars(focus = "work" /\ (CollectWorks \/ CollectFails))
    /\ WF_vars(focus = "work" /\ CycleEnd)
    /\ WF_vars(focus = "work" /\ Tick)
    /\ WF_connection(focus = "connection" /\ Health!Connects)
    /\ WF_connection(focus = "connection" /\ Health!ConnectFails)
    /\ WF_connection(focus = "connection" /\ Health!Reconnects)
    /\ WF_connection(focus = "connection" /\ Health!RecvTimeout)
    /\ WF_connection(focus = "connection" /\ Health!Broken)
    /\ WF_connection(focus = "connection" /\ Health!Heartbeat)
    /\ SF_connection(focus = "connection" /\ Health!OtherMessage(TRUE))
    /\ WF_connection(focus = "connection" /\ Health!Tick)

\* The feed runs exactly when the newest saved choice says so, through overlapping
\* requests, saves that raise and restarts, but for a choice that could not be read and
\* one committed by a save that raised (set_feed, start_watch_feed).
RunsAsSaved == Control!RunsAsSaved

\* A chart's finished bar before its newest candle counts every candle of the coin
\* (WatchOnlyFeed._collect and _prune, SqlAlchemyCandleReads.read).
BarsAreWhole == Chart!BarsAreWhole

\* The stream never emits a bucket twice, nor one that a backfill has stored
\* (_update_bucket, _backfill_gap).
EmitsNewBuckets == Market!EmitsNewBuckets

\* The storm alert is cleared while connected only once the connection has lasted and
\* the window holds too few disconnects (PaperRuntime._on_stream_health).
ClearsOnlyRecovered == Health!ClearsOnlyRecovered

\* Two storm alerts are the interval apart unless the stream has recovered in between
\* ("no more often than every 15 minutes while the storm persists").
SpacedAlerts == Health!SpacedAlerts

\* A storm that ends with one stable connection does not leave its alert standing.
StormClears == Health!StormClears
=============================================================================
