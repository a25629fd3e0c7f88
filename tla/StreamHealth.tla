---------------------------- MODULE StreamHealth ----------------------------
(***************************************************************************)
(* The life of the market-data connection: heartbeats, the reconnect delay, *)
(* the health report, and the reconnect-storm alert the paper runtime        *)
(* raises, repeats and clears.                                             *)
(*                                                                         *)
(* Time advances in ticks and every timestamp is kept as its age, capped     *)
(* where a greater age makes no difference.                                *)
(***************************************************************************)
EXTENDS Integers, FiniteSets

CONSTANTS
    Timeout,      \* heartbeat_timeout_seconds
    HealthyAfter, \* healthy_connection_seconds
    Threshold,    \* reconnect_storm_threshold
    Window,       \* reconnect_storm_window
    Interval,     \* reconnect_storm_alert_interval
    BaseDelay,    \* reconnect_base_seconds
    MaxDelay,     \* reconnect_max_seconds
    Punctual      \* a provider that is up sends a heartbeat in every tick

\* What the configuration guarantees of these numbers.
Configured ==
    /\ Timeout \in Nat \ {0} /\ HealthyAfter \in Nat \ {0}
    /\ Window \in Nat \ {0} /\ Interval \in Nat \ {0}
    /\ BaseDelay \in Nat \ {0} /\ MaxDelay \in Nat /\ MaxDelay >= BaseDelay
    /\ Punctual \in BOOLEAN /\ Threshold \in Nat \ {0, 1}

VARIABLES
    conn,    \* "connecting", "up" or "waiting"
    provider,\* "up" or "down"
    beat,    \* age of last_heartbeat, or Never
    upFor,   \* age of this connection
    silent,  \* time since its last message
    steady,  \* this connection has reported health: _connection_healthy
    healthy, \* the runtime's _stream_healthy
    delay,   \* the next reconnect delay
    wait,    \* what is left of the delay under way
    drops,   \* ages of the disconnects in _disconnects
    active,  \* the storm alert is in _active_alerts
    alerted, \* age of the last storm alert: its _alerted_at while active
    calm,    \* since the last storm alert the stream has recovered (history)
    missed   \* the newest disconnect was not told, and no health since (history)

stream == <<conn, beat, upFor, silent, steady, delay, wait>>
report == <<healthy, missed>>
alerts == <<drops, active, alerted, calm>>
vars == <<stream, provider, report, alerts>>

Never == -1
Least(a, b) == IF a < b THEN a ELSE b
Recent(D) == {a \in D : a <= Window}
\* What the runtime can know of a recovery: too few disconnects that it was told
\* of, and a connection that has lasted unless its start went untold.
Recovered(D) == (upFor >= HealthyAfter \/ missed) /\ Cardinality(Recent(D)) < Threshold

Init ==
    /\ conn = "connecting" /\ provider = "up"
    /\ beat = Never /\ upFor = 0 /\ silent = 0 /\ steady = FALSE /\ healthy = FALSE
    /\ delay = BaseDelay /\ wait = 0
    /\ drops = {} /\ active = FALSE /\ alerted = 0 /\ calm = TRUE
    /\ missed = FALSE

-----------------------------------------------------------------------------
(* PaperRuntime                                                             *)

\* on_disconnect with _alert_once: raised at the threshold, repeated only after
\* Interval, and forgotten when raising it fails.  The disconnect is journaled
\* first: a journal that raises leaves the runtime as it was, and the stream
\* goes on (_notify_disconnect).
OnDisconnect ==
    LET D == Recent(drops) \cup {0} IN
    \/ /\ healthy' = FALSE /\ drops' = D /\ missed' = FALSE
       /\ IF Cardinality(D) >= Threshold /\ (~active \/ alerted >= Interval)
          THEN \/ active' = TRUE /\ alerted' = 0 /\ calm' = FALSE
               \/ active' = FALSE /\ UNCHANGED <<alerted, calm>>
          ELSE UNCHANGED <<active, alerted, calm>>
    \/ missed' = TRUE /\ UNCHANGED <<healthy, drops, active, alerted, calm>>

\* Mutants of ClearRecoveredStorm: any healthy report clears the alert, and
\* nothing but the report does.
ClearOnHealth(isHealthy) ==
    /\ drops' = IF isHealthy THEN Recent(drops) ELSE drops
    /\ active' = (active /\ ~isHealthy)
    /\ calm' = (calm \/ Recovered(drops))
    /\ UNCHANGED alerted

ClearNever(isHealthy) ==
    /\ calm' = (calm \/ Recovered(drops))
    /\ UNCHANGED <<drops, active, alerted>>

\* _clear_recovered_storm
ClearRecoveredStorm(isHealthy) ==
    /\ drops' = IF isHealthy THEN Recent(drops) ELSE drops
    /\ active' = (active /\ ~(isHealthy /\ Cardinality(Recent(drops)) < Threshold))
    /\ calm' = (calm \/ Recovered(drops))
    /\ UNCHANGED alerted

-----------------------------------------------------------------------------
(* CoinbaseWebSocketIngestor.run and _consume                               *)

\* The connection ends: on_disconnect, then the delay, which starts again from
\* its base after a healthy connection.
Drop ==
    LET d == IF steady THEN BaseDelay ELSE delay IN
    /\ conn' = "waiting" /\ steady' = FALSE /\ wait' = d /\ delay' = Least(MaxDelay, 2 * d)
    /\ UNCHANGED <<beat, upFor, silent, provider>>
    /\ OnDisconnect

Connects ==
    /\ conn = "connecting" /\ provider = "up"
    /\ conn' = "up" /\ upFor' = 0 /\ silent' = 0
    /\ UNCHANGED <<beat, steady, delay, wait, provider, report, alerts>>

ConnectFails == conn = "connecting" /\ provider = "down" /\ Drop

Reconnects ==
    /\ conn = "waiting" /\ wait = 0 /\ conn' = "connecting"
    /\ UNCHANGED <<beat, upFor, silent, steady, delay, wait, provider, report, alerts>>

\* A provider that is down closes the connection or garbles a message.
Broken == conn = "up" /\ provider = "down" /\ Drop

RecvTimeout == conn = "up" /\ silent >= Timeout /\ Drop

\* The age of what a message that is no heartbeat is measured against.
HeartbeatReference == IF beat = Never THEN upFor ELSE beat

\* Any other message: a subscription answer, a ticker, a candle in progress.
\* A closed candle checks the storm alert again.
OtherMessage(closedCandle) ==
    /\ conn = "up" /\ HeartbeatReference <= Timeout
    /\ silent' = 0
    /\ IF closedCandle THEN ClearRecoveredStorm(healthy)
       ELSE UNCHANGED alerts
    /\ UNCHANGED <<conn, beat, upFor, steady, delay, wait, provider, report>>

HeartbeatStale == conn = "up" /\ HeartbeatReference > Timeout /\ Drop

\* A heartbeat; the first one after HealthyAfter reports health.
Heartbeat ==
    /\ conn = "up" /\ provider = "up"
    /\ beat' = 0 /\ silent' = 0
    /\ IF ~steady /\ upFor >= HealthyAfter
       THEN /\ steady' = TRUE /\ healthy' = TRUE /\ missed' = FALSE
            /\ ClearRecoveredStorm(TRUE)
       ELSE UNCHANGED <<steady, report, alerts>>
    /\ UNCHANGED <<conn, upFor, delay, wait, provider>>

-----------------------------------------------------------------------------
ProviderFails == provider = "up" /\ provider' = "down" /\ UNCHANGED <<stream, report, alerts>>
ProviderReturns == provider = "down" /\ provider' = "up" /\ UNCHANGED <<stream, report, alerts>>

Older(age, cap) == IF age = Never THEN Never ELSE Least(age + 1, cap)

Tick ==
    /\ conn = "up" => silent < Timeout
    /\ Punctual /\ conn = "up" /\ provider = "up" => beat = 0
    /\ conn = "waiting" => wait > 0
    /\ beat' = Older(beat, Timeout + 1)
    /\ upFor' = IF conn = "up" THEN Older(upFor, HealthyAfter + Timeout + 1) ELSE upFor
    /\ silent' = IF conn = "up" THEN silent + 1 ELSE silent
    /\ wait' = IF conn = "waiting" THEN wait - 1 ELSE wait
    /\ drops' = {Older(a, Window + 1) : a \in drops}
    /\ alerted' = Older(alerted, Interval)
    /\ UNCHANGED <<conn, steady, delay, provider, report, active, calm>>

Next ==
    \/ Connects \/ ConnectFails \/ Reconnects \/ Broken \/ RecvTimeout
    \/ \E c \in BOOLEAN : OtherMessage(c)
    \/ HeartbeatStale \/ Heartbeat
    \/ ProviderFails \/ ProviderReturns \/ Tick

Spec == Init /\ [][Next]_vars

\* The task runs, time passes, a provider that is up sends heartbeats, and candles
\* close again and again on a connection that takes messages.
Fairness ==
    /\ WF_vars(Connects) /\ WF_vars(ConnectFails) /\ WF_vars(Reconnects)
    /\ WF_vars(RecvTimeout) /\ WF_vars(Broken)
    /\ WF_vars(Heartbeat) /\ SF_vars(OtherMessage(TRUE)) /\ WF_vars(Tick)

LiveSpec == Spec /\ Fairness

-----------------------------------------------------------------------------
\* Every variable holds a value of its kind.
TypeOK ==
    /\ conn \in {"connecting", "up", "waiting"} /\ provider \in {"up", "down"}
    /\ beat \in Never .. Timeout + 1 /\ upFor \in 0 .. HealthyAfter + Timeout + 1
    /\ silent \in 0 .. Timeout /\ {steady, healthy, missed} \subseteq BOOLEAN
    /\ delay \in BaseDelay .. MaxDelay /\ wait \in 0 .. MaxDelay
    /\ drops \subseteq 0 .. Window + 1 /\ active \in BOOLEAN
    /\ alerted \in 0 .. Interval /\ calm \in BOOLEAN

\* The storm alert is cleared while connected only once the connection has
\* lasted and the window holds too few disconnects; only a disconnect whose
\* journal write failed can let it go sooner.
ClearsOnlyRecovered ==
    [][active /\ ~active' /\ conn' = "up" => Recovered(drops)]_vars

\* "The alert repeats no more often than every 15 minutes while the storm
\* persists": two storm alerts are Interval apart unless the stream has
\* recovered in between, as far as the runtime was told, however often it was
\* healthy for a while.
SpacedAlerts == [][alerted' < alerted => alerted >= Interval \/ calm]_vars

\* A storm that ends with one stable connection does not leave its alert
\* standing: once the connection stays up, the alert clears for good.
StormClears == <>[](conn = "up") => <>[](~active)

\* "A forced WebSocket disconnect is recovered": once the provider is back for
\* good, the stream becomes healthy again and stays so.
Recovers == <>[](provider = "up") => <>[]healthy
=============================================================================
