----------------------------- MODULE SoakDigest -----------------------------
(***************************************************************************)
(* The evidence of the paper soak: heartbeats, disconnects, incidents and        *)
(* equity as they are recorded, and the digest that marks each day of a sliding   *)
(* window "pass" or "incomplete" from them.  The digest keeps no state: it is     *)
(* computed from the rows whenever it is read.                               *)
(***************************************************************************)
EXTENDS Integers, FiniteSets, Sequences, SequencesExt

CONSTANTS
    Interval,    \* HEARTBEAT_INTERVAL_SECONDS, in ticks
    DayLength,   \* ticks of a day
    Window,      \* days of the digest
    Threshold,   \* reconnect_storm_threshold
    StormSpan,   \* reconnect_storm_window, in ticks
    Incidents,   \* incidents that may be opened
    Priced,      \* how a snapshot's worst holding is priced
    MaxDays, MaxRecords, MaxStops  \* bounds: days, rows the feed, the operator and the portfolio save, stops

Configured ==
    /\ Priced \subseteq {"live", "last_known", "aged", "unpriced"}
    /\ Interval \in Nat \ {0} /\ DayLength \in Nat \ {0} /\ DayLength % Interval = 0 /\ Window \in Nat \ {0}
    /\ Threshold \in Nat \ {0, 1} /\ StormSpan \in Nat \ {0}

VARIABLES
    clock,
    up,        \* the process runs
    wait,      \* ticks since the heartbeat task last woke
    beats,     \* moments of the saved samples
    down,      \* moments at which the process did not run (history)
    stops,     \* times it has stopped
    drops,     \* moments of the disconnects, in order
    incident,  \* of each: [opened, closed], Never where it has not happened
    equity,    \* of each day: how its last snapshot is priced, "none" without one
    records    \* rows saved so far (bound)

vars == <<clock, up, wait, beats, down, stops, drops, incident, equity, records>>

Days == 0 .. MaxDays - 1
Never == -1
Today == clock \div DayLength
Start(d) == d * DayLength
End(d) == (d + 1) * DayLength

Init ==
    /\ clock = 0 /\ up = TRUE /\ wait = 0 /\ beats = {} /\ down = {} /\ stops = 0
    /\ drops = <<>> /\ incident = [i \in Incidents |-> [opened |-> Never, closed |-> Never]]
    /\ equity = [d \in Days |-> "none"] /\ records = 0

-----------------------------------------------------------------------------
(* The producers.                                                         *)
Tick ==
    /\ clock + 1 < MaxDays * DayLength /\ (up => wait < Interval)
    /\ clock' = clock + 1
    /\ wait' = IF up THEN wait + 1 ELSE wait
    /\ down' = IF up THEN down ELSE down \cup {clock}
    /\ UNCHANGED <<up, beats, stops, drops, incident, equity, records>>

\* HeartbeatScheduler.run: one sample an interval after the last, which may fail.
Sample ==
    /\ up /\ wait = Interval /\ wait' = 0 /\ beats' = beats \cup {clock}
    /\ UNCHANGED <<clock, up, down, stops, drops, incident, equity, records>>

SampleFails ==
    /\ up /\ wait = Interval /\ wait' = 0
    /\ UNCHANGED <<clock, up, beats, down, stops, drops, incident, equity, records>>

Stop ==
    /\ up /\ stops < MaxStops /\ up' = FALSE /\ stops' = stops + 1
    /\ UNCHANGED <<clock, wait, beats, down, drops, incident, equity, records>>

Restart ==
    /\ ~up /\ up' = TRUE /\ wait' = 0
    /\ UNCHANGED <<clock, beats, down, stops, drops, incident, equity, records>>

Save == records < MaxRecords /\ records' = records + 1

Disconnect ==
    /\ up /\ Save /\ drops' = Append(drops, clock)
    /\ UNCHANGED <<clock, up, wait, beats, down, stops, incident, equity>>

OpenIncident(i) ==
    /\ Save /\ incident[i].opened = Never /\ incident' = [incident EXCEPT ![i].opened = clock]
    /\ UNCHANGED <<clock, up, wait, beats, down, stops, drops, equity>>

\* close_incident: refused unless it is open.
CloseIncident(i) ==
    /\ Save /\ incident[i].opened # Never /\ incident[i].closed = Never
    /\ incident' = [incident EXCEPT ![i].closed = clock]
    /\ UNCHANGED <<clock, up, wait, beats, down, stops, drops, equity>>

\* An equity snapshot: every holding at a live quote, one at a last price, younger or
\* older than LAST_PRICE_MAX_AGE, or one that has no price.
Snapshot(priced) ==
    /\ up /\ Save /\ equity[Today] # priced /\ equity' = [equity EXCEPT ![Today] = priced]
    /\ UNCHANGED <<clock, up, wait, beats, down, stops, drops, incident>>

Next ==
    \/ Tick \/ Sample \/ SampleFails \/ Stop \/ Restart \/ Disconnect
    \/ \E i \in Incidents : OpenIncident(i) \/ CloseIncident(i)
    \/ \E priced \in Priced : Snapshot(priced)

Spec == Init /\ [][Next]_vars

-----------------------------------------------------------------------------
(* The digest.                                                            *)
\* trends_query: the day that contains now and those before it.
FirstDay == Today - Window + 1
InWindow(d) == d \in Days /\ FirstDay <= d /\ d <= Today

\* Mutant: the last interval of the day is not expected.
UptimeShort(d) ==
    LET dayEnd == IF End(d) < clock THEN End(d) ELSE clock
        expected == IF dayEnd > Start(d) THEN (dayEnd - Start(d)) \div Interval ELSE 0
    IN \A k \in 0 .. expected - 2 :
          \E t \in beats : Start(d) <= t /\ t < dayEnd /\ (t - Start(d)) \div Interval = k

\* _uptime_ok: every interval that is over has a sample.
UptimeOk(d) ==
    LET dayEnd == IF End(d) < clock THEN End(d) ELSE clock
        expected == IF dayEnd > Start(d) THEN (dayEnd - Start(d)) \div Interval ELSE 0
    IN \A k \in 0 .. expected - 1 :
          \E t \in beats : Start(d) <= t /\ t < dayEnd /\ (t - Start(d)) \div Interval = k

\* _daily_reconnect_storms: the disconnects since the first day, each with those of
\* the span before it that are still kept.
StormDays ==
    LET kept(moments) == SelectSeq(moments, LAMBDA t : t >= Start(FirstDay))
        step(acc, t) ==
            LET recent == Append(SelectSeq(acc.recent, LAMBDA r : r >= t - StormSpan), t)
            IN [recent |-> recent,
                days |-> IF Len(recent) < Threshold THEN acc.days
                         ELSE acc.days \cup {t \div DayLength}]
    IN FoldLeft(step, [recent |-> <<>>, days |-> {}], kept(drops)).days

\* _daily_open_incidents: opened before the day's end and not closed by then.
OpenAtEnd(d) ==
    {i \in Incidents : incident[i].opened # Never /\ incident[i].opened < End(d)
                       /\ (incident[i].closed = Never \/ incident[i].closed >= End(d))}

\* _day and _equity_field
Missing(d) ==
    (CASE equity[d] \in {"none", "unpriced"} -> {"equity"}
       [] equity[d] = "aged" -> {"equity_price_age"}
       [] OTHER -> {})
    \cup (IF UptimeOk(d) THEN {} ELSE {"uptime"})
    \cup (IF OpenAtEnd(d) = {} THEN {} ELSE {"incidents"})
    \cup (IF d \in StormDays THEN {"reconnect_storm"} ELSE {})

DayStatus(d) == IF Missing(d) = {} THEN "pass" ELSE "incomplete"

-----------------------------------------------------------------------------
\* Every variable holds a value of its kind.
TypeOK ==
    /\ clock \in 0 .. MaxDays * DayLength - 1 /\ up \in BOOLEAN /\ wait \in 0 .. Interval
    /\ beats \subseteq 0 .. clock /\ down \subseteq 0 .. clock

\* No day that passes had an outage longer than a heartbeat interval ("a day is never
\* marked pass on partial evidence", api/soak.py:650): every interval needs a sample of
\* its own, and a process that restarts samples only an interval later.  An outage of
\* one interval that ends with the day is seen on the next day.
PassIsEarned ==
    \A d \in Days : InWindow(d) /\ d < Today /\ DayStatus(d) = "pass" =>
        \A t \in Start(d) .. End(d) - Interval - 1 : \E u \in t .. t + Interval : u \notin down

\* A day that is over keeps its verdict while the digest lists it, whatever is opened,
\* closed or recorded later, until it is the oldest of the window.
DaysStand ==
    [][\A d \in Days : InWindow(d) /\ d < Today /\ FirstDay' < d => DayStatus(d)' = DayStatus(d)]_vars

\* The same for the oldest day too ("Flag each UTC day containing ``threshold``
\* disconnects in the rolling window", api/soak.py:410).
AllDaysStand ==
    [][\A d \in Days : InWindow(d) /\ d < Today /\ FirstDay' <= d => DayStatus(d)' = DayStatus(d)]_vars
=============================================================================
