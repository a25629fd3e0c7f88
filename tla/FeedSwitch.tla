----------------------------- MODULE FeedSwitch -----------------------------
(***************************************************************************)
(* Turning the watch-only feed on and off while the service runs: the       *)
(* administrator's requests, the saved choice, the controller that owns the  *)
(* feed's task, and what the next start makes of the saved choice.          *)
(***************************************************************************)
EXTENDS Integers, FiniteSets

CONSTANTS
    Requests, \* requests that may be under way together
    EnvOn,    \* WATCH_FEED_ENABLED
    MaxSaves, \* bound: choices saved
    MaxTasks  \* bound: tasks being cancelled at once

VARIABLES
    up,      \* the service is running
    feed,    \* the controller has a feed
    ending,  \* tasks that were cancelled and have not ended
    saved,   \* the saved choices so far, newest last: how many and the newest
    origin,  \* the controller's origin: "environment", "unreadable" or a save
    waiting, \* what each request waits in controller.stop() with
    untold   \* the newest choice was saved by a commit that raised, and no start
             \* has read it since (history)

vars == <<up, feed, ending, saved, origin, waiting, untold>>

Environment == -1
Unreadable == -2
Choice == [count : 0 .. MaxSaves, on : BOOLEAN]

\* An origin is the number of the save it names, Environment for the environment.
\* A request waits with the number of its save, or to undo a start.
Idle == 0
Undo == -1

Init ==
    /\ up = FALSE /\ feed = FALSE /\ ending = 0
    /\ saved = [count |-> 0, on |-> FALSE] /\ origin = Environment
    /\ waiting = [r \in Requests |-> Idle] /\ untold = FALSE

-----------------------------------------------------------------------------
\* start_watch_feed: the saved choice decides, else the environment; a choice
\* that cannot be read leaves the feed off.
Boot ==
    /\ ~up /\ up' = TRUE
    /\ \/ /\ origin' = IF saved.count = 0 THEN Environment ELSE saved.count
          /\ feed' = IF saved.count = 0 THEN EnvOn ELSE saved.on
       \/ origin' = Unreadable /\ feed' = FALSE
    /\ untold' = FALSE
    /\ UNCHANGED <<ending, saved, waiting>>

Crash ==
    /\ up /\ up' = FALSE
    /\ feed' = FALSE /\ ending' = 0 /\ origin' = Environment
    /\ waiting' = [r \in Requests |-> Idle]
    /\ UNCHANGED <<saved, untold>>

NextSave(on) == [count |-> saved.count + 1, on |-> on]
CanSave == saved.count < MaxSaves

\* The save raises: its transaction was undone, or committed all the same.
SaveRaises(on) ==
    \/ UNCHANGED <<saved, untold>>
    \/ CanSave /\ saved' = NextSave(on) /\ untold' = TRUE

\* set_feed turning it on: the feed starts and the choice is saved in one turn
\* of the event loop.
TurnOn(r) ==
    /\ up /\ waiting[r] = Idle /\ ~feed /\ CanSave
    /\ feed' = TRUE /\ saved' = NextSave(TRUE) /\ origin' = saved.count + 1
    /\ untold' = FALSE
    /\ UNCHANGED <<up, ending, waiting>>

\* Mutant: a feed whose choice could not be saved is left running.
TurnOnKept(r) ==
    /\ up /\ waiting[r] = Idle /\ ~feed /\ ending < MaxTasks
    /\ feed' = TRUE /\ SaveRaises(TRUE)
    /\ UNCHANGED <<up, origin, ending, waiting>>

\* The save raises, and the feed just started is stopped again.
TurnOnUnsaved(r) ==
    /\ up /\ waiting[r] = Idle /\ ~feed /\ ending < MaxTasks
    /\ SaveRaises(TRUE)
    /\ ending' = ending + 1 /\ waiting' = [waiting EXCEPT ![r] = Undo]
    /\ UNCHANGED <<up, feed, origin>>

\* Turning it off: saved first, then controller.stop() forgets the feed at once
\* and waits for its task to end.
TurnOff(r) ==
    /\ up /\ waiting[r] = Idle /\ feed /\ CanSave /\ ending < MaxTasks
    /\ saved' = NextSave(FALSE) /\ untold' = FALSE
    /\ feed' = FALSE /\ ending' = ending + 1
    /\ waiting' = [waiting EXCEPT ![r] = saved.count + 1]
    /\ UNCHANGED <<up, origin>>

\* A save that raises leaves the feed running.
TurnOffUnsaved(r) ==
    /\ up /\ waiting[r] = Idle /\ feed /\ SaveRaises(FALSE)
    /\ UNCHANGED <<up, feed, ending, origin, waiting>>

\* The task has ended; the request that turned the feed off names its choice.
Stopped(r) ==
    /\ up /\ waiting[r] # Idle /\ ending > 0
    /\ ending' = ending - 1
    /\ origin' = IF waiting[r] = Undo THEN origin ELSE waiting[r]
    /\ waiting' = [waiting EXCEPT ![r] = Idle]
    /\ UNCHANGED <<up, feed, saved, untold>>

Next ==
    \/ Boot \/ Crash
    \/ \E r \in Requests :
          \/ TurnOn(r) \/ TurnOnUnsaved(r)
          \/ TurnOff(r) \/ TurnOffUnsaved(r) \/ Stopped(r)

Spec == Init /\ [][Next]_vars

-----------------------------------------------------------------------------
\* Every variable holds a value of its kind, and every task that was cancelled is
\* waited for.
TypeOK ==
    /\ {up, feed, untold} \subseteq BOOLEAN /\ ending \in 0 .. MaxTasks /\ saved \in Choice
    /\ origin \in Unreadable .. MaxSaves
    /\ waiting \in [Requests -> Undo .. MaxSaves]
    /\ ending = Cardinality({r \in Requests : waiting[r] # Idle})

\* The feed runs exactly when the newest saved choice says so, through requests
\* that overlap, saves that raise and restarts.  It may differ in two cases
\* only, each until the next start or saved choice: a service that could not
\* read the choice at its start keeps it off, and a save that raised although
\* it was committed is not followed.
RunsAsSaved ==
    up /\ saved.count > 0 /\ origin # Unreadable /\ ~untold => feed = saved.on

\* "Why the feed is on or off": with no request under way, an origin that names
\* a saved choice names the newest one that a request was told of.
OriginExplains ==
    (\A r \in Requests : waiting[r] = Idle) /\ origin > 0 /\ ~untold =>
        origin = saved.count
=============================================================================
