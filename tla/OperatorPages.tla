---------------------------- MODULE OperatorPages ----------------------------
(***************************************************************************)
(* The portfolio on the operator's pages.  Requests overlap: each reads the   *)
(* broker, then the saved equity and fills, and renders what the snapshot     *)
(* they share holds by then.                                               *)
(***************************************************************************)
EXTENDS Integers

CONSTANTS
    Requests, \* page requests, and the pages they leave in a browser
    MaxMoves  \* bound: changes of the holding at the broker

VARIABLES
    held,     \* the holding at the broker, as the number of its changes
    snapshot, \* balances, positions and status of the portfolio
    pc, read, \* each request: where it is, what it holds from its reads
    page      \* what the browser shows from the last answer

vars == <<held, snapshot, pc, read, page>>

None == -1
Version == {None} \cup 0 .. MaxMoves
Blank == [balances |-> None, positions |-> None, status |-> "unavailable"]

\* A request: what the broker held when it was asked for, what it held when the request
\* and those still reading then were asked for (history), and what it has read.
Unread == [asked |-> 0, overlap |-> {}, balances |-> None, positions |-> None]
NoPage == [asked |-> None, overlap |-> {}, snapshot |-> Blank]

Init ==
    /\ held = 0 /\ snapshot = Blank
    /\ pc = [r \in Requests |-> "idle"] /\ read = [r \in Requests |-> Unread]
    /\ page = [r \in Requests |-> NoPage]

Go(r, label) == pc' = [pc EXCEPT ![r] = label]
Reading == {r \in Requests : pc[r] \in {"balances", "positions", "answered"}}

-----------------------------------------------------------------------------
(* refresh and render, for every page that shows the broker's state         *)
Ask(r) ==
    /\ pc[r] = "idle" /\ Go(r, "balances")
    /\ read' = [read EXCEPT ![r] =
                   [asked |-> held, overlap |-> {held} \cup {read[q].asked : q \in Reading},
                    balances |-> None, positions |-> None]]
    /\ UNCHANGED <<held, snapshot, page>>

ReadBalances(r) ==
    /\ pc[r] = "balances" /\ Go(r, "positions")
    /\ read' = [read EXCEPT ![r].balances = held]
    /\ UNCHANGED <<held, snapshot, page>>

ReadPositions(r) ==
    /\ pc[r] = "positions" /\ Go(r, "answered")
    /\ read' = [read EXCEPT ![r].positions = held]
    /\ UNCHANGED <<held, snapshot, page>>

\* Mutant: a refresh that fails leaves the portfolio as the last one called it.
ReadFailsQuietly(r) ==
    /\ r \in Reading /\ Go(r, "read") /\ UNCHANGED <<held, snapshot, read, page>>

ReadFails(r) ==
    /\ r \in Reading /\ Go(r, "read")
    /\ snapshot' = [snapshot EXCEPT !.status = "unavailable"]
    /\ UNCHANGED <<held, read, page>>

SetPortfolio(r) ==
    /\ pc[r] = "answered" /\ Go(r, "read")
    /\ snapshot' = [balances |-> read[r].balances, positions |-> read[r].positions,
                    status |-> "current"]
    /\ UNCHANGED <<held, read, page>>

\* The day's figure and the costs are read in threads, while other requests go on; then
\* the page is rendered from what the snapshot holds.
Render(r) ==
    /\ pc[r] = "read" /\ Go(r, "idle")
    /\ page' = [page EXCEPT ![r] = [asked |-> read[r].asked, overlap |-> read[r].overlap,
                                    snapshot |-> snapshot]]
    /\ UNCHANGED <<held, snapshot, read>>

-----------------------------------------------------------------------------
BrokerMoves ==
    /\ held < MaxMoves /\ held' = held + 1
    /\ UNCHANGED <<snapshot, pc, read, page>>

\* The view is kept in memory; browsers keep their pages.
Restart ==
    /\ snapshot' = Blank
    /\ pc' = [r \in Requests |-> "idle"] /\ read' = [r \in Requests |-> Unread]
    /\ UNCHANGED <<held, page>>

Refresh(r) ==
    Ask(r) \/ ReadBalances(r) \/ ReadPositions(r) \/ ReadFails(r) \/ SetPortfolio(r) \/ Render(r)

Next == (\E r \in Requests : Refresh(r)) \/ BrokerMoves \/ Restart

Spec == Init /\ [][Next]_vars

-----------------------------------------------------------------------------
\* Every variable holds a value of its kind.
TypeOK ==
    /\ held \in 0 .. MaxMoves
    /\ snapshot \in [balances : Version, positions : Version, status : {"unavailable", "current"}]
    /\ pc \in [Requests -> {"idle", "balances", "positions", "answered", "read"}]

\* A page that calls its portfolio current shows nothing older than the oldest request
\* that was still reading when the page was asked for: answers are applied in the order
\* they arrive, a read that failed shows nothing old as current, and so does a restart.
CurrentSinceOverlap ==
    \A r \in Requests :
       LET view == page[r].snapshot
       IN view.status = "current" =>
             \E moment \in page[r].overlap :
                view.balances >= moment /\ view.positions >= moment

\* A page that calls its portfolio current shows nothing older than the request for
\* it ("never presents stale broker data as a current successful refresh").
CurrentIsFresh ==
    \A r \in Requests :
       LET view == page[r].snapshot
       IN view.status = "current" => /\ view.balances >= page[r].asked
                                     /\ view.positions >= page[r].asked
=============================================================================
