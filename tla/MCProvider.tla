------------------------------ MODULE MCProvider ------------------------------
(***************************************************************************)
(* What stands behind the broker interface: the client of the real providers, *)
(* what their adapters do with it (finding an order, changing one, listing the  *)
(* account), the check of the sandbox, and the simulated broker.  They share no  *)
(* state, so a behaviour follows one of them.                                *)
(***************************************************************************)
EXTENDS ProviderHttp, Sequences

CONSTANTS
    Orders, Quantity, Schedule, Quotes, Spread, Scale, Slip, FeeRate, StartDollars,
    Providers, Others, PageLimit, MaxPages, Margin, Skew, MaxClock,
    Size, Targets, CancelIsFinal, MaxAsked,
    Tasks, Pages, Fresh, MaxWrites,
    Budget, Reserve

VARIABLES
    book, bid, unknown, early, broken,
    provider, clock, savedAt, wire, listed, status, cache, known, search, answer,
    target, order, next, held, nextCache, edit, asked,
    moment, written, posting, reader, pages, oldest, began, snapshot, answered, shown,
    stage, spent, venue, settled, resting, left, results, lost,
    focus  \* the part this behaviour follows

Sim == INSTANCE SimulatedBroker
Search == INSTANCE OrderSearch WITH book <- listed, state <- status
Amendment == INSTANCE OrderAmendment WITH cache <- held, pc <- edit
Account == INSTANCE AccountListing WITH clock <- moment, pc <- reader
Probe == INSTANCE SandboxProbe

sim == <<book, bid, unknown, early, broken>>
finding == <<provider, clock, savedAt, wire, listed, status, cache, known, search, answer>>
amending == <<target, order, next, held, nextCache, edit, asked>>
listing == <<moment, written, posting, reader, pages, oldest, began, snapshot, answered, shown>>
probing == <<stage, spent, venue, settled, resting, left, results, lost>>

HalfThenAll == <<1, 2>>

ASSUME ProviderAssumption ==
    /\ Sim!Configured /\ Search!Configured /\ Amendment!Configured /\ Account!Configured
    /\ Probe!Configured

\* A part that is not followed starts in one of its initial states.
ProviderInit ==
    /\ focus \in {"calls", "simulator", "search", "amendment", "account", "probe"}
    /\ Init /\ Sim!Init /\ Search!Init /\ Amendment!Init /\ Account!Init /\ Probe!Init
    /\ focus # "simulator" => bid = CHOOSE q \in Quotes : TRUE
    /\ focus \notin {"search", "amendment"} => provider = CHOOSE p \in Providers : TRUE
    /\ focus # "amendment" => target = CHOOSE q \in Targets : TRUE

ProviderNext ==
    \/ focus = "calls" /\ Next
       /\ UNCHANGED <<sim, finding, amending, listing, probing, focus>>
    \/ focus = "simulator" /\ Sim!Next
       /\ UNCHANGED <<vars, finding, amending, listing, probing, focus>>
    \/ focus = "search" /\ Search!Next
       /\ UNCHANGED <<vars, sim, amending, listing, probing, focus>>
    \/ focus = "amendment" /\ Amendment!Next
       /\ UNCHANGED <<vars, sim, listing, probing, focus>>
       /\ UNCHANGED <<clock, savedAt, wire, listed, status, cache, known, search, answer>>
    \/ focus = "account" /\ Account!Next
       /\ UNCHANGED <<vars, sim, finding, amending, probing, focus>>
    \/ focus = "probe" /\ Probe!Next
       /\ UNCHANGED <<vars, sim, finding, amending, listing, focus>>

Called(A) == focus = "calls" /\ A

ProviderSpec ==
    /\ ProviderInit /\ [][ProviderNext]_<<vars, sim, finding, amending, listing, probing, focus>>
    /\ WF_vars(Called(Tick))
    /\ \A c \in Calls :
          /\ WF_vars(Called(Begin(c))) /\ WF_vars(Called(Admit(c) \/ CircuitOpen(c)))
          /\ WF_vars(Called(Acquire(c) \/ TryAgain(c) \/ RateLimitExceeded(c)))
          /\ WF_vars(Called(BackedOff(c)))
          /\ WF_vars(Called(Throttled(c) \/ Renew(c) \/ \E reply \in Answer : Answered(c, reply)))

\* The simulator's balances are those its recorded fills add up to (_apply_fill and
\* _apply_accounting), across timed-out orders and partial fills, and the position
\* is the coin balance, but for the two cases SimulatedBroker names.
BooksFollowFills == Sim!BooksFollowFills

\* An adapter says that there is no such order only if the venue did not have it when
\* it was asked, and never a settlement the venue did not make (get_order,
\* _find_by_client_order_id).
AnswersHold == Search!AnswersHold

\* An order and its replacement never execute more than the new total (edit_order,
\* cancel_order, replacement_quantity).
WithinTotal == Amendment!WithinTotal

\* Positions know of every order write answered before their listing began, and no write
\* was answered since it ended, whichever tasks list and write (get_positions, _private).
WritesSeen == Account!WritesSeen

\* The sandbox check reports what it leaves at the venue, and leaves nothing when it
\* passes (_cancel_leftovers).
LeavesNothing == Probe!LeavesNothing
=============================================================================
