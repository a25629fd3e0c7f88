--------------------------- MODULE AccountListing ---------------------------
(***************************************************************************)
(* Coinbase's balances and positions.  Balances list every account page by     *)
(* page and keep the listing; positions read soon after reuse it.  An order     *)
(* write discards it.  Tasks call while the venue moves the account: one page of *)
(* a listing may be older than the next.                                    *)
(***************************************************************************)
EXTENDS Integers, FiniteSets

CONSTANTS
    Tasks,         \* tasks that read the account: the cycle, a page request
    Pages,         \* pages of the listing, one account each
    MaxPages,      \* MAX_ACCOUNT_PAGES
    Fresh,         \* ACCOUNT_SNAPSHOT_SECONDS, in ticks
    MaxClock, MaxWrites  \* bounds: the last moment, order writes

Configured ==
    /\ Pages \in Nat \ {0} /\ MaxPages \in Nat \ {0} /\ Fresh \in Nat \ {0}

VARIABLES
    clock,
    written,   \* order writes the venue has carried out
    posting,   \* each task's write: "no" or "sent"
    pc,        \* each task: "idle", "balances" or "positions"
    pages,     \* each task's listing: the pages read
    oldest,    \* and the writes its oldest page knows of
    began,     \* and the writes answered when it began (history)
    snapshot,  \* _account_snapshot: when it was taken, the writes it knows of, and those
               \* answered when the listing began and when it ended (history)
    answered,  \* the write a task last saw answered (history)
    shown      \* of each task: the writes its last positions know of, None before any
               \* since a write was answered (history)

vars == <<clock, written, posting, pc, pages, oldest, began, snapshot, answered, shown>>

None == -1
NoSnapshot == [at |-> None, knows |-> None, since |-> None, until |-> None]

Init ==
    /\ clock = 0 /\ written = 0 /\ posting = [t \in Tasks |-> "no"]
    /\ pc = [t \in Tasks |-> "idle"] /\ pages = [t \in Tasks |-> 0]
    /\ oldest = [t \in Tasks |-> 0] /\ began = [t \in Tasks |-> 0] /\ snapshot = NoSnapshot
    /\ answered = 0 /\ shown = [t \in Tasks |-> None]

Tick ==
    /\ clock < MaxClock /\ clock' = clock + 1
    /\ UNCHANGED <<written, posting, pc, pages, oldest, began, snapshot, answered, shown>>

-----------------------------------------------------------------------------
(* An order write: POST, then _private's finally clause.                     *)
Write(t) ==
    /\ pc[t] = "idle" /\ posting[t] = "no" /\ written < MaxWrites
    /\ written' = written + 1 /\ posting' = [posting EXCEPT ![t] = "sent"]
    /\ UNCHANGED <<clock, pc, pages, oldest, began, snapshot, answered, shown>>

\* Mutant: the listing is kept.
WriteAnsweredKeeps(t) ==
    /\ posting[t] = "sent" /\ posting' = [posting EXCEPT ![t] = "no"]
    /\ answered' = written /\ shown' = [u \in Tasks |-> None]
    /\ UNCHANGED <<clock, written, pc, pages, oldest, began, snapshot>>

\* Answered, timed out or failed: the listing is discarded.
WriteAnswered(t) ==
    /\ posting[t] = "sent" /\ posting' = [posting EXCEPT ![t] = "no"]
    /\ answered' = written /\ snapshot' = NoSnapshot /\ shown' = [u \in Tasks |-> None]
    /\ UNCHANGED <<clock, written, pc, pages, oldest, began>>

-----------------------------------------------------------------------------
(* get_balances, get_positions and _paginate                               *)
List(t, for) ==
    /\ pc' = [pc EXCEPT ![t] = for] /\ pages' = [pages EXCEPT ![t] = 0]
    /\ began' = [began EXCEPT ![t] = answered]
    /\ UNCHANGED <<clock, written, posting, oldest, snapshot, answered>>

GetBalances(t) ==
    /\ pc[t] = "idle" /\ posting[t] = "no" /\ List(t, "balances") /\ UNCHANGED shown

Reusable == snapshot # NoSnapshot /\ clock - snapshot.at < Fresh

PositionsReused(t) ==
    /\ pc[t] = "idle" /\ posting[t] = "no" /\ Reusable
    /\ shown' = [shown EXCEPT ![t] = snapshot.knows]
    /\ UNCHANGED <<clock, written, posting, pc, pages, oldest, began, snapshot, answered>>

PositionsListed(t) ==
    /\ pc[t] = "idle" /\ posting[t] = "no" /\ ~Reusable
    /\ List(t, "positions") /\ UNCHANGED shown

ReadPage(t) ==
    /\ pc[t] # "idle" /\ pages[t] < Pages /\ pages[t] < MaxPages
    /\ pages' = [pages EXCEPT ![t] = @ + 1]
    /\ oldest' = [oldest EXCEPT ![t] = IF pages[t] = 0 THEN written ELSE @]
    /\ UNCHANGED <<clock, written, posting, pc, began, snapshot, answered, shown>>

\* The last page: the listing is kept with the moment it ended.
Listed(t) ==
    /\ pc[t] # "idle" /\ pages[t] = Pages
    /\ snapshot' = [at |-> clock, knows |-> oldest[t], since |-> began[t], until |-> answered]
    /\ shown' = IF pc[t] = "positions" THEN [shown EXCEPT ![t] = oldest[t]] ELSE shown
    /\ pc' = [pc EXCEPT ![t] = "idle"]
    /\ UNCHANGED <<clock, written, posting, pages, oldest, began, answered>>

\* A page fails, or the listing does not end within its budget.
ListingFails(t) ==
    /\ pc[t] # "idle" /\ pc' = [pc EXCEPT ![t] = "idle"]
    /\ UNCHANGED <<clock, written, posting, pages, oldest, began, snapshot, answered, shown>>

Next ==
    \/ Tick
    \/ \E t \in Tasks :
          \/ Write(t) \/ WriteAnswered(t) \/ GetBalances(t) \/ PositionsReused(t)
          \/ PositionsListed(t) \/ ReadPage(t) \/ Listed(t) \/ ListingFails(t)

Spec == Init /\ [][Next]_vars

-----------------------------------------------------------------------------
\* Every variable holds a value of its kind.
TypeOK ==
    /\ clock \in 0 .. MaxClock /\ written \in 0 .. MaxWrites
    /\ \A t \in Tasks : posting[t] \in {"no", "sent"} /\ pages[t] \in 0 .. Pages
    /\ \A t \in Tasks : pc[t] \in {"idle", "balances", "positions"}

\* Positions, listed or taken from a kept listing, know of every order write answered
\* before the listing began, whichever task made it, and no write was answered since it
\* ended.  A write answered in between may be unknown to it.
WritesSeen ==
    [][\A t \in Tasks : shown'[t] \notin {shown[t], None} =>
          shown'[t] >= snapshot'.since /\ snapshot'.until = answered]_vars

\* "Any order write discards it": nothing is taken from a kept listing that misses a
\* write answered before.
AnyWriteDiscards ==
    [][\A t \in Tasks : shown'[t] \notin {shown[t], None} /\ pc[t] = "idle" =>
          shown'[t] >= answered]_vars
=============================================================================
