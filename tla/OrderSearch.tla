----------------------------- MODULE OrderSearch -----------------------------
(***************************************************************************)
(* How an adapter finds one order again.  Coinbase has no lookup by client     *)
(* order id, so its adapter lists the venue's orders page by page, newest first, *)
(* from a moment before the order was saved, while other orders arrive, the     *)
(* request itself may still be under way and the process may restart.  Gemini   *)
(* is asked by client order id.  The host's clock is ahead of the venue's by    *)
(* Skew.                                                                   *)
(***************************************************************************)
EXTENDS Integers, Sequences

CONSTANTS
    Providers,  \* of {"coinbase", "gemini"}
    Others,     \* orders of other clients of the account
    PageLimit,  \* rows of a page
    MaxPages,   \* ORDER_SEARCH_PAGES
    Margin,     \* ORDER_SEARCH_MARGIN
    Skew,       \* how far the venue's clock is behind
    MaxClock    \* bound: the last moment

Configured ==
    /\ Providers \subseteq {"coinbase", "gemini"} /\ "mine" \notin Others
    /\ PageLimit \in Nat \ {0} /\ MaxPages \in Nat \ {0}
    /\ Margin \in Nat /\ Skew \in 0 .. Margin

VARIABLES
    provider,
    clock,   \* the host's clock
    savedAt, \* created_at of the order's row, Never before it is saved
    wire,    \* the POST: "none", "underway", "arrived" or "lost"
    book,    \* the venue's orders with their created_time, oldest first
    state,   \* of the order at the venue: "open", "filled" or "canceled"
    cache,   \* _orders: what the adapter holds of it
    known,   \* _provider_order_ids has it
    search,  \* the listing under way, see NoSearch
    answer   \* what get_order last answered

vars == <<provider, clock, savedAt, wire, book, state, cache, known, search, answer>>
venue == <<book, state>>
adapter == <<cache, known>>

Never == -1
NoSearch == [pages |-> 0, since |-> Never, cursor |-> 0, there |-> FALSE]
Terminal == {"filled", "canceled"}
There == \E i \in DOMAIN book : book[i].id = "mine"

Init ==
    /\ provider \in Providers
    /\ clock = 0 /\ savedAt = Never /\ wire = "none" /\ book = <<>> /\ state = "open"
    /\ cache = "none" /\ known = FALSE /\ search = NoSearch /\ answer = "unasked"

-----------------------------------------------------------------------------
(* The venue and the process.                                              *)
Tick == clock < MaxClock /\ clock' = clock + 1
        /\ UNCHANGED <<provider, savedAt, wire, venue, adapter, search, answer>>

Listed(id) == book' = Append(book, [id |-> id, at |-> clock - Skew])

OtherOrder(o) ==
    /\ \A i \in DOMAIN book : book[i].id # o
    /\ Listed(o)
    /\ UNCHANGED <<provider, clock, savedAt, wire, state, adapter, search, answer>>

Arrive ==
    /\ wire = "underway" /\ wire' = "arrived" /\ Listed("mine")
    /\ UNCHANGED <<provider, clock, savedAt, state, adapter, search, answer>>

Settle(s) ==
    /\ There /\ state = "open" /\ state' = s
    /\ UNCHANGED <<provider, clock, savedAt, wire, book, adapter, search, answer>>

\* The store saves the order before the adapter is asked to submit it.
Save ==
    /\ savedAt = Never /\ savedAt' = clock
    /\ UNCHANGED <<provider, clock, wire, venue, adapter, search, answer>>

Restart ==
    /\ savedAt # Never /\ cache' = "none" /\ known' = FALSE /\ search' = NoSearch
    /\ answer' = "unasked"
    /\ UNCHANGED <<provider, clock, savedAt, wire, venue>>

-----------------------------------------------------------------------------
(* submit_order                                                           *)
SubmitAcknowledged ==
    /\ savedAt # Never /\ wire = "none" /\ wire' = "arrived" /\ Listed("mine")
    /\ cache' = "open" /\ known' = TRUE
    /\ UNCHANGED <<provider, clock, savedAt, state, search, answer>>

SubmitTimesOut ==
    /\ savedAt # Never /\ wire = "none" /\ wire' \in {"underway", "lost"}
    /\ cache' = "unknown"
    /\ UNCHANGED <<provider, clock, savedAt, venue, known, search, answer>>

-----------------------------------------------------------------------------
(* get_order                                                              *)
Found == cache' = state /\ known' = TRUE /\ answer' = state /\ search' = NoSearch
Absent == answer' = "none" /\ search' = NoSearch /\ UNCHANGED adapter
Failed == answer' = "failed" /\ search' = NoSearch /\ UNCHANGED adapter

Asked == wire # "none" /\ search = NoSearch

Cached ==
    /\ Asked /\ cache \in Terminal /\ answer' = cache
    /\ UNCHANGED <<provider, clock, savedAt, wire, venue, adapter, search>>

\* By the provider's id, or by the client order id at Gemini: one request.
Lookup ==
    /\ Asked /\ cache \notin Terminal /\ (known \/ provider = "gemini")
    /\ IF There THEN Found ELSE Absent
    /\ UNCHANGED <<provider, clock, savedAt, wire, venue>>

LookupFails ==
    /\ Asked /\ cache \notin Terminal /\ Failed
    /\ UNCHANGED <<provider, clock, savedAt, wire, venue>>

\* Mutant: the listing starts at the moment the order was saved.
BeginAtSave(readable) ==
    /\ Asked /\ cache \notin Terminal /\ ~known /\ provider = "coinbase"
    /\ search' = [pages |-> 1, since |-> IF readable THEN savedAt ELSE Never - Skew,
                  cursor |-> 0, there |-> There]
    /\ answer' = "searching"
    /\ UNCHANGED <<provider, clock, savedAt, wire, venue, adapter>>

\* _find_by_client_order_id: a store that cannot be read sets no start.
Begin(readable) ==
    /\ Asked /\ cache \notin Terminal /\ ~known /\ provider = "coinbase"
    /\ search' = [pages |-> 1, since |-> IF readable THEN savedAt - Margin ELSE Never - Skew,
                  cursor |-> 0, there |-> There]
    /\ answer' = "searching"
    /\ UNCHANGED <<provider, clock, savedAt, wire, venue, adapter>>

\* The rows that match from the cursor on, and those of them on the next page.  The
\* first page has no cursor: it starts with the newest order.
Rest ==
    LET from == IF search.pages = 1 THEN Len(book) ELSE search.cursor - 1
    IN {i \in 1 .. from : book[i].at >= search.since}
OnPage == {i \in Rest : \A j \in Rest : j > i => j - i < PageLimit}
Beyond == Rest \ OnPage
Least(S) == CHOOSE i \in S : \A j \in S : i <= j
OnThisPage == \E i \in OnPage : book[i].id = "mine"

PageFinds ==
    /\ search # NoSearch /\ OnThisPage /\ Found
    /\ UNCHANGED <<provider, clock, savedAt, wire, venue>>

PageEnds ==
    /\ search # NoSearch /\ ~OnThisPage /\ Beyond = {} /\ Absent
    /\ UNCHANGED <<provider, clock, savedAt, wire, venue>>

PageGoesOn ==
    /\ search # NoSearch /\ ~OnThisPage /\ Beyond # {} /\ search.pages < MaxPages
    /\ search' = [search EXCEPT !.pages = @ + 1, !.cursor = Least(OnPage)]
    /\ UNCHANGED <<provider, clock, savedAt, wire, venue, adapter, answer>>

\* Mutant: a search that is cut short says that there is no such order.
CutShortIsAbsent ==
    /\ search # NoSearch /\ ~OnThisPage /\ Beyond # {} /\ search.pages = MaxPages
    /\ Absent
    /\ UNCHANGED <<provider, clock, savedAt, wire, venue>>

\* The page budget is used up.
CutShort ==
    /\ search # NoSearch /\ ~OnThisPage /\ Beyond # {} /\ search.pages = MaxPages
    /\ Failed
    /\ UNCHANGED <<provider, clock, savedAt, wire, venue>>

\* A page fails, names more pages and no cursor, or repeats its cursor.
PageFails ==
    /\ search # NoSearch /\ Failed
    /\ UNCHANGED <<provider, clock, savedAt, wire, venue>>

Next ==
    \/ Tick \/ Arrive \/ Save \/ Restart \/ SubmitAcknowledged \/ SubmitTimesOut
    \/ \E o \in Others : OtherOrder(o)
    \/ \E s \in Terminal : Settle(s)
    \/ Cached \/ Lookup \/ LookupFails
    \/ \E readable \in BOOLEAN : Begin(readable)
    \/ PageFinds \/ PageEnds \/ PageGoesOn \/ CutShort \/ PageFails

Spec == Init /\ [][Next]_vars

-----------------------------------------------------------------------------
\* Every variable holds a value of its kind.
TypeOK ==
    /\ provider \in Providers /\ clock \in 0 .. MaxClock /\ savedAt \in Never .. MaxClock
    /\ wire \in {"none", "underway", "arrived", "lost"}
    /\ state \in {"open"} \cup Terminal /\ cache \in {"none", "unknown", "open"} \cup Terminal
    /\ known \in BOOLEAN
    /\ answer \in {"unasked", "searching", "none", "failed", "open"} \cup Terminal

\* An adapter says that there is no such order only if the venue did not have it when
\* it was asked ("ruling it out only after the whole window is read", coinbase.py:473),
\* and an order it holds as settled is settled so at the venue.
AnswersHold ==
    [][/\ answer' = "none" /\ answer # "none" =>
            IF search # NoSearch THEN ~search.there ELSE ~There
       /\ answer' \in Terminal => answer' = state]_vars
=============================================================================
