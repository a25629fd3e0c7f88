--------------------------- MODULE OrderAmendment ---------------------------
(***************************************************************************)
(* Changing a resting limit order to a new total.  Coinbase edits it in place  *)
(* when it can and otherwise, as Gemini always does, the adapter cancels it and *)
(* submits a replacement for what is left.  The venue may execute either order  *)
(* at any moment, an answer may be lost after the request was carried out, and  *)
(* a caller may ask again.                                                 *)
(***************************************************************************)
EXTENDS Integers

CONSTANTS
    Providers,  \* of {"coinbase", "gemini"}
    Size,       \* quantity of the order
    Targets,    \* new totals
    CancelIsFinal, \* Gemini answers a cancel once the order is canceled
    MaxAsked    \* bound: times the caller asks

Configured ==
    /\ Providers \subseteq {"coinbase", "gemini"}
    /\ Size \in Nat \ {0} /\ Targets \subseteq Nat \ {0} /\ CancelIsFinal \in BOOLEAN

VARIABLES
    provider,
    target,  \* the total this caller wants
    order,   \* the order at the venue: its size, what it has executed, its status
    next,    \* the replacement at the venue, size 0 before it is posted
    cache,   \* what the adapter holds of the order
    nextCache, \* what it holds of the replacement: "none", "unknown" or "open"
    pc,      \* where the call is
    asked

fixed == <<provider, target>>
atVenue == <<order, next>>
vars == <<fixed, atVenue, cache, nextCache, pc, asked>>

Live == {"open", "cancel_queued"}
Terminal == {"filled", "canceled"}
View == [status : {"unknown", "open"} \cup Terminal, filled : Nat]

\* _order_status: what is still live at the venue is open or partly filled.
Seen == [status |-> IF order.status \in Live THEN "open" ELSE order.status,
         filled |-> order.filled]

Init ==
    /\ provider \in Providers /\ target \in Targets
    /\ order = [size |-> Size, filled |-> 0, status |-> "open"]
    /\ next = [size |-> 0, filled |-> 0, status |-> "none"]
    /\ cache = Seen
    /\ nextCache = "none" /\ pc = "idle" /\ asked = 0

-----------------------------------------------------------------------------
(* The venue                                                              *)
Execute ==
    /\ order.status \in Live
    /\ order' = [order EXCEPT !.filled = @ + 1,
                              !.status = IF order.filled + 1 = order.size THEN "filled" ELSE @]
    /\ UNCHANGED <<fixed, next, cache, nextCache, pc, asked>>

ExecuteNext ==
    /\ next.status = "open"
    /\ next' = [next EXCEPT !.filled = @ + 1,
                            !.status = IF next.filled + 1 = next.size THEN "filled" ELSE @]
    /\ UNCHANGED <<fixed, order, cache, nextCache, pc, asked>>

CancelTakes ==
    /\ order.status = "cancel_queued" /\ order' = [order EXCEPT !.status = "canceled"]
    /\ UNCHANGED <<fixed, next, cache, nextCache, pc, asked>>

ReplacementArrives ==
    /\ next.status = "underway" /\ next' = [next EXCEPT !.status = "open"]
    /\ UNCHANGED <<fixed, order, cache, nextCache, pc, asked>>

-----------------------------------------------------------------------------
(* edit_order                                                             *)
Ends == pc' = "idle"

\* A caller asks; what is held may have been refreshed, and Coinbase may have told
\* no status (unknown_order_status).
Ask ==
    /\ pc = "idle" /\ asked < MaxAsked /\ asked' = asked + 1 /\ pc' = "current"
    /\ cache' \in {cache}
          \cup (IF cache.status \in Terminal THEN {} ELSE {Seen})
          \cup (IF provider = "coinbase" /\ cache.status \notin Terminal
                THEN {[Seen EXCEPT !.status = "unknown"]} ELSE {})
    /\ UNCHANGED <<fixed, atVenue, nextCache>>

\* Coinbase refuses a settled order.
Settled ==
    /\ pc = "current" /\ provider = "coinbase" /\ cache.status \in Terminal /\ Ends
    /\ UNCHANGED <<fixed, atVenue, cache, nextCache, asked>>

Native == provider = "coinbase" /\ cache.status = "open" /\ target >= cache.filled

ChoosePath ==
    /\ pc = "current" /\ ~(provider = "coinbase" /\ cache.status \in Terminal)
    /\ pc' = IF Native THEN "edit" ELSE "cancel"
    /\ UNCHANGED <<fixed, atVenue, cache, nextCache, asked>>

\* The venue edits an order that is open and has executed less than the new size.
EditTakes ==
    /\ pc = "edit" /\ order.status = "open" /\ order.filled < target
    /\ order' = [order EXCEPT !.size = target]
    /\ \/ pc' = "edited" /\ UNCHANGED cache
       \/ Ends /\ UNCHANGED cache  \* the answer is lost
    /\ UNCHANGED <<fixed, next, nextCache, asked>>

EditRefused ==
    /\ pc = "edit" /\ Ends
    /\ UNCHANGED <<fixed, atVenue, cache, nextCache, asked>>

\* The cache entry is dropped and the order is read again.
EditReadBack ==
    /\ pc = "edited" /\ Ends /\ cache' = Seen
    /\ UNCHANGED <<fixed, atVenue, nextCache, asked>>

\* cancel_order.  Coinbase acknowledges the request; the order may still execute.
CoinbaseCancelTakes ==
    /\ pc = "cancel" /\ provider = "coinbase" /\ order.status \in Live
    /\ order' = [order EXCEPT !.status = "cancel_queued"]
    /\ (pc' = "canceled" \/ Ends)
    /\ UNCHANGED <<fixed, next, cache, nextCache, asked>>

\* Gemini answers with the order, and the adapter takes one that is not filled for
\* canceled.
GeminiCancelTakes ==
    /\ pc = "cancel" /\ provider = "gemini"
    /\ order' = [order EXCEPT !.status = IF @ \notin Live THEN @
                                       ELSE IF CancelIsFinal THEN "canceled"
                                       ELSE "cancel_queued"]
    /\ \/ /\ pc' = "decide"
          /\ cache' = [status |-> IF order.status = "filled" THEN "filled" ELSE "canceled",
                       filled |-> order.filled]
       \/ Ends /\ UNCHANGED cache
    /\ UNCHANGED <<fixed, next, nextCache, asked>>

CancelRefused ==
    /\ pc = "cancel" /\ Ends
    /\ UNCHANGED <<fixed, atVenue, cache, nextCache, asked>>

\* A settled cache entry answers for the venue.
CancelReadBack ==
    /\ pc = "canceled" /\ pc' = "decide"
    /\ cache' = IF cache.status \in Terminal THEN cache ELSE Seen
    /\ UNCHANGED <<fixed, atVenue, nextCache, asked>>

CancelReadFails ==
    /\ pc = "canceled" /\ Ends
    /\ UNCHANGED <<fixed, atVenue, cache, nextCache, asked>>

\* Mutant: an acknowledged cancel counts as a cancel.
MayReplaceAcknowledged == cache.status # "filled"

\* replacement_quantity: only once the venue says that the order is canceled.
MayReplace == cache.status = "canceled"

Refuse ==
    /\ pc = "decide" /\ (~MayReplace \/ target <= cache.filled) /\ Ends
    /\ UNCHANGED <<fixed, atVenue, cache, nextCache, asked>>

\* The replacement's client order id follows from the order, the total and the price,
\* so asking again submits the same one: submit_order looks it up first when its
\* outcome is unknown.
Replace ==
    /\ pc = "decide" /\ MayReplace /\ target > cache.filled
    /\ pc' = IF nextCache = "open" THEN "idle" ELSE "submit"
    /\ UNCHANGED <<fixed, atVenue, cache, nextCache, asked>>

Recovered ==
    /\ pc = "submit" /\ nextCache = "unknown" /\ next.status \notin {"none", "underway"}
    /\ nextCache' = "open" /\ Ends
    /\ UNCHANGED <<fixed, atVenue, cache, asked>>

\* Mutant: the replacement is for the whole total.
RemainingWhole == target

\* Whatever the order filled counts toward the total.
Remaining == target - cache.filled

\* The POST is answered, or its answer is lost and it may still arrive.  A client order
\* id the venue has, or is about to have, makes no second order.
PostNext ==
    /\ pc = "submit" /\ (nextCache = "none" \/ next.status \in {"none", "underway"}) /\ Ends
    /\ \/ /\ next' = IF next.size = 0
                     THEN [size |-> Remaining, filled |-> 0, status |-> "open"]
                     ELSE [next EXCEPT !.status = "open"]
          /\ nextCache' = "open"
       \/ /\ next' \in {next, IF next.size = 0
                              THEN [size |-> Remaining, filled |-> 0, status |-> "underway"]
                              ELSE next}
          /\ nextCache' = "unknown"
    /\ UNCHANGED <<fixed, order, cache, asked>>

\* poll_order and get_order refresh what is held while no call is under way.
Poll ==
    /\ pc = "idle" /\ cache.status \notin Terminal /\ cache # Seen /\ cache' = Seen
    /\ UNCHANGED <<fixed, atVenue, nextCache, pc, asked>>

Next ==
    \/ Execute \/ ExecuteNext \/ CancelTakes \/ ReplacementArrives
    \/ Ask \/ Settled \/ ChoosePath \/ EditTakes \/ EditRefused \/ EditReadBack
    \/ CoinbaseCancelTakes \/ GeminiCancelTakes \/ CancelRefused \/ CancelReadBack
    \/ CancelReadFails \/ Refuse \/ Replace \/ Recovered \/ PostNext \/ Poll

Spec == Init /\ [][Next]_vars

-----------------------------------------------------------------------------
\* Every variable holds a value of its kind.
TypeOK ==
    /\ provider \in Providers /\ cache \in View /\ nextCache \in {"none", "unknown", "open"}
    /\ pc \in {"idle", "current", "edit", "edited", "cancel", "canceled", "decide", "submit"}
    /\ asked \in 0 .. MaxAsked

\* Once a replacement exists, the order and the replacement together never execute
\* more than the new total ("whatever the original filled counts toward the new
\* total", http.py:140), and without one never more than the larger of the two
\* quantities: whichever executes first, whatever answer is lost, however often the
\* caller asks.
WithinTotal ==
    LET most == (IF order.status \in Live THEN order.size ELSE order.filled) + next.size
    IN IF next.size > 0 THEN most <= target
       ELSE most <= IF target > Size THEN target ELSE Size
=============================================================================
