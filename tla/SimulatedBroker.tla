--------------------------- MODULE SimulatedBroker ---------------------------
(***************************************************************************)
(* The deterministic broker of paper mode and replay: orders, their fills and  *)
(* the account they change, with the faults a plan may inject.  No call waits   *)
(* inside, so each is one step; a call that raises keeps what it had changed.   *)
(*                                                                         *)
(* Quotes and limits are small integers, money is counted in parts of a dollar, *)
(* Scale to the dollar; the average price of a position is left out, but for     *)
(* the division that computes it.                                           *)
(***************************************************************************)
EXTENDS Integers, SequencesExt

CONSTANTS
    Orders,        \* client order ids
    Quantity,      \* the quantity of an order
    Schedule,      \* partial_fill_schedule, as quantities: <<1, Quantity>>
    Quotes,        \* bids the quote may have
    Spread,        \* the ask above the bid
    Scale, Slip,   \* a market order slips by Slip / Scale of its price
    FeeRate,       \* fee per dollar
    StartDollars   \* initial_quote_balance, in parts

\* What SimulationConfig checks: no negative rate, a slippage below one, and a
\* schedule that rises to the whole quantity.
Configured ==
    /\ {Slip, FeeRate, StartDollars, Spread, Quantity} \cup Quotes \subseteq Nat
    /\ Scale \in Nat /\ Slip < Scale /\ IsFiniteSet(Orders)
    /\ Schedule \in Seq(Nat) /\ Schedule # <<>> /\ Last(Schedule) = Quantity
    /\ \A i \in DOMAIN Schedule : Schedule[i] > (IF i = 1 THEN 0 ELSE Schedule[i - 1])

VARIABLES
    book,    \* the broker's dictionaries, see NewBook
    bid,     \* the quote
    unknown, \* _unknown_requests
    early,   \* an order that timed out was filled before it was asked for (history)
    broken   \* the accounting of some fill has raised (history)

vars == <<book, bid, unknown, early, broken>>

Absent == [status |-> "none", side |-> "none", limit |-> 0, filled |-> 0]
Done == {"filled", "canceled", "rejected"}

NewBook ==
    [placed |-> <<>>,                          \* the keys of _orders, oldest first
     orders |-> [o \in Orders |-> Absent],
     fills |-> [o \in Orders |-> <<>>],
     index |-> [o \in Orders |-> 0],           \* _limit_schedule_index
     dollars |-> StartDollars, coins |-> 0,    \* _balances
     position |-> 0,                           \* _positions
     raised |-> FALSE]                         \* the call under way has raised

Init ==
    /\ book = NewBook /\ bid \in Quotes /\ unknown = {}
    /\ early = FALSE /\ broken = FALSE

Ask == bid + Spread
Sign(side) == IF side = "buy" THEN 1 ELSE -1
MarketPrice(side) == IF side = "buy" THEN Ask * (Scale + Slip) ELSE bid * (Scale - Slip)

\* A limit of 0 is a market order's: it is never marketable.
Marketable(order) ==
    /\ order.limit # 0
    /\ IF order.side = "buy" THEN order.limit >= Ask ELSE order.limit <= bid

-----------------------------------------------------------------------------
\* _apply_accounting: balances first, then the position.  A buy that closes a short
\* position exactly divides by its new quantity of zero and raises.
Accounted(b, side, quantity, price) ==
    LET notional == quantity * price
        moved == [b EXCEPT !.coins = @ + Sign(side) * quantity,
                           !.dollars = @ - Sign(side) * notional - FeeRate * notional]
    IN IF side = "buy" /\ b.position + quantity = 0
       THEN [moved EXCEPT !.raised = TRUE]
       ELSE [moved EXCEPT !.position = @ + Sign(side) * quantity]

\* _apply_fill
ApplyFill(b, o, quantity, price) ==
    LET filled == b.orders[o].filled + quantity
        status == IF filled >= Quantity THEN "filled" ELSE "partially_filled"
        side == b.orders[o].side
        fill == [side |-> side, quantity |-> quantity, price |-> price]
        noted == [b EXCEPT !.fills[o] = Append(@, fill),
                           !.orders[o] = [@ EXCEPT !.filled = filled, !.status = status]]
    IN Accounted(noted, side, quantity, price)

\* _fill_next_limit: the next step of the schedule, if there is one.
FillNextLimit(b, o) ==
    LET i == b.index[o] + 1
        next == [b EXCEPT !.index[o] = i]
    IN IF i > Len(Schedule) THEN b
       ELSE IF Schedule[i] <= b.orders[o].filled THEN next
       ELSE ApplyFill(next, o, Schedule[i] - b.orders[o].filled, b.orders[o].limit * Scale)

\* self._orders[key] = order: a new key is the newest.
Stored(b, o, order) ==
    [b EXCEPT !.placed = Append(@, o), !.orders[o] = order,
              !.fills[o] = <<>>, !.index[o] = 0, !.raised = FALSE]

\* self._orders.pop(key), and what else is kept under the key.
Popped(b, o) ==
    [b EXCEPT !.placed = RemoveFirst(@, o), !.orders[o] = Absent,
              !.fills[o] = <<>>, !.index[o] = 0]

\* _accept_order
Accepted(b, o, side, limit) ==
    LET order == [status |-> "open", side |-> side, limit |-> limit, filled |-> 0]
        open == Stored(b, o, order)
    IN IF limit = 0 THEN ApplyFill(open, o, Quantity, MarketPrice(side))
       ELSE IF Marketable(order) THEN FillNextLimit(open, o) ELSE open

-----------------------------------------------------------------------------
Becomes(b) == book' = b /\ broken' = (broken \/ b.raised)

\* submit_order without a fault, or with one that tells of an order it accepted.
\* A client order id that is known gets its order back and changes nothing.
SubmitOrder(o, side, limit) ==
    /\ book.orders[o] = Absent
    /\ Becomes(Accepted(book, o, side, limit))
    /\ UNCHANGED <<bid, unknown, early>>

SubmitRejected(o, side, limit) ==
    /\ book.orders[o] = Absent
    /\ Becomes(Stored(book, o, [status |-> "rejected", side |-> side, limit |-> limit, filled |-> 0]))
    /\ UNCHANGED <<bid, unknown, early>>

\* The order is kept as unknown and accepted when it is asked for.
SubmitTimesOut(o, side, limit) ==
    /\ book.orders[o] = Absent
    /\ Becomes(Stored(book, o, [status |-> "unknown", side |-> side, limit |-> limit, filled |-> 0]))
    /\ unknown' = unknown \cup {o}
    /\ UNCHANGED <<bid, early>>

\* Mutant: the request stays unknown and is accepted at every lookup.
GetOrderAgain(o) ==
    /\ o \in unknown
    /\ Becomes(Accepted(Popped(book, o), o, book.orders[o].side, book.orders[o].limit))
    /\ UNCHANGED <<bid, unknown, early>>

\* get_order of an order that timed out; any other changes nothing.
GetOrder(o) ==
    /\ o \in unknown /\ unknown' = unknown \ {o}
    /\ Becomes(Accepted(Popped(book, o), o, book.orders[o].side, book.orders[o].limit))
    /\ UNCHANGED <<bid, early>>

\* An order's turn in advance: none is taken once one has raised.
Turn(b, o) ==
    IF b.raised \/ b.orders[o].status \in Done \/ ~Marketable(b.orders[o])
    THEN b ELSE FillNextLimit(b, o)

\* advance: one step of every marketable limit order, oldest first.
Advanced ==
    LET after[k \in 0..Len(book.placed)] ==
            IF k = 0 THEN [book EXCEPT !.raised = FALSE]
            ELSE Turn(after[k - 1], book.placed[k])
    IN  after[Len(book.placed)]

Advance ==
    /\ Advanced # book /\ Becomes(Advanced)
    /\ early' = (early \/ \E o \in unknown : Advanced.fills[o] # book.fills[o])
    /\ UNCHANGED <<bid, unknown>>

SetQuote(q) == bid' = q /\ UNCHANGED <<book, unknown, early, broken>>

Limits == {0} \cup Quotes

Next ==
    \/ \E o \in Orders, side \in {"buy", "sell"}, limit \in Limits :
          \/ SubmitOrder(o, side, limit) \/ SubmitRejected(o, side, limit)
          \/ SubmitTimesOut(o, side, limit)
    \/ \E o \in Orders : GetOrder(o)
    \/ Advance
    \/ \E q \in Quotes : SetQuote(q)

Spec == Init /\ [][Next]_vars

-----------------------------------------------------------------------------
\* What the fills on record add up to.
OnRecord(b) == UNION {{o} \X DOMAIN b.fills[o] : o \in Orders}
CoinsMoved(b) ==
    SumFunction([p \in OnRecord(b) |->
        LET f == b.fills[p[1]][p[2]] IN Sign(f.side) * f.quantity])
DollarsMoved(b) ==
    SumFunction([p \in OnRecord(b) |->
        LET f == b.fills[p[1]][p[2]] IN (Sign(f.side) + FeeRate) * (f.quantity * f.price)])

\* The account and the position are those the fills on record add up to.
Balanced(b) ==
    /\ b.coins = CoinsMoved(b)
    /\ b.dollars = StartDollars - DollarsMoved(b)
BalancesFollow == Balanced(book)
PositionFollows == book.position = book.coins

\* The balances are those the recorded fills add up to, across timed-out orders,
\* retries and partial fills, unless an order was filled before its timeout was
\* resolved; and the position is the coin balance, unless its accounting raised.
BooksFollowFills == (early \/ BalancesFollow) /\ (broken \/ PositionFollows)

\* The same with no exception ("records fills, balances, and positions").
BooksAlwaysFollowFills == BalancesFollow /\ PositionFollows
=============================================================================
