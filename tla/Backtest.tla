------------------------------ MODULE Backtest ------------------------------
(***************************************************************************)
(* One strategy over the same closed bars, run by the backtester and replayed   *)
(* through the risk gates and the simulated broker.  Bars are met one at a      *)
(* time: the strategy decides on the bars closed so far and the order executes  *)
(* at the next bar's open.  Prices are whole; money is counted in 1/(Scale *    *)
(* FeeScale) of a dollar, so spread, slippage and fee come out exact.          *)
(***************************************************************************)
EXTENDS Integers, Sequences, SequencesExt, FiniteSets

CONSTANTS
    Prices, Opens,       \* closes, and the opens that may follow one
    Quantity, StartCash,
    Scale, Slip,         \* spread and slippage move a fill by Slip / Scale
    FeeScale, Fee,       \* the taker fee is Fee / FeeScale of the notional
    FeeInQuote,          \* fee_asset is the quote asset
    Fast, Slow,          \* bars of the two averages
    MaxSymbolPosition,   \* the gate's limit on a symbol
    Cent,                \* unit a report's money is rounded to
    MaxBars              \* bound on the series

Configured ==
    /\ {Quantity, Cent, Scale, FeeScale} \cup Prices \subseteq Nat \ {0} /\ StartCash \in Nat
    /\ Opens \subseteq Prices
    /\ Slip \in 0..Scale - 1 /\ Fee \in 0..FeeScale - 1 /\ FeeInQuote \in BOOLEAN
    /\ 1 <= Fast /\ Fast < Slow /\ MaxBars >= 2

VARIABLES
    strategy,  \* "always_buy" or "ma_cross"
    bars,      \* closed bars met so far
    emitted,   \* AlwaysBuyStrategy has given its one signal
    bt,        \* the backtester: cash, position, entry, trades, equity, whether it raised
    rp,        \* the replay: cash, coins held
    bites,     \* signals the backtester took and the gates refused
    done       \* the last bar has been met

vars == <<strategy, bars, emitted, bt, rp, bites, done>>

Dollar == Scale * FeeScale

\* The replay's simulated broker opens with the same cash.
ReplayStart == [cash |-> StartCash * Dollar, held |-> 0]

Init ==
    /\ strategy \in {"always_buy", "ma_cross"}
    /\ \E close \in Prices : bars = <<[open |-> close, close |-> close]>>
    /\ emitted = FALSE
    /\ bt = [cash |-> StartCash * Dollar, position |-> 0, entry |-> [price |-> 0, fee |-> 0],
             trades |-> <<>>, equity |-> <<>>, raised |-> FALSE]
    /\ rp = ReplayStart
    /\ bites = 0 /\ done = FALSE

-----------------------------------------------------------------------------
(* The strategies                                                         *)
\* _mean, before the division: the sum of n closes, skip bars ago.
Total(n, skip) ==
    LET last == Len(bars) - skip
    IN  FoldLeft(LAMBDA t, b : t + b.close, 0, SubSeq(bars, last - n + 1, last))

\* The sign of the fast mean less the slow mean, skip bars ago.
Gap(skip) == Total(Fast, skip) * Slow - Total(Slow, skip) * Fast

MovingAverageSignal ==
    IF Len(bars) <= Slow THEN "none"
    ELSE IF Gap(1) <= 0 /\ 0 < Gap(0) THEN "buy"
    ELSE IF Gap(1) >= 0 /\ 0 > Gap(0) THEN "sell"
    ELSE "none"

AlwaysBuySignal == IF emitted THEN "none" ELSE "buy"

Signal == IF strategy = "ma_cross" THEN MovingAverageSignal ELSE AlwaysBuySignal

-----------------------------------------------------------------------------
(* Executing at a price                                                   *)
\* _execution_price in 1/Scale of a dollar: against the trader.
ExecutionPrice(price, side) == price * (IF side = "buy" THEN Scale + Slip ELSE Scale - Slip)

Buy(state, open) ==
    LET price == ExecutionPrice(open, "buy")
        fee == Quantity * price * Fee
        total == Quantity * price * FeeScale + fee
    IN  IF total > state.cash THEN [state EXCEPT !.raised = TRUE]
        ELSE [state EXCEPT !.cash = @ - total, !.position = Quantity,
                           !.entry = [price |-> price, fee |-> fee]]

Sell(state, market) ==
    LET price == ExecutionPrice(market, "sell")
        fee == state.position * price * Fee
    IN  [state EXCEPT !.cash = @ + state.position * price * FeeScale - fee, !.position = 0,
                      !.trades = Append(@, state.position * (price - state.entry.price) * FeeScale
                                             - state.entry.fee - fee)]

\* Equity at a bar's close, after the order it decided.
Marked(state, close) ==
    [state EXCEPT !.equity = Append(@, state.cash + state.position * close * Dollar)]

\* Mutant: the order executes at the close that was decided on.
DecideAtClose(state, signal, open) ==
    LET close == Last(bars).close
    IN  IF signal = "buy" /\ state.position = 0 THEN Buy(state, close)
        ELSE IF signal = "sell" /\ state.position > 0 THEN Sell(state, close)
        ELSE state

\* One bar of Backtester.run: a buy when flat, a sell of the whole position.
Decide(state, signal, open) ==
    IF signal = "buy" /\ state.position = 0 THEN Buy(state, open)
    ELSE IF signal = "sell" /\ state.position > 0 THEN Sell(state, open)
    ELSE state

\* The simulated broker's accounting of an approved order, always of one quantity.
Filled(state, side, open) ==
    LET price == ExecutionPrice(open, side)
        fee == Quantity * price * Fee
        sign == IF side = "buy" THEN 1 ELSE -1
        base == [cash |-> state.cash - sign * Quantity * price * FeeScale,
                 held |-> state.held + sign * Quantity]
    IN  IF FeeInQuote THEN [base EXCEPT !.cash = @ - fee] ELSE base

\* The gates that follow the account; any other may refuse too.
GatesAllow(state, side, open) ==
    IF side = "buy"
    THEN /\ state.held + Quantity <= MaxSymbolPosition
         /\ state.cash >= Quantity * ExecutionPrice(open, "buy") * (FeeScale + Fee)
    ELSE Quantity <= state.held

\* The cycle handles the signal once the next bar's open is the broker's quote.
Replayed(state, signal, open, refused) ==
    IF signal # "none" /\ ~refused /\ GatesAllow(state, signal, open)
    THEN Filled(state, signal, open) ELSE state

-----------------------------------------------------------------------------
\* The next bar closes: the decision on the bars before it executes at its open.
NextBar(open, close, refused) ==
    /\ ~done /\ ~bt.raised /\ Len(bars) < MaxBars
    /\ LET signal == Signal
           decided == Decide(bt, signal, open)
           replayed == Replayed(rp, signal, open, refused)
       IN  /\ refused => signal # "none"
           /\ emitted' = (emitted \/ (strategy = "always_buy" /\ signal # "none"))
           /\ bt' = IF decided.raised THEN decided ELSE Marked(decided, Last(bars).close)
           /\ rp' = replayed
           /\ bites' = IF decided # bt /\ replayed = rp THEN bites + 1 ELSE bites
    /\ bars' = Append(bars, [open |-> open, close |-> close])
    /\ UNCHANGED <<strategy, done>>

\* The series ends: the last bar is marked, and an open position is sold at its close.
End ==
    /\ ~done /\ ~bt.raised /\ Len(bars) >= 2
    /\ done' = TRUE
    /\ LET marked == Marked(bt, Last(bars).close)
           sold == Sell(marked, Last(bars).close)
       IN  bt' = IF bt.position = 0 THEN marked
                 ELSE [sold EXCEPT !.equity = [@ EXCEPT ![Len(@)] = sold.cash]]
    /\ UNCHANGED <<strategy, bars, emitted, rp, bites>>

Next ==
    \/ \E open \in Opens, close \in Prices, refused \in BOOLEAN : NextBar(open, close, refused)
    \/ End

Spec == Init /\ [][Next]_vars

-----------------------------------------------------------------------------
(* The reports                                                            *)
\* money: to the cent, half up.
Money(value) == ((2 * value + Cent) \div (2 * Cent)) * Cent

\* The replay's open position is valued as sold at the last close.
ReplayEquity ==
    LET price == ExecutionPrice(Last(bars).close, "sell")
    IN  Money(rp.cash + rp.held * price * FeeScale - rp.held * price * Fee)

BacktestEquity == Money(bt.cash)

\* One value of _max_drawdown: the largest fall so far, as a ratio <<fall, peak>>.
Fall(state, value) ==
    LET peak == IF value > state.peak THEN value ELSE state.peak
        deeper == peak > 0 /\ (peak - value) * state.largest[2] > state.largest[1] * peak
    IN  [peak |-> peak, largest |-> IF deeper THEN <<peak - value, peak>> ELSE state.largest]

MaxDrawdown == FoldLeft(Fall, [peak |-> 0, largest |-> <<0, 1>>], bt.equity).largest

-----------------------------------------------------------------------------
(* Properties                                                             *)
\* "any difference between the two results comes from the risk engine refusing an order":
\* when the gates refused nothing the backtester took, both end with the same equity to
\* the cent (ReplayRunner.run, Backtester.run).
Parity == done /\ bites = 0 => ReplayEquity = BacktestEquity

\* A report adds up: the round trips' results are all that moved the cash, no part of the
\* position is left, and the drawdown is the deepest fall of the curve from any earlier
\* point of it (Backtester.run, _sell, _max_drawdown).
ReportAddsUp ==
    done => /\ bt.position = 0
            /\ bt.cash = StartCash * Dollar + FoldLeft(LAMBDA t, p : t + p, 0, bt.trades)
            /\ Last(bt.equity) = bt.cash
            /\ \A i, j \in DOMAIN bt.equity : i <= j =>
                 (bt.equity[i] - bt.equity[j]) * MaxDrawdown[2] <= MaxDrawdown[1] * bt.equity[i]
=============================================================================
