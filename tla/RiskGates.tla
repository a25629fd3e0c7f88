------------------------------- MODULE RiskGates -------------------------------
(***************************************************************************)
(* The ordered gates every order passes, in the loop that runs them: one      *)
(* symbol's cycle after another reads the account, decides and places a market  *)
(* order, while the venue executes the orders placed before.  Gates over        *)
(* market data are met or not by choice; the loss gates are in LossLimits.     *)
(***************************************************************************)
EXTENDS Integers, FiniteSets, FiniteSetsExt

CONSTANTS
    Symbols,
    Prices,           \* the prices a symbol may have
    Quantity,         \* the quantity of each symbol's signals
    StartCash,
    MaxOpenPositions, MaxTradeNotional, MaxSymbolPosition, MaxAggregateAllocation,
    MinCashReserve,
    MaxSlip,          \* how much more than expected a market buy may cost
    MaxOrders         \* bound: orders placed

ASSUME MoneyAssumption ==
    /\ Prices \subseteq Nat \ {0} /\ Quantity \in [Symbols -> Nat \ {0}]
    /\ StartCash \in Nat /\ MinCashReserve \in 0 .. StartCash
    /\ MaxSlip \in Nat /\ MaxOrders \in Nat
ASSUME GateAssumption ==
    /\ MaxOpenPositions \in Nat /\ MaxTradeNotional \in Nat /\ MaxSymbolPosition \in Nat
    /\ MaxAggregateAllocation \in Nat

VARIABLES
    price,    \* the market's price of each symbol
    cash,     \* free dollars at the venue
    coins,    \* coins of each symbol at the venue, held ones included
    working,  \* accepted orders not yet executed: [n, symbol, side]
    pc,       \* "idle", or "decide" once the account has been read
    signal,   \* the signal being decided: [symbol, side]
    inputs,   \* what was read for it
    cooling,  \* symbols whose cooldown runs
    switch,   \* the kill switch: running or not
    placed,   \* signals that have an order
    slipped   \* what buys have cost above the price they were decided at (history)

account == <<cash, coins, working>>
decision == <<pc, signal, inputs>>
vars == <<price, account, decision, cooling, switch, placed, slipped>>

Sides == {"buy", "sell"}
Signals == [symbol : Symbols, side : Sides]

\* Gates that depend on the market, the broker or the exchange alone.
MarketGates == {"operator_pause_window", "broker_health", "stale_price", "abnormal_volatility",
                "price_reference", "slippage", "exchange_constraints"}

NoSignal == [symbol |-> "none", side |-> "none"]
NoInputs == [price |-> <<>>, cash |-> 0, coins |-> <<>>]

\* The loop is over and holds nothing of what it read.
EndLoop == pc' = "idle" /\ signal' = NoSignal /\ inputs' = NoInputs

Init ==
    /\ price \in [Symbols -> Prices]
    /\ cash = StartCash /\ coins = [s \in Symbols |-> 0] /\ working = {}
    /\ pc = "idle" /\ signal = NoSignal /\ inputs = NoInputs
    /\ cooling = {} /\ switch = "running" /\ placed = 0 /\ slipped = 0

-----------------------------------------------------------------------------
(* BrokerRiskInputs.risk_inputs, evaluate                                   *)
Value(held, at) == MapThenSumSet(LAMBDA s : held[s] * at[s], Symbols)
Notional(s, at) == Quantity[s] * at[s]

When(refuses, gate) == IF refuses THEN {gate} ELSE {}

\* The gates over the account that refuse signal g: a buy for what it adds, a sale for
\* more than is held, and either for its size.
AccountRefuses(g, in) ==
    LET s == g.symbol
        buying == g.side = "buy"
        notional == Notional(s, in.price)
        position == in.coins[s]
    IN When(buying /\ Cardinality({t \in Symbols : in.coins[t] > 0}) >= MaxOpenPositions,
            "maximum_open_positions")
       \cup When(notional > MaxTradeNotional, "trade_notional")
       \cup When(IF buying THEN position + Quantity[s] > MaxSymbolPosition
                           ELSE Quantity[s] > position, "symbol_position")
       \cup When(buying /\ Value(in.coins, in.price) + notional > MaxAggregateAllocation,
                 "aggregate_allocation")
       \cup When(buying /\ in.cash - notional < MinCashReserve, "cash_reserve")

\* The gates over what the service holds; the first that refuses is the reason given.
\* The kill switch is the one of the moment, whatever was read.
Refusing ==
    AccountRefuses(signal, inputs)
       \cup When(switch # "running", "kill_switch")
       \cup When(signal.symbol \in cooling, "symbol_cooldown")

\* Dollars that accepted buys hold.
Held == MapThenSumSet(LAMBDA o : o.cost, working)

\* Mutant: the dollars that a working order holds count as free.
FreeTotal == cash + Held

Free == cash

\* Quote, balances and the positions of the same listing.
Read(g) ==
    /\ pc = "idle" /\ pc' = "decide" /\ signal' = g
    /\ inputs' = [price |-> price, cash |-> Free, coins |-> coins]
    /\ UNCHANGED <<price, account, cooling, switch, placed, slipped>>

\* What could not be read, or is not as the market gates want it, refuses as well.
Refuse ==
    /\ pc = "decide" /\ \E failing \in {{}, MarketGates} : failing \cup Refusing # {}
    /\ EndLoop
    /\ UNCHANGED <<price, account, cooling, switch, placed, slipped>>

Cost(slip) ==
    IF signal.side = "buy" THEN Notional(signal.symbol, inputs.price) + slip ELSE 0

\* The venue refuses an order it cannot cover.  It takes the dollars of a buy when it
\* accepts it, at the expected price and its slip, and delivers the coins later.
Selling == Cardinality({o \in working : o.symbol = signal.symbol /\ o.side = "sell"})
Covers(cost) ==
    IF signal.side = "buy" THEN cash >= cost
    ELSE coins[signal.symbol] >= Quantity[signal.symbol] * (Selling + 1)

Accept(slip) ==
    /\ cash' = cash - Cost(slip)
    /\ slipped' = slipped + (IF signal.side = "buy" THEN slip ELSE 0)
    /\ working' = working \cup {[n |-> placed + 1, symbol |-> signal.symbol,
                                  side |-> signal.side, cost |-> Cost(slip)]}

Approve(slip) ==
    /\ pc = "decide" /\ Refusing = {} /\ placed < MaxOrders /\ EndLoop
    /\ placed' = placed + 1 /\ cooling' = cooling \cup {signal.symbol}
    /\ IF Covers(Cost(slip)) THEN Accept(slip) ELSE UNCHANGED <<working, cash, slipped>>
    /\ UNCHANGED <<price, coins, switch>>

-----------------------------------------------------------------------------
\* The venue executes an accepted order, some time after it was accepted.
Execute(o) ==
    /\ working' = working \ {o}
    /\ coins' = [coins EXCEPT ![o.symbol] =
                    IF o.side = "buy" THEN @ + Quantity[o.symbol] ELSE @ - Quantity[o.symbol]]
    /\ cash' = cash + (IF o.side = "sell" THEN Notional(o.symbol, price) ELSE 0)
    /\ UNCHANGED <<price, decision, cooling, switch, placed, slipped>>

PriceMoves(s) ==
    /\ price' \in {[price EXCEPT ![s] = v] : v \in Prices \ {price[s]}}
    /\ UNCHANGED <<account, decision, cooling, switch, placed, slipped>>

CooldownEnds(s) ==
    /\ s \in cooling /\ cooling' = cooling \ {s}
    /\ UNCHANGED <<price, account, decision, switch, placed, slipped>>

Stop ==
    /\ switch = "running" /\ switch' = "halted"
    /\ UNCHANGED <<price, account, decision, cooling, placed, slipped>>

Rearm ==
    /\ switch = "halted" /\ switch' = "running"
    /\ UNCHANGED <<price, account, decision, cooling, placed, slipped>>

Next ==
    \/ \E g \in Signals : Read(g)
    \/ Refuse \/ \E slip \in 0 .. MaxSlip : Approve(slip)
    \/ \E o \in working : Execute(o)
    \/ \E s \in Symbols : PriceMoves(s) \/ CooldownEnds(s)
    \/ Stop \/ Rearm

Spec == Init /\ [][Next]_vars

-----------------------------------------------------------------------------
\* Every variable holds a value of its kind, no holding is negative, and every
\* working order belongs to a signal that is remembered as ordered.
TypeOK ==
    /\ price \in [Symbols -> Prices] /\ coins \in [Symbols -> Nat] /\ cash \in Nat
    /\ pc \in {"idle", "decide"} /\ signal \in Signals \cup {NoSignal}
    /\ cooling \subseteq Symbols /\ switch \in {"running", "halted"}
    /\ placed \in 0 .. MaxOrders /\ \A o \in working : o.n \in 1 .. placed

\* The free dollars stay above the reserve, but for what market orders cost above
\* their price, however many orders are working when the next one is decided.
ReserveKept == cash + slipped >= MinCashReserve

\* What is held can be sold: none of the limits refuses a sale of it ("a sell is
\* checked only against the held position").
SalesNotTrapped ==
    \A s \in Symbols :
       coins[s] >= Quantity[s] =>
          AccountRefuses([symbol |-> s, side |-> "sell"],
                         [price |-> price, cash |-> cash, coins |-> coins]) = {}

\* Coins are never worth more than the aggregate limit, while prices do not move
\* ("Maximum aggregate crypto allocation").
AllocationKept == Cardinality(Prices) = 1 => Value(coins, price) <= MaxAggregateAllocation
=============================================================================
