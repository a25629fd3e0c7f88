----------------------------- MODULE RiskProofs -----------------------------
(***************************************************************************)
(* What stands between a strategy and an order, for any symbols, prices,        *)
(* quantities and limits: the reserve with any number of orders working while   *)
(* the next is decided, the losses over every sample of every process, and       *)
(* the strategy's runs over any bars and in any queue.                         *)
(***************************************************************************)
EXTENDS MCRisk, Sequences, FiniteSetTheorems, FunctionTheorems, TLAPS

-----------------------------------------------------------------------------
(* The cash reserve.                                                       *)

\* The numbers the cash gate computes with.
Numbers ==
    /\ price \in [Symbols -> Nat] /\ cash \in Int /\ slipped \in Nat
    /\ \A o \in working : o.symbol \in Symbols

\* The dollars that were read are still there when the decision is made: orders that
\* execute in between only add to them, and no other order is placed.
ReadIsCovered ==
    pc = "decide" =>
       /\ signal \in Signals /\ inputs.price \in [Symbols -> Nat]
       /\ inputs.cash \in Int /\ inputs.cash <= cash

ReserveInv == Numbers /\ ReadIsCovered /\ ReserveKept

-----------------------------------------------------------------------------
\* What an order is worth, at any price (signal.quantity * price in evaluate).
LEMMA NotionalNat ==
    ASSUME NEW s \in Symbols, NEW at \in [Symbols -> Nat]
    PROVE  Notional(s, at) \in Nat
<1>1. Quantity[s] \in Nat /\ at[s] \in Nat
  BY MoneyAssumption
<1>2. \A a, b \in Nat : a * b \in Nat
  OBVIOUS
<1> QED BY <1>1, <1>2 DEF Notional

\* An approved buy leaves the reserve of the dollars that were read.
LEMMA ApprovedLeavesReserve ==
    ASSUME Refusing = {}, signal.side = "buy"
    PROVE  ~(inputs.cash - Notional(signal.symbol, inputs.price) < MinCashReserve)
  BY DEF Refusing, AccountRefuses, When

\* Whatever is working when an order is decided, the free dollars stay above the
\* reserve but for the slip of market orders (the cash_reserve gate of evaluate).
THEOREM ReserveAlwaysKept == Spec => []ReserveKept
<1>1. Init => ReserveInv
  <2> SUFFICES ASSUME Init PROVE ReserveInv
    OBVIOUS
  <2>1. price \in [Symbols -> Nat]
    BY MoneyAssumption DEF Init
  <2>2. cash = StartCash /\ slipped = 0 /\ working = {}
    BY DEF Init
  <2>3. ReserveKept
    BY <2>2, MoneyAssumption DEF ReserveKept
  <2>4. ReadIsCovered
    BY DEF Init, ReadIsCovered
  <2> QED BY <2>1, <2>2, <2>3, <2>4, MoneyAssumption DEF ReserveInv, Numbers
<1>2. ReserveInv /\ [Next]_vars => ReserveInv'
  <2> SUFFICES ASSUME ReserveInv, [Next]_vars PROVE ReserveInv'
    OBVIOUS
  <2> USE DEF ReserveInv, Numbers, ReadIsCovered, ReserveKept
  <2>1. CASE UNCHANGED vars
    BY <2>1 DEF vars, account, decision
  <2>2. ASSUME NEW g \in Signals, Read(g) PROVE ReserveInv'
    BY <2>2 DEF Read, Free, account
  <2>3. CASE Refuse
    BY <2>3 DEF Refuse, EndLoop, account
  <2>4. ASSUME NEW slip \in 0 .. MaxSlip, Approve(slip) PROVE ReserveInv'
    <3>1. pc' = "idle" /\ price' = price /\ slip \in Nat
      BY <2>4, MoneyAssumption DEF Approve, EndLoop
    <3>2. signal \in Signals /\ inputs.cash <= cash /\ inputs.cash \in Int
      BY <2>4 DEF Approve
    <3>3. CASE UNCHANGED <<working, cash, slipped>>
      BY <3>1, <3>3
    <3>4. CASE Accept(slip)
      <4>1. \A o \in working' : o.symbol \in Symbols
        BY <3>2, <3>4 DEF Accept, Signals
      <4>2. CASE signal.side = "buy"
        <5> DEFINE notional == Notional(signal.symbol, inputs.price)
        <5>1. notional \in Nat
          BY <2>4, <3>2, NotionalNat DEF Approve, Signals
        <5>2. ~(inputs.cash - notional < MinCashReserve)
          BY <2>4, <4>2, ApprovedLeavesReserve DEF Approve
        <5>3. cash' = cash - (notional + slip) /\ slipped' = slipped + slip
          BY <3>4, <4>2 DEF Accept, Cost
        <5> HIDE DEF notional
        <5> QED BY <3>1, <3>2, <4>1, <5>1, <5>2, <5>3, MoneyAssumption
      <4>3. CASE signal.side # "buy"
        BY <3>1, <3>4, <4>1, <4>3 DEF Accept, Cost
      <4> QED BY <4>2, <4>3
    <3> QED BY <2>4, <3>3, <3>4 DEF Approve
  <2>5. ASSUME NEW o \in working, Execute(o) PROVE ReserveInv'
    <3>1. Notional(o.symbol, price) \in Nat
      BY NotionalNat
    <3>2. cash' \in Int /\ cash' >= cash
      BY <2>5, <3>1 DEF Execute
    <3> QED BY <2>5, <3>2, MoneyAssumption DEF Execute, decision
  <2>6. ASSUME NEW s \in Symbols, PriceMoves(s) PROVE ReserveInv'
    <3>1. price' \in [Symbols -> Nat]
      BY <2>6, MoneyAssumption DEF PriceMoves
    <3> QED BY <2>6, <3>1 DEF PriceMoves, account, decision
  <2>7. ASSUME NEW s \in Symbols, CooldownEnds(s) PROVE ReserveInv'
    BY <2>7 DEF CooldownEnds, account, decision
  <2>8. CASE Stop \/ Rearm
    BY <2>8 DEF Stop, Rearm, account, decision
  <2> QED BY <2>1, <2>2, <2>3, <2>4, <2>5, <2>6, <2>7, <2>8 DEF Next
<1>3. ReserveInv => ReserveKept
  BY DEF ReserveInv
<1> QED BY <1>1, <1>2, <1>3, PTL DEF Spec

-----------------------------------------------------------------------------
(* The losses.  A buy is within the limits while no process has died with a   *)
(* sample it could not save.                                                *)

\* Where the samples are: with a process that could read the file, else in the file.
Kept ==
    ~lossy => seen = IF up /\ ~unreadable THEN memory ELSE file.at

\* The measure of a buy is the one over every sample: not inductive by itself,
\* because the next sample is added to what the process or the file has kept.
LossInv == Kept /\ BuysWithinSamples

-----------------------------------------------------------------------------
\* A sample keeps a measure well formed, with its peak at or above its opening.
LEMMA SampledType ==
    ASSUME NEW m \in Measures, m.open <= m.peak, NEW d \in 0 .. MaxDay, NEW e \in 1 .. MaxEquity
    PROVE  Sampled(m, d, e) \in Measures /\ Sampled(m, d, e).open <= Sampled(m, d, e).peak
  BY LimitsAssumption DEF Sampled, Measures, Higher

\* Every behaviour keeps the types of the loss state (BrokerRiskInputs).
THEOREM TypeCorrect == LossSpec => []LossTypeOK
<1>1. LossInit => LossTypeOK
  <2> SUFFICES ASSUME LossInit PROVE LossTypeOK
    OBVIOUS
  <2>1. Nothing \in Measures /\ Nothing.open <= Nothing.peak
    BY LimitsAssumption DEF Nothing, Measures
  <2>2. file \in [at : Measures, ok : BOOLEAN] /\ file.at = Nothing
    BY <2>1 DEF LossInit
  <2>3. memory = Nothing /\ seen = Nothing /\ loops = Nothing
    BY DEF LossInit
  <2>4. up \in BOOLEAN /\ unreadable \in BOOLEAN /\ lossy \in BOOLEAN
    BY Zenon DEF LossInit
  <2>5. equity \in 1 .. MaxEquity /\ day \in 0 .. MaxDay /\ result \in Wants \cup {"refused"}
    BY LimitsAssumption DEF LossInit, Wants
  <2> QED BY <2>1, <2>2, <2>3, <2>4, <2>5, Zenon DEF LossTypeOK
<1>2. LossTypeOK /\ [LossNext]_lossVars => LossTypeOK'
  <2> SUFFICES ASSUME LossTypeOK, [LossNext]_lossVars PROVE LossTypeOK'
    OBVIOUS
  <2>1. CASE UNCHANGED lossVars
    BY <2>1 DEF LossTypeOK, lossVars, lossProcess, lossHistory
  <2>2. CASE Boot
    BY <2>2, LimitsAssumption DEF LossTypeOK, Boot, Loaded, Nothing, Measures, Wants, lossHistory
  <2>3. CASE Crash
    <3>1. Nothing \in Measures /\ Nothing.open <= Nothing.peak
      BY LimitsAssumption DEF Nothing, Measures
    <3>2. lossy' \in BOOLEAN
      BY <2>3, Zenon DEF Crash
    <3> QED BY <2>3, <3>1, <3>2 DEF LossTypeOK, Crash, Wants
  <2>4. CASE LoopUnresolved
    <3>1. Sampled(loops, day, equity) \in Measures
          /\ Sampled(loops, day, equity).open <= Sampled(loops, day, equity).peak
      BY SampledType DEF LossTypeOK
    <3> QED BY <2>4, <3>1 DEF LossTypeOK, LoopUnresolved, lossProcess, Wants
  <2>5. ASSUME NEW side \in Wants, NEW known \in BOOLEAN, NEW saves \in BOOLEAN,
               Loop(side, known, saves)
        PROVE  LossTypeOK'
    <3>1. \A m \in {memory, seen, loops} :
             /\ Sampled(m, day, equity) \in Measures
             /\ Sampled(m, day, equity).open <= Sampled(m, day, equity).peak
      BY SampledType DEF LossTypeOK
    <3>2. CASE ~known \/ unreadable
      BY <2>5, <3>2 DEF LossTypeOK, Loop, SaveLossState, Wants
    <3>3. CASE known /\ ~unreadable
      <4>1. /\ memory' \in Measures /\ memory'.open <= memory'.peak
            /\ seen' \in Measures /\ seen'.open <= seen'.peak
            /\ loops' \in Measures /\ loops'.open <= loops'.peak
        BY <2>5, <3>1, <3>3 DEF Loop, SaveLossState
      <4>2. file' \in [at : Measures, ok : BOOLEAN] /\ file'.at.open <= file'.at.peak
        <5>1. CASE saves
          <6>1. file' = [at |-> memory', ok |-> TRUE]
            BY <2>5, <3>3, <5>1 DEF Loop, SaveLossState
          <6> QED BY <4>1, <6>1
        <5>2. CASE ~saves
          BY <2>5, <3>3, <5>2 DEF Loop, SaveLossState, LossTypeOK
        <5> QED BY <5>1, <5>2
      <4>3. result' \in Wants \cup {"refused"}
        BY <2>5, <3>3 DEF Loop, SaveLossState, Wants
      <4> QED BY <2>5, <4>1, <4>2, <4>3 DEF LossTypeOK, Loop, SaveLossState
    <3> QED BY <3>2, <3>3
  <2>6. CASE MarketMoves
    BY <2>6 DEF LossTypeOK, MarketMoves, lossProcess, lossHistory, Wants
  <2>7. CASE Midnight
    BY <2>7, LimitsAssumption DEF LossTypeOK, Midnight, lossProcess, lossHistory, Wants
  <2>8. CASE FileDamaged
    BY <2>8 DEF LossTypeOK, FileDamaged, lossProcess, lossHistory, Wants
  <2>9. CASE FileRepaired
    BY <2>9 DEF LossTypeOK, FileRepaired, lossProcess, lossHistory, Wants
  <2> QED BY <2>1, <2>2, <2>3, <2>4, <2>5, <2>6, <2>7, <2>8, <2>9 DEF LossNext
<1> QED BY <1>1, <1>2, PTL DEF LossSpec

\* Every buy that evaluate approves is within the daily loss and the drawdown
\* measured over all samples, across restarts, damaged files and failed saves that
\* are made good before the process ends.
THEOREM BuysMeasured == LossSpec => []BuysWithinSamples
<1>1. LossInit => LossInv
  BY DEF LossInit, LossInv, Kept, BuysWithinSamples, Nothing
<1>2. LossTypeOK /\ LossInv /\ [LossNext]_lossVars => LossInv'
  <2> SUFFICES ASSUME LossTypeOK, LossInv, [LossNext]_lossVars PROVE LossInv'
    OBVIOUS
  <2>1. CASE UNCHANGED lossVars
    BY <2>1 DEF LossInv, Kept, BuysWithinSamples, Within, lossVars, lossProcess, lossHistory
  <2>2. CASE Boot
    BY <2>2 DEF LossInv, Kept, BuysWithinSamples, Boot, Loaded, lossHistory
  <2>3. CASE Crash
    <3>1. CASE unreadable
      BY <2>3, <3>1 DEF LossInv, Kept, BuysWithinSamples, Crash
    <3>2. CASE ~unreadable
      BY <2>3, <3>2 DEF LossInv, Kept, BuysWithinSamples, Crash
    <3> QED BY <3>1, <3>2
  <2>4. CASE LoopUnresolved
    BY <2>4 DEF LossInv, Kept, BuysWithinSamples, LoopUnresolved, lossProcess
  <2>5. ASSUME NEW side \in Wants, NEW known \in BOOLEAN, NEW saves \in BOOLEAN,
               Loop(side, known, saves)
        PROVE  LossInv'
    <3>1. CASE ~known \/ unreadable
      BY <2>5, <3>1 DEF LossInv, Kept, BuysWithinSamples, Loop, SaveLossState
    <3>2. CASE known /\ ~unreadable
      <4>1. up' /\ ~unreadable' /\ lossy' = lossy /\ equity' = equity
        BY <2>5, <3>2 DEF Loop, SaveLossState, LossTypeOK
      <4>2. ~lossy => seen' = memory'
        BY <2>5, <3>2 DEF LossInv, Kept, Loop, SaveLossState
      <4>3. result' = "buy" => Within(memory', equity)
        BY <2>5, <3>2 DEF Loop, SaveLossState, Wants
      <4> QED BY <4>1, <4>2, <4>3 DEF LossInv, Kept, BuysWithinSamples
    <3> QED BY <3>1, <3>2
  <2>6. CASE MarketMoves
    BY <2>6 DEF LossInv, Kept, BuysWithinSamples, MarketMoves, lossProcess, lossHistory
  <2>7. CASE Midnight
    BY <2>7 DEF LossInv, Kept, BuysWithinSamples, Midnight, lossProcess, lossHistory
  <2>8. CASE FileDamaged
    BY <2>8 DEF LossInv, Kept, BuysWithinSamples, FileDamaged, lossProcess, lossHistory
  <2>9. CASE FileRepaired
    BY <2>9 DEF LossInv, Kept, BuysWithinSamples, FileRepaired, lossProcess, lossHistory
  <2> QED BY <2>1, <2>2, <2>3, <2>4, <2>5, <2>6, <2>7, <2>8, <2>9 DEF LossNext
<1>3. LossInv => BuysWithinSamples
  BY DEF LossInv
<1> QED BY <1>1, <1>2, <1>3, TypeCorrect, PTL DEF LossSpec

-----------------------------------------------------------------------------
(* The backtest and its replay.                                             *)
Money ==
    /\ Scale \in Int /\ Slip \in Int /\ FeeScale \in Int /\ Fee \in Int /\ RunCash \in Int
    /\ \A p \in BarPrices : p \in Int

LEMMA MoneyIsWhole == Money
  BY BacktestAssumption DEF Money, Bt!Configured

\* What a fill costs, at a whole price (_execution_price).
LEMMA PricesAreWhole ==
  ASSUME NEW p \in BarPrices, NEW side \in {"buy", "sell"}
  PROVE  Bt!ExecutionPrice(p, side) \in Int
<1>1. p \in Int /\ Scale + Slip \in Int /\ Scale - Slip \in Int
  BY MoneyIsWhole DEF Money
<1>2. \A a, b \in Int : a * b \in Int
  OBVIOUS
<1> QED
  BY <1>1, <1>2 DEF Bt!ExecutionPrice

\* Until the series ends both hold the same: parity is about the end alone, and follows
\* from it because the last sale is the valuation the replay reports.
Whole(state) ==
    state = [cash |-> state.cash, position |-> state.position, entry |-> state.entry,
             trades |-> state.trades, equity |-> state.equity, raised |-> state.raised]

RunTypes ==
    /\ Whole(bt) /\ bt.cash \in Int /\ bt.position \in {0, 1} /\ bites \in Nat
    /\ bars \in Seq([open : BarPrices, close : BarPrices]) /\ Len(bars) >= 1
    /\ rp = [cash |-> rp.cash, held |-> rp.held]

InStep == ~done /\ ~bt.raised /\ bites = 0 => rp.cash = bt.cash /\ rp.held = bt.position

ParityInv == RunTypes /\ InStep /\ Parity

LEMMA ParityBegins == Bt!Init => ParityInv
<1> SUFFICES ASSUME Bt!Init PROVE ParityInv
  OBVIOUS
<1>1. RunCash * (Scale * FeeScale) \in Int
  <2>1. \A a, b \in Int : a * b \in Int
    OBVIOUS
  <2> QED
    BY <2>1, MoneyIsWhole DEF Money
<1>2. bt.cash = RunCash * (Scale * FeeScale) /\ bt.position = 0 /\ bites = 0 /\ ~done
  BY DEF Bt!Init, Bt!Dollar
<1>3. rp = [cash |-> RunCash * (Scale * FeeScale), held |-> 0]
  BY DEF Bt!Init, Bt!ReplayStart, Bt!Dollar
<1>4. bars \in Seq([open : BarPrices, close : BarPrices]) /\ Len(bars) >= 1
  BY DEF Bt!Init
<1>5. Whole(bt)
  BY DEF Bt!Init, Whole
<1>6. RunTypes
  BY <1>1, <1>2, <1>3, <1>4, <1>5 DEF RunTypes
<1> QED
  BY <1>2, <1>3, <1>6 DEF ParityInv, InStep, Parity, Bt!Parity

LEMMA BarStep ==
  ASSUME FeeInQuote, SymbolLimit \in Int, SymbolLimit < 2, ParityInv,
         NEW open \in BarPrices, NEW close \in BarPrices, NEW refused \in BOOLEAN,
         Bt!NextBar(open, close, refused)
  PROVE  ParityInv'
<1> DEFINE wants == Bt!Signal
           decided == Bt!Decide(bt, wants, open)
           replayed == Bt!Replayed(rp, wants, open, refused)
           buyAt == Bt!ExecutionPrice(open, "buy")
           sellAt == Bt!ExecutionPrice(open, "sell")
<1>1. /\ ~done /\ ~bt.raised /\ done' = done
      /\ bt' = IF decided.raised THEN decided ELSE Bt!Marked(decided, Bt!Last(bars).close)
      /\ rp' = replayed
      /\ bites' = IF decided # bt /\ replayed = rp THEN bites + 1 ELSE bites
      /\ bars' = Append(bars, [open |-> open, close |-> close])
  BY DEF Bt!NextBar
<1>2. wants \in {"buy", "sell", "none"}
  BY DEF Bt!Signal, Bt!MovingAverageSignal, Bt!AlwaysBuySignal
<1>3. /\ bt.cash \in Int /\ bt.position \in {0, 1} /\ bites \in Nat
      /\ rp = [cash |-> rp.cash, held |-> rp.held]
      /\ bites = 0 => rp.cash = bt.cash /\ rp.held = bt.position
  BY <1>1 DEF ParityInv, RunTypes, InStep
<1>4. bars' \in Seq([open : BarPrices, close : BarPrices]) /\ Len(bars') >= 1
  BY <1>1 DEF ParityInv, RunTypes
<1>5. buyAt \in Int /\ sellAt \in Int
  BY PricesAreWhole
<1>6. Whole(bt)
  BY DEF ParityInv, RunTypes
<1> DEFINE total == 1 * buyAt * FeeScale + 1 * buyAt * Fee
           takes == 1 * sellAt * FeeScale - 1 * sellAt * Fee
<1>7. total \in Int /\ takes \in Int
  <2>1. \A a, b \in Int : a * b \in Int
    OBVIOUS
  <2> QED
    BY <1>5, <2>1, MoneyIsWhole DEF Money
<1>8. /\ Whole(decided)
      /\ \/ /\ decided = bt
            /\ ~(wants = "buy" /\ bt.position = 0) /\ ~(wants = "sell" /\ bt.position = 1)
         \/ decided.raised /\ decided.cash = bt.cash /\ decided.position = bt.position
         \/ /\ wants = "buy" /\ bt.position = 0 /\ decided.cash = bt.cash - total
            /\ decided.position = 1
         \/ /\ wants = "sell" /\ bt.position = 1 /\ decided.cash = bt.cash + takes
            /\ decided.position = 0
  <2>1. CASE wants = "buy" /\ bt.position = 0
    <3>1. decided = IF total > bt.cash THEN [bt EXCEPT !.raised = TRUE]
                    ELSE [bt EXCEPT !.cash = @ - total, !.position = 1,
                                    !.entry = [price |-> buyAt, fee |-> 1 * buyAt * Fee]]
      BY <2>1 DEF Bt!Decide, Bt!Buy
    <3> HIDE DEF total, decided, wants, buyAt
    <3> QED
      BY <1>6, <2>1, <3>1 DEF Whole
  <2>2. CASE wants = "sell" /\ bt.position = 1
    <3>1. decided = Bt!Sell(bt, open)
      BY <2>2 DEF Bt!Decide
    <3>2. PICK trades : decided = [bt EXCEPT !.cash = @ + 1 * sellAt * FeeScale - 1 * sellAt * Fee,
                                             !.position = 0, !.trades = trades]
      BY <2>2, <3>1 DEF Bt!Sell
    <3>3. bt.cash + 1 * sellAt * FeeScale - 1 * sellAt * Fee = bt.cash + takes
      <4>1. 1 * sellAt * FeeScale \in Int /\ 1 * sellAt * Fee \in Int
        <5>1. \A a, b \in Int : a * b \in Int
          OBVIOUS
        <5> QED
          BY <1>5, <5>1, MoneyIsWhole DEF Money
      <4> QED
        BY <1>3, <4>1
    <3> HIDE DEF takes, decided, wants, sellAt
    <3> QED
      BY <1>6, <2>2, <3>2, <3>3 DEF Whole
  <2>3. CASE ~(wants = "buy" /\ bt.position = 0) /\ ~(wants = "sell" /\ bt.position = 1)
    <3>1. decided = bt
      BY <1>3, <2>3 DEF Bt!Decide
    <3> QED
      BY <1>6, <2>3, <3>1
  <2> QED
    BY <1>2, <1>3, <2>1, <2>2, <2>3
<1>9. /\ Whole(bt') /\ bt'.raised = decided.raised /\ bt'.cash = decided.cash
      /\ bt'.position = decided.position
  <2>1. PICK marks : bt' = decided \/ bt' = [decided EXCEPT !.equity = marks]
    BY <1>1 DEF Bt!Marked
  <2> HIDE DEF decided
  <2> QED
    BY <1>8, <2>1 DEF Whole
<1>10. replayed = rp \/ (wants # "none" /\ replayed = Bt!Filled(rp, wants, open))
  BY DEF Bt!Replayed
<1>11. /\ wants = "buy" => Bt!Filled(rp, wants, open) =
             [cash |-> rp.cash - 1 * 1 * buyAt * FeeScale - 1 * buyAt * Fee, held |-> rp.held + 1 * 1]
       /\ wants = "sell" => Bt!Filled(rp, wants, open) =
             [cash |-> rp.cash - (-1) * 1 * sellAt * FeeScale - 1 * sellAt * Fee, held |-> rp.held + (-1) * 1]
  BY DEF Bt!Filled
<1>12. /\ rp' = [cash |-> rp'.cash, held |-> rp'.held]
       /\ \/ rp' = rp
          \/ wants = "buy" /\ rp'.held = rp.held + 1 /\ (rp.cash \in Int => rp'.cash = rp.cash - total)
          \/ wants = "sell" /\ rp'.held = rp.held + (-1) /\ (rp.cash \in Int => rp'.cash = rp.cash + takes)
  <2>1. 1 * buyAt * FeeScale \in Int /\ 1 * buyAt * Fee \in Int /\ 1 * sellAt * FeeScale \in Int
        /\ 1 * sellAt * Fee \in Int
    <3>1. \A a, b \in Int : a * b \in Int
      OBVIOUS
    <3> QED
      BY <1>5, <3>1, MoneyIsWhole DEF Money
  <2>2. 1 * 1 * buyAt * FeeScale = 1 * buyAt * FeeScale /\ (-1) * 1 * sellAt * FeeScale = -(1 * sellAt * FeeScale)
    BY <1>5, MoneyIsWhole DEF Money
  <2>3. CASE rp' = rp
    BY <1>3, <2>3
  <2>4. CASE wants = "buy" /\ rp' = Bt!Filled(rp, wants, open)
    <3>1. rp' = [cash |-> rp.cash - 1 * buyAt * FeeScale - 1 * buyAt * Fee, held |-> rp.held + 1]
      BY <1>11, <2>2, <2>4
    <3> HIDE DEF buyAt, wants
    <3> QED
      BY <2>1, <2>4, <3>1
  <2>5. CASE wants = "sell" /\ rp' = Bt!Filled(rp, wants, open)
    <3>1. rp' = [cash |-> rp.cash - (-(1 * sellAt * FeeScale)) - 1 * sellAt * Fee, held |-> rp.held + (-1)]
      BY <1>11, <2>2, <2>5
    <3> HIDE DEF sellAt, wants
    <3> QED
      BY <2>1, <2>5, <3>1
  <2> QED
    BY <1>1, <1>2, <1>10, <2>3, <2>4, <2>5
<1>13. /\ wants = "buy" /\ rp' # rp => rp.held + 1 <= SymbolLimit
       /\ wants = "sell" /\ rp' # rp => 1 <= rp.held
  BY <1>1, <1>2 DEF Bt!Replayed, Bt!GatesAllow
<1>14. bites' = 0 => bites = 0 /\ (decided = bt \/ rp' # rp)
  BY <1>1, <1>3
<1>15. bites' \in Nat
  BY <1>1, <1>3
<1> HIDE DEF wants, decided, replayed, buyAt, sellAt, total, takes
<1>16. RunTypes'
  <2>1. bt'.cash \in Int /\ bt'.position \in {0, 1}
    BY <1>3, <1>7, <1>8, <1>9
  <2> QED
    BY <1>4, <1>9, <1>12, <1>15, <2>1 DEF RunTypes, Whole
<1>17. InStep'
  <2> SUFFICES ASSUME ~bt'.raised, bites' = 0
               PROVE  rp'.cash = bt'.cash /\ rp'.held = bt'.position
    BY DEF InStep
  <2>1. rp.cash = bt.cash /\ rp.held = bt.position /\ (decided = bt \/ rp' # rp)
    BY <1>3, <1>14
  <2>2. CASE decided = bt
    <3>1. rp' = rp
      <4>1. ~decided.raised
        BY <1>1, <2>2
      <4>2. ~(wants = "buy" /\ bt.position = 0) /\ ~(wants = "sell" /\ bt.position = 1)
        BY <1>3, <1>7, <1>8, <2>2, <4>1
      <4>3. ASSUME wants = "buy", rp' # rp PROVE FALSE
        BY <1>3, <1>13, <2>1, <4>2, <4>3
      <4>4. ASSUME wants = "sell", rp' # rp PROVE FALSE
        BY <1>3, <1>13, <2>1, <4>2, <4>4
      <4> QED
        BY <1>12, <4>3, <4>4
    <3> QED
      BY <1>9, <2>1, <2>2, <3>1
  <2>3. CASE rp' # rp /\ wants = "buy" /\ decided # bt
    BY <1>2, <1>3, <1>7, <1>8, <1>9, <1>12, <2>1, <2>3
  <2>4. CASE rp' # rp /\ wants = "sell" /\ decided # bt
    BY <1>2, <1>3, <1>7, <1>8, <1>9, <1>12, <2>1, <2>4
  <2> QED
    BY <1>12, <2>1, <2>2, <2>3, <2>4
<1> QED
  BY <1>1, <1>16, <1>17 DEF ParityInv, Parity, Bt!Parity

\* The last sale is what the replay's valuation assumes.
LEMMA EndStep ==
  ASSUME ParityInv, Bt!End PROVE ParityInv'
<1> DEFINE close == Bt!Last(bars).close
           at == Bt!ExecutionPrice(close, "sell")
           marked == Bt!Marked(bt, close)
           sold == Bt!Sell(marked, close)
<1>1. /\ ~done /\ ~bt.raised /\ done' = TRUE /\ UNCHANGED <<bars, rp, bites>>
      /\ bt' = IF bt.position = 0 THEN marked
               ELSE [sold EXCEPT !.equity = [@ EXCEPT ![Len(@)] = sold.cash]]
  BY DEF Bt!End
<1>2. /\ bars \in Seq([open : BarPrices, close : BarPrices]) /\ Len(bars) >= 1
      /\ Whole(bt) /\ bt.cash \in Int /\ bt.position \in {0, 1} /\ bites \in Nat
      /\ rp = [cash |-> rp.cash, held |-> rp.held]
      /\ bites = 0 => rp.cash = bt.cash /\ rp.held = bt.position
  BY <1>1 DEF ParityInv, RunTypes, InStep
<1>3. close \in BarPrices
  <2> DEFINE Row == [open : BarPrices, close : BarPrices]
  <2>1. bars \in Seq(Row) /\ Len(bars) >= 1
    BY <1>2
  <2> HIDE DEF Row
  <2>2. bars[Len(bars)] \in Row
    BY <2>1
  <2> QED
    BY <2>2 DEF Bt!Last, Row
<1>4. at \in Int /\ 1 * at * FeeScale \in Int /\ 1 * at * Fee \in Int
  <2>1. at \in Int
    BY <1>3, PricesAreWhole
  <2>2. \A a, b \in Int : a * b \in Int
    OBVIOUS
  <2> HIDE DEF at
  <2> QED
    BY <2>1, <2>2, MoneyIsWhole DEF Money
<1>5. PICK marks : marked = [bt EXCEPT !.equity = marks]
  BY DEF Bt!Marked
<1>6. PICK trades : sold = [marked EXCEPT !.cash = @ + marked.position * at * FeeScale - marked.position * at * Fee,
                                          !.position = 0, !.trades = trades]
  BY DEF Bt!Sell
<1> HIDE DEF marked, sold, at, close
<1>7. CASE bt.position = 0
  <2>1. Whole(bt') /\ bt'.cash = bt.cash /\ bt'.position = 0
    BY <1>1, <1>2, <1>5, <1>7 DEF Whole
  <2>2. bites = 0 => rp.cash + rp.held * at * FeeScale - rp.held * at * Fee = bt'.cash
    BY <1>2, <1>4, <1>7, <2>1, MoneyIsWhole DEF Money
  <2> QED
    BY <1>1, <1>2, <2>1, <2>2 DEF ParityInv, RunTypes, InStep, Parity, Bt!Parity,
                       Bt!ReplayEquity, Bt!BacktestEquity, at, close
<1>8. CASE bt.position = 1
  <2>1. Whole(marked) /\ marked.cash = bt.cash /\ marked.position = 1
    BY <1>2, <1>5, <1>8 DEF Whole
  <2>2. Whole(sold) /\ sold.cash = bt.cash + 1 * at * FeeScale - 1 * at * Fee /\ sold.position = 0
    BY <1>6, <2>1 DEF Whole
  <2> DEFINE last == [sold.equity EXCEPT ![Len(sold.equity)] = sold.cash]
  <2>3. bt' = [sold EXCEPT !.equity = last]
    BY <1>1, <1>8, <2>2 DEF Whole
  <2> HIDE DEF last
  <2>4. Whole(bt') /\ bt'.cash = bt.cash + 1 * at * FeeScale - 1 * at * Fee /\ bt'.position = 0
    BY <2>2, <2>3 DEF Whole
  <2>5. bites = 0 => rp.cash + rp.held * at * FeeScale - rp.held * at * Fee = bt'.cash
    BY <1>2, <1>8, <2>4
  <2>6. bt'.cash \in Int
    BY <1>2, <1>4, <2>4
  <2> QED
    BY <1>1, <1>2, <2>4, <2>5, <2>6 DEF ParityInv, RunTypes, InStep, Parity, Bt!Parity,
                       Bt!ReplayEquity, Bt!BacktestEquity, at, close
<1> QED
  BY <1>2, <1>7, <1>8

\* "Any difference between the two results comes from the risk engine refusing an order":
\* without a refusal that mattered the replay ends with the backtest's equity to the cent,
\* over any bars, prices, spread, slippage and fees, when fees are in dollars and the
\* symbol limit leaves no room to buy twice (ReplayRunner.run, Backtester.run).
THEOREM ReplayMatches ==
  ASSUME FeeInQuote, SymbolLimit \in Int, SymbolLimit < 2
  PROVE  Bt!Spec => []Parity
<1>1. ParityInv /\ [Bt!Next]_Bt!vars => ParityInv'
  <2> SUFFICES ASSUME ParityInv, [Bt!Next]_Bt!vars PROVE ParityInv'
    OBVIOUS
  <2>1. ASSUME NEW open \in BarPrices, NEW close \in BarPrices, NEW refused \in BOOLEAN,
               Bt!NextBar(open, close, refused)
        PROVE  ParityInv'
    BY <2>1, BarStep
  <2>2. CASE Bt!End
    BY <2>2, EndStep
  <2>3. CASE UNCHANGED Bt!vars
    BY <2>3 DEF Bt!vars, ParityInv, RunTypes, Whole, InStep, Parity, Bt!Parity, Bt!ReplayEquity,
                Bt!BacktestEquity
  <2> QED
    BY <2>1, <2>2, <2>3, BacktestAssumption DEF Bt!Next, Bt!Configured
<1>2. ParityInv => Parity
  BY DEF ParityInv
<1> QED
  BY <1>1, <1>2, ParityBegins, PTL DEF Bt!Spec

-----------------------------------------------------------------------------
(* The research workspace.                                                  *)
Statuses == {"queued", "running", "complete", "failed"}
Run == [request : Research!Requests, token : Nat, status : Statuses]

\* A token that can still be confirmed has queued nothing: without that, a confirmation
\* could repeat.
Unused ==
    \A p \in pending : /\ p.token \in 1 .. Len(issued) /\ p.request = issued[p.token]
                       /\ \A n \in 1 .. Len(runs) : runs[n].token # p.token

Confirmed ==
    \A n \in 1 .. Len(runs) :
        /\ runs[n].token \in 0 .. Len(issued)
        /\ runs[n].token # 0 => runs[n].request = issued[runs[n].token]

Single == \A m, n \in 1 .. Len(runs) : runs[n].token # 0 /\ runs[m].token = runs[n].token => m = n

Readable == \A n \in 1 .. Len(runs) : runs[n].status \in {"queued", "running"} => n \in jobs

ResearchInv ==
    /\ issued \in Seq(Research!Requests) /\ runs \in Seq(Run)
    /\ Unused /\ Confirmed /\ Single /\ Readable

LEMMA ResearchBegins == Research!Init => ResearchInv
  BY DEF Research!Init, ResearchInv, Unused, Confirmed, Single, Readable

\* Queueing a run: its token, if it has one, is of a review that says the same and has
\* queued nothing, and is used up with it.
LEMMA Queued ==
  ASSUME ResearchInv, NEW r \in Research!Requests, NEW token \in Nat, Research!Submit(r, token),
         UNCHANGED issued, pending' \subseteq pending,
         \A p \in pending' : p.token # token,
         token # 0 => /\ token \in 1 .. Len(issued) /\ r = issued[token]
                      /\ \A n \in 1 .. Len(runs) : runs[n].token # token
  PROVE  ResearchInv'
<1> DEFINE new == [request |-> r, token |-> token, status |-> "queued"]
           last == Len(runs) + 1
<1>1. runs \in Seq(Run) /\ issued \in Seq(Research!Requests) /\ Len(issued) \in Nat
  BY DEF ResearchInv
<1>2. new \in Run
  BY DEF Run, Statuses
<1>3. runs' = Append(runs, new) /\ jobs' = Research!Trimmed(jobs) \cup {last}
  BY DEF Research!Submit
<1>4. new.request = r /\ new.token = token
  OBVIOUS
<1> HIDE DEF new
<1>5. runs' \in Seq(Run) /\ Len(runs') = last /\ last \in Nat /\ runs'[last] = new
  BY <1>1, <1>2, <1>3
<1>6. \A n \in 1 .. last : n # last => n \in 1 .. Len(runs) /\ runs'[n] = runs[n]
  BY <1>1, <1>3
<1>7. Unused'
  <2>1. ASSUME NEW p \in pending', NEW n \in 1 .. last PROVE runs'[n].token # p.token
    <3>1. CASE n = last
      BY <1>4, <1>5, <3>1
    <3>2. CASE n # last
      BY <1>6, <3>2 DEF ResearchInv, Unused
    <3> QED
      BY <3>1, <3>2
  <2>2. \A p \in pending' : p.token \in 1 .. Len(issued) /\ p.request = issued[p.token]
    BY DEF ResearchInv, Unused
  <2> QED
    BY <1>5, <2>1, <2>2 DEF Unused
<1>8. Confirmed'
  BY <1>1, <1>4, <1>5, <1>6 DEF ResearchInv, Confirmed
<1>9. Single'
  <2>1. ASSUME NEW n \in 1 .. Len(runs), NEW m \in 1 .. last, runs[n].token # 0, m = last
        PROVE  runs[n].token # token
    BY <2>1 DEF ResearchInv
  <2> QED
    BY <1>4, <1>5, <1>6, <2>1 DEF ResearchInv, Single
<1>10. Readable'
  <2>1. ASSUME NEW n \in 1 .. Len(runs), runs[n].status \in {"queued", "running"}
        PROVE  n \in Research!Trimmed(jobs)
    <3>1. n \in jobs /\ n <= n
      BY <2>1 DEF ResearchInv, Readable
    <3> QED
      BY <2>1, <3>1 DEF Research!Trimmed, Research!IsActive, Research!Active
  <2> QED
    BY <1>3, <1>5, <1>6, <2>1 DEF Readable
<1> QED
  BY <1>1, <1>5, <1>7, <1>8, <1>9, <1>10 DEF ResearchInv

\* A run's progress keeps its request and its token, and makes no other run active.
LEMMA Progresses ==
  ASSUME ResearchInv, NEW n \in DOMAIN runs, NEW status \in Statuses, Research!SetStatus(n, status),
         runs[n].status \in {"queued", "running"}, UNCHANGED <<issued, pending, jobs>>
  PROVE  ResearchInv'
<1>1. runs \in Seq(Run) /\ DOMAIN runs = 1 .. Len(runs)
  BY DEF ResearchInv
<1>2. runs' = [runs EXCEPT ![n].status = status]
  BY DEF Research!SetStatus
<1>3. runs[n] \in Run
  BY <1>1
<1>4. /\ [runs[n] EXCEPT !.status = status] \in Run
      /\ [runs[n] EXCEPT !.status = status].token = runs[n].token
      /\ [runs[n] EXCEPT !.status = status].request = runs[n].request
  BY <1>3 DEF Run
<1>5. runs' \in Seq(Run) /\ Len(runs') = Len(runs)
  BY <1>1, <1>2, <1>4
<1>6. \A m \in 1 .. Len(runs) : /\ runs'[m].token = runs[m].token
                                /\ runs'[m].request = runs[m].request
                                /\ m # n => runs'[m] = runs[m]
  BY <1>1, <1>2, <1>4
<1>7. Unused' /\ Confirmed' /\ Single'
  <2>1. Unused'
    BY <1>5, <1>6 DEF ResearchInv, Unused
  <2>2. Confirmed'
    BY <1>5, <1>6 DEF ResearchInv, Confirmed
  <2>3. Single'
    BY <1>5, <1>6 DEF ResearchInv, Single
  <2> QED
    BY <2>1, <2>2, <2>3
<1>8. Readable'
  BY <1>1, <1>5, <1>6 DEF ResearchInv, Readable
<1> QED
  BY <1>5, <1>7, <1>8 DEF ResearchInv

LEMMA ResearchStep == ResearchInv /\ [Research!Next]_Research!vars => ResearchInv'
<1> SUFFICES ASSUME ResearchInv, [Research!Next]_Research!vars PROVE ResearchInv'
  OBVIOUS
<1>1. ASSUME NEW r \in Research!Requests, Research!create_review(r) PROVE ResearchInv'
  <2> DEFINE next == Len(issued) + 1
  <2>1. issued' = Append(issued, r) /\ UNCHANGED <<runs, jobs>>
    BY <1>1 DEF Research!create_review
  <2>2. PICK expires : \A p \in pending' :
           p \in pending \/ p = [token |-> next, request |-> r, expires |-> expires]
    BY <1>1 DEF Research!create_review
  <2>3. issued \in Seq(Research!Requests) /\ Len(issued) \in Nat
    BY DEF ResearchInv
  <2>4. /\ issued' \in Seq(Research!Requests) /\ Len(issued') = next /\ issued'[next] = r
        /\ \A k \in 1 .. Len(issued) : issued'[k] = issued[k]
    BY <2>1, <2>3
  <2>5. Confirmed'
    BY <2>1, <2>3, <2>4 DEF ResearchInv, Confirmed
  <2>6. Unused'
    <3>1. ASSUME NEW p \in pending'
          PROVE  /\ p.token \in 1 .. next /\ p.request = issued'[p.token]
                 /\ \A n \in 1 .. Len(runs) : runs[n].token # p.token
      <4>1. CASE p \in pending
        BY <2>3, <2>4, <4>1 DEF ResearchInv, Unused
      <4>2. CASE p = [token |-> next, request |-> r, expires |-> expires]
        <5>1. p.token = next /\ p.request = r
          BY <4>2
        <5>2. \A n \in 1 .. Len(runs) : runs[n].token \in 0 .. Len(issued)
          BY DEF ResearchInv, Confirmed
        <5> QED
          BY <2>3, <2>4, <5>1, <5>2
      <4> QED
        BY <2>2, <4>1, <4>2
    <3> QED
      BY <2>1, <2>4, <3>1 DEF Unused
  <2>7. Single' /\ Readable'
    BY <2>1 DEF ResearchInv, Single, Readable
  <2> QED
    BY <2>1, <2>4, <2>5, <2>6, <2>7 DEF ResearchInv
<1>2. ASSUME NEW r \in Research!Requests, Research!SubmitJson(r) PROVE ResearchInv'
  <2>1. Research!Submit(r, 0) /\ UNCHANGED <<pending, issued>>
    BY <1>2 DEF Research!SubmitJson
  <2>2. \A p \in pending : p.token # 0
    BY DEF ResearchInv, Unused
  <2> QED
    BY <2>1, <2>2, Queued
<1>3. ASSUME NEW r \in Research!Requests, NEW token \in 1 .. MaxReviews, Research!Confirm(token, r)
      PROVE  ResearchInv'
  <2>1. /\ pending' = {p \in pending : p.token # token} /\ UNCHANGED issued
        /\ \/ /\ Research!Submit(r, token)
              /\ \E p \in pending : p.token = token /\ p.request = r
           \/ UNCHANGED <<runs, jobs>>
    BY <1>3 DEF Research!Confirm, Research!Taken
  <2>2. CASE UNCHANGED <<runs, jobs>>
    BY <2>1, <2>2 DEF ResearchInv, Unused, Confirmed, Single, Readable
  <2>3. CASE Research!Submit(r, token) /\ \E p \in pending : p.token = token /\ p.request = r
    <3>1. /\ token \in 1 .. Len(issued) /\ r = issued[token]
          /\ \A n \in 1 .. Len(runs) : runs[n].token # token
      BY <2>3 DEF ResearchInv, Unused
    <3>2. token \in Nat /\ token # 0
      BY <3>1
    <3> QED
      BY <2>1, <2>3, <3>1, <3>2, Queued
  <2> QED
    BY <2>1, <2>2, <2>3
<1>4. ASSUME NEW n \in DOMAIN runs, Research!Start(n) \/ Research!Ends(n) \/ Research!TimesOut(n)
      PROVE  ResearchInv'
  <2>1. UNCHANGED <<issued, pending, jobs>> /\ runs[n].status \in {"queued", "running"}
    BY <1>4 DEF Research!Start, Research!Ends, Research!TimesOut
  <2>2. PICK status \in Statuses : Research!SetStatus(n, status)
    BY <1>4 DEF Research!Start, Research!Ends, Research!TimesOut, Statuses
  <2> QED
    BY <2>1, <2>2, Progresses
<1>5. CASE (\E n \in threads : Research!ThreadEnds(n)) \/ Research!Close \/ Research!Tick
  <2>1. UNCHANGED <<pending, issued, runs, jobs>>
    BY <1>5 DEF Research!ThreadEnds, Research!Close, Research!Tick
  <2> QED
    BY <2>1 DEF ResearchInv, Unused, Confirmed, Single, Readable
<1>6. CASE UNCHANGED Research!vars
  BY <1>6 DEF Research!vars, ResearchInv, Unused, Confirmed, Single, Readable
<1> QED
  BY <1>1, <1>2, <1>3, <1>4, <1>5, <1>6 DEF Research!Next

\* "Refuse stale, altered, or repeated confirmations": whatever is reviewed, confirmed,
\* queued, timed out and dropped, a run from the page has the assumptions its one review
\* showed, and can be read until it is over (consume_review, submit).
THEOREM RunsFollowReviews == Research!Spec => []RunsAsReviewed
<1>1. ResearchInv => RunsAsReviewed
  <2> SUFFICES ASSUME ResearchInv PROVE RunsAsReviewed
    OBVIOUS
  <2>1. DOMAIN runs = 1 .. Len(runs)
    BY DEF ResearchInv
  <2> QED
    BY <2>1 DEF ResearchInv, Confirmed, Single, Readable, RunsAsReviewed, Research!RunsAsReviewed,
                Research!IsActive, Research!Active
<1> QED
  BY <1>1, ResearchBegins, ResearchStep, PTL DEF Research!Spec


\* The sizes of a request, and that a whole window fits before its holdout: what
\* validate_request has checked of every run.
LEMMA RequestSizes ==
  ASSUME NEW r \in Research!Requests
  PROVE  /\ r.train \in Nat \ {0} /\ r.test \in Nat \ {0} /\ r.step \in Nat /\ r.holdout \in Nat
         /\ Research!Step(r) \in Nat \ {0} /\ Research!Available(r) \in Int
<1>1. PICK form \in Splits : r = Research!Parsed(form)
  BY DEF Research!Requests
<1>2. form \in [train : Nat, test : Nat, step : Nat, holdout : Nat]
  BY <1>1, ResearchAssumption DEF Research!Configured
<1>3. r.train \in Nat /\ r.test \in Nat /\ r.step \in Nat /\ r.holdout \in Nat
  BY <1>1, <1>2, ResearchAssumption DEF Research!Configured, Research!Parsed
<1>4. r.train # 0 /\ r.test # 0
  BY <1>1, <1>2, ResearchAssumption DEF Research!Configured, Research!Parsed
<1>5. Research!Step(r) \in Nat \ {0}
  BY <1>3, <1>4 DEF Research!Step
<1>6. Research!Available(r) \in Int
  BY <1>3, ResearchAssumption DEF Research!Configured, Research!Available
<1> QED
  BY <1>3, <1>4, <1>5, <1>6

Fits(r) == Research!Available(r) >= r.train + r.test

\* run_walk_forward yields one window per step that the review counted, each training
\* before it tests and ending before the holdout.
LEMMA WindowsAreCounted ==
  ASSUME NEW r \in Research!Requests, Fits(r)
  PROVE  /\ Research!Cardinality(Research!run_walk_forward(r)) = Research!ReviewedWindows(r)
         /\ \A w \in Research!run_walk_forward(r) : w.train < w.test /\ w.end <= Bars - r.holdout
<1> DEFINE i == Research!Step(r)
           room == Research!Available(r) - r.train - r.test
           n == room \div i
           At(s) == [train |-> s, test |-> s + r.train, end |-> s + r.train + r.test]
           starts == {s \in 0 .. Bars : s % i = 0 /\ s + r.train + r.test <= Research!Available(r)}
           windows == Research!run_walk_forward(r)
<1>1. /\ r.train \in Nat \ {0} /\ r.test \in Nat \ {0} /\ r.holdout \in Nat /\ i \in Nat \ {0}
      /\ Research!Available(r) \in Int /\ Bars \in Nat /\ Research!Available(r) = Bars - r.holdout
  BY RequestSizes, ResearchAssumption DEF Research!Configured, Research!Available
<1>2. room \in Nat /\ room <= Bars
  BY <1>1 DEF Fits
<1>3. windows = {At(s) : s \in starts}
  BY DEF Research!run_walk_forward
<1> HIDE DEF i, room, windows
<1>4. n \in Nat /\ i * n <= room /\ room < i * n + i
  <2>1. i \in Nat \ {0} /\ room \in Nat
    BY <1>1, <1>2
  <2> QED
    BY <2>1
<1>5. ASSUME NEW s \in starts PROVE s \in Nat /\ s <= room /\ s \div i \in 0 .. n /\ s = i * (s \div i)
  <2>1. s \in Nat /\ s % i = 0 /\ s <= room
    BY <1>1 DEF room
  <2>2. s \div i \in Nat /\ s = i * (s \div i)
    BY <1>1, <2>1
  <2>3. ASSUME s \div i > n PROVE FALSE
    <3>1. s \div i >= n + 1 /\ s \div i \in Int /\ n + 1 \in Int
      BY <1>4, <2>2, <2>3
    <3>2. \A m \in Nat \ {0}, x, y \in Nat : x <= y => m * x <= m * y
      OBVIOUS
    <3>3. i * (n + 1) <= i * (s \div i)
      BY <1>1, <1>4, <2>2, <3>1, <3>2
    <3>4. i * (n + 1) = i * n + i
      BY <1>1, <1>4
    <3> QED
      BY <1>1, <1>2, <1>4, <2>1, <2>2, <3>3, <3>4
  <2> QED
    BY <1>4, <2>1, <2>2, <2>3
<1>6. ASSUME NEW k \in 0 .. n PROVE i * k \in starts
  <2>1. i * k \in Nat /\ (i * k) % i = 0
    BY <1>1
  <2>2. \A m \in Nat \ {0}, x, y \in Nat : x <= y => m * x <= m * y
    OBVIOUS
  <2>3. i * k <= i * n
    BY <1>1, <1>4, <2>2
  <2>4. i * k <= room
    BY <1>1, <1>2, <1>4, <2>1, <2>3
  <2> QED
    BY <1>1, <1>2, <2>1, <2>4 DEF room
<1>7. Cardinality(windows) = n + 1
  <2> DEFINE f == [k \in 0 .. n |-> At(i * k)]
  <2>1. f \in [0 .. n -> windows]
    BY <1>3, <1>6
  <2>2. ASSUME NEW j \in 0 .. n, NEW k \in 0 .. n, f[j] = f[k] PROVE j = k
    <3>1. i * j = i * k
      BY <2>2
    <3>2. (i * j) \div i = j /\ (i * k) \div i = k
      BY <1>1
    <3> QED
      BY <3>1, <3>2
  <2>3. ASSUME NEW w \in windows PROVE \E k \in 0 .. n : f[k] = w
    <3>1. PICK s \in starts : w = At(s)
      BY <1>3
    <3>2. s \div i \in 0 .. n /\ s = i * (s \div i)
      BY <1>5
    <3>3. f[s \div i] = w
      BY <3>1, <3>2
    <3> QED
      BY <3>2, <3>3
  <2>4. f \in Bijection(0 .. n, windows)
    BY <2>1, <2>2, <2>3, Fun_IsBij
  <2>5. IsFiniteSet(0 .. n) /\ Cardinality(0 .. n) = n + 1
    BY <1>4, FS_Interval
  <2> QED
    BY <2>4, <2>5, FS_Bijection, Fun_ExistsBij
<1>8. Research!Cardinality(windows) = Cardinality(windows)
  BY DEF Research!Cardinality, Cardinality
<1>9. Research!ReviewedWindows(r) = 1 + n
  BY DEF Research!ReviewedWindows, room, i
<1>10. ASSUME NEW w \in windows PROVE w.train < w.test /\ w.end <= Bars - r.holdout
  <2>1. PICK s \in starts : w = At(s)
    BY <1>3
  <2>2. s \in Nat /\ s + r.train + r.test <= Research!Available(r)
    BY <1>5
  <2>3. w.train = s /\ w.test = s + r.train /\ w.end = s + r.train + r.test
    BY <2>1
  <2> QED
    BY <1>1, <2>2, <2>3
<1> QED
  BY <1>4, <1>7, <1>8, <1>9, <1>10 DEF windows

\* "Keep the final holdout sealed": every window of every run let through trains before
\* it tests and ends before the holdout, and there are as many as the review said, for
\* any dataset and any split (run_walk_forward, validate_request).
THEOREM HoldoutStaysSealed == Research!Spec => []HoldoutSealed
<1> DEFINE Checked == \A k \in 1 .. Len(runs) : Fits(runs[k].request)
<1>1. Research!Init => Checked
  BY DEF Research!Init
<1>2. ResearchInv /\ Checked /\ [Research!Next]_Research!vars => Checked'
  <2> SUFFICES ASSUME ResearchInv, Checked, [Research!Next]_Research!vars PROVE Checked'
    OBVIOUS
  <2>0. runs \in Seq(Run)
    BY DEF ResearchInv
  <2>1. ASSUME NEW r \in Research!Requests, NEW token, Research!Submit(r, token) PROVE Checked'
    <3>1. Fits(r) /\ runs' = Append(runs, [request |-> r, token |-> token, status |-> "queued"])
      BY <2>1 DEF Research!Submit, Research!validate_request, Fits
    <3>2. \A q : Fits(q)' <=> Fits(q)
      BY DEF Fits, Research!Available
    <3>3. Len(runs') = Len(runs) + 1 /\ runs'[Len(runs) + 1].request = r
          /\ \A k \in 1 .. Len(runs) : runs'[k] = runs[k]
      BY <2>0, <3>1
    <3>4. \A k \in 1 .. Len(runs) + 1 : Fits(runs'[k].request)
      BY <2>0, <3>1, <3>3
    <3> QED
      BY <3>2, <3>3, <3>4 DEF Fits, Research!Available
  <2>2. ASSUME NEW k \in DOMAIN runs, NEW status, Research!SetStatus(k, status) PROVE Checked'
    <3>1. runs' = [runs EXCEPT ![k].status = status] /\ DOMAIN runs = 1 .. Len(runs)
      BY <2>0, <2>2 DEF Research!SetStatus
    <3>2. Len(runs') = Len(runs) /\ \A m \in 1 .. Len(runs) : runs'[m].request = runs[m].request
      BY <2>0, <3>1 DEF Run
    <3> QED
      BY <3>2 DEF Fits, Research!Available
  <2>3. CASE UNCHANGED runs
    BY <2>3 DEF Fits, Research!Available
  <2> QED
    BY <2>1, <2>2, <2>3 DEF Research!Next, Research!create_review, Research!SubmitJson, Research!Confirm,
         Research!Start, Research!Ends, Research!TimesOut, Research!ThreadEnds, Research!Close,
         Research!Tick, Research!vars
<1>3. ResearchInv /\ Checked => HoldoutSealed
  <2> SUFFICES ASSUME ResearchInv, Checked, NEW k \in DOMAIN runs
               PROVE  LET r == runs[k].request
                      IN  /\ Research!Cardinality(Research!run_walk_forward(r)) = Research!ReviewedWindows(r)
                          /\ \A w \in Research!run_walk_forward(r) :
                                w.train < w.test /\ w.end <= Bars - r.holdout
    BY DEF HoldoutSealed, Research!HoldoutSealed
  <2>1. runs[k] \in Run /\ k \in 1 .. Len(runs)
    BY DEF ResearchInv
  <2>2. runs[k].request \in Research!Requests /\ Fits(runs[k].request)
    BY <2>1 DEF Run
  <2> QED
    BY <2>2, WindowsAreCounted
<1> QED
  BY <1>1, <1>2, <1>3, ResearchBegins, ResearchStep, PTL DEF Research!Spec

-----------------------------------------------------------------------------
(* The composed gates.                                                     *)
LEMMA RiskPartsRunAsAlone == RiskSpec => Spec /\ LossSpec /\ Bt!Spec /\ Research!Spec
<1> DEFINE all == <<vars, lossVars, backtest, workspace, focus>>
<1>1. RiskInit => Init /\ LossInit /\ Bt!Init /\ Research!Init
  BY DEF RiskInit
<1>2. [RiskNext]_all => [Next]_vars
  BY DEF RiskNext
<1>3. [RiskNext]_all => [LossNext]_lossVars
  BY DEF RiskNext
<1>4. [RiskNext]_all => [Bt!Next]_Bt!vars
  BY DEF RiskNext, backtest, Bt!vars
<1>5. [RiskNext]_all => [Research!Next]_Research!vars
  BY DEF RiskNext, workspace, Research!vars
<1> QED
  BY <1>1, <1>2, <1>3, <1>4, <1>5, PTL DEF RiskSpec, Spec, LossSpec, Bt!Spec, Research!Spec

\* Whatever part a behaviour follows, the reserve is kept, buys are within the losses
\* that were sampled, and queued runs are as reviewed, with every window before the holdout
\* (evaluate, consume_review, run_walk_forward).
THEOREM RiskHolds ==
  RiskSpec => [](ReserveKept /\ BuysWithinSamples /\ RunsAsReviewed /\ HoldoutSealed)
  BY RiskPartsRunAsAlone, ReserveAlwaysKept, BuysMeasured, RunsFollowReviews,
     HoldoutStaysSealed, PTL
=============================================================================
