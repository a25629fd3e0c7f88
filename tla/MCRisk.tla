-------------------------------- MODULE MCRisk --------------------------------
(***************************************************************************)
(* What stands between a strategy and an order.  The gates over the account,    *)
(* the gates over sampled equity, the strategy run over closed bars and the     *)
(* workspace that queues such runs read different state: a behaviour follows    *)
(* one of them.  Signals are for one coin.                                  *)
(***************************************************************************)
EXTENDS RiskGates, LossLimits

CONSTANTS
    BarPrices, BarOpens, RunCash, Scale, Slip, FeeScale, Fee, FeeInQuote, Fast, Slow, SymbolLimit, Cent,
    MaxBars,
    Bars, DefaultBars, MaxCandles, MaxWindows, MaxActive, MaxStored, MaxPending, ReviewTtl, MaxReviews, MaxJobs,
    MaxClock

VARIABLES
    strategy, bars, emitted, bt, rp, bites, done,
    clock, pending, issued, runs, jobs, threads, closed,
    focus  \* the part this behaviour follows

Quantities == [s \in Symbols |-> 1]

\* Splits of the dataset: the defaults, overlapping windows before a holdout of one bar,
\* and one too large.
Splits ==
    {[train |-> 0, test |-> 0, step |-> 0, holdout |-> 2],
     [train |-> 2, test |-> 2, step |-> 1, holdout |-> 1],
     [train |-> 9, test |-> 2, step |-> 0, holdout |-> 0]}

Bt == INSTANCE Backtest WITH
        Prices <- BarPrices, Opens <- BarOpens, Quantity <- 1, StartCash <- RunCash,
        MaxSymbolPosition <- SymbolLimit
Research == INSTANCE ResearchJobs WITH Forms <- Splits

backtest == <<strategy, bars, emitted, bt, rp, bites, done>>
workspace == <<clock, pending, issued, runs, jobs, threads, closed>>

ASSUME BacktestAssumption == Bt!Configured
ASSUME ResearchAssumption == Research!Configured

\* A behaviour of one part leaves the others where they start, at one price and equity.
RiskInit ==
    /\ Init /\ LossInit /\ Bt!Init /\ Research!Init
    /\ focus \in {"account", "losses", "backtest", "research"}
    /\ focus # "losses" => equity = 1
    /\ focus # "account" => price = [s \in Symbols |-> 1]
    /\ focus # "backtest" => strategy = "ma_cross" /\ bars[1].close = 1

RiskNext ==
    \/ focus = "account" /\ Next /\ UNCHANGED <<lossVars, backtest, workspace, focus>>
    \/ focus = "losses" /\ LossNext /\ UNCHANGED <<vars, backtest, workspace, focus>>
    \/ focus = "backtest" /\ Bt!Next /\ UNCHANGED <<vars, lossVars, workspace, focus>>
    \/ focus = "research" /\ Research!Next /\ UNCHANGED <<vars, lossVars, backtest, focus>>

RiskSpec == RiskInit /\ [][RiskNext]_<<vars, lossVars, backtest, workspace, focus>>

\* When the gates refused nothing the backtester took, the replay ends with its equity
\* to the cent (ReplayRunner.run, Backtester.run).
Parity == Bt!Parity

\* The round trips are all that moved a backtest's cash, and the drawdown it reports is
\* the deepest fall of its curve (Backtester.run, _sell, _max_drawdown).
ReportAddsUp == Bt!ReportAddsUp

\* A run queued from the page has the assumptions its one review showed, and can be read
\* until it is over (consume_review, submit).
RunsAsReviewed == Research!RunsAsReviewed

\* No window of a queued run reaches into the holdout (run_walk_forward).
HoldoutSealed == Research!HoldoutSealed
=============================================================================
