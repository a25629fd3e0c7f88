------------------------------ MODULE MCAccount ------------------------------
(***************************************************************************)
(* What the system knows of its account.  Reconciliation treats a portfolio as  *)
(* the movements it contains; the books compute its amounts, prices and         *)
(* explanations; the equity curve values it through the day.  They share no      *)
(* variable: a behaviour follows one of them.                                *)
(***************************************************************************)
EXTENDS MCReconciliation, Integers

CONSTANTS
    Unit, OpeningUsd, Sizes, Prices, Fees, FeeAssets, Transfers, MaxFills,
    Coins, Bids, Cash, DayLength, StaleAfter, OneListing, MaxClock, MaxBuys, MaxSamples,
    MaxFaults

VARIABLES
    funds, fills, moved, basis, recorded,
    clock, holdings, pastHoldings, bid, quoted, lastPrices, job, samples, faults,
    focus  \* the part this behaviour follows

Ledger == INSTANCE Books WITH account <- funds, saved <- recorded
Equity == INSTANCE EquityDay WITH
            account <- holdings, accounts <- pastHoldings, stored <- lastPrices,
            MaxFills <- MaxBuys

books == <<funds, fills, moved, basis, recorded>>
curve == <<clock, holdings, pastHoldings, bid, quoted, lastPrices, job, samples, faults>>

ASSUME BooksAssumption == Ledger!Configured
ASSUME EquityAssumption == Equity!Configured

AccountInit ==
    /\ Init /\ Ledger!Init /\ Equity!Init
    /\ focus \in {"reconciliation", "books", "equity"}
    /\ focus # "equity" => bid = [c \in Coins |-> CHOOSE p \in Bids : TRUE]

AccountNext ==
    \/ focus = "reconciliation" /\ Next /\ UNCHANGED <<books, curve, focus>>
    \/ focus = "books" /\ Ledger!Next /\ UNCHANGED <<vars, curve, focus>>
    \/ focus = "equity" /\ Equity!Next /\ UNCHANGED <<vars, books, focus>>

AccountSpec == AccountInit /\ [][AccountNext]_<<vars, books, curve, focus>>

\* A projection differs from the account by exactly what the unsaved fills and the
\* transfers moved (apply_fills, explain_window, field_changes).
DivergenceIsWhatIsMissing == Ledger!DivergenceIsWhatIsMissing

\* The average shown "from our fills" is the one the coins held have (cost_from_fills).
CostIsReal == Ledger!CostIsReal

\* Today's P/L is the difference of two snapshots that are each what the account was
\* worth (EquitySampler.sample, DayPnlReader.read).
PnlIsReal == Equity!PnlIsReal
=============================================================================
