------------------------------ MODULE LossLimits ------------------------------
(***************************************************************************)
(* The daily loss and the drawdown that stop buys: equity is sampled by the   *)
(* loops of the trading cycle, the day's opening and the peak are kept in      *)
(* memory and in a file, and a buy is measured against them.                 *)
(***************************************************************************)
EXTENDS Integers

CONSTANTS
    MaxEquity,  \* bound: equity is 1 .. MaxEquity
    MaxDay,     \* bound: days
    MaxLoss,    \* max_daily_loss
    DropNum,    \* max_drawdown is the fraction DropNum / DropDen
    DropDen

ASSUME LimitsAssumption ==
    /\ MaxEquity \in Nat \ {0} /\ MaxDay \in Nat
    /\ MaxLoss \in Nat /\ DropNum \in Nat /\ DropDen \in Nat \ {0}

VARIABLES
    equity, day,
    up,         \* the process runs
    memory,     \* [day, open, peak] that the process holds
    unreadable, \* it could not read the file when it started
    file,       \* what the file holds, [at, ok]; nothing is an empty measure
    result,     \* what the last loop decided (history)
    seen,       \* the same measure over every sample ever taken (history)
    loops,      \* the same measure over every loop that could be measured (history)
    lossy       \* a process died before what it had sampled was saved (history)

lossProcess == <<up, memory, unreadable>>
lossHistory == <<seen, loops, lossy>>
lossVars == <<equity, day, lossProcess, file, result, lossHistory>>

Higher(a, b) == IF a < b THEN b ELSE a

\* No day is -1; equity is never 0, so a peak of 0 is one that is not known.
Nothing == [day |-> -1, open |-> 0, peak |-> 0]
Measures == [day : -1 .. MaxDay, open : 0 .. MaxEquity, peak : 0 .. MaxEquity]

\* _loss_measures: the first sample of a day opens it; the peak only rises.
Sampled(m, d, e) ==
    [day |-> d, open |-> IF m.day = d THEN m.open ELSE e, peak |-> Higher(m.peak, e)]

\* The daily_loss and drawdown gates, for a buy.
Within(m, e) ==
    /\ m.open - e <= MaxLoss
    /\ (m.peak - e) * DropDen <= DropNum * m.peak

LossInit ==
    /\ equity \in 1 .. MaxEquity /\ day = 0
    /\ up = FALSE /\ memory = Nothing /\ unreadable = FALSE
    /\ file = [at |-> Nothing, ok |-> TRUE]
    /\ result = "none" /\ seen = Nothing /\ loops = Nothing /\ lossy = FALSE

-----------------------------------------------------------------------------
\* Mutant: a file that cannot be read counts as no file.
LoadedAnyhow == memory' = (IF file.ok THEN file.at ELSE Nothing) /\ unreadable' = FALSE

\* _load_loss_state
Loaded == memory' = (IF file.ok THEN file.at ELSE Nothing) /\ unreadable' = ~file.ok

Boot ==
    /\ ~up /\ up' = TRUE /\ Loaded /\ result' = "none"
    /\ UNCHANGED <<equity, day, file, lossHistory>>

\* _save_loss_state: the file is replaced, or stays what it was.
SaveLossState(saves) == file' = IF saves THEN [at |-> memory', ok |-> TRUE] ELSE file

\* Every loop that gets as far as the strategy samples, with a signal or without.
\* A sample that cannot be saved is kept in memory and leaves the measures unknown.
Loop(side, known, saves) ==
    /\ up
    /\ IF ~known \/ unreadable
       THEN /\ result' = (IF side = "none" THEN "none" ELSE "refused")
            /\ UNCHANGED <<memory, file, seen, loops>>
       ELSE /\ memory' = Sampled(memory, day, equity)
            /\ seen' = Sampled(seen, day, equity)
            /\ loops' = Sampled(loops, day, equity)
            /\ SaveLossState(saves)
            /\ result' = IF side = "none" THEN "none"
                         ELSE IF saves /\ (side = "buy" => Within(memory', equity))
                         THEN side ELSE "refused"
    /\ UNCHANGED <<equity, day, up, unreadable, lossy>>

\* A loop that ends at a pending order samples nothing.
LoopUnresolved ==
    /\ up /\ loops' = Sampled(loops, day, equity) /\ result' = "none"
    /\ UNCHANGED <<equity, day, lossProcess, file, seen, lossy>>

-----------------------------------------------------------------------------
MarketMoves ==
    /\ equity' \in 1 .. MaxEquity \ {equity} /\ result' = "none"
    /\ UNCHANGED <<day, lossProcess, file, lossHistory>>

Midnight ==
    /\ day < MaxDay /\ day' = day + 1 /\ result' = "none"
    /\ UNCHANGED <<equity, lossProcess, file, lossHistory>>

Crash ==
    /\ up /\ up' = FALSE /\ memory' = Nothing /\ unreadable' = FALSE /\ result' = "none"
    /\ lossy' = (lossy \/ (~unreadable /\ (memory # file.at \/ ~file.ok)))
    /\ UNCHANGED <<equity, day, file, seen, loops>>

\* The file is replaced as a whole; damage to it comes from elsewhere.
FileDamaged ==
    /\ file.ok /\ file.at # Nothing /\ file' = [file EXCEPT !.ok = FALSE] /\ result' = "none"
    /\ UNCHANGED <<equity, day, lossProcess, lossHistory>>

\* The file is put back as it was.
FileRepaired ==
    /\ ~file.ok /\ ~up /\ file' = [file EXCEPT !.ok = TRUE] /\ result' = "none"
    /\ UNCHANGED <<equity, day, lossProcess, lossHistory>>

Wants == {"none", "buy", "sell"}

LossNext ==
    \/ Boot \/ Crash \/ LoopUnresolved
    \/ \E side \in Wants, known, saves \in BOOLEAN : Loop(side, known, saves)
    \/ MarketMoves \/ Midnight \/ FileDamaged \/ FileRepaired

LossSpec == LossInit /\ [][LossNext]_lossVars

-----------------------------------------------------------------------------
\* Every variable holds a value of its kind; a peak is never below its day's opening.
LossTypeOK ==
    /\ equity \in 1 .. MaxEquity /\ day \in 0 .. MaxDay
    /\ up \in BOOLEAN /\ unreadable \in BOOLEAN /\ lossy \in BOOLEAN
    /\ file \in [at : Measures, ok : BOOLEAN]
    /\ \A m \in {memory, file.at, seen, loops} : m \in Measures /\ m.open <= m.peak
    /\ result \in Wants \cup {"refused"}

\* A buy is within both limits measured over every sample ever taken, by this
\* process or an earlier one, unless a process died with samples it could not save.
BuysWithinSamples == result = "buy" /\ ~lossy => Within(seen, equity)

\* The same with no exception ("the day's opening equity and the peak survive a
\* restart", BrokerRiskInputs).
SurvivesRestart == result = "buy" => Within(seen, equity)

\* A buy is within both limits measured over the equity of every loop ("Loss limits
\* measure every loop", _sample_equity), while no restart has lost a sample.
MeasuresEveryLoop == result = "buy" /\ ~lossy => Within(loops, equity)
=============================================================================
