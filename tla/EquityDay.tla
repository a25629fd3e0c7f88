------------------------------ MODULE EquityDay ------------------------------
(***************************************************************************)
(* The equity curve and today's P/L.  The sampler reads the account, asks for   *)
(* a quote of every coin held, falls back on the last price it stored, and      *)
(* saves one snapshot; the reader subtracts the day's first from its latest.    *)
(* Meanwhile the venue's prices move, resting buys fill, quotes fail or answer   *)
(* late, and each write to the database may fail.  The sampler works under the   *)
(* trading lock, one sample at a time.                                      *)
(***************************************************************************)
EXTENDS Integers, Sequences, FiniteSets, FiniteSetsExt

CONSTANTS
    Coins, Bids,
    Cash,       \* dollars at the start
    DayLength,  \* ticks of a UTC day
    StaleAfter, \* age from which the latest snapshot is not current
    OneListing, \* the adapter derives positions from the balances just read
    MaxClock, MaxFills, MaxSamples, MaxFaults  \* bounds

Configured ==
    /\ Bids \subseteq Nat \ {0} /\ Cash \in Nat
    /\ DayLength \in Nat \ {0} /\ StaleAfter \in Nat \ {0} /\ OneListing \in BOOLEAN

VARIABLES
    clock,
    account,   \* the venue's: dollars and coins
    accounts,  \* every account the venue has had
    bid,       \* the venue's bid of each coin
    quoted,    \* every price the venue has had: coin, bid and time
    stored,    \* last price stored of each coin, bid 0 before there is one
    job,       \* the sample being taken
    samples,   \* snapshots saved, oldest first
    faults     \* failures so far

venue == <<account, accounts, bid, quoted>>
vars == <<clock, venue, stored, job, samples, faults>>

NoPrice == [bid |-> 0, at |-> 0]
Idle == [pc |-> "idle"]
Held(coins) == {c \in Coins : coins[c] # 0}
Fault == faults < MaxFaults /\ faults' = faults + 1

Init ==
    /\ clock = 0
    /\ account = [cash |-> Cash, coins |-> [c \in Coins |-> 0]]
    /\ accounts = {account}
    /\ bid \in [Coins -> Bids]
    /\ quoted = {[coin |-> c, bid |-> bid[c], at |-> 0] : c \in Coins}
    /\ stored = [c \in Coins |-> NoPrice]
    /\ job = Idle /\ samples = <<>> /\ faults = 0

-----------------------------------------------------------------------------
(* The venue                                                              *)
Tick ==
    /\ clock < MaxClock /\ clock' = clock + 1
    /\ \E b \in [Coins -> Bids] :
         /\ bid' = b
         /\ quoted' = quoted \cup {[coin |-> c, bid |-> b[c], at |-> clock + 1] : c \in Coins}
    /\ UNCHANGED <<account, accounts, stored, job, samples, faults>>

\* A resting buy fills.
Execute(c) ==
    /\ Cardinality(accounts) <= MaxFills /\ account.cash >= bid[c]
    /\ account' = [cash |-> account.cash - bid[c], coins |-> [account.coins EXCEPT ![c] = @ + 1]]
    /\ accounts' = accounts \cup {account'}
    /\ UNCHANGED <<clock, bid, quoted, stored, job, samples, faults>>

-----------------------------------------------------------------------------
(* EquitySampler                                                          *)
\* EquitySampler.run: one sample at a time, under the trading lock.
MaySample == job = Idle /\ Len(samples) < MaxSamples

\* The balances are read; positions follow from the same listing or from another.
ReadBalances ==
    /\ MaySample
    /\ job' = [pc |-> "positions", cash |-> account.cash, coins |-> account.coins]
    /\ UNCHANGED <<clock, venue, stored, samples, faults>>

\* Prices stored earlier are read with the clock, before the first quote; without the
\* database none is known (_stored_prices).
BeginValuing(cash, coins) ==
    \E known \in {stored, [c \in Coins |-> NoPrice]} :
        /\ IF known = stored THEN UNCHANGED faults ELSE Fault
        /\ job' = [pc |-> "quotes", cash |-> cash, coins |-> coins,
                   known |-> known, at |-> clock, prices |-> [c \in {} |-> NoPrice]]

ReadPositions ==
    /\ job.pc = "positions"
    /\ BeginValuing(job.cash, IF OneListing THEN job.coins ELSE account.coins)
    /\ UNCHANGED <<clock, venue, stored, samples>>

\* The caller gives the portfolio the reconciler has just read.
SampleState ==
    /\ MaySample
    /\ BeginValuing(account.cash, account.coins)
    /\ UNCHANGED <<clock, venue, stored, samples>>

\* The account cannot be read: the day's field stays missing.
ReadFails ==
    /\ job.pc = "positions" /\ Fault
    /\ job' = Idle
    /\ UNCHANGED <<clock, venue, stored, samples>>

\* LastPriceStore.record: a price observed before the stored one is not kept.
Record(price) ==
    [c \in Coins |-> IF c = price.coin /\ stored[c].at <= price.at
                     THEN [bid |-> price.bid, at |-> price.at] ELSE stored[c]]

Unquoted == Held(job.coins) \ DOMAIN job.prices
Priced(c, basis, price) ==
    [job EXCEPT !.prices = [x \in DOMAIN @ \cup {c} |->
        IF x = c THEN [basis |-> basis, bid |-> price.bid, at |-> price.at] ELSE @[x]]]

\* _fresh_mark: the venue answers, possibly with its last tick's quote; storing the
\* price may fail.
QuoteAnswers(c) ==
    /\ job.pc = "quotes" /\ c \in Unquoted
    /\ \E price \in {q \in quoted : q.coin = c /\ clock - q.at <= 1} :
         /\ job' = Priced(c, "fresh", price)
         /\ \/ stored' = Record(price) /\ UNCHANGED faults
            \/ UNCHANGED stored /\ Fault
    /\ UNCHANGED <<clock, venue, samples>>

QuoteFails(c) ==
    /\ job.pc = "quotes" /\ c \in Unquoted /\ Fault
    /\ job' = IF job.known[c] # NoPrice THEN Priced(c, "last_known", job.known[c])
              ELSE Priced(c, "unpriced", NoPrice)
    /\ UNCHANGED <<clock, venue, stored, samples>>

\* What some coins are worth at their bids.
Exposure(coins, prices, priced) == MapThenSumSet(LAMBDA c : coins[c] * prices[c].bid, priced)

\* Mutant: a coin that cannot be priced is left out of the sum.
ValueSkips ==
    [at |-> job.at, partial |-> FALSE, prices |-> job.prices,
     equity |-> job.cash + Exposure(job.coins, job.prices, DOMAIN job.prices)]

\* _value: no equity while a coin held has no price.
Value ==
    LET unpriced == \E c \in DOMAIN job.prices : job.prices[c].basis = "unpriced"
        exposure == Exposure(job.coins, job.prices, DOMAIN job.prices)
    IN  [at |-> job.at, partial |-> unpriced, prices |-> job.prices,
         equity |-> IF unpriced THEN 0 ELSE job.cash + exposure]

Save ==
    /\ job.pc = "quotes" /\ Unquoted = {}
    /\ job' = Idle
    /\ \/ samples' = Append(samples, Value) /\ UNCHANGED faults
       \/ UNCHANGED samples /\ Fault
    /\ UNCHANGED <<clock, venue, stored>>

Next ==
    \/ Tick \/ \E c \in Coins : Execute(c)
    \/ ReadBalances \/ ReadPositions \/ SampleState \/ ReadFails
    \/ \E c \in Coins : QuoteAnswers(c) \/ QuoteFails(c)
    \/ Save

Spec == Init /\ [][Next]_vars

-----------------------------------------------------------------------------
(* DayPnlReader                                                           *)
Day(at) == at \div DayLength
Today == {i \in DOMAIN samples : Day(samples[i].at) = Day(clock)}

DayPnl ==
    LET Earlier(i, j) == samples[i].at < samples[j].at
        firsts == {i \in Today : ~\E j \in Today : Earlier(j, i)}
        latests == {i \in Today : ~\E j \in Today : Earlier(i, j)}
    IN  {[first |-> f, latest |-> l, amount |-> samples[l].equity - samples[f].equity] :
            f \in firsts, l \in latests}

\* What is shown: rows of one instant are told apart by nothing the query orders by.
Shown ==
    {p \in DayPnl : /\ p.first # p.latest
                    /\ clock - samples[p.latest].at <= StaleAfter
                    /\ ~samples[p.first].partial /\ ~samples[p.latest].partial}

-----------------------------------------------------------------------------
(* Property                                                               *)
\* The snapshot is what some account the venue had was worth at prices it really quoted,
\* every coin of it priced, none of them quoted after the snapshot's last answer.
Real(i) ==
    \E a \in accounts :
        /\ DOMAIN samples[i].prices = Held(a.coins)
        /\ \A c \in Held(a.coins) :
             [coin |-> c, bid |-> samples[i].prices[c].bid, at |-> samples[i].prices[c].at]
                \in quoted
        /\ samples[i].equity = a.cash + Exposure(a.coins, samples[i].prices, Held(a.coins))

\* "A figure is reported only when it is real": the day's first and latest snapshots are
\* what the account was worth, no coin counted as zero and none counted with the dollars
\* that bought it (EquitySampler.sample, DayPnlReader.read).
PnlIsReal == \A p \in Shown : Real(p.first) /\ Real(p.latest)

\* A price is replaced only by one observed no earlier.
PricesAdvance == [][\A c \in Coins : stored'[c].at >= stored[c].at]_stored
=============================================================================
