-------------------------------- MODULE Books --------------------------------
(***************************************************************************)
(* What the system computes from the fills it saved.  The ledger projects the  *)
(* account from its opening and the fills, settling every amount as the venue   *)
(* does; the explanation and the divergence lines lay out how that differs from *)
(* the account; the dashboard's average price is walked from the same fills.    *)
(* One coin is traded against dollars, fills may be saved late and in any order, *)
(* and coins may come in from outside.  An average is a ratio <<n, d>>.         *)
(***************************************************************************)
EXTENDS Integers, Sequences, FiniteSetsExt

CONSTANTS
    Unit,       \* the venue's unit of a dollar balance
    OpeningUsd, \* dollars in the account at the baseline
    Sizes, Prices, Fees,
    FeeAssets,  \* of {"usd", "coin"}: what a fee may be charged in
    Transfers,  \* of {"in", "out"}: coins that move outside the fills
    MaxFills    \* bound on fills, and one transfer of each kind

Configured ==
    /\ Unit \in Nat \ {0} /\ OpeningUsd \in Nat /\ OpeningUsd % Unit = 0
    /\ Sizes \cup Prices \subseteq Nat \ {0} /\ Fees \subseteq Nat
    /\ FeeAssets \subseteq {"usd", "coin"} /\ Transfers \subseteq {"in", "out"}

VARIABLES
    account,  \* the venue's balance of each asset
    fills,    \* the fills at the venue, in the order of their times and ids
    moved,    \* transfers made: direction to coins
    basis,    \* average price of the coins held, as it really came about
    saved     \* numbers of the fills this system has saved

vars == <<account, fills, moved, basis, saved>>

Assets == {"coin", "usd"}
Unknown == <<0, 0>>
SameRatio(a, c) == a[1] * c[2] = c[1] * a[2]
Sign(side) == IF side = "buy" THEN 1 ELSE -1
Notional(f) == f.quantity * f.price

\* The account at the baseline holds dollars only.
Baseline == [a \in Assets |-> IF a = "usd" THEN OpeningUsd ELSE 0]

Init ==
    /\ account = Baseline
    /\ fills = <<>> /\ saved = {}
    /\ moved = [in |-> 0, out |-> 0]
    /\ basis = Unknown

-----------------------------------------------------------------------------
(* The ledger                                                             *)
\* The amounts a fill moves.
Moves(f) ==
    << [asset |-> "coin", amount |-> Sign(f.side) * f.quantity],
       [asset |-> "usd", amount |-> -(Sign(f.side) * Notional(f))],
       [asset |-> f.feeIn, amount |-> -f.fee] >>

\* Mutant: a debit is rounded away from zero instead of toward it.
ToZeroFloors(amount) == (amount \div Unit) * Unit

\* _toward_zero: whole units, dropping the remainder.
ToZero(amount) ==
    IF amount < 0 THEN -((-amount) \div Unit) * Unit ELSE (amount \div Unit) * Unit

Settled(m) == IF m.asset = "usd" THEN ToZero(m.amount) ELSE m.amount

\* What a fill's moves change an asset by, exactly and settled one by one.
Change(f, asset) ==
    LET In(m) == IF m.asset = asset THEN m.amount ELSE 0
    IN  In(Moves(f)[1]) + In(Moves(f)[2]) + In(Moves(f)[3])

SettledChange(f, asset) ==
    LET In(m) == IF m.asset = asset THEN Settled(m) ELSE 0
    IN  In(Moves(f)[1]) + In(Moves(f)[2]) + In(Moves(f)[3])

\* The average after a buy: new, blended, or unknown as what was held already.
Blend(quantity, average, f) ==
    CASE quantity = 0 -> <<Notional(f), f.quantity>>
      [] quantity # 0 /\ average = Unknown -> Unknown
      [] OTHER -> <<quantity * average[1] + Notional(f) * average[2],
                    average[2] * (quantity + f.quantity)>>

ApplyFill(state, f) ==
    [available |-> [a \in Assets |-> state.available[a] + SettledChange(f, a)],
     exact |-> [a \in Assets |-> state.exact[a] + Change(f, a)],
     quantity |-> state.quantity + Sign(f.side) * f.quantity,
     average |-> IF f.side = "buy" THEN Blend(state.quantity, state.average, f)
                 ELSE state.average]

AtBaseline == [available |-> Baseline, exact |-> Baseline, quantity |-> 0, average |-> Unknown]

\* The projection after each fill in the order of times and ids, over those numbered in ns.
Projected(ns) ==
    LET after[k \in 0 .. Len(fills)] ==
            IF k = 0 THEN AtBaseline
            ELSE IF k \in ns THEN ApplyFill(after[k - 1], fills[k]) ELSE after[k - 1]
    IN  after

apply_fills(ns) == Projected(ns)[Len(fills)]

\* The projection is refused when an amount would be negative, settled or exact.
Raises(projection) ==
    \E a \in Assets : projection.available[a] < 0 \/ projection.exact[a] < 0

-----------------------------------------------------------------------------
(* What differs, and why                                                  *)
\* _compared, _delta: the broker's amount less the local one.
Compared(local, broker) ==
    IF local = broker THEN {} ELSE {[field |-> "available", delta |-> broker - local]}

\* An asset with no amount is on that side's list not at all: no figure can be given.
field_changes(local, broker) ==
    IF local # broker /\ 0 \in {local, broker} THEN {[field |-> "presence"]}
    ELSE Compared(local, broker)

\* The items of one asset: each fill's own moves of it, unrounded.
explain_window(ns, asset) ==
    LET exact == Baseline[asset] + MapThenSumSet(LAMBDA k : Change(fills[k], asset), ns)
        projected == apply_fills(ns).available[asset]
    IN  [exact |-> exact, rounding |-> projected - exact, projected |-> projected,
         difference |-> account[asset] - projected]

-----------------------------------------------------------------------------
(* The average price from our fills                                       *)
\* Mutant: a sell of more than the fills bought is carried on below zero.
WalkFillGoesOn(state, f, feeInBase) ==
    LET baseFee == IF feeInBase THEN f.fee ELSE 0
    IN  [quantity |-> IF f.side = "buy" THEN state.quantity + f.quantity - baseFee
                      ELSE state.quantity - (f.quantity + baseFee),
         average |-> IF f.side = "buy" THEN <<Notional(f), f.quantity>> ELSE state.average]

\* One fill of _walk: below zero the walk starts again.
WalkFill(state, f, feeInBase) ==
    LET baseFee == IF feeInBase THEN f.fee ELSE 0
        quantity == IF f.side = "buy" THEN state.quantity + f.quantity - baseFee
                    ELSE state.quantity - (f.quantity + baseFee)
        average == CASE f.side = "sell" -> state.average
                     [] f.side = "buy" /\ state.average = Unknown -> <<Notional(f), f.quantity>>
                     [] OTHER -> Blend(state.quantity, state.average, f)
    IN  IF quantity < 0 THEN [quantity |-> 0, average |-> Unknown]
        ELSE [quantity |-> quantity, average |-> average]

\* The walk after each fill, in the order of their times and ids.
Walked(fs, feeInBase) ==
    LET after[k \in 0 .. Len(fs)] ==
            IF k = 0 THEN [quantity |-> 0, average |-> Unknown]
            ELSE WalkFill(after[k - 1], fs[k], feeInBase)
    IN  after

Walk(fs, feeInBase) ==
    LET end == Walked(fs, feeInBase)[Len(fs)]
    IN  IF end.quantity > 0 THEN end ELSE [end EXCEPT !.average = Unknown]

cost_from_fills(held, fs) ==
    LET inQuote == Walk(fs, FALSE)
        inBase == Walk(fs, TRUE)
        charged == \E i \in DOMAIN fs : fs[i].fee > 0
        Fits(r) == r.quantity = held /\ r.average # Unknown
        None(why) == [average |-> Unknown, reason |-> why]
    IN  IF fs = <<>> THEN None("no_fills")
        ELSE IF Fits(inQuote) THEN [average |-> inQuote.average, reason |-> "none"]
        ELSE IF charged /\ Fits(inBase) THEN [average |-> inBase.average, reason |-> "none"]
        ELSE IF inQuote.quantity > held THEN None("excess") ELSE None("not_covered")

-----------------------------------------------------------------------------
(* The venue                                                              *)
\* How the venue settles an amount: dollars in whole units, the remainder dropped.
VenueSettles(m) ==
    CASE m.asset = "coin" -> m.amount
      [] m.asset = "usd" /\ m.amount >= 0 -> m.amount - (m.amount % Unit)
      [] OTHER -> m.amount + ((-m.amount) % Unit)

Paid(f, asset) ==
    LET In(m) == IF m.asset = asset THEN VenueSettles(m) ELSE 0
    IN  In(Moves(f)[1]) + In(Moves(f)[2]) + In(Moves(f)[3])

Trade(f) ==
    /\ Len(fills) < MaxFills
    /\ \A a \in Assets : account[a] + Change(f, a) >= 0
    /\ fills' = Append(fills, f)
    /\ account' = [a \in Assets |-> account[a] + Paid(f, a)]
    /\ basis' = IF f.side = "buy" THEN Blend(account.coin, basis, f) ELSE basis
    /\ UNCHANGED <<moved, saved>>

Transfer(way) ==
    /\ way \in Transfers /\ moved[way] = 0
    /\ way = "out" => account.coin > 0
    /\ moved' = [moved EXCEPT ![way] = 1]
    /\ account' = [account EXCEPT !.coin = @ + (IF way = "in" THEN 1 ELSE -1)]
    /\ basis' = IF way = "in" THEN Unknown ELSE basis
    /\ UNCHANGED <<fills, saved>>

\* A fill is saved, whenever the venue is asked about its order.
Save(n) ==
    /\ n \notin saved /\ saved' = saved \cup {n}
    /\ UNCHANGED <<account, fills, moved, basis>>

NewFills == [side : {"buy", "sell"}, quantity : Sizes, price : Prices, fee : Fees,
             feeIn : FeeAssets]

Next ==
    \/ \E f \in NewFills : Trade(f)
    \/ \E way \in Transfers : Transfer(way)
    \/ \E n \in DOMAIN fills : Save(n)

Spec == Init /\ [][Next]_vars

-----------------------------------------------------------------------------
(* Properties                                                             *)
\* What the venue paid for the first fills, in all and for those not saved.
Settles(fs, without, asset) ==
    LET after[k \in 0 .. Len(fs)] ==
            IF k = 0 THEN 0
            ELSE after[k - 1] + IF k \in without THEN 0 ELSE Paid(fs[k], asset)
    IN  after

MovedIn(asset) == IF asset = "coin" THEN moved.in - moved.out ELSE 0

\* What an asset holds that the saved fills do not account for.
Missing(asset) == Settles(fills, saved, asset)[Len(fills)] + MovedIn(asset)

\* A projection that stands differs from the account by exactly what the unsaved fills
\* and the transfers moved, to the venue's last unit: with nothing missing no divergence
\* is logged and the explanation's difference is zero, and a logged delta is the missing
\* amount (apply_fills, explain_window, field_changes).
DivergenceIsWhatIsMissing ==
    LET projection == apply_fills(saved)
    IN  ~Raises(projection) => \A a \in Assets :
            LET changes == field_changes(projection.available[a], account[a])
            IN  /\ explain_window(saved, a).difference = Missing(a)
                /\ changes = {} <=> Missing(a) = 0
                /\ \A c \in changes : c.field = "available" => c.delta = Missing(a)

\* The average shown "from our fills" is the one the coins held really have: units from
\* outside are never priced by our fills, and while only fills moved the coins, with
\* every fee charged in one asset, a price is shown (cost_from_fills).  A fee charged in
\* coins can hide an equal transfer, so the two are not taken together.
CostIsReal ==
    LET cost == cost_from_fills(account.coin, fills)
        transferred == moved.in + moved.out > 0
        FeesIn(asset) == \A i \in DOMAIN fills : fills[i].fee > 0 => fills[i].feeIn = asset
    IN  /\ saved = DOMAIN fills
        /\ transferred => FeesIn("usd")
        => /\ cost.average # Unknown => basis # Unknown /\ SameRatio(cost.average, basis)
           /\ ~transferred /\ account.coin > 0 /\ (FeesIn("usd") \/ FeesIn("coin")) =>
                cost.average # Unknown

\* "the positions ... the broker should report after ``fills``".
PositionsFollow ==
    saved = DOMAIN fills /\ moved.in + moved.out = 0 =>
        apply_fills(DOMAIN fills).quantity = account.coin

\* "A projection that goes negative is a local accounting failure."
NegativeIsAFailure ==
    saved = DOMAIN fills /\ moved.in + moved.out = 0 => ~Raises(apply_fills(DOMAIN fills))

=============================================================================
