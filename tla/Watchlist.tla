------------------------------ MODULE Watchlist ------------------------------
(***************************************************************************)
(* The watchlist and the store-only feed that collects candles for its       *)
(* coins.  Requests to add a coin wait for the provider's answer before they *)
(* save; the feed's loop reads the list once per cycle and then works        *)
(* through it while the list changes, time passes and wake() is called.      *)
(*                                                                         *)
(* A tick is a minute.  Candles are abstracted to whether the coin's have    *)
(* been collected since it was put on the list.                            *)
(***************************************************************************)
EXTENDS Integers, SequencesExt

CONSTANTS
    Symbols,    \* USD products
    Trading,    \* the ones in PAPER_SYMBOLS
    Bad,        \* the ones the provider may fail to answer for
    Requests,   \* requests to add a coin that may be under way together
    Limit,      \* WATCHLIST_LIMIT
    Bucket,     \* minutes in a bucket
    MaxBackoff, \* MAX_BACKOFF in minutes
    None

ASSUME SymbolsAssumption == Trading \subseteq Symbols /\ Bad \subseteq Symbols /\ None \notin Symbols
ASSUME LimitsAssumption ==
    Limit \in Nat \ {0} /\ Bucket \in Nat \ {0} /\ MaxBackoff \in Nat \ {0}

VARIABLES
    list,   \* the saved order
    audit,  \* the order in the newest watchlist_change event
    adding, \* the symbol each add request has asked the provider about
    pc,     \* "idle" or "cycle"
    symbols,\* the watch-only symbols the cycle has read
    todo,   \* the ones it has still to collect
    age,    \* minutes since the cycle's start
    wake,   \* the wake event
    due,    \* the wait for the next bucket is over
    phase,  \* minutes left in the bucket
    fails,  \* failures in a row, per symbol
    until,  \* minutes until next_attempt_at, per symbol
    have,   \* watched symbols whose candles have been collected
    pruned, \* what the last prune worked on (history)
    asked,  \* wake() was called and no cycle has started since (history)
    since   \* minutes since the symbol's last failure (history)

saved == <<list, audit, adding>>
loop == <<pc, symbols, todo, age, due, phase>>
status == <<fails, until, have, since>>
vars == <<saved, loop, wake, status, pruned, asked>>

Watched == ToSet(list)

\* One event loop: a request or the clock gets a turn only where the feed waits,
\* for the provider or for its next cycle.
Waits == pc = "idle" \/ todo # <<>>

Least(a, b) == IF a < b THEN a ELSE b
MaxFails == MaxBackoff + 1

Init ==
    /\ list = <<>> /\ audit = <<>> /\ adding = [r \in Requests |-> None]
    /\ pc = "idle" /\ symbols = {} /\ todo = <<>> /\ age = 0
    /\ wake = FALSE /\ due = TRUE /\ phase = Bucket
    /\ fails = [s \in Symbols |-> 0] /\ until = [s \in Symbols |-> 0]
    /\ have = {} /\ pruned = {} /\ asked = FALSE
    /\ since = [s \in Symbols |-> MaxBackoff]

-----------------------------------------------------------------------------
(* The watchlist's requests.  Each change is one transaction with its event. *)
Change(order) == Waits /\ list' = order /\ audit' = order

\* add_symbol up to check_product, whose answer it waits for.
AddStart(r, s) ==
    /\ Waits /\ adding[r] = None /\ s \notin Watched /\ Len(list) < Limit
    /\ adding' = [adding EXCEPT ![r] = s]
    /\ UNCHANGED <<list, audit, loop, wake, status, pruned, asked>>

\* The provider does not list the symbol, or the database is unavailable.
AddFails(r) ==
    /\ Waits /\ adding[r] # None
    /\ adding' = [adding EXCEPT ![r] = None]
    /\ UNCHANGED <<list, audit, loop, wake, status, pruned, asked>>

\* SqlAlchemyWatchlist.add checks again and saves; then the feed is woken.
AddSave(r) ==
    /\ adding[r] # None /\ adding[r] \notin Watched /\ Len(list) < Limit
    /\ Change(Append(list, adding[r]))
    /\ adding' = [adding EXCEPT ![r] = None]
    /\ wake' = TRUE /\ asked' = TRUE
    /\ UNCHANGED <<loop, status, pruned>>

RemoveSymbol(s) ==
    /\ \E i \in DOMAIN list : list[i] = s /\ Change(RemoveAt(list, i))
    /\ have' = have \ {s}
    /\ UNCHANGED <<adding, loop, wake, fails, until, since, pruned, asked>>

\* reorder_symbols moves one coin a step.
MoveDown(i) ==
    /\ i + 1 \in DOMAIN list
    /\ Change([list EXCEPT ![i] = list[i + 1], ![i + 1] = list[i]])
    /\ UNCHANGED <<adding, loop, wake, status, pruned, asked>>

-----------------------------------------------------------------------------
(* WatchOnlyFeed.run                                                        *)

WatchOnly == Watched \ Trading

\* The coins of some set in the order of the list.
InListOrder(coins) ==
    {order \in [1 .. Cardinality(coins) -> coins] :
        \A j, k \in DOMAIN order : j < k =>
            \E a, b \in DOMAIN list : a < b /\ list[a] = order[j] /\ list[b] = order[k]}

\* run_cycle reads the list, forgets the status of coins that have left it and
\* passes over the ones that wait.
CycleStart ==
    LET kept(f) == [s \in Symbols |-> IF s \in WatchOnly THEN f[s] ELSE 0] IN
    /\ pc = "idle" /\ (wake \/ due)
    /\ pc' = "cycle" /\ age' = 0 /\ asked' = FALSE
    /\ symbols' = WatchOnly
    /\ fails' = kept(fails) /\ until' = kept(until)
    /\ todo' \in InListOrder({s \in WatchOnly : until[s] = 0})
    /\ UNCHANGED <<saved, due, phase, wake, have, since, pruned>>

CollectWorks ==
    LET s == Head(todo) IN
    /\ pc = "cycle" /\ todo # <<>>
    /\ todo' = Tail(todo)
    /\ have' = IF s \in Watched THEN have \cup {s} ELSE have
    /\ fails' = [fails EXCEPT ![s] = 0] /\ until' = [until EXCEPT ![s] = 0]
    /\ UNCHANGED <<saved, pc, symbols, age, due, phase, wake, since, pruned, asked>>

\* Mutant: the failure ends the cycle.
CollectEscapes ==
    /\ pc = "cycle" /\ todo # <<>> /\ Head(todo) \in Bad
    /\ todo' = <<>>
    /\ UNCHANGED <<saved, pc, symbols, age, due, phase, wake, status, pruned, asked>>

Backoff(n) == IF n = 0 THEN 0 ELSE Least(MaxBackoff, 2 ^ (n - 1))

\* _fail: next_attempt_at counts from the start of the cycle.
CollectFails ==
    LET s == Head(todo)
        n == Least(fails[s] + 1, MaxFails) IN
    /\ pc = "cycle" /\ todo # <<>> /\ s \in Bad
    /\ todo' = Tail(todo)
    /\ fails' = [fails EXCEPT ![s] = n]
    /\ until' = [until EXCEPT ![s] = IF Backoff(n) > age THEN Backoff(n) - age ELSE 0]
    /\ since' = [since EXCEPT ![s] = 0]
    /\ UNCHANGED <<saved, pc, symbols, age, due, phase, wake, have, pruned, asked>>

\* _prune at most hourly, on what the cycle has read; then the wait, for a new
\* call of wake() or the next bucket.
CycleEnd ==
    /\ pc = "cycle" /\ todo = <<>>
    /\ pruned' \in {pruned, symbols}
    /\ pc' = "idle" /\ wake' = FALSE /\ due' = FALSE
    /\ UNCHANGED <<saved, symbols, todo, age, phase, status, asked>>

Tick ==
    /\ Waits
    /\ phase' = IF phase = 1 THEN Bucket ELSE phase - 1
    /\ due' = (due \/ (pc = "idle" /\ phase = 1))
    /\ age' = Least(age + 1, MaxBackoff)
    /\ until' = [s \in Symbols |-> IF until[s] = 0 THEN 0 ELSE until[s] - 1]
    /\ since' = [s \in Symbols |-> Least(since[s] + 1, MaxBackoff)]
    /\ UNCHANGED <<saved, pc, symbols, todo, wake, fails, have, pruned, asked>>

Next ==
    \/ \E r \in Requests :
          \/ \E s \in Symbols : AddStart(r, s)
          \/ AddFails(r) \/ AddSave(r)
    \/ \E s \in Symbols : RemoveSymbol(s)
    \/ \E i \in 1 .. Limit : MoveDown(i)
    \/ CycleStart \/ CollectWorks \/ CollectFails \/ CycleEnd
    \/ Tick

\* The loop runs and time passes; the provider answers, one way or the other.
Spec ==
    /\ Init /\ [][Next]_vars
    /\ WF_vars(CycleStart) /\ WF_vars(CollectWorks \/ CollectFails)
    /\ WF_vars(CycleEnd) /\ WF_vars(Tick)

-----------------------------------------------------------------------------
\* Every variable holds a value of its kind.
TypeOK ==
    /\ ToSet(list) \cup symbols \cup ToSet(todo) \subseteq Symbols
    /\ adding \in [Requests -> Symbols \cup {None}]
    /\ pc \in {"idle", "cycle"} /\ age \in 0 .. MaxBackoff
    /\ {wake, due, asked} \subseteq BOOLEAN /\ phase \in 1 .. Bucket
    /\ fails \in [Symbols -> 0 .. MaxFails]
    /\ until \in [Symbols -> 0 .. MaxBackoff] /\ since \in [Symbols -> 0 .. MaxBackoff]
    /\ have \subseteq Watched /\ pruned \subseteq Symbols

\* "Up to nine coins", each once, and a change cannot exist without its audit
\* record: also when several requests were told the coin may be added.
ListSound ==
    /\ Len(list) <= Limit /\ Cardinality(Watched) = Len(list)
    /\ audit = list

\* The feed neither collects nor prunes a symbol the trading feed collects.
TradingUntouched == (have \cup pruned) \cap Trading = {}

\* A coin the provider answers for is collected after every time it is put on
\* the list and stays there, whatever happens to the others.
EachCoinCollected ==
    \A s \in Symbols \ (Trading \cup Bad) : []<>(s \in have \/ s \notin Watched)

\* "A cycle runs ... immediately after a coin is added": the loop never goes to
\* wait over a call of wake() that no cycle has answered.
WakesAtOnce == pc = "idle" /\ asked => wake

\* "A failing symbol: retried after 1, 2, 4 ... minutes; never sooner."
NeverSooner ==
    [][ pc' = "cycle" /\ todo' # <<>> /\ (pc = "idle" \/ todo' # todo)
        => since'[Head(todo')] >= Backoff(fails'[Head(todo')])]_vars

\* "It can only delete candles of symbols that are currently watched."
PrunesOnlyWatched == [][pruned' # pruned => pruned' \subseteq Watched]_vars
=============================================================================
