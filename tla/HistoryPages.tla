---------------------------- MODULE HistoryPages ----------------------------
(***************************************************************************)
(* The operator's history: a reader walks a table page by page, newest first,  *)
(* while rows are recorded and change status.  A row carries the moment it was  *)
(* made and becomes visible when it is committed, which may be later.  Each SQL  *)
(* statement sees what is committed when it runs (PostgreSQL's default).        *)
(* The same reader looks at a chart's markers and at the refusals by gate.      *)
(***************************************************************************)
EXTENDS Integers, FiniteSets, FiniteSetsExt

CONSTANTS
    Rows,       \* the rows of a table: their keys, whose order says nothing of their age
    KindOf,     \* the table a marker comes from, for each row
    GateOf,     \* the gate a refusal is recorded under, for each row
    Gates,      \* the gates this build knows, RISK_GATES and UNGATED
    MaxClock,   \* the last moment
    MaxWindow,  \* the longest window a query may ask for
    MaxLimit    \* the most rows of a page, and of a chart

Configured ==
    /\ Rows \subseteq Int /\ IsFiniteSet(Rows) /\ IsFiniteSet(Gates)
    /\ MaxClock \in Nat /\ MaxWindow \in Nat \ {0} /\ MaxLimit \in Nat \ {0}

VARIABLES
    clock,
    at,      \* the moment of each row, 0 before it is made
    saved,   \* rows that are committed
    status,  \* of each row: "open" or "filled"
    pc,      \* where the reader is
    query,   \* what it asked for; the links of a page repeat it
    cursor,  \* the before parameter, NoCursor on the first page
    total,   \* the total it was told
    walked,  \* rows of the pages so far
    twice,   \* a row was on two pages (history)
    steady,  \* rows that have matched ever since it asked (history)
    report   \* the chart's markers or the refusals it was shown

table == <<clock, at, saved, status>>
vars == <<clock, at, saved, status, pc, query, cursor, total, walked, twice, steady, report>>

NoCursor == [at |-> 0, key |-> 0]
NoReport == [shown |-> {}, truncated |-> FALSE, refused |-> 0, listed |-> 0]
Queries == [since : 0 .. MaxClock, until : 1 .. MaxClock, limit : 1 .. MaxLimit,
            status : {"any", "open"}]
NoQuery == [since |-> 0, until |-> 1, limit |-> 1, status |-> "any"]

Init ==
    /\ clock = 1 /\ at = [r \in Rows |-> 0] /\ saved = {} /\ status = [r \in Rows |-> "open"]
    /\ pc = "idle" /\ query = NoQuery
    /\ cursor = NoCursor /\ total = 0 /\ walked = {} /\ twice = FALSE /\ steady = {}
    /\ report = NoReport

-----------------------------------------------------------------------------
(* What is recorded meanwhile.                                             *)
Tick == clock < MaxClock /\ clock' = clock + 1
        /\ UNCHANGED <<at, saved, status, pc, query, cursor, total, walked, twice, steady, report>>

Make(r) ==
    /\ at[r] = 0 /\ at' = [at EXCEPT ![r] = clock]
    /\ UNCHANGED <<clock, saved, status, pc, query, cursor, total, walked, twice, steady, report>>

Commit(r) ==
    /\ at[r] # 0 /\ r \notin saved /\ saved' = saved \cup {r}
    /\ UNCHANGED <<clock, at, status, pc, query, cursor, total, walked, twice, steady, report>>

Settle(r) ==
    /\ r \in saved /\ status[r] = "open" /\ status' = [status EXCEPT ![r] = "filled"]
    /\ steady' = IF query.status = "open" THEN steady \ {r} ELSE steady
    /\ UNCHANGED <<clock, at, saved, pc, query, cursor, total, walked, twice, report>>

-----------------------------------------------------------------------------
(* parse_query, the window and the filters                                  *)
Valid(q) ==
    /\ q.since < q.until /\ q.until - q.since <= MaxWindow
    /\ q.limit \in 1 .. MaxLimit

Matching(q) ==
    {r \in saved : at[r] \in q.since .. q.until /\ q.status \in {"any", status[r]}}

\* The order of a page, newest first: by moment, then by key.
Place(r) == [at |-> at[r], key |-> r]
Older(r, c) == at[r] < c.at \/ (at[r] = c.at /\ r < c.key)
Newest(S, n) == {r \in S : Cardinality({s \in S : Older(r, Place(s))}) < n}

\* Mutant: the cursor is a moment, without the key.
BeyondMoment(q, c) == {r \in Matching(q) : c = NoCursor \/ at[r] < c.at}

Beyond(q, c) == {r \in Matching(q) : c = NoCursor \/ Older(r, c)}

Ask(q) ==
    /\ pc = "idle" /\ Valid(q) /\ q.until <= clock
    /\ pc' = "count" /\ query' = q /\ cursor' = NoCursor
    /\ walked' = {} /\ steady' = Matching(q)
    /\ UNCHANGED <<table, total, twice, report>>

\* SqlAlchemyHistory._page: the total, then a page and one row more.
ReadTotal ==
    /\ pc = "count" /\ pc' = "rows" /\ total' = Cardinality(Matching(query))
    /\ UNCHANGED <<table, query, cursor, walked, twice, steady, report>>

ReadRows ==
    /\ pc = "rows"
    /\ LET found == Beyond(query, cursor)
           page == Newest(found, query.limit)
       IN /\ walked' = walked \cup page
          /\ twice' = (twice \/ page \cap walked # {})
          /\ IF Cardinality(found) > query.limit
             THEN /\ pc' = "page"
                  /\ cursor' = Place(CHOOSE r \in page : \A s \in page \ {r} : Older(r, Place(s)))
             ELSE pc' = "end" /\ UNCHANGED cursor
    /\ UNCHANGED <<table, query, total, steady, report>>

\* The link to the next page, and asking again after an answer of 503.
Follow ==
    /\ pc = "page" /\ pc' = "count"
    /\ UNCHANGED <<table, query, cursor, total, walked, twice, steady, report>>

Unavailable ==
    /\ pc \in {"count", "rows"} /\ pc' = "page"
    /\ UNCHANGED <<table, query, cursor, total, walked, twice, steady, report>>

Leave ==
    /\ pc \in {"page", "end", "shown"} /\ pc' = "idle"
    /\ query' = NoQuery /\ cursor' = NoCursor /\ total' = 0
    /\ walked' = {} /\ steady' = {} /\ report' = NoReport
    /\ UNCHANGED <<table, twice>>

-----------------------------------------------------------------------------
(* market_activity: three totals, then the newest rows of each table.  The end   *)
(* of its window is open.                                                  *)
Marked(q) == {r \in saved : at[r] >= q.since /\ at[r] < q.until}

AskMarkers(q) ==
    /\ pc = "idle" /\ Valid(q) /\ q.until <= clock + 1 /\ q.status = "any"
    /\ pc' = "totals" /\ query' = q
    /\ UNCHANGED <<table, cursor, total, walked, twice, steady, report>>

ReadTotals ==
    /\ pc = "totals" /\ pc' = "markers"
    /\ total' = Cardinality(Marked(query)) /\ steady' = Marked(query)
    /\ UNCHANGED <<table, query, cursor, walked, twice, report>>

ReadMarkers ==
    /\ pc = "markers" /\ pc' = "shown"
    /\ LET fetched == UNION {Newest({r \in Marked(query) : KindOf[r] = k}, MaxLimit + 1) :
                             k \in {KindOf[r] : r \in Rows}}
           cut == total > MaxLimit
       IN report' = [NoReport EXCEPT !.truncated = cut,
                                     !.shown = IF cut THEN Newest(fetched, MaxLimit) ELSE fetched]
    /\ UNCHANGED <<table, query, cursor, total, walked, twice, steady>>

-----------------------------------------------------------------------------
(* refusals: the outcomes, then the refusals of each gate; every gate of the      *)
(* table gets a line, known to this build or not.                            *)
AskRefusals(q) ==
    /\ pc = "idle" /\ Valid(q) /\ q.until <= clock /\ q.status = "any"
    /\ pc' = "outcomes" /\ query' = q
    /\ UNCHANGED <<table, cursor, total, walked, twice, steady, report>>

ReadOutcomes ==
    /\ pc = "outcomes" /\ pc' = "gates"
    /\ report' = [report EXCEPT !.refused = Cardinality(Matching(query))]
    /\ UNCHANGED <<table, query, cursor, total, walked, twice, steady>>

\* Mutant: only the gates this build knows have a line.
LinesKnown(S) == Gates

Lines(S) == Gates \cup {GateOf[r] : r \in S}

ReadGates ==
    /\ pc = "gates" /\ pc' = "shown"
    /\ LET S == Matching(query)
       IN report' = [report EXCEPT !.listed =
             MapThenSumSet(LAMBDA g : Cardinality({r \in S : GateOf[r] = g}), Lines(S))]
    /\ UNCHANGED <<table, query, cursor, total, walked, twice, steady>>

-----------------------------------------------------------------------------
Next ==
    \/ Tick \/ \E r \in Rows : Make(r) \/ Commit(r) \/ Settle(r)
    \/ \E q \in Queries : Ask(q) \/ AskMarkers(q) \/ AskRefusals(q)
    \/ ReadTotal \/ ReadRows \/ Follow \/ Unavailable \/ Leave
    \/ ReadTotals \/ ReadMarkers \/ ReadOutcomes \/ ReadGates

Spec == Init /\ [][Next]_vars

\* Every variable holds a value of its kind.
TypeOK ==
    /\ clock \in 1 .. MaxClock /\ at \in [Rows -> 0 .. MaxClock] /\ saved \subseteq Rows
    /\ pc \in {"idle", "count", "rows", "page", "end", "totals", "markers", "outcomes",
               "gates", "shown"}
    /\ query \in Queries /\ walked \subseteq Rows /\ steady \subseteq Rows

\* A walk shows no row twice, and at its end every row that has matched the query
\* since the walk began, whatever was recorded or settled between two pages.  The
\* refusals listed by gate are no fewer than the refusals reported (_page, refusals).
WalkIsExact ==
    /\ ~twice
    /\ pc = "end" => steady \subseteq walked
    /\ pc = "shown" => report.listed >= report.refused

\* A chart that is not marked as truncated shows every row that was there when it was
\* read ("the exact total is returned so a busy tile never looks complete when it was
\* truncated", api/history.py:520).
NeverLooksComplete == pc = "shown" /\ ~report.truncated /\ report.listed = 0 => steady \subseteq report.shown
=============================================================================
