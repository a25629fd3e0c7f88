---------------------------- MODULE ResearchJobs ----------------------------
(***************************************************************************)
(* The research workspace: reviewed assumptions, queued runs, worker threads.   *)
(* A page reviews a run and confirms it with a one-use token; a program queues   *)
(* it outright.  Runs work in threads under a time limit; a thread cannot be     *)
(* stopped, only its answer given up.  A request is the split of the dataset     *)
(* into walk-forward windows.                                               *)
(***************************************************************************)
EXTENDS Integers, Sequences, FiniteSets

CONSTANTS
    Bars,        \* candles of the dataset
    Forms,       \* splits sent: training, test, step (0 for none) and holdout bars
    DefaultBars, \* training and test bars of a form that gives none
    MaxCandles, MaxWindows, MaxActive, MaxStored, MaxPending, ReviewTtl,  \* the workspace's limits
    MaxReviews, MaxJobs, MaxClock  \* bounds

Configured ==
    /\ Bars \in Nat \ {0} /\ MaxActive \in Nat \ {0} /\ MaxStored \in Nat \ {0}
    /\ MaxPending \in Nat \ {0} /\ ReviewTtl \in Nat \ {0}
    /\ Forms \subseteq [train : Nat, test : Nat, step : Nat, holdout : Nat]
    /\ DefaultBars \in Nat \ {0} /\ MaxCandles \in Nat

VARIABLES
    clock,
    pending,  \* reviews not used: token, assumptions and expiry; tokens tell their order
    issued,   \* assumptions shown with each token ever given out
    runs,     \* runs ever queued: assumptions, the token they came with (0 for none), status
    jobs,     \* numbers of the runs the workspace keeps, which tell their order
    threads,  \* runs whose worker thread is at work
    closed    \* the workspace has been closed

vars == <<clock, pending, issued, runs, jobs, threads, closed>>

Active == {"queued", "running"}
IsActive(n) == runs[n].status \in Active
ActiveJobs == {n \in jobs : IsActive(n)}

Init ==
    /\ clock = 0 /\ pending = {} /\ issued = <<>>
    /\ runs = <<>> /\ jobs = {} /\ threads = {} /\ closed = FALSE

-----------------------------------------------------------------------------
(* Requests                                                               *)
\* ResearchRunRequest.from_mapping: no bars, and zero bars, are the default.
Parsed(form) ==
    [form EXCEPT !.train = IF @ = 0 THEN DefaultBars ELSE @,
                 !.test = IF @ = 0 THEN DefaultBars ELSE @]

\* The request is refused outside the workspace's sizes.
WellFormed(r) ==
    /\ r.train \in 1..MaxCandles /\ r.test \in 1..MaxCandles
    /\ r.step \in 0..MaxCandles /\ r.holdout \in 0..MaxCandles

Requests == {r \in {Parsed(form) : form \in Forms} : WellFormed(r)}

-----------------------------------------------------------------------------
(* Windows                                                                *)
Step(r) == IF r.step = 0 THEN r.test ELSE r.step

Available(r) == Bars - r.holdout

\* run_walk_forward: a window is its first training bar, first test bar and the bar after
\* its last; windows follow one another by the step while a whole one fits.
run_walk_forward(r) ==
    {[train |-> start, test |-> start + r.train, end |-> start + r.train + r.test] :
        start \in {s \in 0..Bars : s % Step(r) = 0 /\ s + r.train + r.test <= Available(r)}}

\* The count a review shows.
ReviewedWindows(r) == 1 + (Available(r) - r.train - r.test) \div Step(r)

\* validate_series: a test window or a holdout of one bar cannot be run.
Runnable(r) == r.test >= 2 /\ r.holdout # 1

validate_request(r) ==
    /\ Available(r) >= r.train + r.test
    /\ ReviewedWindows(r) <= MaxWindows
    /\ Cardinality(ActiveJobs) < MaxActive

-----------------------------------------------------------------------------
(* Reviews                                                                *)
\* Expired reviews are dropped, then the oldest until there is room.
create_review(r) ==
    /\ ~closed /\ validate_request(r) /\ Len(issued) < MaxReviews
    /\ LET live == {p \in pending : p.expires > clock}
           kept == {p \in live : Cardinality({q \in live : q.token >= p.token}) < MaxPending}
       IN  pending' = kept \cup {[token |-> Len(issued) + 1, request |-> r,
                                  expires |-> clock + ReviewTtl]}
    /\ issued' = Append(issued, r)
    /\ UNCHANGED <<clock, runs, jobs, threads, closed>>

\* Mutant: a confirmed review is looked up and left in place.
TakenStays(token) == pending

\* Any attempt uses the token up.
Taken(token) == {p \in pending : p.token # token}

-----------------------------------------------------------------------------
(* Runs                                                                   *)
\* Mutant: the oldest run is dropped whatever it is doing.
TrimmedBlindly(kept) == {n \in kept : Cardinality({m \in kept : m >= n}) < MaxStored}

\* The oldest runs are dropped down to the limit, up to the first that is active; the
\* run just added is.
Trimmed(kept) ==
    {n \in kept : \/ Cardinality({m \in kept : m >= n}) < MaxStored
                  \/ \E m \in kept : m <= n /\ IsActive(m)}

Submit(r, token) ==
    /\ validate_request(r) /\ Len(runs) < MaxJobs
    /\ runs' = Append(runs, [request |-> r, token |-> token, status |-> "queued"])
    /\ jobs' = Trimmed(jobs) \cup {Len(runs) + 1}

\* submit_research_run from a program: no review.
SubmitJson(r) ==
    /\ ~closed /\ Submit(r, 0)
    /\ UNCHANGED <<clock, pending, issued, threads, closed>>

\* The page confirms: the token is used up, and the run is queued if the review is live,
\* says the same and there is room.
Confirm(token, r) ==
    LET agreed == \E p \in pending : p.token = token /\ p.expires > clock /\ p.request = r
    IN  /\ ~closed
        /\ pending' = Taken(token)
        /\ \/ agreed /\ Submit(r, token)
           \/ ~(agreed /\ validate_request(r)) /\ UNCHANGED <<runs, jobs>>
        /\ UNCHANGED <<clock, issued, threads, closed>>

SetStatus(n, status) == runs' = [runs EXCEPT ![n].status = status]

\* _run: the job starts and its worker thread with it.
Start(n) ==
    /\ ~closed /\ runs[n].status = "queued" /\ SetStatus(n, "running")
    /\ threads' = threads \cup {n}
    /\ UNCHANGED <<clock, pending, issued, jobs, closed>>

\* The thread answers: a report, or the error that ended it.
Ends(n) ==
    /\ ~closed /\ runs[n].status = "running"
    /\ \/ Runnable(runs[n].request) /\ SetStatus(n, "complete")
       \/ SetStatus(n, "failed")
    /\ threads' = threads \ {n}
    /\ UNCHANGED <<clock, pending, issued, jobs, closed>>

\* The time limit passes: the run has failed and its thread works on.
TimesOut(n) ==
    /\ ~closed /\ runs[n].status = "running" /\ SetStatus(n, "failed")
    /\ UNCHANGED <<clock, pending, issued, jobs, threads, closed>>

\* A thread nobody waits for ends.
ThreadEnds(n) ==
    /\ closed \/ runs[n].status # "running"
    /\ threads' = threads \ {n}
    /\ UNCHANGED <<clock, pending, issued, runs, jobs, closed>>

\* close: what is running is canceled and keeps its status.
Close ==
    /\ ~closed /\ closed' = TRUE
    /\ UNCHANGED <<clock, pending, issued, runs, jobs, threads>>

Tick ==
    /\ clock < MaxClock /\ clock' = clock + 1
    /\ UNCHANGED <<pending, issued, runs, jobs, threads, closed>>

Next ==
    \/ \E r \in Requests : create_review(r) \/ SubmitJson(r)
    \/ \E r \in Requests, token \in 1..MaxReviews : Confirm(token, r)
    \/ \E n \in DOMAIN runs : Start(n) \/ Ends(n) \/ TimesOut(n)
    \/ \E n \in threads : ThreadEnds(n)
    \/ Close \/ Tick

Spec == Init /\ [][Next]_vars

-----------------------------------------------------------------------------
(* Properties                                                             *)
\* "Refuse stale, altered, or repeated confirmations": a run queued from the page has the
\* assumptions its own review showed, no review queues two runs, and a run not yet over
\* can still be read (consume_review, submit).
RunsAsReviewed ==
    /\ \A m, n \in DOMAIN runs :
         runs[n].token # 0 => /\ runs[n].request = issued[runs[n].token]
                              /\ runs[m].token = runs[n].token => m = n
    /\ \A n \in DOMAIN runs : IsActive(n) => n \in jobs

\* "keep the final holdout sealed": every window of a run that was let through trains
\* before it tests and ends before the holdout, and there are as many as the review
\* said (run_walk_forward, validate_request).
HoldoutSealed ==
    \A n \in DOMAIN runs :
        LET r == runs[n].request
        IN  /\ Cardinality(run_walk_forward(r)) = ReviewedWindows(r)
            /\ \A w \in run_walk_forward(r) : w.train < w.test /\ w.end <= Bars - r.holdout

\* "two active jobs": worker threads at work.
ThreadsBounded == Cardinality(threads) <= MaxActive

\* "24 retained jobs".
RetainedBounded == Cardinality(jobs) <= MaxStored

\* Invalid splits "are refused before the job is started".
AcceptedRuns == \A n \in DOMAIN runs : Runnable(runs[n].request)
=============================================================================
