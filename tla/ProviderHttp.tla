---------------------------- MODULE ProviderHttp ----------------------------
(***************************************************************************)
(* The client every provider call goes through: a circuit breaker, a token   *)
(* bucket, bounded retries of throttled requests and one refresh of rejected *)
(* credentials.  Calls overlap: each waits for a token and for its answer     *)
(* while the others change the breaker it has already passed.               *)
(***************************************************************************)
EXTENDS Integers, FiniteSets

CONSTANTS
    Calls,      \* calls that may be under way together
    Capacity,   \* tokens the bucket holds
    MaxRetries, \* max_429_retries
    Threshold,  \* failure_threshold
    Recovery,   \* recovery_timeout in ticks
    Patience    \* how long acquire waits, in ticks; one token is added per tick

ASSUME CountsAssumption ==
    /\ Capacity \in Nat \ {0} /\ MaxRetries \in Nat /\ Threshold \in Nat \ {0}
    /\ Recovery \in Nat \ {0} /\ Patience \in Nat

VARIABLES
    pc,       \* what each call is doing
    attempt,  \* its 429 answers so far
    renewed,  \* it has refreshed its credentials
    patience, \* ticks it still waits for a token
    state,    \* the breaker: "closed", "open" or "half_open"
    failures,
    openFor,  \* ticks since the breaker opened
    tokens,   \* tokens when last refilled
    idle,     \* ticks since then
    applied,  \* times the provider has carried out the call (history)
    sends     \* ages of the recent sends, one per call of the limiter (history)

call == <<pc, attempt, renewed, patience>>
breaker == <<state, failures, openFor>>
bucket == <<tokens, idle>>
vars == <<call, breaker, bucket, applied, sends>>

Least(a, b) == IF a < b THEN a ELSE b
Span == Capacity + 2
Answer == {"ok", "refused", "unauthorized", "throttled", "error", "timeout"}

Init ==
    /\ pc = [c \in Calls |-> "idle"] /\ attempt = [c \in Calls |-> 0]
    /\ renewed = [c \in Calls |-> FALSE] /\ patience = [c \in Calls |-> 0]
    /\ state = "closed" /\ failures = 0 /\ openFor = 0
    /\ tokens = Capacity /\ idle = 0
    /\ applied = [c \in Calls |-> 0] /\ sends = [w \in 0 .. Span |-> 0]

Go(c, label) == pc' = [pc EXCEPT ![c] = label]

-----------------------------------------------------------------------------
(* CircuitBreaker                                                           *)
RecordSuccess == state' = "closed" /\ failures' = 0 /\ openFor' = 0

RecordFailure ==
    /\ failures' = Least(failures + 1, Threshold)
    /\ IF failures + 1 >= Threshold
       THEN state' = "open" /\ openFor' = 0
       ELSE UNCHANGED <<state, openFor>>

\* allow_request: an open circuit is half open once Recovery has passed.
Allowed == state # "open" \/ openFor >= Recovery
AllowRequest == state' = IF state = "open" /\ Allowed THEN "half_open" ELSE state

-----------------------------------------------------------------------------
(* TokenBucketRateLimiter.try_acquire                                       *)
Refilled == Least(Capacity, tokens + idle)

TryAgain(c) ==
    /\ pc[c] = "acquire" /\ patience[c] > 0 /\ Refilled < 1
    /\ tokens' = Refilled /\ idle' = 0
    /\ UNCHANGED <<call, breaker, applied, sends>>

-----------------------------------------------------------------------------
(* ProviderHTTPClient.request_json and _request_once                        *)
Begin(c) ==
    /\ pc[c] = "idle" /\ Go(c, "admit")
    /\ attempt' = [attempt EXCEPT ![c] = 0] /\ renewed' = [renewed EXCEPT ![c] = FALSE]
    /\ applied' = [applied EXCEPT ![c] = 0]
    /\ UNCHANGED <<patience, breaker, bucket, sends>>

Admit(c) ==
    /\ pc[c] = "admit" /\ Allowed /\ AllowRequest
    /\ Go(c, "acquire") /\ patience' = [patience EXCEPT ![c] = Patience]
    /\ UNCHANGED <<attempt, renewed, failures, openFor, bucket, applied, sends>>

CircuitOpen(c) ==
    /\ pc[c] = "admit" /\ ~Allowed /\ Go(c, "idle")
    /\ UNCHANGED <<attempt, renewed, patience, breaker, bucket, applied, sends>>

Acquire(c) ==
    /\ pc[c] = "acquire" /\ Refilled >= 1
    /\ tokens' = Refilled - 1 /\ idle' = 0
    /\ Go(c, "sent") /\ sends' = [sends EXCEPT ![0] = @ + 1]
    /\ UNCHANGED <<attempt, renewed, patience, breaker, applied>>

\* Mutant: the wait for a token has no end.
WaitsForEver(c) == FALSE /\ UNCHANGED vars

RateLimitExceeded(c) ==
    /\ pc[c] = "acquire" /\ Refilled < 1 /\ patience[c] = 0
    /\ tokens' = Refilled /\ idle' = 0
    /\ Go(c, "idle")
    /\ UNCHANGED <<attempt, renewed, patience, breaker, applied, sends>>

\* What the provider has done with a request it answers this way.
Carried(c, answer) ==
    \/ answer \in {"ok", "error", "timeout"} /\ applied' = [applied EXCEPT ![c] = @ + 1]
    \/ answer # "ok" /\ UNCHANGED applied

\* Mutant: an answer of 500 is retried like one of 429.
RetriedError(c, answer) == answer \in {"throttled", "error"} /\ attempt[c] < MaxRetries

Retried(c, answer) == answer = "throttled" /\ attempt[c] < MaxRetries

Throttled(c) ==
    /\ pc[c] = "sent" /\ \E answer \in Answer : Retried(c, answer) /\ Carried(c, answer)
    /\ attempt' = [attempt EXCEPT ![c] = @ + 1] /\ Go(c, "sleep")
    /\ UNCHANGED <<renewed, patience, breaker, bucket, sends>>

Renew(c) ==
    /\ pc[c] = "sent" /\ ~renewed[c] /\ Carried(c, "unauthorized")
    /\ renewed' = [renewed EXCEPT ![c] = TRUE]
    /\ attempt' = [attempt EXCEPT ![c] = 0] /\ Go(c, "admit")
    /\ UNCHANGED <<patience, breaker, bucket, sends>>

Answered(c, answer) ==
    /\ pc[c] = "sent" /\ ~Retried(c, answer)
    /\ answer = "unauthorized" => renewed[c]
    /\ Carried(c, answer)
    /\ CASE answer = "ok" -> RecordSuccess
         [] answer \in {"throttled", "error", "timeout"} -> RecordFailure
         [] OTHER -> UNCHANGED breaker
    /\ Go(c, "idle")
    /\ UNCHANGED <<attempt, renewed, patience, bucket, sends>>

BackedOff(c) ==
    /\ pc[c] = "sleep" /\ Go(c, "admit")
    /\ UNCHANGED <<attempt, renewed, patience, breaker, bucket, applied, sends>>

\* The healthy property is allow_request too: asking half opens the circuit.
Healthy ==
    /\ Allowed /\ AllowRequest /\ state' # state
    /\ UNCHANGED <<call, failures, openFor, bucket, applied, sends>>

Tick ==
    /\ openFor' = IF state = "open" THEN Least(openFor + 1, Recovery) ELSE openFor
    /\ idle' = Least(idle + 1, Capacity)
    /\ patience' = [c \in Calls |-> IF pc[c] = "acquire" /\ patience[c] > 0
                                    THEN patience[c] - 1 ELSE patience[c]]
    /\ sends' = [w \in 0 .. Span |-> IF w = 0 THEN 0 ELSE sends[w - 1]]
    /\ UNCHANGED <<pc, attempt, renewed, state, failures, tokens, applied>>

Step(c) ==
    \/ Begin(c) \/ Admit(c) \/ CircuitOpen(c) \/ Acquire(c) \/ TryAgain(c)
    \/ RateLimitExceeded(c) \/ Throttled(c) \/ Renew(c) \/ BackedOff(c)
    \/ \E answer \in Answer : Answered(c, answer)

Next == (\E c \in Calls : Step(c)) \/ Healthy \/ Tick

\* The event loop runs every task, a request is answered or times out, and calls
\* are made for ever.
Spec ==
    /\ Init /\ [][Next]_vars /\ WF_vars(Tick)
    /\ \A c \in Calls :
          /\ WF_vars(Begin(c)) /\ WF_vars(Admit(c) \/ CircuitOpen(c))
          /\ WF_vars(Acquire(c) \/ TryAgain(c) \/ RateLimitExceeded(c))
          /\ WF_vars(BackedOff(c))
          /\ WF_vars(Throttled(c) \/ Renew(c) \/ \E answer \in Answer : Answered(c, answer))

-----------------------------------------------------------------------------
\* Every variable holds a value of its kind; a circuit is closed exactly while
\* it has seen fewer than Threshold failures since its last success, so that one
\* failure of a half-open circuit opens it again.
TypeOK ==
    /\ pc \in [Calls -> {"idle", "admit", "acquire", "sent", "sleep"}]
    /\ attempt \in [Calls -> 0 .. MaxRetries] /\ renewed \in [Calls -> BOOLEAN]
    /\ patience \in [Calls -> 0 .. Patience]
    /\ state \in {"closed", "open", "half_open"}
    /\ failures \in 0 .. Threshold /\ openFor \in 0 .. Recovery
    /\ (state = "closed") = (failures < Threshold)
    /\ tokens \in 0 .. Capacity /\ idle \in 0 .. Capacity

\* A call that changes something at the provider, an order above all, is carried
\* out at most once however often it is sent again: only answers that say it was
\* not carried out are retried.
AppliedOnce == \A c \in Calls : applied[c] <= 1

SentWithin[w \in 0 .. Span] == IF w = 0 THEN sends[0] ELSE sends[w] + SentWithin[w - 1]

\* In no stretch of up to Span ticks are more requests sent than the bucket holds and
\* one for each tick of it, whoever sends them.
RateBound == \A w \in 0 .. Span : SentWithin[w] <= Capacity + w

\* No call waits for ever, for a token, an answer or a delay.
EveryCallEnds == \A c \in Calls : pc[c] # "idle" ~> pc[c] = "idle"

\* Requests are always let through again, however long the provider fails.
NeverStuckOpen == []<>(state # "open")
=============================================================================
