---------------------------- MODULE ModelRouter ----------------------------
(***************************************************************************)
(* ModelRouter._execute (northforge/providers/router.py) run concurrently  *)
(* by the job slots of one process: candidate selection, the circuit       *)
(* breakers, the two semaphores of ConcurrencyLimiter, RetryPolicy and     *)
(* fallback.  A caller is one job slot; it makes router calls one after    *)
(* the other, each for a role.                                             *)
(*                                                                         *)
(* Every action is the code between two awaits, except that each candidate *)
(* of the loop is examined in a step of its own and that taking a free     *)
(* semaphore is a step: asyncio would not switch tasks there, so the model *)
(* has every interleaving of the program and a few more.                   *)
(***************************************************************************)
EXTENDS CircuitBreaker

CONSTANTS
    Callers,        \* job slots of the process (arq's max_jobs)
    Models,         \* model ids
    Roles,          \* model roles, each with the operation asked of it
    Route,          \* role -> <<primary, fallbacks...>>; <<>> when disabled
    Capable,        \* role -> models the registry accepts for the operation
    Answers,        \* failures the provider may answer an attempt with
    MaxAttempts,    \* RetryPolicy.max_attempts
    PerProvider,    \* model_provider_concurrency
    PerModel        \* model_per_model_concurrency

FallbackCategories == {"rate_limited", "unavailable", "timeout"}
BreakerCategories == {"rate_limited", "unavailable", "timeout"}
Retryable == {"rate_limited", "unavailable", "timeout"}
Categories ==
    FallbackCategories
      \cup {"auth", "bad_request", "malformed_output", "not_configured", "capability"}

ASSUME RouterAssumption ==
    /\ Route \in [Roles -> Seq(Models)]
    /\ Capable \in [Roles -> SUBSET Models]
    /\ Answers \subseteq Categories
    /\ MaxAttempts \in Nat \ {0}
    /\ PerProvider \in Nat \ {0}
    /\ PerModel \in Nat \ {0}
    /\ IsFiniteSet(Callers)

VARIABLES
    breakers,       \* CircuitBreakerRegistry: model -> breaker
    providerFree,   \* value of the provider's semaphore
    modelFree,      \* model -> value of its semaphore
    pc,             \* where each caller is in _execute
    role,           \* the role of its current (or last) call
    cand,           \* index of the candidate being examined
    attempt,        \* RetryPolicy.run's attempt counter
    lastError,      \* _execute's last_error
    outcome,        \* how its last call ended
    verdicts,       \* history: what became of each candidate examined
    traced,         \* history: ModelInvocationRecords this call emitted
    probing         \* history: admitted as the probe of a half-open breaker

limits == <<providerFree, modelFree>>
history == <<verdicts, traced, probing>>
vars == <<breakers, limits, pc, role, cand, attempt, lastError, outcome, history>>

NoError == "none"
Ended == {"ok", "incapable", "circuit_open", "disabled", "aborted"} \cup Categories
Verdicts == {"ok", "incapable", "circuit_open"} \cup Categories

TypeOK ==
    /\ breakers \in [Models -> Breaker]
    /\ providerFree \in Nat
    /\ modelFree \in [Models -> Nat]
    /\ pc \in [Callers -> {"idle", "select", "await_provider", "await_model",
                           "calling", "backoff"}]
    /\ role \in [Callers -> Roles]
    /\ cand \in [Callers -> Nat \ {0}]
    /\ attempt \in [Callers -> 1..MaxAttempts]
    /\ lastError \in [Callers -> {NoError, "circuit_open"} \cup Categories]
    /\ outcome \in [Callers -> {"none"} \cup Ended]
    /\ verdicts \in [Callers -> Seq(Verdicts)]
    /\ traced \in [Callers -> Nat]
    /\ probing \in [Callers -> BOOLEAN]
    /\ \A c \in Callers :
         /\ pc[c] \notin {"idle", "select"} => cand[c] <= Len(Route[role[c]])
         /\ pc[c] = "backoff" => attempt[c] < MaxAttempts

Init ==
    /\ breakers = [m \in Models |-> NewBreaker]
    /\ providerFree = PerProvider
    /\ modelFree = [m \in Models |-> PerModel]
    /\ pc = [c \in Callers |-> "idle"]
    /\ \E r \in Roles : role = [c \in Callers |-> r]
    /\ cand = [c \in Callers |-> 1]
    /\ attempt = [c \in Callers |-> 1]
    /\ lastError = [c \in Callers |-> NoError]
    /\ outcome = [c \in Callers |-> "none"]
    /\ verdicts = [c \in Callers |-> <<>>]
    /\ traced = [c \in Callers |-> 0]
    /\ probing = [c \in Callers |-> FALSE]

\* The model the caller is looking at or working with.
Candidate(c) == Route[role[c]][cand[c]]
IsLast(c) == cand[c] = Len(Route[role[c]])
HasCandidate(c) == cand[c] <= Len(Route[role[c]])

HoldsProvider(c) == pc[c] \in {"await_model", "calling", "backoff"}
HoldsModel(c) == pc[c] \in {"calling", "backoff"}

---------------------------------------------------------------------------
\* Endings and continuations shared by the actions below.

\* The call raises or returns, and its locals with it; `trace` says whether
\* _emit_trace ran.
Finish(c, how, trace) ==
    /\ pc' = [pc EXCEPT ![c] = "idle"]
    /\ cand' = [cand EXCEPT ![c] = 1]
    /\ attempt' = [attempt EXCEPT ![c] = 1]
    /\ lastError' = [lastError EXCEPT ![c] = NoError]
    /\ outcome' = [outcome EXCEPT ![c] = how]
    /\ traced' = [traced EXCEPT ![c] = IF trace THEN @ + 1 ELSE @]

\* The candidate failed with an eligible error and is not the last: go on.
FallBack(c, error) ==
    /\ lastError' = [lastError EXCEPT ![c] = error]
    /\ cand' = [cand EXCEPT ![c] = @ + 1]
    /\ attempt' = [attempt EXCEPT ![c] = 1]
    /\ pc' = [pc EXCEPT ![c] = "select"]
    /\ UNCHANGED <<outcome, traced>>

\* Bug: any failure moves on to the next model.
ResolveAlwaysFallingBack(c, error, eligible) ==
    IF ~IsLast(c)
    THEN FallBack(c, error)
    ELSE Finish(c, error, TRUE)

\* "if fallback_eligible and not is_last: continue", else trace and raise.
Resolve(c, error, eligible) ==
    IF eligible /\ ~IsLast(c)
    THEN FallBack(c, error)
    ELSE Finish(c, error, TRUE)

Judge(c, verdict) == verdicts' = [verdicts EXCEPT ![c] = Append(@, verdict)]

\* _Slot.__aexit__: the model's semaphore, then the provider's.
ReleaseSlot(c) ==
    /\ modelFree' = [modelFree EXCEPT ![Candidate(c)] = @ + 1]
    /\ providerFree' = providerFree + 1

---------------------------------------------------------------------------
\* The caller starts a router call for a role with a route.
Call(c, r) ==
    /\ pc[c] = "idle"
    /\ Route[r] # <<>>
    /\ pc' = [pc EXCEPT ![c] = "select"]
    /\ role' = [role EXCEPT ![c] = r]
    /\ outcome' = [outcome EXCEPT ![c] = "none"]
    /\ verdicts' = [verdicts EXCEPT ![c] = <<>>]
    /\ traced' = [traced EXCEPT ![c] = 0]
    /\ UNCHANGED <<breakers, limits, cand, attempt, lastError, probing>>

\* route() raises for a role without a route: nothing is tried or traced.
CallDisabled(c, r) ==
    /\ pc[c] = "idle"
    /\ Route[r] = <<>>
    /\ role' = [role EXCEPT ![c] = r]
    /\ outcome' = [outcome EXCEPT ![c] = "disabled"]
    /\ verdicts' = [verdicts EXCEPT ![c] = <<>>]
    /\ traced' = [traced EXCEPT ![c] = 0]
    /\ UNCHANGED <<breakers, limits, pc, cand, attempt, lastError, probing>>

SkipIncapable(c) ==
    /\ pc[c] = "select" /\ HasCandidate(c)
    /\ Candidate(c) \notin Capable[role[c]]
    /\ Judge(c, "incapable")
    /\ cand' = [cand EXCEPT ![c] = @ + 1]
    /\ UNCHANGED <<breakers, limits, pc, role, attempt, lastError, outcome, traced, probing>>

\* breaker.allow() is FALSE: a ProviderCircuitOpenError, eligible for fallback.
RejectOpen(c) ==
    /\ pc[c] = "select" /\ HasCandidate(c)
    /\ Candidate(c) \in Capable[role[c]]
    /\ ~Allows(breakers[Candidate(c)])
    /\ Judge(c, "circuit_open")
    /\ Resolve(c, "circuit_open", TRUE)
    /\ UNCHANGED <<breakers, limits, role, probing>>

\* breaker.allow() is TRUE: queue for the provider's semaphore.
Admit(c) ==
    LET m == Candidate(c) IN
    /\ pc[c] = "select" /\ HasCandidate(c)
    /\ m \in Capable[role[c]]
    /\ Allows(breakers[m])
    /\ breakers' = [breakers EXCEPT ![m] = Allowed(@)]
    /\ probing' = [probing EXCEPT ![c] = CircuitState(breakers[m]) = "half_open"]
    /\ pc' = [pc EXCEPT ![c] = "await_provider"]
    /\ UNCHANGED <<limits, role, cand, attempt, lastError, outcome, verdicts, traced>>

TakeProviderSlot(c) ==
    /\ pc[c] = "await_provider"
    /\ providerFree > 0
    /\ providerFree' = providerFree - 1
    /\ pc' = [pc EXCEPT ![c] = "await_model"]
    /\ UNCHANGED <<breakers, modelFree, role, cand, attempt, lastError, outcome, history>>

\* Both slots held: RetryPolicy.run sends the first attempt.
TakeModelSlot(c) ==
    /\ pc[c] = "await_model"
    /\ modelFree[Candidate(c)] > 0
    /\ modelFree' = [modelFree EXCEPT ![Candidate(c)] = @ - 1]
    /\ pc' = [pc EXCEPT ![c] = "calling"]
    /\ UNCHANGED <<breakers, providerFree, role, cand, attempt, lastError, outcome, history>>

\* Bug: max_attempts counts retries instead of attempts.
WillRetryOnceMore(c, error) == error \in Retryable /\ attempt[c] <= MaxAttempts

WillRetry(c, error) == error \in Retryable /\ attempt[c] < MaxAttempts

\* A retryable failure with attempts left: sleep, still holding both slots.
BackOff(c, error) ==
    /\ pc[c] = "calling"
    /\ WillRetry(c, error)
    /\ pc' = [pc EXCEPT ![c] = "backoff"]
    /\ UNCHANGED <<breakers, limits, role, cand, attempt, lastError, outcome, history>>

\* Bug: the attempt counter is not advanced.
RetryForever(c) ==
    /\ pc[c] = "backoff"
    /\ pc' = [pc EXCEPT ![c] = "calling"]
    /\ UNCHANGED <<breakers, limits, role, cand, attempt, lastError, outcome, history>>

Retry(c) ==
    /\ pc[c] = "backoff"
    /\ pc' = [pc EXCEPT ![c] = "calling"]
    /\ attempt' = [attempt EXCEPT ![c] = @ + 1]
    /\ UNCHANGED <<breakers, limits, role, cand, lastError, outcome, history>>

\* The retry policy re-raises: leave the slot, tell the breaker, fall back or raise.
GiveUp(c, error) ==
    LET m == Candidate(c) IN
    /\ pc[c] = "calling"
    /\ ~WillRetry(c, error)
    /\ ReleaseSlot(c)
    /\ breakers' = IF error \in BreakerCategories
                   THEN [breakers EXCEPT ![m] = Failed(@)] ELSE breakers
    /\ Judge(c, error)
    /\ Resolve(c, error, error \in FallbackCategories)
    /\ probing' = [probing EXCEPT ![c] = FALSE]
    /\ UNCHANGED role

Succeed(c) ==
    /\ pc[c] = "calling"
    /\ ReleaseSlot(c)
    /\ breakers' = [breakers EXCEPT ![Candidate(c)] = Succeeded(@)]
    /\ Judge(c, "ok")
    /\ Finish(c, "ok", TRUE)
    /\ probing' = [probing EXCEPT ![c] = FALSE]
    /\ UNCHANGED role

\* Bug: a call that fell back to incapable models blames their capabilities.
ExhaustBlamingCapability(c) ==
    /\ pc[c] = "select" /\ ~HasCandidate(c)
    /\ Finish(c, "incapable", FALSE)
    /\ UNCHANGED <<breakers, limits, role, verdicts, probing>>

\* The loop ran out of candidates: the last provider failure, else a capability error.
Exhaust(c) ==
    /\ pc[c] = "select" /\ ~HasCandidate(c)
    /\ IF lastError[c] # NoError
       THEN Finish(c, lastError[c], TRUE) ELSE Finish(c, "incapable", FALSE)
    /\ UNCHANGED <<breakers, limits, role, verdicts, probing>>

\* Bug: cancellation while queueing for the model keeps the provider's slot.
AbortLeakingProvider(c) ==
    /\ pc[c] \in {"await_provider", "await_model", "calling", "backoff"}
    /\ modelFree' = IF HoldsModel(c)
                    THEN [modelFree EXCEPT ![Candidate(c)] = @ + 1] ELSE modelFree
    /\ providerFree' = IF HoldsModel(c) THEN providerFree + 1 ELSE providerFree
    /\ Finish(c, "aborted", FALSE)
    /\ probing' = [probing EXCEPT ![c] = FALSE]
    /\ UNCHANGED <<breakers, role, verdicts>>

\* CancelledError (arq's job_timeout) at any await, or an exception that is not a
\* ProviderError: the context manager gives the slots back; nothing else runs.
Abort(c) ==
    /\ pc[c] \in {"await_provider", "await_model", "calling", "backoff"}
    /\ modelFree' = IF HoldsModel(c)
                    THEN [modelFree EXCEPT ![Candidate(c)] = @ + 1] ELSE modelFree
    /\ providerFree' = IF HoldsProvider(c) THEN providerFree + 1 ELSE providerFree
    /\ Finish(c, "aborted", FALSE)
    /\ probing' = [probing EXCEPT ![c] = FALSE]
    /\ UNCHANGED <<breakers, role, verdicts>>

Tick ==
    /\ breakers' = [m \in Models |-> Aged(breakers[m])]
    /\ breakers' # breakers
    /\ UNCHANGED <<limits, pc, role, cand, attempt, lastError, outcome, history>>

Next ==
    \/ \E c \in Callers :
         \/ \E r \in Roles : Call(c, r) \/ CallDisabled(c, r)
         \/ SkipIncapable(c) \/ RejectOpen(c) \/ Admit(c)
         \/ TakeProviderSlot(c) \/ TakeModelSlot(c)
         \/ \E error \in Answers : BackOff(c, error) \/ GiveUp(c, error)
         \/ Retry(c) \/ Succeed(c) \/ Exhaust(c) \/ Abort(c)
    \/ Tick

Spec == Init /\ [][Next]_vars

(***************************************************************************)
(* Fairness.  A task that can run is run (the event loop); every attempt   *)
(* ends, because the HTTP client has a request timeout; a sleep returns;   *)
(* asyncio.Semaphore serves its waiters first come first served, so a      *)
(* waiter that could again and again be served is served (SF).  Starting   *)
(* calls, aborting them and the passing of time are not fair.              *)
(***************************************************************************)
Selects(c) == SkipIncapable(c) \/ RejectOpen(c) \/ Admit(c) \/ Exhaust(c)
Answered(c) ==
    Succeed(c) \/ \E error \in Answers : BackOff(c, error) \/ GiveUp(c, error)

Fairness ==
    \A c \in Callers :
        /\ WF_vars(Selects(c))
        /\ WF_vars(Answered(c))
        /\ WF_vars(Retry(c))
        /\ SF_vars(TakeProviderSlot(c))
        /\ SF_vars(TakeModelSlot(c))

FairSpec == Spec /\ Fairness

---------------------------------------------------------------------------
\* Properties.

ProviderHolders == {c \in Callers : HoldsProvider(c)}
ModelHolders(m) == {c \in Callers : HoldsModel(c) /\ Candidate(c) = m}

\* ConcurrencyLimiter: whatever fails, falls back or is cancelled, each semaphore's
\* value and the calls holding it add up to its limit: no slot is lost or granted twice.
SlotsConserved ==
    /\ providerFree + Cardinality(ProviderHolders) = PerProvider
    /\ \A m \in Models : modelFree[m] + Cardinality(ModelHolders(m)) = PerModel

\* CircuitBreaker: late successes and failures of calls admitted in another state
\* leave no closed breaker that should be open, and no probe flag on a closed breaker
\* (it would make the next half-open period reject everyone).
BreakerConsistent == \A m \in Models : Sound(breakers[m])

Skipped == {"incapable", "circuit_open"}

\* Verdict v is the last one a model caused: after it the registry refused every model.
LastCaused(s, v) ==
    \E i \in DOMAIN s : s[i] = v /\ \A j \in (i + 1)..Len(s) : s[j] = "incapable"
NoneTried(s) == \A i \in DOMAIN s : s[i] = "incapable"

\* _execute: what the caller is told follows from what happened to the candidates.  Only
\* rate limits, outages, timeouts and open circuits are passed over; the error raised is
\* the last one a model (not the registry) caused; a capability error means that no model
\* was tried; and exactly the calls that reached a model or a breaker left one trace record.
OutcomeExplained ==
    \A c \in Callers :
        LET s == verdicts[c] IN
        /\ \A i \in DOMAIN s :
             s[i] \notin Skipped \cup FallbackCategories => i = Len(s)
        /\ outcome[c] \in Categories \cup {"circuit_open"} => LastCaused(s, outcome[c])
        /\ outcome[c] = "ok" => s # <<>> /\ s[Len(s)] = "ok"
        /\ outcome[c] = "incapable" => NoneTried(s)
        /\ pc[c] = "idle" =>
             traced[c] = IF outcome[c] \in {"none", "incapable", "disabled", "aborted"}
                         THEN 0 ELSE 1

\* Every router call ends: no caller waits for ever on a semaphore, a retry or a fallback.
EveryCallEnds == \A c \in Callers : pc[c] # "idle" ~> pc[c] = "idle"

\* CircuitBreaker's docstring: "a failed probe re-opens it immediately".
FailedProbeReopens ==
    [][\A c \in Callers :
         probing[c] /\ pc[c] = "calling" /\ ~probing'[c] /\ outcome'[c] \notin {"ok", "aborted"} =>
            /\ breakers'[Candidate(c)].opened = 0
            /\ ~breakers'[Candidate(c)].probe]_vars

=============================================================================
