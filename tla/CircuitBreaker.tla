--------------------------- MODULE CircuitBreaker ---------------------------
(***************************************************************************)
(* The per-model circuit breaker of northforge/providers/resilience.py, as *)
(* operators on one breaker's record:                                      *)
(*                                                                         *)
(*   failures   the ages of the remembered failures, oldest first          *)
(*   opened     how long ago the breaker opened, or Never                  *)
(*   probe      whether a half-open probe is thought to be in flight       *)
(*                                                                         *)
(* The code stores readings of time.monotonic(); only differences to the   *)
(* current reading are ever used, so the model stores the differences and  *)
(* lets Aged advance them; the time since the breaker opened stops at      *)
(* OpenTicks, the value it is compared with.                               *)
(***************************************************************************)
EXTENDS Integers, Sequences, FiniteSets

CONSTANTS
    FailureThreshold,   \* failures within the window that open the breaker
    Window,             \* how long a failure counts (ticks)
    OpenTicks           \* how long an open breaker rejects calls (ticks)

ASSUME BreakerAssumption ==
    /\ FailureThreshold \in Nat \ {0}
    /\ Window \in Nat
    /\ OpenTicks \in Nat \ {0}

Never == -1

Breaker == [failures : Seq(Nat), opened : {Never} \cup 0..OpenTicks,
            probe : BOOLEAN]

NewBreaker == [failures |-> <<>>, opened |-> Never, probe |-> FALSE]

CircuitState(b) ==
    IF b.opened = Never THEN "closed"
    ELSE IF b.opened >= OpenTicks THEN "half_open" ELSE "open"

Allows(b) ==
    \/ CircuitState(b) = "closed"
    \/ CircuitState(b) = "half_open" /\ ~b.probe

\* The breaker after an allow() that returned TRUE.
Allowed(b) == [b EXCEPT !.probe = @ \/ CircuitState(b) = "half_open"]

\* Bug: success leaves the old failures in the list.
SucceededKeepingFailures(b) == [b EXCEPT !.opened = Never, !.probe = FALSE]

\* Bug: success does not end the probe.
SucceededKeepingProbe(b) == [b EXCEPT !.opened = Never, !.failures = <<>>]

Succeeded(b) == [failures |-> <<>>, opened |-> Never, probe |-> FALSE]

Failed(b) ==
    LET recent == Append(b.failures, 0)
    IN  IF CircuitState(b) = "half_open"
        THEN [b EXCEPT !.probe = FALSE, !.opened = 0]
        ELSE [failures |-> recent, probe |-> FALSE,
              opened |-> IF Len(recent) >= FailureThreshold THEN 0 ELSE b.opened]

\* _prune: the list is in time order, so what is older than the window is a prefix.
Pruned(s) ==
    LET expired == {i \in DOMAIN s : s[i] > Window}
    IN  SubSeq(s, Cardinality(expired) + 1, Len(s))

\* One tick of the monotonic clock, as the breaker sees it.  The code prunes the list
\* when it records a failure, the only place that reads it; forgetting a failure as
\* soon as it leaves the window is the same and keeps the ages bounded.
Aged(b) ==
    [b EXCEPT !.failures = Pruned([i \in DOMAIN @ |-> @[i] + 1]),
              !.opened = IF @ = Never \/ @ = OpenTicks THEN @ ELSE @ + 1]

\* What record_success and record_failure keep true between them: a closed breaker has
\* seen fewer recent failures than the threshold and has no probe outstanding.
Sound(b) ==
    b.opened = Never => Len(b.failures) < FailureThreshold /\ ~b.probe

=============================================================================
