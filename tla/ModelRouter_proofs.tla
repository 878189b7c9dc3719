------------------------- MODULE ModelRouter_proofs -------------------------
(***************************************************************************)
(* Theorems about ModelRouter, for any number of callers, models and       *)
(* roles, any routes and any limits.                                       *)
(***************************************************************************)
EXTENDS ModelRouter, ModelSetup, FiniteSetTheorems, SequenceTheorems, TLAPS

---------------------------------------------------------------------------
\* The breaker's operations.

\* Cutting the expired prefix off a list of ages leaves a list that is no longer.
LEMMA PrunedShorter ==
    ASSUME NEW s \in Seq(Nat)
    PROVE  Pruned(s) \in Seq(Nat) /\ Len(Pruned(s)) <= Len(s)
<1> DEFINE expired == {i \in DOMAIN s : s[i] > Window}
           k == Cardinality(expired)
<1>1. k \in Nat
  <2>1. IsFiniteSet(1..Len(s))
    BY FS_Interval
  <2>2. expired \subseteq 1..Len(s)
    OBVIOUS
  <2> QED BY <2>1, <2>2, FS_Subset, FS_CardinalityType
<1>2. Pruned(s) = SubSeq(s, k + 1, Len(s))
  BY DEF Pruned
<1> HIDE DEF k
<1>3. \A i \in (k + 1)..Len(s) : s[i] \in Nat
  BY <1>1
<1> QED BY <1>1, <1>2, <1>3, SubSeqProperties

\* Every operation keeps a breaker's type.
LEMMA BreakerTypes ==
    ASSUME NEW b \in Breaker
    PROVE  /\ Allowed(b) \in Breaker
           /\ Succeeded(b) \in Breaker
           /\ Failed(b) \in Breaker
           /\ Aged(b) \in Breaker
<1> USE BreakerAssumption DEF Breaker, Never
<1>1. Allowed(b) \in Breaker
  BY DEF Allowed
<1>2. Succeeded(b) \in Breaker
  <2>1. <<>> \in Seq(Nat)
    OBVIOUS
  <2> QED BY <2>1 DEF Succeeded
<1>3. Failed(b) \in Breaker
  <2> DEFINE recent == Append(b.failures, 0)
             t == IF Len(recent) >= FailureThreshold THEN 0 ELSE b.opened
  <2>1. CASE CircuitState(b) = "half_open"
    <3>1. Failed(b) = [b EXCEPT !.probe = FALSE, !.opened = 0]
      BY <2>1 DEF Failed
    <3>2. 0 \in {Never} \cup 0..OpenTicks
      OBVIOUS
    <3>3. Failed(b) = [failures |-> b.failures, opened |-> 0, probe |-> FALSE]
      BY <3>1
    <3> HIDE DEF recent, t
    <3> QED BY <3>2, <3>3
  <2>2. CASE CircuitState(b) # "half_open"
    <3>1. Failed(b) = [failures |-> recent, probe |-> FALSE, opened |-> t]
      BY <2>2 DEF Failed
    <3>2. recent \in Seq(Nat) /\ t \in {Never} \cup 0..OpenTicks
      OBVIOUS
    <3> HIDE DEF recent, t
    <3> QED BY <3>1, <3>2
  <2> QED BY <2>1, <2>2
<1>4. Aged(b) \in Breaker
  <2> DEFINE older == [i \in DOMAIN b.failures |-> b.failures[i] + 1]
             t == IF b.opened = Never \/ b.opened = OpenTicks
                  THEN b.opened ELSE b.opened + 1
  <2>1. Pruned(older) \in Seq(Nat)
    <3>1. older \in Seq(Nat)
      OBVIOUS
    <3> QED BY <3>1, PrunedShorter
  <2>2. t \in {Never} \cup 0..OpenTicks
    OBVIOUS
  <2>3. Aged(b) = [b EXCEPT !.failures = Pruned(older), !.opened = t]
    BY DEF Aged
  <2> HIDE DEF older, t
  <2> QED BY <2>1, <2>2, <2>3
<1> QED BY <1>1, <1>2, <1>3, <1>4

\* Every operation keeps a breaker sound, in whatever state it is applied.
LEMMA BreakerStaysSound ==
    ASSUME NEW b \in Breaker, Sound(b)
    PROVE  /\ Sound(Allowed(b))
           /\ Sound(Succeeded(b))
           /\ Sound(Failed(b))
           /\ Sound(Aged(b))
<1> USE BreakerAssumption DEF Breaker, Never, Sound
<1>1. Sound(Allowed(b))
  BY DEF Allowed, CircuitState
<1>2. Sound(Succeeded(b))
  BY DEF Succeeded
<1>3. Sound(Failed(b))
  BY DEF Failed, CircuitState
<1>4. Sound(Aged(b))
  <2> DEFINE older == [i \in DOMAIN b.failures |-> b.failures[i] + 1]
  <2>1. older \in Seq(Nat) /\ Len(older) = Len(b.failures)
    OBVIOUS
  <2>2. Pruned(older) \in Seq(Nat) /\ Len(Pruned(older)) <= Len(b.failures)
    BY <2>1, PrunedShorter
  <2> QED BY <2>2 DEF Aged
<1> QED BY <1>1, <1>2, <1>3, <1>4

---------------------------------------------------------------------------
\* Type correctness.

\* The candidate of a call that is past selection, or that still has one, is a model.
LEMMA CandidateIsModel ==
    ASSUME TypeOK, NEW c \in Callers,
           pc[c] \notin {"idle", "select"} \/ HasCandidate(c)
    PROVE  Candidate(c) \in Models
<1>1. Route[role[c]] \in Seq(Models)
  BY RouterAssumption DEF TypeOK
<1>2. cand[c] \in 1..Len(Route[role[c]])
  BY <1>1 DEF TypeOK, HasCandidate
<1> QED BY <1>1, <1>2 DEF Candidate

LEMMA InitTypeOK == Init => TypeOK
<1> SUFFICES ASSUME Init PROVE TypeOK
  OBVIOUS
<1>1. NewBreaker \in Breaker
  BY BreakerAssumption DEF NewBreaker, Breaker, Never
<1> QED BY <1>1, RouterAssumption DEF Init, TypeOK

\* The part of TypeOK about a call's locals.
CallTypes ==
    /\ pc \in [Callers -> {"idle", "select", "await_provider", "await_model",
                           "calling", "backoff"}]
    /\ cand \in [Callers -> Nat \ {0}]
    /\ attempt \in [Callers -> 1..MaxAttempts]
    /\ lastError \in [Callers -> {NoError, "circuit_open"} \cup Categories]
    /\ outcome \in [Callers -> {"none"} \cup Ended]
    /\ traced \in [Callers -> Nat]
    /\ \A c \in Callers :
         /\ pc[c] \notin {"idle", "select"} => cand[c] <= Len(Route[role[c]])
         /\ pc[c] = "backoff" => attempt[c] < MaxAttempts

\* What the shared continuations of a call do to the types.
LEMMA FinishTypes ==
    ASSUME TypeOK, NEW c \in Callers, NEW how \in Ended, NEW trace \in BOOLEAN,
           Finish(c, how, trace), UNCHANGED role
    PROVE  CallTypes'
BY RouterAssumption DEF TypeOK, CallTypes, Finish

LEMMA ResolveTypes ==
    ASSUME TypeOK, NEW c \in Callers, NEW error \in {"circuit_open"} \cup Categories,
           NEW eligible \in BOOLEAN, Resolve(c, error, eligible), UNCHANGED role
    PROVE  CallTypes'
<1>1. error \in Ended
  BY DEF Ended
<1>2. CASE eligible /\ ~IsLast(c)
  <2>1. FallBack(c, error)
    BY <1>2 DEF Resolve
  <2>2. /\ lastError' \in [Callers -> {NoError, "circuit_open"} \cup Categories]
        /\ UNCHANGED <<outcome, traced>>
    BY <2>1 DEF TypeOK, FallBack
  <2>3. /\ cand' \in [Callers -> Nat \ {0}]
        /\ attempt' \in [Callers -> 1..MaxAttempts]
        /\ pc' \in [Callers -> {"idle", "select", "await_provider", "await_model",
                                "calling", "backoff"}]
    BY <2>1, RouterAssumption DEF TypeOK, FallBack
  <2>4. \A d \in Callers :
          /\ pc'[d] \notin {"idle", "select"} => cand'[d] <= Len(Route[role'[d]])
          /\ pc'[d] = "backoff" => attempt'[d] < MaxAttempts
    BY <2>1 DEF TypeOK, FallBack
  <2> QED BY <2>2, <2>3, <2>4 DEF TypeOK, CallTypes
<1>3. CASE ~(eligible /\ ~IsLast(c))
  BY <1>1, <1>3, FinishTypes DEF Resolve
<1> QED BY <1>2, <1>3

LEMMA StepTypeOK == TypeOK /\ [Next]_vars => TypeOK'
<1> SUFFICES ASSUME TypeOK, [Next]_vars PROVE TypeOK'
  OBVIOUS
<1>1. CASE UNCHANGED vars
  BY <1>1 DEF TypeOK, vars, limits, history
<1>2. ASSUME NEW c \in Callers, NEW r \in Roles, Call(c, r) PROVE TypeOK'
  BY <1>2 DEF TypeOK, Call, limits
<1>3. ASSUME NEW c \in Callers, NEW r \in Roles, CallDisabled(c, r) PROVE TypeOK'
  BY <1>3 DEF TypeOK, CallDisabled, limits, Ended
<1>4. ASSUME NEW c \in Callers, SkipIncapable(c) PROVE TypeOK'
  BY <1>4 DEF TypeOK, SkipIncapable, Judge, Verdicts, limits
<1>5. ASSUME NEW c \in Callers, RejectOpen(c) PROVE TypeOK'
  <2>1. Resolve(c, "circuit_open", TRUE) /\ UNCHANGED role
    BY <1>5 DEF RejectOpen
  <2>2. CallTypes'
    BY <2>1, ResolveTypes
  <2>3. verdicts' \in [Callers -> Seq(Verdicts)]
    BY <1>5 DEF TypeOK, RejectOpen, Judge, Verdicts
  <2>4. UNCHANGED <<breakers, providerFree, modelFree, role, probing>>
    BY <1>5 DEF RejectOpen, limits
  <2> QED BY <2>2, <2>3, <2>4 DEF TypeOK, CallTypes
<1>6. ASSUME NEW c \in Callers, Admit(c) PROVE TypeOK'
  <2>1. Candidate(c) \in Models
    BY <1>6, CandidateIsModel DEF Admit
  <2>2. breakers' \in [Models -> Breaker]
    BY <1>6, <2>1, BreakerTypes DEF TypeOK, Admit
  <2> QED BY <1>6, <2>2 DEF TypeOK, Admit, HasCandidate, limits
<1>7. ASSUME NEW c \in Callers, TakeProviderSlot(c) PROVE TypeOK'
  BY <1>7 DEF TypeOK, TakeProviderSlot, history
<1>8. ASSUME NEW c \in Callers, TakeModelSlot(c) PROVE TypeOK'
  <2>1. Candidate(c) \in Models
    BY <1>8, CandidateIsModel DEF TakeModelSlot
  <2>2. modelFree' \in [Models -> Nat]
    BY <1>8, <2>1 DEF TypeOK, TakeModelSlot
  <2> QED BY <1>8, <2>2 DEF TypeOK, TakeModelSlot, history
<1>9. ASSUME NEW c \in Callers, NEW error \in Answers, BackOff(c, error) PROVE TypeOK'
  BY <1>9 DEF TypeOK, BackOff, WillRetry, history, limits
<1>10. ASSUME NEW c \in Callers, NEW error \in Answers, GiveUp(c, error) PROVE TypeOK'
  <2>1. Candidate(c) \in Models
    BY <1>10, CandidateIsModel DEF GiveUp
  <2>2. error \in Categories
    BY RouterAssumption
  <2>3. breakers' \in [Models -> Breaker]
    BY <1>10, <2>1, BreakerTypes DEF TypeOK, GiveUp
  <2>4. Resolve(c, error, error \in FallbackCategories) /\ UNCHANGED role
    BY <1>10 DEF GiveUp
  <2>5. providerFree' \in Nat /\ modelFree' \in [Models -> Nat]
    BY <1>10, <2>1 DEF TypeOK, GiveUp, ReleaseSlot
  <2>6. verdicts' \in [Callers -> Seq(Verdicts)]
    BY <1>10, <2>2 DEF TypeOK, GiveUp, Judge, Verdicts
  <2>7. probing' \in [Callers -> BOOLEAN] /\ role' \in [Callers -> Roles]
    BY <1>10 DEF TypeOK, GiveUp
  <2>8. CallTypes'
    <3> DEFINE eligible == error \in FallbackCategories
    <3>1. eligible \in BOOLEAN
      OBVIOUS
    <3>2. Resolve(c, error, eligible)
      BY <2>4
    <3> HIDE DEF eligible
    <3> QED BY <2>2, <2>4, <3>1, <3>2, ResolveTypes
  <2> QED BY <2>3, <2>5, <2>6, <2>7, <2>8 DEF TypeOK, CallTypes
<1>11. ASSUME NEW c \in Callers, Retry(c) PROVE TypeOK'
  BY <1>11, RouterAssumption DEF TypeOK, Retry, history, limits
<1>12. ASSUME NEW c \in Callers, Succeed(c) PROVE TypeOK'
  <2>1. Candidate(c) \in Models
    BY <1>12, CandidateIsModel DEF Succeed
  <2>2. breakers' \in [Models -> Breaker]
    BY <1>12, <2>1, BreakerTypes DEF TypeOK, Succeed
  <2>3. Finish(c, "ok", TRUE) /\ UNCHANGED role
    BY <1>12 DEF Succeed
  <2>4. providerFree' \in Nat /\ modelFree' \in [Models -> Nat]
    BY <1>12, <2>1 DEF TypeOK, Succeed, ReleaseSlot
  <2>5. verdicts' \in [Callers -> Seq(Verdicts)]
    BY <1>12 DEF TypeOK, Succeed, Judge, Verdicts
  <2>6. probing' \in [Callers -> BOOLEAN] /\ role' \in [Callers -> Roles]
    BY <1>12 DEF TypeOK, Succeed
  <2>7. "ok" \in Ended
    BY DEF Ended
  <2>8. CallTypes'
    BY <2>3, <2>7, FinishTypes
  <2> QED BY <2>2, <2>4, <2>5, <2>6, <2>8 DEF TypeOK, CallTypes
<1>13. ASSUME NEW c \in Callers, Exhaust(c) PROVE TypeOK'
  <2> DEFINE how == IF lastError[c] # NoError THEN lastError[c] ELSE "incapable"
             trace == lastError[c] # NoError
  <2>1. how \in Ended /\ trace \in BOOLEAN
    BY DEF TypeOK, Ended
  <2>2. Finish(c, how, trace) /\ UNCHANGED role
    BY <1>13 DEF Exhaust
  <2>3. UNCHANGED <<breakers, providerFree, modelFree, verdicts, probing>>
    BY <1>13 DEF Exhaust, limits
  <2> HIDE DEF how, trace
  <2>4. CallTypes'
    BY <2>1, <2>2, FinishTypes
  <2> QED BY <2>2, <2>3, <2>4 DEF TypeOK, CallTypes
<1>14. ASSUME NEW c \in Callers, Abort(c) PROVE TypeOK'
  <2>1. Candidate(c) \in Models
    BY <1>14, CandidateIsModel DEF Abort
  <2>2. providerFree' \in Nat /\ modelFree' \in [Models -> Nat]
    BY <1>14, <2>1 DEF TypeOK, Abort
  <2>3. Finish(c, "aborted", FALSE) /\ UNCHANGED role
    BY <1>14 DEF Abort
  <2>4. "aborted" \in Ended
    BY DEF Ended
  <2>5. /\ UNCHANGED <<breakers, verdicts, role>>
        /\ probing' \in [Callers -> BOOLEAN]
    BY <1>14 DEF TypeOK, Abort
  <2>6. CallTypes'
    BY <2>3, <2>4, FinishTypes
  <2> QED BY <2>2, <2>5, <2>6 DEF TypeOK, CallTypes
<1>15. ASSUME Tick PROVE TypeOK'
  <2>1. breakers' \in [Models -> Breaker]
    BY <1>15, BreakerTypes DEF TypeOK, Tick
  <2> QED BY <1>15, <2>1 DEF TypeOK, Tick, history, limits
<1> QED BY <1>1, <1>2, <1>3, <1>4, <1>5, <1>6, <1>7, <1>8, <1>9, <1>10, <1>11, <1>12,
           <1>13, <1>14, <1>15 DEF Next

\* Every reachable state is well typed: no caller is past its route's last candidate, and
\* none sleeps before an attempt it does not have.
THEOREM TypeCorrect == Spec => []TypeOK
<1> QED BY InitTypeOK, StepTypeOK, PTL DEF Spec

---------------------------------------------------------------------------
\* The breakers under concurrent calls.

\* A step that applies to each breaker at most one of its operations keeps all sound.
LEMMA BreakersStaySound ==
    ASSUME TypeOK, BreakerConsistent,
           \A m \in Models :
              LET b == breakers[m] IN
              breakers'[m] \in {b, Allowed(b), Succeeded(b), Failed(b), Aged(b)}
    PROVE  BreakerConsistent'
<1> SUFFICES ASSUME NEW m \in Models PROVE Sound(breakers'[m])
  BY DEF BreakerConsistent
<1> DEFINE b == breakers[m]
<1>1. b \in Breaker /\ Sound(b)
  BY DEF TypeOK, BreakerConsistent
<1>2. breakers'[m] \in {b, Allowed(b), Succeeded(b), Failed(b), Aged(b)}
  OBVIOUS
<1> HIDE DEF b
<1> QED BY <1>1, <1>2, BreakerStaysSound

LEMMA StepBreakerConsistent ==
    TypeOK /\ BreakerConsistent /\ [Next]_vars => BreakerConsistent'
<1> SUFFICES ASSUME TypeOK, BreakerConsistent, [Next]_vars PROVE BreakerConsistent'
  OBVIOUS
<1> DEFINE Applied(m, b) ==
             breakers'[m] \in {b, Allowed(b), Succeeded(b), Failed(b), Aged(b)}
<1>1. ASSUME UNCHANGED breakers PROVE BreakerConsistent'
  BY <1>1 DEF BreakerConsistent
<1>2. ASSUME NEW c \in Callers, Admit(c) PROVE BreakerConsistent'
  <2>1. breakers' = [breakers EXCEPT ![Candidate(c)] = Allowed(@)]
    BY <1>2 DEF Admit
  <2>2. \A m \in Models : Applied(m, breakers[m])
    BY <2>1 DEF TypeOK
  <2> QED BY <2>2, BreakersStaySound
<1>3. ASSUME NEW c \in Callers, NEW error \in Answers, GiveUp(c, error)
      PROVE BreakerConsistent'
  <2>1. \/ breakers' = [breakers EXCEPT ![Candidate(c)] = Failed(@)]
        \/ breakers' = breakers
    BY <1>3 DEF GiveUp
  <2>2. \A m \in Models : Applied(m, breakers[m])
    BY <2>1 DEF TypeOK
  <2> QED BY <2>2, BreakersStaySound
<1>4. ASSUME NEW c \in Callers, Succeed(c) PROVE BreakerConsistent'
  <2>1. breakers' = [breakers EXCEPT ![Candidate(c)] = Succeeded(@)]
    BY <1>4 DEF Succeed
  <2>2. \A m \in Models : Applied(m, breakers[m])
    BY <2>1 DEF TypeOK
  <2> QED BY <2>2, BreakersStaySound
<1>5. ASSUME Tick PROVE BreakerConsistent'
  <2>1. \A m \in Models : Applied(m, breakers[m])
    BY <1>5 DEF Tick
  <2> QED BY <2>1, BreakersStaySound
<1>6. \/ UNCHANGED breakers
      \/ \E c \in Callers :
           \/ Admit(c) \/ Succeed(c)
           \/ \E error \in Answers : GiveUp(c, error)
      \/ Tick
  BY DEF Next, vars, Call, CallDisabled, SkipIncapable, RejectOpen, TakeProviderSlot,
         TakeModelSlot, BackOff, Retry, Exhaust, Abort
<1> QED BY <1>1, <1>2, <1>3, <1>4, <1>5, <1>6

\* Whatever late answers arrive in whatever state, a closed breaker stays below the failure
\* threshold and has no probe outstanding.
THEOREM BreakersSound == Spec => []BreakerConsistent
<1>1. Init => BreakerConsistent
  BY BreakerAssumption DEF Init, BreakerConsistent, Sound, NewBreaker, Never
<1> QED BY <1>1, StepBreakerConsistent, TypeCorrect, PTL DEF Spec

---------------------------------------------------------------------------
\* The semaphores.

\* The contribution of one element to a cardinality.
In(x, S) == IF x \in S THEN 1 ELSE 0

\* Two finite sets that differ at most in x differ in size by x's contribution.
LEMMA CountChange ==
    ASSUME NEW S, NEW T, NEW x, IsFiniteSet(S), IsFiniteSet(T), S \ {x} = T \ {x}
    PROVE  Cardinality(T) + In(x, S) = Cardinality(S) + In(x, T)
<1> DEFINE R == S \ {x}
<1>1. IsFiniteSet(R) /\ Cardinality(R) \in Nat
  BY FS_RemoveElement, FS_CardinalityType
<1>2. Cardinality(S) = Cardinality(R) + In(x, S)
  BY <1>1, FS_RemoveElement, FS_CardinalityType DEF In
<1>3. Cardinality(T) = Cardinality(R) + In(x, T)
  BY <1>1, FS_RemoveElement, FS_CardinalityType DEF In
<1> QED BY <1>1, <1>2, <1>3 DEF In

\* The arithmetic of one semaphore: value, holders and the mover's contribution, before
\* and after.
LEMMA Balance ==
    ASSUME NEW free \in Nat, NEW held \in Nat, NEW mine \in Nat,
           NEW free2 \in Nat, NEW held2 \in Nat, NEW mine2 \in Nat,
           held2 + mine = held + mine2, free2 + mine2 = free + mine
    PROVE  free2 + held2 = free + held
OBVIOUS

\* A step of one caller keeps the slots if it changes each semaphore by as much as it
\* changes that caller's holding of it.
LEMMA SlotsFollowHolder ==
    ASSUME TypeOK, TypeOK', SlotsConserved, NEW c \in Callers,
           \A d \in Callers \ {c} :
              pc'[d] = pc[d] /\ cand'[d] = cand[d] /\ role'[d] = role[d],
           providerFree' + In(c, ProviderHolders') = providerFree + In(c, ProviderHolders),
           \A m \in Models :
              modelFree'[m] + In(c, ModelHolders(m)') = modelFree[m] + In(c, ModelHolders(m))
    PROVE  SlotsConserved'
<1>1. providerFree' + Cardinality(ProviderHolders') = PerProvider
  <2>1. ProviderHolders \ {c} = ProviderHolders' \ {c}
    BY DEF ProviderHolders, HoldsProvider
  <2>2. IsFiniteSet(ProviderHolders) /\ IsFiniteSet(ProviderHolders')
    BY RouterAssumption, FS_Subset DEF ProviderHolders
  <2>3. /\ Cardinality(ProviderHolders) \in Nat
        /\ Cardinality(ProviderHolders') \in Nat
    BY <2>2, FS_CardinalityType
  <2>4. Cardinality(ProviderHolders') + In(c, ProviderHolders)
          = Cardinality(ProviderHolders) + In(c, ProviderHolders')
    BY <2>1, <2>2, CountChange
  <2>5. providerFree + Cardinality(ProviderHolders) = PerProvider
    BY DEF SlotsConserved
  <2>6. providerFree \in Nat /\ providerFree' \in Nat
    BY DEF TypeOK
  <2>7. In(c, ProviderHolders) \in Nat /\ In(c, ProviderHolders') \in Nat
    BY DEF In
  <2>8. providerFree' + Cardinality(ProviderHolders')
          = providerFree + Cardinality(ProviderHolders)
    BY <2>3, <2>4, <2>6, <2>7, Balance
  <2> QED BY <2>5, <2>8
<1>2. ASSUME NEW m \in Models
      PROVE  modelFree'[m] + Cardinality(ModelHolders(m)') = PerModel
  <2>1. ModelHolders(m) \ {c} = ModelHolders(m)' \ {c}
    BY DEF ModelHolders, HoldsModel, Candidate
  <2>2. IsFiniteSet(ModelHolders(m)) /\ IsFiniteSet(ModelHolders(m)')
    BY RouterAssumption, FS_Subset DEF ModelHolders
  <2>3. /\ Cardinality(ModelHolders(m)) \in Nat
        /\ Cardinality(ModelHolders(m)') \in Nat
    BY <2>2, FS_CardinalityType
  <2>4. Cardinality(ModelHolders(m)') + In(c, ModelHolders(m))
          = Cardinality(ModelHolders(m)) + In(c, ModelHolders(m)')
    BY <2>1, <2>2, CountChange
  <2>5. modelFree[m] + Cardinality(ModelHolders(m)) = PerModel
    BY DEF SlotsConserved
  <2>6. modelFree[m] \in Nat /\ modelFree'[m] \in Nat
    BY DEF TypeOK
  <2>7. In(c, ModelHolders(m)) \in Nat /\ In(c, ModelHolders(m)') \in Nat
    BY DEF In
  <2>8. modelFree'[m] + Cardinality(ModelHolders(m)')
          = modelFree[m] + Cardinality(ModelHolders(m))
    BY <2>3, <2>4, <2>6, <2>7, Balance
  <2> QED BY <2>5, <2>8
<1> QED BY <1>1, <1>2 DEF SlotsConserved

\* Which slots a caller holds, as a condition on its own locals.
LEMMA HolderIs ==
    ASSUME NEW c \in Callers
    PROVE  /\ In(c, ProviderHolders) = IF HoldsProvider(c) THEN 1 ELSE 0
           /\ \A m \in Models :
                In(c, ModelHolders(m)) = IF HoldsModel(c) /\ Candidate(c) = m THEN 1 ELSE 0
BY DEF In, ProviderHolders, ModelHolders

LEMMA HolderIsNext ==
    ASSUME NEW c \in Callers
    PROVE  /\ In(c, ProviderHolders') = IF HoldsProvider(c)' THEN 1 ELSE 0
           /\ \A m \in Models :
                In(c, ModelHolders(m)')
                  = IF HoldsModel(c)' /\ Candidate(c)' = m THEN 1 ELSE 0
BY DEF In, ProviderHolders, ModelHolders

\* A step of one caller that neither takes nor gives up a slot.
LEMMA SlotsUntouched ==
    ASSUME TypeOK, TypeOK', SlotsConserved, NEW c \in Callers,
           \A d \in Callers \ {c} :
              pc'[d] = pc[d] /\ cand'[d] = cand[d] /\ role'[d] = role[d],
           UNCHANGED limits,
           HoldsProvider(c)' = HoldsProvider(c),
           HoldsModel(c)' = HoldsModel(c),
           HoldsModel(c) => Candidate(c)' = Candidate(c)
    PROVE  SlotsConserved'
<1>1. In(c, ProviderHolders') = In(c, ProviderHolders)
  BY HolderIs, HolderIsNext
<1>2. \A m \in Models : In(c, ModelHolders(m)') = In(c, ModelHolders(m))
  BY HolderIs, HolderIsNext
<1>3. providerFree' = providerFree /\ modelFree' = modelFree
  BY DEF limits
<1> QED BY <1>1, <1>2, <1>3, SlotsFollowHolder

\* A step in which one caller leaves the slots it holds and ends or goes on to select.
LEMMA SlotsReturned ==
    ASSUME TypeOK, TypeOK', SlotsConserved, NEW c \in Callers,
           \A d \in Callers \ {c} :
              pc'[d] = pc[d] /\ cand'[d] = cand[d] /\ role'[d] = role[d],
           pc'[c] \in {"idle", "select"}, Candidate(c) \in Models,
           providerFree' = IF HoldsProvider(c) THEN providerFree + 1 ELSE providerFree,
           modelFree' = IF HoldsModel(c)
                        THEN [modelFree EXCEPT ![Candidate(c)] = @ + 1] ELSE modelFree
    PROVE  SlotsConserved'
<1>1. ~HoldsProvider(c)' /\ ~HoldsModel(c)'
  BY DEF HoldsProvider, HoldsModel
<1>2. providerFree' + In(c, ProviderHolders') = providerFree + In(c, ProviderHolders)
  BY <1>1, HolderIs, HolderIsNext DEF TypeOK
<1>3. ASSUME NEW m \in Models
      PROVE  modelFree'[m] + In(c, ModelHolders(m)') = modelFree[m] + In(c, ModelHolders(m))
  <2>1. In(c, ModelHolders(m)') = 0
    BY <1>1, HolderIsNext
  <2>2. modelFree \in [Models -> Nat]
    BY DEF TypeOK
  <2>3. CASE HoldsModel(c) /\ Candidate(c) = m
    BY <2>1, <2>2, <2>3, HolderIs
  <2>4. CASE ~(HoldsModel(c) /\ Candidate(c) = m)
    BY <2>1, <2>2, <2>4, HolderIs
  <2> QED BY <2>3, <2>4
<1> QED BY <1>2, <1>3, SlotsFollowHolder

LEMMA StepSlotsConserved ==
    TypeOK /\ TypeOK' /\ SlotsConserved /\ [Next]_vars => SlotsConserved'
<1> SUFFICES ASSUME TypeOK, TypeOK', SlotsConserved, [Next]_vars PROVE SlotsConserved'
  OBVIOUS
<1> DEFINE Alone(c) == \A d \in Callers \ {c} :
              pc'[d] = pc[d] /\ cand'[d] = cand[d] /\ role'[d] = role[d]
<1>1. ASSUME UNCHANGED <<limits, pc, role, cand>> PROVE SlotsConserved'
  BY <1>1 DEF SlotsConserved, ProviderHolders, ModelHolders, HoldsProvider, HoldsModel,
              Candidate, limits
<1>2. ASSUME NEW c \in Callers,
             \/ \E r \in Roles : Call(c, r) \/ CallDisabled(c, r)
             \/ SkipIncapable(c) \/ RejectOpen(c) \/ Admit(c) \/ Exhaust(c)
      PROVE  SlotsConserved'
  <2>1. Alone(c) /\ UNCHANGED limits
    <3>1. \/ pc' = pc
          \/ \E p \in {"idle", "select", "await_provider"} : pc' = [pc EXCEPT ![c] = p]
      BY <1>2 DEF Call, CallDisabled, SkipIncapable, RejectOpen, Admit, Exhaust, Finish,
                  Resolve, FallBack
    <3>2. cand' = cand \/ \E i : cand' = [cand EXCEPT ![c] = i]
      <4>1. CASE \E r \in Roles : Call(c, r) \/ CallDisabled(c, r)
        BY <4>1 DEF Call, CallDisabled
      <4>2. CASE SkipIncapable(c)
        BY <4>2 DEF SkipIncapable
      <4>3. CASE RejectOpen(c)
        BY <4>3 DEF RejectOpen, Resolve, FallBack, Finish
      <4>4. CASE Admit(c)
        BY <4>4 DEF Admit
      <4>5. CASE Exhaust(c)
        BY <4>5 DEF Exhaust, Finish
      <4> QED BY <1>2, <4>1, <4>2, <4>3, <4>4, <4>5
    <3>3. role' = role \/ \E r \in Roles : role' = [role EXCEPT ![c] = r]
      BY <1>2 DEF Call, CallDisabled, SkipIncapable, RejectOpen, Admit, Exhaust
    <3>4. UNCHANGED limits
      BY <1>2 DEF Call, CallDisabled, SkipIncapable, RejectOpen, Admit, Exhaust
    <3> QED BY <3>1, <3>2, <3>3, <3>4 DEF TypeOK
  <2>2. pc[c] \in {"idle", "select"} /\ pc'[c] \in {"idle", "select", "await_provider"}
    <3>1. pc[c] \in {"idle", "select"}
      BY <1>2 DEF Call, CallDisabled, SkipIncapable, RejectOpen, Admit, Exhaust
    <3>2. \/ pc' = pc
          \/ \E p \in {"idle", "select", "await_provider"} : pc' = [pc EXCEPT ![c] = p]
      BY <1>2 DEF Call, CallDisabled, SkipIncapable, RejectOpen, Admit, Exhaust, Finish,
                  Resolve, FallBack
    <3> QED BY <3>1, <3>2 DEF TypeOK
  <2>3. /\ HoldsProvider(c) = FALSE /\ HoldsProvider(c)' = FALSE
        /\ HoldsModel(c) = FALSE /\ HoldsModel(c)' = FALSE
    BY <2>2 DEF HoldsProvider, HoldsModel
  <2> QED BY <2>1, <2>3, SlotsUntouched
<1>3. ASSUME NEW c \in Callers,
             Retry(c) \/ \E error \in Answers : BackOff(c, error)
      PROVE  SlotsConserved'
  <2>1. Alone(c) /\ UNCHANGED <<limits, role, cand>>
    BY <1>3 DEF Retry, BackOff, TypeOK
  <2>2. pc[c] \in {"calling", "backoff"} /\ pc'[c] \in {"calling", "backoff"}
    BY <1>3 DEF Retry, BackOff, TypeOK
  <2>3. /\ HoldsProvider(c) = TRUE /\ HoldsProvider(c)' = TRUE
        /\ HoldsModel(c) = TRUE /\ HoldsModel(c)' = TRUE
    BY <2>2 DEF HoldsProvider, HoldsModel
  <2>4. Candidate(c)' = Candidate(c)
    BY <2>1 DEF Candidate
  <2> QED BY <2>1, <2>3, <2>4, SlotsUntouched
<1>4. ASSUME NEW c \in Callers, TakeProviderSlot(c) PROVE SlotsConserved'
  <2>1. Alone(c) /\ UNCHANGED <<modelFree, role, cand>> /\ providerFree' = providerFree - 1
    BY <1>4 DEF TakeProviderSlot, TypeOK
  <2>2. /\ ~HoldsProvider(c) /\ HoldsProvider(c)'
        /\ ~HoldsModel(c) /\ ~HoldsModel(c)'
    BY <1>4 DEF TakeProviderSlot, TypeOK, HoldsProvider, HoldsModel
  <2>3. providerFree' + In(c, ProviderHolders') = providerFree + In(c, ProviderHolders)
    BY <2>1, <2>2, HolderIs, HolderIsNext DEF TypeOK
  <2>4. \A m \in Models : In(c, ModelHolders(m)') = In(c, ModelHolders(m))
    BY <2>2, HolderIs, HolderIsNext
  <2> QED BY <2>1, <2>3, <2>4, SlotsFollowHolder
<1>5. ASSUME NEW c \in Callers, TakeModelSlot(c) PROVE SlotsConserved'
  <2>1. /\ Alone(c) /\ UNCHANGED <<providerFree, role, cand>>
        /\ modelFree' = [modelFree EXCEPT ![Candidate(c)] = @ - 1]
    BY <1>5 DEF TakeModelSlot, TypeOK
  <2>2. /\ HoldsProvider(c) /\ HoldsProvider(c)'
        /\ ~HoldsModel(c) /\ HoldsModel(c)'
    BY <1>5 DEF TakeModelSlot, TypeOK, HoldsProvider, HoldsModel
  <2>3. In(c, ProviderHolders') = In(c, ProviderHolders)
    BY <2>2, HolderIs, HolderIsNext
  <2>4. Candidate(c)' = Candidate(c)
    BY <2>1 DEF Candidate
  <2>5. ASSUME NEW m \in Models
        PROVE  modelFree'[m] + In(c, ModelHolders(m)')
                 = modelFree[m] + In(c, ModelHolders(m))
    <3>1. modelFree \in [Models -> Nat]
      BY DEF TypeOK
    <3>2. CASE Candidate(c) = m
      BY <2>1, <2>2, <2>4, <3>1, <3>2, HolderIs, HolderIsNext
    <3>3. CASE Candidate(c) # m
      BY <2>1, <2>2, <2>4, <3>1, <3>3, HolderIs, HolderIsNext
    <3> QED BY <3>2, <3>3
  <2> QED BY <2>1, <2>3, <2>5, SlotsFollowHolder
<1>6. ASSUME NEW c \in Callers,
             Succeed(c) \/ \E error \in Answers : GiveUp(c, error)
      PROVE  SlotsConserved'
  <2>1. Alone(c) /\ pc'[c] \in {"idle", "select"} /\ ReleaseSlot(c) /\ pc[c] = "calling"
    BY <1>6 DEF Succeed, GiveUp, Finish, Resolve, FallBack, TypeOK
  <2>2. HoldsProvider(c) /\ HoldsModel(c)
    BY <2>1 DEF HoldsProvider, HoldsModel
  <2>3. Candidate(c) \in Models
    BY <2>1, CandidateIsModel
  <2> QED BY <2>1, <2>2, <2>3, SlotsReturned DEF ReleaseSlot
<1>7. ASSUME NEW c \in Callers, Abort(c) PROVE SlotsConserved'
  <2>1. Alone(c) /\ pc'[c] \in {"idle", "select"}
    BY <1>7 DEF Abort, Finish, TypeOK
  <2>2. Candidate(c) \in Models
    BY <1>7, CandidateIsModel DEF Abort
  <2> QED BY <1>7, <2>1, <2>2, SlotsReturned DEF Abort
<1>8. CASE UNCHANGED vars
  BY <1>1, <1>8 DEF vars
<1>9. CASE Tick
  BY <1>1, <1>9 DEF Tick
<1> QED BY <1>2, <1>3, <1>4, <1>5, <1>6, <1>7, <1>8, <1>9 DEF Next

\* No failure, fallback, retry or cancellation loses a slot or grants one twice.
THEOREM SlotConservation == Spec => []SlotsConserved
<1>1. Init => SlotsConserved
  <2> SUFFICES ASSUME Init PROVE SlotsConserved
    OBVIOUS
  <2>1. ProviderHolders = {} /\ \A m \in Models : ModelHolders(m) = {}
    BY DEF Init, ProviderHolders, ModelHolders, HoldsProvider, HoldsModel
  <2>2. Cardinality({}) = 0
    BY FS_EmptySet
  <2>3. PerProvider \in Nat /\ PerModel \in Nat
    BY RouterAssumption
  <2>4. providerFree = PerProvider /\ \A m \in Models : modelFree[m] = PerModel
    BY DEF Init
  <2> QED BY <2>1, <2>2, <2>3, <2>4 DEF SlotsConserved
<1> QED BY <1>1, StepSlotsConserved, TypeCorrect, PTL DEF Spec

---------------------------------------------------------------------------
\* What a caller is told.

\* OutcomeExplained alone is not inductive: it speaks of calls that have ended.  While a
\* call runs, everything it went past was eligible for that, and last_error is the last
\* verdict the registry did not cause, or there is none.
Accounted(at, error, ending, s, records) ==
    /\ at = "idle" => error = NoError
    /\ at # "idle" =>
         /\ ending = "none" /\ records = 0
         /\ \A i \in DOMAIN s : s[i] \in Skipped \cup FallbackCategories
         /\ IF error = NoError THEN NoneTried(s) ELSE LastCaused(s, error)
    /\ \A i \in DOMAIN s : s[i] \notin Skipped \cup FallbackCategories => i = Len(s)
    /\ ending \in Categories \cup {"circuit_open"} => LastCaused(s, ending)
    /\ ending = "ok" => s # <<>> /\ s[Len(s)] = "ok"
    /\ ending = "incapable" => NoneTried(s)
    /\ at = "idle" =>
         records = IF ending \in {"none", "incapable", "disabled", "aborted"}
                   THEN 0 ELSE 1

CallAccounted(c) == Accounted(pc[c], lastError[c], outcome[c], verdicts[c], traced[c])
AllAccounted == \A c \in Callers : CallAccounted(c)

LEMMA AccountedExplains == AllAccounted => OutcomeExplained
BY Zenon DEF AllAccounted, CallAccounted, Accounted, OutcomeExplained

\* What one more verdict does to the history of a call.
LEMMA OneMoreVerdict ==
    ASSUME NEW s \in Seq(Verdicts), NEW v \in Verdicts
    PROVE  /\ Append(s, v) \in Seq(Verdicts)
           /\ Len(Append(s, v)) = Len(s) + 1
           /\ DOMAIN Append(s, v) = 1..(Len(s) + 1)
           /\ \A i \in DOMAIN s : Append(s, v)[i] = s[i]
           /\ Append(s, v)[Len(s) + 1] = v
           /\ LastCaused(Append(s, v), v)
           /\ v = "incapable" /\ NoneTried(s) => NoneTried(Append(s, v))
           /\ \A e : v = "incapable" /\ LastCaused(s, e) => LastCaused(Append(s, v), e)
<1>1. /\ Append(s, v) \in Seq(Verdicts)
      /\ Len(Append(s, v)) = Len(s) + 1
      /\ DOMAIN Append(s, v) = 1..(Len(s) + 1)
      /\ \A i \in DOMAIN s : Append(s, v)[i] = s[i]
      /\ Append(s, v)[Len(s) + 1] = v
      /\ Len(s) \in Nat /\ DOMAIN s = 1..Len(s)
  OBVIOUS
<1> DEFINE t == Append(s, v)
<1> HIDE DEF t
<1>2. LastCaused(t, v)
  BY <1>1 DEF LastCaused, t
<1>3. ASSUME v = "incapable", NoneTried(s) PROVE NoneTried(t)
  BY <1>1, <1>3 DEF NoneTried, t
<1>4. ASSUME NEW e, v = "incapable", LastCaused(s, e) PROVE LastCaused(t, e)
  <2>1. PICK i \in DOMAIN s : s[i] = e /\ \A j \in (i + 1)..Len(s) : s[j] = "incapable"
    BY <1>4 DEF LastCaused
  <2>2. i \in DOMAIN t /\ t[i] = e
    BY <1>1, <2>1 DEF t
  <2>3. \A j \in (i + 1)..Len(t) : t[j] = "incapable"
    BY <1>1, <1>4, <2>1 DEF t
  <2> QED BY <2>2, <2>3 DEF LastCaused
<1> QED BY <1>1, <1>2, <1>3, <1>4 DEF t

\* A step of one caller that accounts for it accounts for all.
LEMMA OneCallAccounted ==
    ASSUME TypeOK, AllAccounted, NEW c \in Callers,
           \A d \in Callers \ {c} :
              /\ pc'[d] = pc[d] /\ lastError'[d] = lastError[d]
              /\ outcome'[d] = outcome[d] /\ verdicts'[d] = verdicts[d]
              /\ traced'[d] = traced[d],
           CallAccounted(c)'
    PROVE  AllAccounted'
BY DEF AllAccounted, CallAccounted

\* A failed candidate whose error is not eligible, or who is the last, ends the call with
\* its error; else the call goes on and remembers it.
LEMMA ResolveAccounted ==
    ASSUME TypeOK, AllAccounted, NEW c \in Callers, pc[c] # "idle",
           NEW error \in {"circuit_open"} \cup Categories,
           NEW eligible \in BOOLEAN,
           eligible => error \in Skipped \cup FallbackCategories,
           Judge(c, error), Resolve(c, error, eligible)
    PROVE  AllAccounted'
<1> DEFINE s == verdicts[c]
<1>1. error \in Verdicts /\ s \in Seq(Verdicts)
  BY DEF Verdicts, TypeOK
<1>2. verdicts'[c] = Append(s, error)
  BY DEF Judge, TypeOK
<1>3. \A i \in DOMAIN s : s[i] \in Skipped \cup FallbackCategories
  BY DEF AllAccounted, CallAccounted, Accounted
<1>4. error \notin {"none", "incapable", "disabled", "aborted", "ok"}
      /\ error # NoError
  BY DEF Categories, FallbackCategories, NoError
<1> HIDE DEF s
<1> DEFINE t == Append(s, error)
<1>5. /\ LastCaused(t, error)
      /\ Len(t) = Len(s) + 1 /\ DOMAIN t = 1..(Len(s) + 1)
      /\ \A i \in 1..Len(s) : t[i] \in Skipped \cup FallbackCategories
      /\ t[Len(s) + 1] = error
  BY <1>1, <1>3, OneMoreVerdict
<1>6. Len(s) \in Nat
  BY <1>1
<1> HIDE DEF t
<1>7. CASE eligible /\ ~IsLast(c)
  <2>1. /\ pc'[c] = "select" /\ lastError'[c] = error
        /\ outcome'[c] = outcome[c] /\ traced'[c] = traced[c]
    BY <1>7 DEF Resolve, FallBack, TypeOK
  <2>2. outcome[c] = "none" /\ traced[c] = 0
    BY DEF AllAccounted, CallAccounted, Accounted
  <2>3. \A i \in DOMAIN t : t[i] \in Skipped \cup FallbackCategories
    BY <1>5, <1>6, <1>7
  <2>4. "none" \notin Categories \cup {"circuit_open", "ok", "incapable"}
    BY DEF Categories, FallbackCategories
  <2>5. Accounted("select", error, "none", t, 0)
    BY <1>4, <1>5, <2>3, <2>4, Zenon DEF Accounted
  <2>6. CallAccounted(c)'
    BY <1>2, <2>1, <2>2, <2>5, Zenon DEF CallAccounted, t
  <2> QED BY <1>7, <2>6, OneCallAccounted DEF Resolve, FallBack, Judge, TypeOK
<1>8. CASE ~(eligible /\ ~IsLast(c))
  <2>1. Finish(c, error, TRUE)
    BY <1>8 DEF Resolve
  <2>2. /\ pc'[c] = "idle" /\ lastError'[c] = NoError
        /\ outcome'[c] = error /\ traced'[c] = traced[c] + 1
    BY <2>1 DEF Finish, TypeOK
  <2>3. traced[c] + 1 = 1
    BY DEF AllAccounted, CallAccounted, Accounted
  <2>4. \A i \in DOMAIN t : t[i] \notin Skipped \cup FallbackCategories => i = Len(t)
    BY <1>5, <1>6
  <2>5. Accounted("idle", NoError, error, t, 1)
    BY <1>4, <1>5, <2>4, Zenon DEF Accounted
  <2>6. CallAccounted(c)'
    BY <1>2, <2>2, <2>3, <2>5, Zenon DEF CallAccounted, t
  <2> QED BY <2>1, <2>6, OneCallAccounted DEF Finish, Judge, TypeOK
<1> QED BY <1>7, <1>8

\* A step that changes none of the variables the account is about.
LEMMA AccountUntouched ==
    ASSUME AllAccounted, UNCHANGED <<pc, lastError, outcome, verdicts, traced>>
    PROVE  AllAccounted'
BY DEF AllAccounted, CallAccounted

\* A step of a running call that only moves it to another point of the same candidate.
LEMMA RunningAccounted ==
    ASSUME TypeOK, AllAccounted, NEW c \in Callers, NEW at,
           pc[c] # "idle", at # "idle", pc' = [pc EXCEPT ![c] = at],
           UNCHANGED <<lastError, outcome, verdicts, traced>>
    PROVE  AllAccounted'
<1>1. pc'[c] = at /\ pc'[c] # "idle"
  BY DEF TypeOK
<1>2. CallAccounted(c)'
  BY <1>1, Zenon DEF AllAccounted, CallAccounted, Accounted
<1> QED BY <1>2, OneCallAccounted DEF TypeOK

LEMMA StepAccounted == TypeOK /\ AllAccounted /\ [Next]_vars => AllAccounted'
<1> SUFFICES ASSUME TypeOK, AllAccounted, [Next]_vars PROVE AllAccounted'
  OBVIOUS
<1>1. CASE UNCHANGED vars
  BY <1>1, AccountUntouched DEF vars, history
<1>2. ASSUME NEW c \in Callers, NEW r \in Roles, Call(c, r) PROVE AllAccounted'
  <2>1. /\ pc'[c] = "select" /\ lastError'[c] = NoError /\ outcome'[c] = "none"
        /\ verdicts'[c] = <<>> /\ traced'[c] = 0
    BY <1>2 DEF Call, TypeOK, AllAccounted, CallAccounted, Accounted
  <2>2. Accounted("select", NoError, "none", <<>>, 0)
    BY DEF Accounted, NoError, NoneTried, Categories, FallbackCategories
  <2>3. CallAccounted(c)'
    BY <2>1, <2>2, Zenon DEF CallAccounted
  <2> QED BY <1>2, <2>3, OneCallAccounted DEF Call, TypeOK
<1>3. ASSUME NEW c \in Callers, NEW r \in Roles, CallDisabled(c, r) PROVE AllAccounted'
  <2>1. /\ pc'[c] = "idle" /\ lastError'[c] = NoError /\ outcome'[c] = "disabled"
        /\ verdicts'[c] = <<>> /\ traced'[c] = 0
    BY <1>3 DEF CallDisabled, TypeOK, AllAccounted, CallAccounted, Accounted
  <2>2. Accounted("idle", NoError, "disabled", <<>>, 0)
    BY DEF Accounted, NoError, NoneTried, Categories, FallbackCategories
  <2>3. CallAccounted(c)'
    BY <2>1, <2>2, Zenon DEF CallAccounted
  <2> QED BY <1>3, <2>3, OneCallAccounted DEF CallDisabled, TypeOK
<1>4. ASSUME NEW c \in Callers, SkipIncapable(c) PROVE AllAccounted'
  <2> DEFINE s == verdicts[c]
             t == Append(s, "incapable")
             e == lastError[c]
  <2>1. /\ pc'[c] = "select" /\ lastError'[c] = e /\ outcome'[c] = "none"
        /\ verdicts'[c] = t /\ traced'[c] = 0
    BY <1>4 DEF SkipIncapable, Judge, TypeOK, AllAccounted, CallAccounted, Accounted
  <2>2. /\ \A i \in DOMAIN s : s[i] \in Skipped \cup FallbackCategories
        /\ IF e = NoError THEN NoneTried(s) ELSE LastCaused(s, e)
    BY <1>4 DEF SkipIncapable, AllAccounted, CallAccounted, Accounted
  <2>3. s \in Seq(Verdicts) /\ "incapable" \in Verdicts
    BY DEF TypeOK, Verdicts
  <2> HIDE DEF s, e
  <2>4. /\ Len(s) \in Nat /\ DOMAIN s = 1..Len(s)
        /\ DOMAIN t = 1..(Len(s) + 1)
        /\ \A i \in DOMAIN s : t[i] = s[i]
        /\ t[Len(s) + 1] = "incapable"
        /\ IF e = NoError THEN NoneTried(t) ELSE LastCaused(t, e)
    BY <2>2, <2>3, OneMoreVerdict
  <2> HIDE DEF t
  <2>5. \A i \in DOMAIN t : t[i] \in Skipped \cup FallbackCategories
    BY <2>2, <2>4 DEF Skipped
  <2>6. Accounted("select", e, "none", t, 0)
    BY <2>4, <2>5, Zenon DEF Accounted, Categories, FallbackCategories
  <2>7. CallAccounted(c)'
    BY <2>1, <2>6, Zenon DEF CallAccounted
  <2> QED BY <1>4, <2>7, OneCallAccounted DEF SkipIncapable, Judge, TypeOK
<1>5. ASSUME NEW c \in Callers, RejectOpen(c) PROVE AllAccounted'
  <2>1. /\ pc[c] # "idle"
        /\ Judge(c, "circuit_open") /\ Resolve(c, "circuit_open", TRUE)
    BY <1>5 DEF RejectOpen
  <2> QED BY <2>1, ResolveAccounted DEF Skipped
<1>6. ASSUME NEW c \in Callers, Admit(c) PROVE AllAccounted'
  BY <1>6, RunningAccounted DEF Admit
<1>7. ASSUME NEW c \in Callers, TakeProviderSlot(c) PROVE AllAccounted'
  BY <1>7, RunningAccounted DEF TakeProviderSlot, history
<1>8. ASSUME NEW c \in Callers, TakeModelSlot(c) PROVE AllAccounted'
  BY <1>8, RunningAccounted DEF TakeModelSlot, history
<1>9. ASSUME NEW c \in Callers, NEW error \in Answers, BackOff(c, error) PROVE AllAccounted'
  BY <1>9, RunningAccounted DEF BackOff, history
<1>10. ASSUME NEW c \in Callers, NEW error \in Answers, GiveUp(c, error) PROVE AllAccounted'
  <2> DEFINE eligible == error \in FallbackCategories
  <2>1. /\ pc[c] # "idle"
        /\ Judge(c, error) /\ Resolve(c, error, eligible)
    BY <1>10 DEF GiveUp
  <2>2. error \in {"circuit_open"} \cup Categories
    BY RouterAssumption
  <2>3. eligible \in BOOLEAN /\ (eligible => error \in Skipped \cup FallbackCategories)
    OBVIOUS
  <2> HIDE DEF eligible
  <2> QED BY <2>1, <2>2, <2>3, ResolveAccounted
<1>11. ASSUME NEW c \in Callers, Retry(c) PROVE AllAccounted'
  BY <1>11, RunningAccounted DEF Retry, history
<1>12. ASSUME NEW c \in Callers, Succeed(c) PROVE AllAccounted'
  <2> DEFINE s == verdicts[c]
             t == Append(s, "ok")
  <2>0. pc[c] = "calling" /\ Judge(c, "ok") /\ Finish(c, "ok", TRUE)
    BY <1>12 DEF Succeed
  <2>1. traced[c] = 0 /\ \A i \in DOMAIN s : s[i] \in Skipped \cup FallbackCategories
    BY <2>0 DEF AllAccounted, CallAccounted, Accounted
  <2>2. /\ pc'[c] = "idle" /\ lastError'[c] = NoError /\ outcome'[c] = "ok"
        /\ verdicts'[c] = t /\ traced'[c] = 1
    BY <2>0, <2>1 DEF Finish, Judge, TypeOK
  <2> HIDE DEF s
  <2>3. /\ Len(s) \in Nat /\ DOMAIN s = 1..Len(s)
        /\ DOMAIN t = 1..(Len(s) + 1) /\ Len(t) = Len(s) + 1
        /\ \A i \in DOMAIN s : t[i] = s[i]
        /\ t[Len(t)] = "ok" /\ t # <<>>
    <3>1. s \in Seq(Verdicts) /\ "ok" \in Verdicts
      BY DEF s, TypeOK, Verdicts
    <3> QED BY <3>1, OneMoreVerdict
  <2> HIDE DEF t
  <2>4. \A i \in DOMAIN t : t[i] \notin Skipped \cup FallbackCategories => i = Len(t)
    BY <2>1, <2>3
  <2>5. Accounted("idle", NoError, "ok", t, 1)
    BY <2>3, <2>4, Zenon DEF Accounted, Categories, FallbackCategories
  <2>6. CallAccounted(c)'
    BY <2>2, <2>5, Zenon DEF CallAccounted
  <2> QED BY <2>0, <2>6, OneCallAccounted DEF Finish, Judge, TypeOK
<1>13. ASSUME NEW c \in Callers, Exhaust(c) PROVE AllAccounted'
  <2> DEFINE s == verdicts[c]
             e == lastError[c]
             how == IF e # NoError THEN e ELSE "incapable"
             n == IF e # NoError THEN 1 ELSE 0
  <2>1. /\ pc'[c] = "idle" /\ lastError'[c] = NoError /\ outcome'[c] = how
        /\ verdicts'[c] = s /\ traced'[c] = n
    BY <1>13 DEF Exhaust, Finish, TypeOK, AllAccounted, CallAccounted, Accounted
  <2>2. /\ \A i \in DOMAIN s : s[i] \in Skipped \cup FallbackCategories
        /\ IF e = NoError THEN NoneTried(s) ELSE LastCaused(s, e)
    BY <1>13 DEF Exhaust, AllAccounted, CallAccounted, Accounted
  <2>3. e \in {NoError, "circuit_open"} \cup Categories
    BY DEF TypeOK
  <2> HIDE DEF s, e
  <2>4. Accounted("idle", NoError, how, s, n)
    BY <2>2, <2>3 DEF Accounted, Categories, FallbackCategories, NoError
  <2>5. CallAccounted(c)'
    BY <2>1, <2>4, Zenon DEF CallAccounted
  <2> QED BY <1>13, <2>5, OneCallAccounted DEF Exhaust, Finish, TypeOK
<1>14. ASSUME NEW c \in Callers, Abort(c) PROVE AllAccounted'
  <2> DEFINE s == verdicts[c]
  <2>1. /\ pc'[c] = "idle" /\ lastError'[c] = NoError /\ outcome'[c] = "aborted"
        /\ verdicts'[c] = s /\ traced'[c] = 0
    BY <1>14 DEF Abort, Finish, TypeOK, AllAccounted, CallAccounted, Accounted
  <2>2. \A i \in DOMAIN s : s[i] \in Skipped \cup FallbackCategories
    BY <1>14 DEF Abort, AllAccounted, CallAccounted, Accounted
  <2> HIDE DEF s
  <2>3. Accounted("idle", NoError, "aborted", s, 0)
    BY <2>2 DEF Accounted, Categories, FallbackCategories
  <2>4. CallAccounted(c)'
    BY <2>1, <2>3, Zenon DEF CallAccounted
  <2> QED BY <1>14, <2>4, OneCallAccounted DEF Abort, Finish, TypeOK
<1>15. ASSUME Tick PROVE AllAccounted'
  BY <1>15, AccountUntouched DEF Tick, history
<1> QED BY <1>1, <1>2, <1>3, <1>4, <1>5, <1>6, <1>7, <1>8, <1>9, <1>10, <1>11, <1>12,
           <1>13, <1>14, <1>15 DEF Next

\* For any routes, capabilities and answers: a call passes over a candidate only for the
\* eligible reasons, the error it ends with is the last one a model or a breaker caused, a
\* capability error means that nothing was tried, and exactly the calls that got as far as
\* a breaker or a model leave one trace record.
THEOREM OutcomesExplained == Spec => []OutcomeExplained
<1>1. Init => AllAccounted
  BY DEF Init, AllAccounted, CallAccounted, Accounted, NoError, NoneTried, Categories,
         FallbackCategories
<1> QED BY <1>1, StepAccounted, TypeCorrect, AccountedExplains, PTL DEF Spec

---------------------------------------------------------------------------
\* resolve_routes refuses a route that has one model its role cannot use, and the settings'
\* validator what production forbids; so a process that starts is usable, for any catalog,
\* any default routes and any settings, and not only for those a run enumerates.
THEOREM StartedIsUsable ==
    ASSUME NEW models, NEW s \in Settings(models), Starts(s)
    PROVE  Usable(s)
<1>1. ASSUME NEW r \in ModelRoles, NEW model \in ToSet(CandidatesOf(s, r)),
             NEW operation \in CoveredBy(r)
      PROVE  CanServe(model, r, operation)
  <2>1. r \in Enabled(s)
    BY DEF CandidatesOf, ToSet
  <2>2. Satisfies(model, r)
    <3> DEFINE unfit(q) == {[role |-> q, model |-> n] :
                              n \in {m \in ToSet(CandidatesOf(s, q)) : ~Satisfies(m, q)}}
    <3>1. RoutingProblems(s) = UNION {unfit(q) : q \in Enabled(s)} /\ RoutingProblems(s) = {}
      BY DEF Starts, RoutingProblems
    <3>2. unfit(r) = {}
      <4> HIDE DEF unfit
      <4> QED BY <2>1, <3>1
    <3> QED BY <3>2
  <2> QED BY <2>2 DEF CanServe, CoveredBy, Satisfies
<1>2. ASSUME InProduction(s), NEW r \in Enabled(s)
      PROVE  Client(s, ProviderOf(s, r)) # "mock"
  BY <1>2 DEF Starts, Accepted, Client, ProviderOf
<1>3. ASSUME NEW replan \in BOOLEAN
      PROVE  PlanAnswer(s, TRUE, Asks(replan, TRUE, FALSE), TRUE) = "accepted"
               <=> ReportedConfigured(s)
  <2>1. s.model_provider \in {"nvidia", "mock"}
    BY DEF Settings
  <2>2. PlannerConfigured(s) <=> ReportedConfigured(s)
    BY <2>1 DEF PlannerConfigured, ReportedConfigured, Enabled, ModelRoles, ProviderOf, Client
  <2> QED BY <2>2 DEF PlanAnswer, Asks
<1> QED BY <1>1, <1>2, <1>3 DEF Usable

=============================================================================
