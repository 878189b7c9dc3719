--------------------------- MODULE Planner_proofs ---------------------------
(***************************************************************************)
(* Theorems about Planner and the enforcer, for any proposals and repairs  *)
(* the model may answer with, any tool registry and any number of deaths.  *)
(***************************************************************************)
EXTENDS Planner, FiniteSetTheorems, SequenceTheorems, WellFoundedInduction, TLAPS

Answers == Proposals \cup Repairs

-----------------------------------------------------------------------------
(* The machine.                                                            *)

PlanShape ==
  /\ at \in Nodes
  /\ session \in {"closed", "open", "broken"}
  /\ session = "closed" <=> at \in {"queued", "report", "done"}
  /\ probes \in [rounds : 0..MaxProbeRounds, calls : 0..MaxProbeCalls,
                 pending : 0..MaxCallsPerAnswer]
  /\ at = "probe" => probes.rounds < MaxProbeRounds
  /\ at \in {"queued", "screen"} => probes.rounds = 0
  /\ screened \subseteq Flagged
  /\ proposal \in {None} \cup Answers
  /\ attempt \in {0, 1}
  /\ commits \in Nat
  /\ deaths \in 0..MaxDeaths
  /\ result \in Results

(* What is known of the proposal, its compilation and the draft at a node: *)
(* the draft is what Finalize found worth storing, and nothing changes it. *)
Compilation ==
  /\ at \in {"compile", "repair", "finalize", "commit", "report"} => proposal \in Answers
  /\ at \in {"repair", "finalize", "commit", "report"} => compiled = CompiledOf[proposal]
  /\ at \in {"commit", "report"} => Persistable(proposal, compiled)
  /\ at \notin {"report", "done"} => draft = None
  /\ at = "report" => draft = Draft(proposal, compiled)
  /\ draft # None =>
       /\ proposal \in Answers
       /\ compiled = CompiledOf[proposal]
       /\ Persistable(proposal, compiled)
       /\ draft = Draft(proposal, compiled)

(* An execution that has not reported has committed at most once, and one  *)
(* draft at most is left by each worker that died.                         *)
Bookkeeping ==
  /\ result = "pending" <=> at # "done"
  /\ at \notin {"report", "done"} => commits <= deaths
  /\ at = "report" => commits \in 1..(deaths + 1)
  /\ result \in {"proposed", "needs_clarification"} =>
       /\ commits \in 1..(deaths + 1)
       /\ draft # None /\ draft.outcome = result
  /\ result \in {"rejected", "failed", "raised", "cancelled"} => draft = None
  /\ result \in {"rejected", "failed"} => commits <= deaths
  /\ result \in {"raised", "cancelled"} =>
       /\ commits <= deaths + 1
       /\ commits > deaths => Persistable(proposal, compiled)

PlanInv == PlanShape /\ Compilation /\ Bookkeeping

LEMMA DraftIsSomething ==
  \A p, c : Draft(p, c) # None /\ Draft(p, c).outcome = Outcome(p)
BY DEF Draft, None

(* Outcome of what may be stored is one of the two a client is told of.    *)
LEMMA PersistableOutcome ==
  ASSUME NEW p \in Answers, NEW c, Persistable(p, c)
  PROVE  Outcome(p) \in {"proposed", "needs_clarification"}
BY PlannerAssumption DEF Answers, IsProposal, PlanOutcomes, Persistable, Outcome

LEMMA StepShape == PlanInv /\ [Next]_vars => PlanShape'
<1> SUFFICES ASSUME PlanInv, [Next]_vars PROVE PlanShape'
  OBVIOUS
<1> USE DEF PlanInv, PlanShape, Nodes, Go, End, model, stored
<1>1. CASE UNCHANGED vars
  BY <1>1 DEF vars
<1>2. CASE Begin
  BY <1>2 DEF Begin, Results
<1>3. CASE Screen
  BY <1>3 DEF Screen, MaxProbeRounds
<1>4. CASE ProbeAsk
  <2>1. /\ probes.rounds + 1 \in 0..MaxProbeRounds
        /\ \A n \in 1..MaxCallsPerAnswer : n \in 0..MaxCallsPerAnswer
    BY <1>4 DEF ProbeAsk, MaxProbeRounds, MaxCallsPerAnswer
  <2>2. probes' \in [rounds : 0..MaxProbeRounds, calls : 0..MaxProbeCalls,
                     pending : 0..MaxCallsPerAnswer]
    BY <1>4, <2>1 DEF ProbeAsk
  <2> QED BY <1>4, <2>2 DEF ProbeAsk
<1>5. CASE ProbeCall
  <2>1. /\ probes.calls + 1 \in 0..MaxProbeCalls
        /\ probes.pending - 1 \in 0..MaxCallsPerAnswer
    BY <1>5 DEF ProbeCall, MaxProbeCalls, MaxCallsPerAnswer
  <2>2. probes' \in [rounds : 0..MaxProbeRounds, calls : 0..MaxProbeCalls,
                     pending : 0..MaxCallsPerAnswer]
    BY <1>5, <2>1 DEF ProbeCall
  <2> QED BY <1>5, <2>2 DEF ProbeCall
<1>6. CASE ProbeRoundEnds
  BY <1>6 DEF ProbeRoundEnds, MaxProbeCalls, MaxProbeRounds, MaxCallsPerAnswer, NoProbes
<1>7. CASE Propose
  BY <1>7 DEF Propose, Answers
<1>8. CASE Compile
  BY <1>8 DEF Compile, RouteAfterCompile
<1>9. CASE Repair
  BY <1>9 DEF Repair, Answers
<1>10. CASE ModelFails
  BY <1>10 DEF ModelFails, Results
<1>11. CASE Finalize
  BY <1>11 DEF Finalize, Results
<1>12. CASE Commit
  <2>1. commits' \in Nat
    BY <1>12 DEF Commit, CommitsIfCutOff
  <2> QED BY <1>12, <2>1 DEF Commit, Results
<1>13. CASE Report
  <2>1. Outcome(proposal) \in Results
    BY <1>13, PersistableOutcome DEF Report, Compilation, Results
  <2> QED BY <1>13, <2>1 DEF Report
<1>14. CASE Cancel
  <2>1. commits' \in Nat
    BY <1>14 DEF Cancel, CommitsIfCutOff
  <2> QED BY <1>14, <2>1 DEF Cancel, Results
<1>15. CASE WorkerDies
  <2>1. commits' \in Nat /\ deaths' \in 0..MaxDeaths
    BY <1>15, PlannerAssumption DEF WorkerDies, CommitsIfCutOff
  <2> QED BY <1>15, <2>1 DEF WorkerDies, NoProbes, MaxProbeRounds, MaxProbeCalls,
                             MaxCallsPerAnswer
<1> QED BY <1>1, <1>2, <1>3, <1>4, <1>5, <1>6, <1>7, <1>8, <1>9, <1>10, <1>11, <1>12,
           <1>13, <1>14, <1>15 DEF Next, Advance

LEMMA StepCompilation == PlanInv /\ [Next]_vars => Compilation'
<1> SUFFICES ASSUME PlanInv, [Next]_vars PROVE Compilation'
  OBVIOUS
<1> USE DEF PlanInv, Compilation, Go, End, model, stored
<1>1. CASE UNCHANGED vars
  <2>1. \A p, c : Draft(p, c)' = Draft(p, c)
    BY <1>1 DEF vars, Draft, AllRejected
  <2> QED BY <1>1, <2>1 DEF vars
<1>2. CASE Begin
  BY <1>2 DEF Begin
<1>3. CASE Screen
  BY <1>3 DEF Screen
<1>4. CASE ProbeAsk
  BY <1>4 DEF ProbeAsk
<1>5. CASE ProbeCall
  BY <1>5 DEF ProbeCall
<1>6. CASE ProbeRoundEnds
  BY <1>6 DEF ProbeRoundEnds
<1>7. CASE Propose
  BY <1>7 DEF Propose, Answers
<1>8. CASE Compile
  BY <1>8 DEF Compile, RouteAfterCompile
<1>9. CASE Repair
  BY <1>9 DEF Repair, Answers
<1>10. CASE ModelFails
  BY <1>10 DEF ModelFails
<1>11. CASE Finalize
  BY <1>11 DEF Finalize, Persistable
<1>12. CASE Commit
  BY <1>12 DEF Commit, Draft, AllRejected, Persistable
<1>13. CASE Report
  BY <1>13 DEF Report, Draft, AllRejected, Persistable
<1>14. CASE Cancel
  BY <1>14 DEF Cancel
<1>15. CASE WorkerDies
  BY <1>15 DEF WorkerDies
<1> QED BY <1>1, <1>2, <1>3, <1>4, <1>5, <1>6, <1>7, <1>8, <1>9, <1>10, <1>11, <1>12,
           <1>13, <1>14, <1>15 DEF Next, Advance

LEMMA StepBookkeeping == PlanInv /\ [Next]_vars => Bookkeeping'
<1> SUFFICES ASSUME PlanInv, [Next]_vars PROVE Bookkeeping'
  OBVIOUS
<1>0. /\ commits \in Nat /\ deaths \in Nat /\ Bookkeeping
      /\ at \notin {"report", "done"} => draft = None
      /\ at = "commit" => Persistable(proposal, compiled)
  BY DEF PlanInv, PlanShape, Compilation
<1> USE DEF Bookkeeping, Go, End, model, stored
<1>1. CASE UNCHANGED vars
  BY <1>0, <1>1 DEF vars
<1>2. CASE Begin
  BY <1>0, <1>2 DEF Begin
<1>3. CASE Screen
  BY <1>0, <1>3 DEF Screen
<1>4. CASE ProbeAsk
  BY <1>0, <1>4 DEF ProbeAsk
<1>5. CASE ProbeCall
  BY <1>0, <1>5 DEF ProbeCall
<1>6. CASE ProbeRoundEnds
  BY <1>0, <1>6 DEF ProbeRoundEnds
<1>7. CASE Propose
  BY <1>0, <1>7 DEF Propose
<1>8. CASE Compile
  BY <1>0, <1>8 DEF Compile, RouteAfterCompile
<1>9. CASE Repair
  BY <1>0, <1>9 DEF Repair
<1>10. CASE ModelFails
  BY <1>0, <1>10 DEF ModelFails
<1>11. CASE Finalize
  BY <1>0, <1>11 DEF Finalize
<1>12. CASE Commit
  <2>1. commits' \in {commits, commits + 1} /\ Persistable(proposal, compiled)'
    BY <1>0, <1>12 DEF Commit, CommitsIfCutOff, Persistable
  <2>2. draft' # None \/ result' = "raised"
    BY <1>12, DraftIsSomething DEF Commit
  <2> QED BY <1>0, <1>12, <2>1, <2>2 DEF Commit, CommitsIfCutOff
<1>13. CASE Report
  <2>1. Outcome(proposal) \in {"proposed", "needs_clarification"}
    BY <1>13, PersistableOutcome DEF Report, PlanInv, Compilation
  <2>2. draft # None /\ draft.outcome = Outcome(proposal)
    BY <1>13, DraftIsSomething DEF Report, PlanInv, Compilation
  <2> QED BY <1>0, <1>13, <2>1, <2>2 DEF Report
<1>14. CASE Cancel
  <2>1. CASE at = "commit"
    <3>1. Persistable(proposal, compiled)' /\ commits' \in {commits, commits + 1}
      BY <1>0, <1>14, <2>1 DEF Cancel, CommitsIfCutOff, Persistable
    <3> QED BY <1>0, <1>14, <2>1, <3>1 DEF Cancel
  <2>2. CASE at # "commit"
    BY <1>0, <1>14, <2>2 DEF Cancel, CommitsIfCutOff
  <2> QED BY <2>1, <2>2
<1>15. CASE WorkerDies
  BY <1>0, <1>15 DEF WorkerDies, CommitsIfCutOff
<1> QED BY <1>1, <1>2, <1>3, <1>4, <1>5, <1>6, <1>7, <1>8, <1>9, <1>10, <1>11, <1>12,
           <1>13, <1>14, <1>15 DEF Next, Advance

LEMMA InitPlanInv == Init => PlanInv
<1> SUFFICES ASSUME Init PROVE PlanInv
  OBVIOUS
<1> USE DEF Init
<1>1. PlanShape
  BY PlannerAssumption DEF PlanShape, Nodes, NoProbes, MaxProbeRounds, MaxProbeCalls,
                           MaxCallsPerAnswer, Results
<1>2. Compilation
  BY DEF Compilation
<1>3. Bookkeeping
  BY DEF Bookkeeping
<1> QED BY <1>1, <1>2, <1>3 DEF PlanInv

LEMMA PlanInvariance == Spec => []PlanInv
<1>1. PlanInv /\ [Next]_vars => PlanInv'
  BY StepShape, StepCompilation, StepBookkeeping DEF PlanInv
<1> QED BY InitPlanInv, <1>1, PTL DEF Spec

-----------------------------------------------------------------------------
(* What the enforcer makes of a proposal.                                  *)

LEMMA LeastPosition ==
  ASSUME NEW T \in SUBSET Nat, T # {}
  PROVE  \E i \in T : \A j \in T : i <= j
<1> DEFINE below == OpToRel(<, Nat)
<1>1. PICK i \in T : \A j \in T : <<j, i>> \notin below
  <2> HIDE DEF below
  <2>1. IsWellFoundedOn(below, Nat)
    BY NatLessThanWellFounded, Zenon DEF below
  <2> QED BY <2>1, WFMin, Zenon
<1>2. \A j \in T : ~(j < i)
  BY <1>1, Zenon DEF OpToRel
<1> QED BY <1>2

LEMMA FirstIsOneOf ==
  ASSUME NEW s, NEW T \in SUBSET Nat, T # {}
  PROVE  \E i \in T : FirstOf(s, T) = s[i]
<1>1. (CHOOSE i \in T : \A j \in T : i <= j) \in T
  BY LeastPosition
<1> QED BY <1>1 DEF FirstOf

LEMMA StepsAreSequence ==
  ASSUME NEW p \in Answers
  PROVE  /\ RawSteps(p) \in Seq(ToSet(RawSteps(p)))
         /\ DOMAIN RawSteps(p) = DOMAIN p.steps
         /\ DOMAIN RawSteps(p) = 1..Len(RawSteps(p))
         /\ DOMAIN RawSteps(p) \in SUBSET Nat
         /\ \A i \in DOMAIN RawSteps(p) : RawSteps(p)[i] = p.steps[i].step
         /\ \A s \in ToSet(RawSteps(p)) : IsStep(s)
<1>1. /\ p.steps \in Seq(ToSet(p.steps))
      /\ \A i \in DOMAIN p.steps : IsStep(p.steps[i].step)
  BY PlannerAssumption DEF Answers, IsProposal
<1>2. \A i \in DOMAIN p.steps : RawSteps(p)[i] = p.steps[i].step
  BY DEF RawSteps, RawStep
<1>3. DOMAIN RawSteps(p) = DOMAIN p.steps /\ DOMAIN p.steps = 1..Len(p.steps)
  BY <1>1 DEF RawSteps
<1>4. RawSteps(p) \in Seq(ToSet(RawSteps(p)))
  <2>1. RawSteps(p) = [i \in 1..Len(p.steps) |-> RawSteps(p)[i]]
    BY <1>3 DEF RawSteps
  <2>2. \A i \in 1..Len(p.steps) : RawSteps(p)[i] \in ToSet(RawSteps(p))
    BY <1>3 DEF ToSet
  <2>3. RawSteps(p) \in [1..Len(p.steps) -> ToSet(RawSteps(p))]
    BY <2>1, <2>2
  <2>4. Len(p.steps) \in Nat
    BY <1>1
  <2> QED BY <2>3, <2>4 DEF Seq
<1> QED BY <1>1, <1>2, <1>3, <1>4 DEF ToSet

(* The name _unique_step_id finds is not in use.                           *)
LEMMA ReviewNameIsFree ==
  ASSUME NEW p \in Answers
  PROVE  FreeReviewName(TakenIds(RawSteps(p))) \notin TakenIds(RawSteps(p))
<1> DEFINE free == {i \in DOMAIN ReviewNames : ReviewNames[i] \notin TakenIds(RawSteps(p))}
<1>1. free \in SUBSET Nat /\ free # {}
  BY PlannerAssumption DEF Answers
<1>2. PICK i \in free : FirstOf(ReviewNames, free) = ReviewNames[i]
  <2> HIDE DEF free
  <2> QED BY <1>1, FirstIsOneOf
<1> QED BY <1>2 DEF FreeReviewName

LEMMA FinishIsAStep ==
  ASSUME NEW p \in Answers, NeedsReview(RawSteps(p))
  PROVE  \E i \in DOMAIN RawSteps(p) :
           FinishOf(RawSteps(p)) = RawSteps(p)[i] /\ RawSteps(p)[i].type = "finish"
<1> DEFINE ends == {i \in DOMAIN RawSteps(p) : RawSteps(p)[i].type = "finish"}
<1>1. ends \in SUBSET Nat /\ ends # {}
  BY StepsAreSequence DEF NeedsReview, ToSet
<1>2. PICK i \in ends : FirstOf(RawSteps(p), ends) = RawSteps(p)[i]
  <2> HIDE DEF ends
  <2> QED BY <1>1, FirstIsOneOf
<1> QED BY <1>2 DEF FinishOf

Added(p) == ReviewStep(FreeReviewName(TakenIds(RawSteps(p))), FinishOf(RawSteps(p)).refs)

LEMMA ReviewedSteps ==
  ASSUME NEW p \in Answers
  PROVE  /\ Len(Reviewed(p).steps) = Len(RawSteps(p)) + 1
         /\ DOMAIN Reviewed(p).steps = 1..(Len(RawSteps(p)) + 1)
         /\ Reviewed(p).steps[Len(RawSteps(p)) + 1] = Added(p)
         /\ \A i \in DOMAIN RawSteps(p) : Reviewed(p).steps[i] = RawSteps(p)[i]
         /\ StepsOf(Reviewed(p)) = StepsOf(Unreviewed(p)) \cup {Added(p)}
         /\ Reviewed(p).approvals = ExpectedApprovals(Reviewed(p))
         /\ Unreviewed(p).approvals = ExpectedApprovals(Unreviewed(p))
         /\ StepsOf(Unreviewed(p)) = ToSet(RawSteps(p))
<1> DEFINE raw == RawSteps(p)
<1>1. raw \in Seq(ToSet(raw)) /\ Len(raw) \in Nat /\ DOMAIN raw = 1..Len(raw)
  BY StepsAreSequence
<1>2. Reviewed(p).steps = Append(raw, Added(p))
  BY DEF Reviewed, Definition, WithReview, Added
<1>3. /\ Len(Append(raw, Added(p))) = Len(raw) + 1
      /\ DOMAIN Append(raw, Added(p)) = 1..(Len(raw) + 1)
      /\ Append(raw, Added(p))[Len(raw) + 1] = Added(p)
      /\ \A i \in 1..Len(raw) : Append(raw, Added(p))[i] = raw[i]
  <2> HIDE DEF raw
  <2>1. raw \in Seq(ToSet(raw) \cup {Added(p)})
    BY <1>1
  <2> QED BY <2>1
<1>4. StepsOf(Unreviewed(p)) = ToSet(raw)
  BY DEF StepsOf, Unreviewed, Definition, ToSet
<1>5. StepsOf(Reviewed(p)) = ToSet(raw) \cup {Added(p)}
  <2>1. StepsOf(Reviewed(p)) = {Append(raw, Added(p))[i] : i \in 1..(Len(raw) + 1)}
    BY <1>2, <1>3 DEF StepsOf
  <2>2. 1..(Len(raw) + 1) = 1..Len(raw) \cup {Len(raw) + 1}
    BY <1>1
  <2> HIDE DEF raw
  <2> QED BY <1>1, <1>3, <2>1, <2>2 DEF ToSet
<1>6. ASSUME NEW d, NEW steps, NEW edges, d = Definition(p, steps, edges)
      PROVE  d.approvals = ExpectedApprovals(d)
  <2>1. d.steps = steps /\ d.approvals = ApprovalPoints(steps)
    BY <1>6 DEF Definition
  <2>2. ToSet(steps) = StepsOf(d)
    BY <2>1 DEF StepsOf, ToSet
  <2> QED BY <2>1, <2>2, Zenon DEF ApprovalPoints, ExpectedApprovals
<1>7. /\ Reviewed(p).approvals = ExpectedApprovals(Reviewed(p))
      /\ Unreviewed(p).approvals = ExpectedApprovals(Unreviewed(p))
  BY <1>6 DEF Reviewed, Unreviewed
<1> QED BY <1>1, <1>2, <1>3, <1>4, <1>5, <1>7

(* Whatever is compiled keeps to the registry and to its own approvals.    *)
LEMMA RulesOfEnforcer ==
  ASSUME NEW p \in Answers
  PROVE  LET d == RawDefinition(p) IN
         /\ d.tools \subseteq Registered
         /\ d.approvals = ExpectedApprovals(d)
         /\ StepsOf(Unreviewed(p)) \subseteq StepsOf(d)
         /\ OfType(d, "finish") # {} => OfType(d, "human_review") # {}
<1>1. /\ Reviewed(p).tools \subseteq Registered
      /\ Unreviewed(p).tools \subseteq Registered
  BY DEF Reviewed, Unreviewed, Definition, KeptTools
<1>2. CASE NeedsReview(RawSteps(p))
  <2>1. Added(p) \in OfType(Reviewed(p), "human_review")
    BY ReviewedSteps DEF OfType, Added, ReviewStep
  <2> QED BY <1>1, <1>2, <2>1, ReviewedSteps DEF RawDefinition
<1>3. CASE ~NeedsReview(RawSteps(p))
  <2>1. OfType(Unreviewed(p), "finish") # {} => OfType(Unreviewed(p), "human_review") # {}
    BY <1>3, ReviewedSteps DEF NeedsReview, OfType
  <2> QED BY <1>1, <1>3, <2>1, ReviewedSteps DEF RawDefinition
<1> QED BY <1>2, <1>3

-----------------------------------------------------------------------------
(* The theorems about stored drafts.                                       *)

(* The variables keep their types, the probe counters their caps: at most  *)
(* two rounds of probes and four calls (planner/grounding.py).             *)
THEOREM TypeCorrect == Spec => []TypeOK
<1>1. PlanInv => TypeOK
  <2> SUFFICES ASSUME PlanInv PROVE TypeOK
    OBVIOUS
  <2>1. /\ probes.rounds \in 0..MaxProbeRounds
        /\ probes.calls \in 0..MaxProbeCalls
        /\ probes.pending \in 0..MaxCallsPerAnswer
    BY DEF PlanInv, PlanShape
  <2>2. commits \in 0..(deaths + 1)
    <3>1. commits \in Nat /\ deaths \in Nat /\ at \in Nodes /\ result \in Results
      BY DEF PlanInv, PlanShape
    <3> QED BY <3>1 DEF PlanInv, Bookkeeping, Nodes, Results
  <2> QED BY <2>1, <2>2 DEF PlanInv, PlanShape, TypeOK, Answers
<1> QED BY PlanInvariance, <1>1, PTL

(* What a client is told of the job and what the database holds agree,     *)
(* whatever was cancelled, died or failed at its commit: a reported plan   *)
(* is stored, a complete job without one has stored none of its own, and   *)
(* what a failed job may have stored is a finished plan                    *)
(* (worker/main.py:153).                                                   *)
THEOREM ReportsAgree == Spec => []ReportsMatchDrafts
<1>1. PlanInv => ReportsMatchDrafts
  <2> SUFFICES ASSUME PlanInv PROVE ReportsMatchDrafts
    OBVIOUS
  <2>1. at # "done" \/ result \in Results \ {"pending"}
    BY DEF PlanInv, PlanShape, Bookkeeping
  <2>2. CASE at # "done"
    BY <2>2 DEF ReportsMatchDrafts, JobStatus
  <2>3. CASE at = "done" /\ result \in Results \ {"pending"}
    BY <2>3 DEF PlanInv, Bookkeeping, ReportsMatchDrafts, JobStatus, Results
  <2> QED BY <2>1, <2>2, <2>3
<1> QED BY PlanInvariance, <1>1, PTL

(* Whatever the model answered, a stored draft obeys the enforcer: it      *)
(* parses, has a finish and a review, names only registered tools and      *)
(* keeps the approvals its steps ask for (planner/compile.py).             *)
THEOREM DraftsEnforced == Spec => []DraftEnforced
<1>1. PlanInv => DraftEnforced
  <2> SUFFICES ASSUME PlanInv, draft # None PROVE DraftEnforced
    BY DEF DraftEnforced
  <2> DEFINE d == RawDefinition(proposal)
  <2>1. /\ proposal \in Answers
        /\ compiled = Compiled(proposal)
        /\ Persistable(proposal, compiled)
        /\ draft = Draft(proposal, compiled)
    BY DEF PlanInv, Compilation, CompiledOf, Answers
  <2>2. compiled.definition = d /\ compiled.parsed = Parses(d)
    BY <2>1 DEF Compiled
  <2>3. /\ draft.definition = d
        /\ draft.outcome = Outcome(proposal)
        /\ screened \subseteq draft.rejected
    BY <2>1, <2>2 DEF Draft, AllRejected
  <2>4. Parses(d) /\ OfType(d, "finish") # {} /\ Outcome(proposal) # "rejected"
    BY <2>1, <2>2 DEF Persistable
  <2>5. /\ d.tools \subseteq Registered
        /\ d.approvals = ExpectedApprovals(d)
        /\ StepsOf(Unreviewed(proposal)) \subseteq StepsOf(d)
        /\ OfType(d, "human_review") # {}
    BY <2>1, <2>4, RulesOfEnforcer
  <2>6. ASSUME NEW i \in DOMAIN proposal.steps, proposal.steps[i].step.approval
        PROVE  proposal.steps[i].step.id \in d.approvals
    <3>1. proposal.steps[i].step \in StepsOf(Unreviewed(proposal))
      <4>1. /\ i \in DOMAIN RawSteps(proposal)
            /\ RawSteps(proposal)[i] = proposal.steps[i].step
        BY <2>1, <2>6, StepsAreSequence
      <4>2. RawSteps(proposal)[i] \in ToSet(RawSteps(proposal))
        BY <4>1 DEF ToSet
      <4> QED BY <2>1, <4>1, <4>2, ReviewedSteps
    <3> QED BY <2>5, <2>6, <3>1 DEF ExpectedApprovals
  <2> HIDE DEF d
  <2> QED BY <2>3, <2>4, <2>5, <2>6 DEF DraftEnforced, ExpectedApprovals
<1> QED BY PlanInvariance, <1>1, PTL

(* What has run when a step may start holds the step's ancestors.          *)
LEMMA AncestorsHaveRun ==
  ASSUME NEW d, NEW id, NEW ran \in RunSoFar(d), Before(d, id) \subseteq ran
  PROVE  Ancestors(d, id) \subseteq ran
<1>1. \A m : Before(d, m) \subseteq Sources(d)
  BY DEF Before, Sources
<1>2. ClosedAbove(d, id, ran \cap Sources(d))
  BY <1>1 DEF ClosedAbove, RunSoFar
<1> QED BY <1>2 DEF Ancestors

(* A draft stored without validation errors can be executed in every order *)
(* its edges allow: each reference names what an earlier step produced     *)
(* (_check_ref, _compute_ancestors).                                       *)
THEOREM CleanDraftsRun == Spec => []CleanDraftRuns
<1>1. PlanInv => CleanDraftRuns
  <2> SUFFICES ASSUME PlanInv, draft # None, draft.errors = {}
               PROVE  Resolvable(draft.definition)
    BY DEF CleanDraftRuns
  <2> DEFINE d == RawDefinition(proposal)
  <2>1. /\ proposal \in Answers
        /\ compiled = Compiled(proposal)
        /\ Persistable(proposal, compiled)
        /\ draft = Draft(proposal, compiled)
    BY DEF PlanInv, Compilation, CompiledOf, Answers
  <2>2. draft.definition = d /\ Errors(d, Registered) = {}
    BY <2>1 DEF Draft, Compiled, Persistable
  <2> HIDE DEF d
  <2>3. ASSUME NEW ran \in RunSoFar(d), NEW s \in StepsOf(d), NEW v \in s.refs,
               Before(d, s.id) \subseteq ran, v.kind = "step"
        PROVE  v.name \in ran /\ v.field \in Outputs[StepNamed(d, v.name).type]
    <3>1. RefErrors(d, s) = {}
      BY <2>2 DEF Errors
    <3>2. RefVerdict(d, s, v) = "fine"
      BY <3>1 DEF RefErrors
    <3>3. /\ v.name \in Ancestors(d, s.id)
          /\ v.field \in Outputs[StepNamed(d, v.name).type]
      BY <2>3, <3>2 DEF RefVerdict
    <3> QED BY <2>3, <3>3, AncestorsHaveRun
  <2> QED BY <2>2, <2>3 DEF Resolvable
<1> QED BY PlanInvariance, <1>1, PTL

-----------------------------------------------------------------------------
(* The inserted review.  A proposal that needs one has a plan without it   *)
(* (own) and a plan with it (with); review and fin name the two steps.     *)

FinishId(p) == FinishOf(RawSteps(p)).id

(* An edge of the model's own as rule 3 leaves it.                         *)
Bent(p, e) == IF e.target = FinishId(p) THEN [e EXCEPT !.target = Added(p).id] ELSE e

LEMMA ReviewIsNew ==
  ASSUME NEW p \in Answers, NeedsReview(RawSteps(p))
  PROVE  /\ Added(p).id \notin Ids(Unreviewed(p))
         /\ FinishId(p) \in Ids(Unreviewed(p))
         /\ Ids(Reviewed(p)) = Ids(Unreviewed(p)) \cup {Added(p).id}
         /\ Added(p).type = "human_review" /\ Added(p).shaped /\ Added(p).filled
<1>1. Added(p).id = FreeReviewName(TakenIds(RawSteps(p)))
  BY DEF Added, ReviewStep
<1>2. TakenIds(RawSteps(p)) = Ids(Unreviewed(p))
  BY ReviewedSteps DEF TakenIds, Ids
<1>3. FinishId(p) \in Ids(Unreviewed(p))
  BY FinishIsAStep, ReviewedSteps DEF FinishId, Ids, ToSet
<1>4. Ids(Reviewed(p)) = Ids(Unreviewed(p)) \cup {Added(p).id}
  BY ReviewedSteps DEF Ids
<1> QED BY <1>1, <1>2, <1>3, <1>4, ReviewNameIsFree DEF Added, ReviewStep

LEMMA EdgesBent ==
  ASSUME NEW p \in Answers, NeedsReview(RawSteps(p))
  PROVE  Arrows(Reviewed(p)) =
           {Bent(p, e) : e \in Arrows(Unreviewed(p))}
             \cup {[source |-> Added(p).id, target |-> FinishId(p)]}
<1> DEFINE review == Added(p).id
           fin == FinishId(p)
           bent == [i \in DOMAIN p.edges |-> Bent(p, p.edges[i])]
           last == [source |-> review, target |-> fin]
<1>1. Reviewed(p).edges = Redirected(p.edges, fin, review)
  <2>1. LET steps == WithReview(RawSteps(p)) IN steps[Len(steps)].id = review
    BY ReviewedSteps DEF Reviewed, Definition
  <2> QED BY <2>1 DEF Reviewed, Definition, FinishId
<1>2. Redirected(p.edges, fin, review) = Append(bent, last)
  BY DEF Redirected, Bent
<1>3. p.edges \in Seq(ToSet(p.edges))
  BY PlannerAssumption DEF Answers, IsProposal
<1>4. bent \in Seq({Bent(p, e) : e \in Arrows(Unreviewed(p))} \cup {last})
      /\ DOMAIN bent = DOMAIN p.edges /\ Len(bent) = Len(p.edges)
  <2>1. DOMAIN p.edges = 1..Len(p.edges) /\ Len(p.edges) \in Nat
    BY <1>3
  <2>2. \A i \in 1..Len(p.edges) : Bent(p, p.edges[i]) \in
           {Bent(p, e) : e \in Arrows(Unreviewed(p))} \cup {last}
    BY <2>1 DEF Arrows, Unreviewed, Definition
  <2> HIDE DEF last
  <2> QED BY <2>1, <2>2
<1>5. {Append(bent, last)[i] : i \in DOMAIN Append(bent, last)}
        = {bent[i] : i \in DOMAIN bent} \cup {last}
  <2>1. DOMAIN bent = 1..Len(bent) /\ Len(bent) \in Nat
    BY <1>4
  <2>2. /\ DOMAIN Append(bent, last) = 1..(Len(bent) + 1)
        /\ \A i \in 1..Len(bent) : Append(bent, last)[i] = bent[i]
        /\ Append(bent, last)[Len(bent) + 1] = last
    <3> HIDE DEF bent, last
    <3> QED BY <1>4
  <2>3. 1..(Len(bent) + 1) = 1..Len(bent) \cup {Len(bent) + 1}
    BY <2>1
  <2> HIDE DEF bent, last
  <2> QED BY <2>1, <2>2, <2>3
<1>6. {bent[i] : i \in DOMAIN bent} = {Bent(p, e) : e \in Arrows(Unreviewed(p))}
  BY DEF Arrows, Unreviewed, Definition
<1>7. Arrows(Reviewed(p)) = {Append(bent, last)[i] : i \in DOMAIN Append(bent, last)}
  <2> HIDE DEF bent, last
  <2> QED BY <1>1, <1>2 DEF Arrows
<1> QED BY <1>5, <1>6, <1>7

(* Who comes before whom, with the review and without.                     *)
LEMMA BeforeWithReview ==
  ASSUME NEW p \in Answers, NeedsReview(RawSteps(p))
  PROVE  LET own == Unreviewed(p)
             with == Reviewed(p)
             review == Added(p).id
             fin == FinishId(p)
         IN  /\ Before(with, fin) = {review}
             /\ Before(with, review) = Before(own, fin) \cup Before(own, review)
             /\ \A x : x \notin {fin, review} => Before(with, x) = Before(own, x)
             /\ Sources(with) = Sources(own) \cup {review}
             /\ \A x : After(own, x) # {} => After(with, x) # {}
<1> DEFINE own == Unreviewed(p)
           with == Reviewed(p)
           review == Added(p).id
           fin == FinishId(p)
           turned(e) == IF e.target = fin THEN review ELSE e.target
<1>1. \A e \in Arrows(own) : DOMAIN e = {"source", "target"}
  BY PlannerAssumption DEF Answers, IsProposal, Arrows, Unreviewed, Definition
<1>2. \A e \in Arrows(own) :
        /\ Bent(p, e).source = e.source
        /\ Bent(p, e).target = IF e.target = fin THEN review ELSE e.target
  BY <1>1 DEF Bent
<1>3. Arrows(with) = {Bent(p, e) : e \in Arrows(own)}
                       \cup {[source |-> review, target |-> fin]}
  BY EdgesBent
<1>4. review # fin
  BY ReviewIsNew
<1>5. /\ \A a \in Arrows(with) :
           \/ a.source = review /\ a.target = fin
           \/ \E e \in Arrows(own) : a.source = e.source /\ a.target = turned(e)
      /\ \A e \in Arrows(own) :
           \E a \in Arrows(with) : a.source = e.source /\ a.target = turned(e)
      /\ \E a \in Arrows(with) : a.source = review /\ a.target = fin
  <2> DEFINE last == [source |-> review, target |-> fin]
  <2>1. last.source = review /\ last.target = fin
    OBVIOUS
  <2>2. Arrows(with) = {Bent(p, e) : e \in Arrows(own)} \cup {last}
    BY <1>3
  <2>3. \A e \in Arrows(own) : Bent(p, e).source = e.source /\ Bent(p, e).target = turned(e)
    BY <1>2
  <2> HIDE DEF own, with, review, fin, last, turned
  <2>4. \A a \in Arrows(with) : a = last \/ \E e \in Arrows(own) : a = Bent(p, e)
    BY <2>2
  <2>5. last \in Arrows(with) /\ \A e \in Arrows(own) : Bent(p, e) \in Arrows(with)
    BY <2>2
  <2> QED BY <2>1, <2>3, <2>4, <2>5
<1>6. /\ \A m, x : m \in Before(own, x) <=> \E e \in Arrows(own) : e.source = m /\ e.target = x
      /\ \A m, x : m \in Before(with, x) <=>
           \E a \in Arrows(with) : a.source = m /\ a.target = x
      /\ \A m : m \in Sources(own) <=> \E e \in Arrows(own) : e.source = m
      /\ \A m : m \in Sources(with) <=> \E a \in Arrows(with) : a.source = m
  BY DEF Before, Sources
<1>7. /\ \A m, x : m \in Before(with, x) <=>
           \/ m = review /\ x = fin
           \/ \E e \in Arrows(own) : e.source = m /\ turned(e) = x
      /\ \A m : m \in Sources(with) <=> m = review \/ m \in Sources(own)
  <2> HIDE DEF own, with, review, fin, turned
  <2>1. ASSUME NEW m, NEW x, m \in Before(with, x)
        PROVE  \/ m = review /\ x = fin
               \/ \E e \in Arrows(own) : e.source = m /\ turned(e) = x
    BY <1>5, <1>6, <2>1
  <2>2. review \in Before(with, fin)
    BY <1>5, <1>6
  <2>3. ASSUME NEW e \in Arrows(own)
        PROVE  e.source \in Before(with, turned(e))
    BY <1>5, <1>6
  <2>4. ASSUME NEW m, m \in Sources(with)
        PROVE  m = review \/ m \in Sources(own)
    BY <1>5, <1>6, <2>4
  <2>5. ASSUME NEW m, m = review \/ m \in Sources(own)
        PROVE  m \in Sources(with)
    BY <1>5, <1>6, <2>5
  <2>6. \A m : m \in Sources(with) <=> m = review \/ m \in Sources(own)
    BY <2>4, <2>5
  <2> QED BY <2>1, <2>2, <2>3, <2>6
<1>8. ASSUME NEW x, After(own, x) # {}
      PROVE  After(with, x) # {}
  <2>1. PICK e \in Arrows(own) : e.source = x
    BY <1>8 DEF After
  <2>2. Bent(p, e) \in Arrows(with) /\ Bent(p, e).source = x
    BY <1>2, <1>3, <2>1
  <2> QED BY <2>2 DEF After
<1> HIDE DEF own, with, review, fin, turned
<1>9. Before(with, fin) = {review}
  BY <1>4, <1>7 DEF turned
<1>10. Before(with, review) = Before(own, fin) \cup Before(own, review)
  BY <1>4, <1>6, <1>7 DEF turned
<1>11. ASSUME NEW x, x \notin {fin, review}
       PROVE  Before(with, x) = Before(own, x)
  <2>1. \A e : turned(e) = x <=> e.target = x
    BY <1>11 DEF turned
  <2>2. \A m : m \in Before(with, x) <=> \E e \in Arrows(own) : e.source = m /\ e.target = x
    BY <1>7, <1>11, <2>1
  <2>3. \A m : m \in Before(with, x) <=> m \in Before(own, x)
    BY <1>6, <2>2
  <2>4. Before(with, x) \subseteq Sources(with) /\ Before(own, x) \subseteq Sources(own)
    BY DEF Before, Sources
  <2> QED BY <2>3, <2>4
<1> QED BY <1>7, <1>8, <1>9, <1>10, <1>11 DEF own, with, review, fin

(* The least closed set is closed.                                         *)
LEMMA AncestorsClosed ==
  ASSUME NEW d, NEW id
  PROVE  /\ ClosedAbove(d, id, Ancestors(d, id))
         /\ Ancestors(d, id) \subseteq Sources(d)
<1>1. \A m : Before(d, m) \subseteq Sources(d)
  BY DEF Before, Sources
<1>2. Before(d, id) \subseteq Ancestors(d, id)
  BY <1>1 DEF Ancestors, ClosedAbove
<1>3. ASSUME NEW m \in Ancestors(d, id)
      PROVE  Before(d, m) \subseteq Ancestors(d, id)
  BY <1>1, <1>3 DEF Ancestors, ClosedAbove
<1> QED BY <1>2, <1>3 DEF ClosedAbove, Ancestors

(* Nothing that came before a step is lost by the detour.                  *)
LEMMA AncestorsKept ==
  ASSUME NEW p \in Answers, NeedsReview(RawSteps(p)), NEW id \in Ids(Unreviewed(p))
  PROVE  Ancestors(Unreviewed(p), id) \subseteq Ancestors(Reviewed(p), id)
<1> DEFINE own == Unreviewed(p)
           with == Reviewed(p)
           review == Added(p).id
           fin == FinishId(p)
<1>0. /\ Before(with, fin) = {review}
      /\ Before(with, review) = Before(own, fin) \cup Before(own, review)
      /\ \A x : x \notin {fin, review} => Before(with, x) = Before(own, x)
      /\ Sources(with) = Sources(own) \cup {review}
  BY BeforeWithReview
<1>1. \A m : Before(own, m) \subseteq Sources(own)
  BY DEF Before, Sources
<1> HIDE DEF own, with, review, fin
<1>2. ASSUME NEW S \in SUBSET Sources(with), ClosedAbove(with, id, S)
      PROVE  ClosedAbove(own, id, S \cap Sources(own))
  <2>1. \A x : x = id \/ x \in S => Before(with, x) \subseteq S
    BY <1>2 DEF ClosedAbove
  <2>2. \A x : x = id \/ x \in S => Before(own, x) \subseteq S
    BY <1>0, <2>1
  <2> QED BY <1>1, <2>2 DEF ClosedAbove
<1>3. Ancestors(own, id) \subseteq Ancestors(with, id)
  <2>1. \A S \in SUBSET Sources(with) : S \cap Sources(own) \in SUBSET Sources(own)
    OBVIOUS
  <2> QED BY <1>0, <1>2, <2>1 DEF Ancestors
<1> QED BY <1>3 DEF own, with

(* And nothing but the review joins it.                                    *)
LEMMA AcyclicWithReview ==
  ASSUME NEW p \in Answers, NeedsReview(RawSteps(p)), Parses(Unreviewed(p))
  PROVE  Acyclic(Reviewed(p))
<1> DEFINE own == Unreviewed(p)
           with == Reviewed(p)
           review == Added(p).id
           fin == FinishId(p)
<1>0. /\ Before(with, fin) = {review}
      /\ Before(with, review) = Before(own, fin) \cup Before(own, review)
      /\ \A x : x \notin {fin, review} => Before(with, x) = Before(own, x)
      /\ Sources(with) = Sources(own) \cup {review}
  BY BeforeWithReview
<1>1. /\ review \notin Ids(own)
      /\ fin \in Ids(own)
      /\ Ids(with) = Ids(own) \cup {review}
  BY ReviewIsNew
<1>2. /\ \A e \in Arrows(own) : e.source \in Ids(own) /\ e.target \in Ids(own)
      /\ \A id \in Ids(own) : id \notin Ancestors(own, id)
  BY DEF Parses, Acyclic
<1> HIDE DEF own, with, review, fin
<1>3. Sources(own) \subseteq Ids(own) /\ Before(own, review) = {}
  BY <1>1, <1>2 DEF Sources, Before
<1>4. \A id : Ancestors(own, id) \subseteq Sources(own)
  BY AncestorsClosed
<1>5. \A id : /\ Before(own, id) \subseteq Ancestors(own, id)
              /\ \A m \in Ancestors(own, id) : Before(own, m) \subseteq Ancestors(own, id)
  BY AncestorsClosed DEF ClosedAbove
<1>6. ASSUME NEW id, NEW S \in SUBSET Sources(with), ClosedAbove(with, id, S), id \notin S
      PROVE  id \notin Ancestors(with, id)
  BY <1>6 DEF Ancestors
<1>7. review \notin Ancestors(with, review)
  <2>1. fin \notin Ancestors(own, fin) /\ review \notin Ancestors(own, fin)
    BY <1>1, <1>2, <1>3, <1>4
  <2>2. ClosedAbove(with, review, Ancestors(own, fin))
    BY <1>0, <1>3, <1>5, <2>1 DEF ClosedAbove
  <2>3. Ancestors(own, fin) \in SUBSET Sources(with)
    BY <1>0, <1>4
  <2> QED BY <1>6, <2>1, <2>2, <2>3
<1>8. ASSUME NEW id \in Ids(own)
      PROVE  id \notin Ancestors(with, id)
  <2> DEFINE S == Ancestors(own, id) \cup
                    (IF id = fin \/ fin \in Ancestors(own, id) THEN {review} ELSE {})
  <2>1. S \in SUBSET Sources(with)
    BY <1>0, <1>4
  <2>2. id \notin S
    BY <1>1, <1>2
  <2>3. review \notin Ancestors(own, id) /\ id # review
    BY <1>1, <1>3, <1>4
  <2>4. ASSUME NEW m, m = id \/ m \in S
        PROVE  Before(with, m) \subseteq S
    <3>1. CASE m = review
      BY <1>0, <1>3, <1>5, <2>3, <2>4, <3>1
    <3>2. CASE m = fin
      BY <1>0, <1>1, <2>4, <3>2
    <3>3. CASE m \notin {fin, review}
      BY <1>0, <1>5, <2>4, <3>3
    <3> QED BY <3>1, <3>2, <3>3
  <2>5. ClosedAbove(with, id, S)
    BY <2>4 DEF ClosedAbove
  <2> HIDE DEF S
  <2> QED BY <1>6, <2>1, <2>2, <2>5
<1>9. \A id \in Ids(with) : id \notin Ancestors(with, id)
  BY <1>1, <1>7, <1>8
<1> QED BY <1>9 DEF Acyclic, with

(* Where the finish stands: the review is not one.                         *)
FinishPositions(d) == {i \in DOMAIN d.steps : d.steps[i].type = "finish"}

LEMMA FinishesKeepPositions ==
  ASSUME NEW p \in Answers, NeedsReview(RawSteps(p))
  PROVE  FinishPositions(Reviewed(p)) = FinishPositions(Unreviewed(p))
<1>1. /\ DOMAIN Unreviewed(p).steps = 1..Len(RawSteps(p))
      /\ Unreviewed(p).steps = RawSteps(p)
      /\ Len(RawSteps(p)) \in Nat
  BY StepsAreSequence DEF Unreviewed, Definition
<1>2. /\ DOMAIN Reviewed(p).steps = 1..(Len(RawSteps(p)) + 1)
      /\ Reviewed(p).steps[Len(RawSteps(p)) + 1].type = "human_review"
      /\ \A i \in 1..Len(RawSteps(p)) : Reviewed(p).steps[i] = RawSteps(p)[i]
  BY <1>1, ReviewedSteps, ReviewIsNew
<1>3. 1..(Len(RawSteps(p)) + 1) = 1..Len(RawSteps(p)) \cup {Len(RawSteps(p)) + 1}
  BY <1>1
<1> QED BY <1>1, <1>2, <1>3 DEF FinishPositions

(* A plan that parsed without the review parses with it.                   *)
LEMMA ParsesWithReview ==
  ASSUME NEW p \in Answers, NeedsReview(RawSteps(p)), Parses(Unreviewed(p))
  PROVE  Parses(Reviewed(p))
<1> DEFINE own == Unreviewed(p)
           with == Reviewed(p)
           n == Len(RawSteps(p))
<1>1. \A s \in StepsOf(with) : s.shaped
  BY ReviewedSteps, ReviewIsNew DEF Parses
<1>2. \A i, j \in DOMAIN with.steps : with.steps[i].id = with.steps[j].id => i = j
  <2>1. /\ DOMAIN own.steps = 1..n
        /\ \A i \in 1..n : own.steps[i] = with.steps[i]
        /\ DOMAIN with.steps = 1..(n + 1)
        /\ n \in Nat
        /\ with.steps[n + 1] = Added(p)
    <3>1. own.steps = RawSteps(p)
      BY DEF Unreviewed, Definition
    <3>2. n \in Nat /\ DOMAIN RawSteps(p) = 1..n
      BY StepsAreSequence
    <3>3. /\ with.steps[n + 1] = Added(p)
          /\ \A i \in DOMAIN RawSteps(p) : with.steps[i] = RawSteps(p)[i]
          /\ DOMAIN with.steps = 1..(n + 1)
      BY ReviewedSteps
    <3> QED BY <3>1, <3>2, <3>3
  <2>2. \A i \in 1..n : with.steps[i].id # Added(p).id
    BY <2>1, ReviewIsNew DEF Ids, StepsOf
  <2>3. \A i, j \in 1..n : with.steps[i].id = with.steps[j].id => i = j
    BY <2>1 DEF Parses
  <2> HIDE DEF own, with, n
  <2>4. \A i \in 1..(n + 1) : i \in 1..n \/ i = n + 1
    BY <2>1
  <2> QED BY <2>1, <2>2, <2>3, <2>4
<1>3. \A e \in Arrows(with) : e.source \in Ids(with) /\ e.target \in Ids(with)
  <2>1. ASSUME NEW e \in Arrows(own)
        PROVE  Bent(p, e).source \in Ids(with) /\ Bent(p, e).target \in Ids(with)
    <3>1. e.source \in Ids(own) /\ e.target \in Ids(own)
      BY DEF Parses
    <3>2. DOMAIN e = {"source", "target"}
      BY PlannerAssumption DEF Answers, IsProposal, Arrows, Unreviewed, Definition
    <3> QED BY <3>1, <3>2, ReviewIsNew DEF Bent
  <2> QED BY <2>1, EdgesBent, ReviewIsNew
<1>4. with.approvals \subseteq Ids(with)
  BY ReviewedSteps DEF ExpectedApprovals, Ids
<1>5. Cardinality(FinishPositions(with)) <= 1
  BY FinishesKeepPositions DEF FinishPositions, Parses
<1> QED BY <1>1, <1>2, <1>3, <1>4, <1>5, AcyclicWithReview DEF Parses, FinishPositions

(* Two different elements make a set of two.                               *)
LEMMA PairCardinality ==
  ASSUME NEW x, NEW y, x # y
  PROVE  IsFiniteSet({x} \cup {y}) /\ Cardinality({x} \cup {y}) = 2
<1>1. IsFiniteSet({x}) /\ Cardinality({x}) = 1
  BY FS_Singleton
<1>2. y \notin {x}
  OBVIOUS
<1>3. /\ IsFiniteSet({x} \cup {y})
      /\ Cardinality({x} \cup {y}) = Cardinality({x}) + 1
  <2> DEFINE S == {x}
  <2>1. IsFiniteSet(S) /\ y \notin S
    BY <1>1, <1>2
  <2> HIDE DEF S
  <2>2. IsFiniteSet(S \cup {y}) /\ Cardinality(S \cup {y}) = Cardinality(S) + 1
    BY <2>1, FS_AddElement
  <2> QED BY <2>2 DEF S
<1> QED BY <1>1, <1>3

(* A plan that parses has one finish, the one the review was put before.   *)
LEMMA OnlyFinish ==
  ASSUME NEW p \in Answers, NeedsReview(RawSteps(p)), Parses(Reviewed(p)),
         NEW s \in OfType(Reviewed(p), "finish")
  PROVE  s.id = FinishId(p)
<1> DEFINE ends == FinishPositions(Reviewed(p))
<1>1. PICK i \in ends : s = Reviewed(p).steps[i]
  BY DEF OfType, StepsOf, FinishPositions
<1>2. PICK j \in ends : Reviewed(p).steps[j].id = FinishId(p)
  <2>1. PICK j \in DOMAIN RawSteps(p) :
          FinishOf(RawSteps(p)) = RawSteps(p)[j] /\ RawSteps(p)[j].type = "finish"
    BY FinishIsAStep
  <2>2. Reviewed(p).steps[j] = RawSteps(p)[j]
    BY <2>1, ReviewedSteps
  <2>3. j \in FinishPositions(Unreviewed(p))
    BY <2>1 DEF FinishPositions, Unreviewed, Definition
  <2> QED BY <2>1, <2>2, <2>3, FinishesKeepPositions DEF FinishId
<1>3. IsFiniteSet(ends)
  <2>1. Len(RawSteps(p)) \in Nat
    BY StepsAreSequence
  <2>2. IsFiniteSet(1..(Len(RawSteps(p)) + 1))
    BY <2>1, FS_Interval
  <2>3. ends \subseteq 1..(Len(RawSteps(p)) + 1)
    BY ReviewedSteps DEF FinishPositions
  <2> QED BY <2>2, <2>3, FS_Subset
<1>4. Cardinality(ends) <= 1
  BY DEF Parses, FinishPositions
<1>5. i = j
  <2>1. SUFFICES ASSUME i # j PROVE FALSE
    OBVIOUS
  <2>3. IsFiniteSet({i} \cup {j}) /\ Cardinality({i} \cup {j}) = 2
    BY <2>1, PairCardinality
  <2>4. {i} \cup {j} \subseteq ends
    OBVIOUS
  <2>5. Cardinality({i} \cup {j}) <= Cardinality(ends)
    <3> HIDE DEF ends
    <3> QED BY <1>3, <2>4, FS_Subset
  <2>6. Cardinality(ends) \in Nat
    BY <1>3, FS_CardinalityType
  <2> QED BY <1>4, <2>3, <2>5, <2>6
<1> QED BY <1>1, <1>2, <1>5

(* What a reference of the model's own comes to with the review: the same, *)
(* unless it named nothing that comes before its step.                     *)
LEMMA VerdictWithReview ==
  ASSUME NEW p \in Answers, NeedsReview(RawSteps(p)), Parses(Reviewed(p)),
         NEW s \in StepsOf(Unreviewed(p)), NEW v \in s.refs
  PROVE  \/ RefVerdict(Unreviewed(p), s, v) = "reference_not_ancestor"
         \/ RefVerdict(Reviewed(p), s, v) = RefVerdict(Unreviewed(p), s, v)
<1> DEFINE own == Unreviewed(p)
           with == Reviewed(p)
<1>1. v.kind \in {"literal", "malformed", "input", "step"}
  <2>1. IsStep(s)
    BY ReviewedSteps, StepsAreSequence
  <2>2. IsRef(v)
    BY <2>1 DEF IsStep
  <2> QED BY <2>2 DEF IsRef
<1>2. own.inputs = with.inputs
  BY DEF Unreviewed, Reviewed, Definition
<1>3. CASE v.kind # "step"
  <2> HIDE DEF own, with
  <2>1. RefVerdict(with, s, v) = RefVerdict(own, s, v)
    BY <1>1, <1>2, <1>3 DEF RefVerdict
  <2> QED BY <2>1 DEF own, with
<1>4. CASE v.kind = "step" /\ v.name \notin Ids(own) \cap Ancestors(own, s.id)
  BY <1>4 DEF RefVerdict
<1>5. CASE v.kind = "step" /\ v.name \in Ids(own) \cap Ancestors(own, s.id)
  <2>1. s.id \in Ids(own)
    BY DEF Ids
  <2>2. v.name \in Ids(with) \cap Ancestors(with, s.id)
    BY <1>5, <2>1, AncestorsKept, ReviewIsNew
  <2>3. StepNamed(with, v.name) = StepNamed(own, v.name)
    <3>1. PICK t \in StepsOf(own) : t.id = v.name
      BY <1>5 DEF Ids
    <3>2. t \in StepsOf(with) /\ \A u \in StepsOf(own) : u \in StepsOf(with)
      BY ReviewedSteps
    <3>3. \A u \in StepsOf(with) : u.id = v.name => u = t
      BY <3>1, <3>2 DEF Parses, StepsOf
    <3>4. StepNamed(with, v.name) = t
      <4>1. StepNamed(with, v.name) \in StepsOf(with) /\ StepNamed(with, v.name).id = v.name
        BY <3>1, <3>2 DEF StepNamed
      <4> QED BY <3>3, <4>1
    <3>5. StepNamed(own, v.name) = t
      <4>1. StepNamed(own, v.name) \in StepsOf(own) /\ StepNamed(own, v.name).id = v.name
        BY <3>1 DEF StepNamed
      <4> QED BY <3>2, <3>3, <4>1
    <3> QED BY <3>4, <3>5
  <2> HIDE DEF own, with
  <2>4. RefVerdict(with, s, v) = RefVerdict(own, s, v)
    BY <1>5, <2>2, <2>3 DEF RefVerdict
  <2> QED BY <2>4 DEF own, with
<1> QED BY <1>3, <1>4, <1>5

(* A step of the model's own gets no error from the review.                *)
LEMMA ErrorsWithReview ==
  ASSUME NEW p \in Answers, NeedsReview(RawSteps(p)), Parses(Reviewed(p)),
         Unreviewed(p).edges # <<>>,
         NEW e \in Errors(Reviewed(p), Registered), e.step \in Ids(Unreviewed(p))
  PROVE  \/ e \in Errors(Unreviewed(p), Registered)
         \/ Problem("reference_not_ancestor", e.step) \in Errors(Unreviewed(p), Registered)
<1> DEFINE own == Unreviewed(p)
           with == Reviewed(p)
           OfStep(d, s) == MissingConfig(s) \cup RefErrors(d, s) \cup ToolErrors(d, s, Registered)
<1>1. own.tools = with.tools
  BY DEF Unreviewed, Reviewed, Definition
<1>2. OfType(with, "finish") # {}
  <2>1. OfType(own, "finish") # {}
    BY ReviewedSteps DEF NeedsReview, OfType
  <2> QED BY <2>1, ReviewedSteps DEF OfType
<1>3. CASE e \in UnreachableErrors(with)
  <2>1. PICK id \in Isolated(with) : e = Problem("unreachable_step", id)
    BY <1>3 DEF UnreachableErrors
  <2>2. id \in Ids(own)
    BY <2>1 DEF Problem
  <2>3. id \in Isolated(own)
    BY <2>1, <2>2, BeforeWithReview, ReviewIsNew DEF Isolated
  <2> QED BY <2>1, <2>3 DEF Errors, UnreachableErrors
<1>4. CASE e \in If(~(with.tools \subseteq Registered), Problem("tool_not_registered", Nowhere))
  BY <1>1, <1>4 DEF Errors
<1>5. CASE e \in UNION {OfStep(with, s) : s \in StepsOf(with)}
  <2>1. PICK s \in StepsOf(with) : e \in OfStep(with, s)
    BY <1>5
  <2>2. e.step = s.id
    BY <2>1 DEF MissingConfig, RefErrors, ToolErrors, If, Problem
  <2>3. s \in StepsOf(own)
    BY <2>2, ReviewedSteps, ReviewIsNew
  <2>4. OfStep(own, s) \subseteq Errors(own, Registered)
    BY <2>3 DEF Errors
  <2>5. CASE e \in MissingConfig(s)
    BY <2>4, <2>5
  <2>6. CASE e \in ToolErrors(with, s, Registered)
    BY <1>1, <2>4, <2>6 DEF ToolErrors
  <2>7. CASE e \in RefErrors(with, s)
    <3>1. PICK v \in s.refs : /\ e = Problem(RefVerdict(with, s, v), s.id)
                              /\ RefVerdict(with, s, v) # "fine"
      BY <2>7 DEF RefErrors
    <3>2. RefVerdict(own, s, v) # "fine" =>
            Problem(RefVerdict(own, s, v), s.id) \in Errors(own, Registered)
      BY <2>4 DEF RefErrors
    <3> QED BY <2>2, <2>3, <3>1, <3>2, VerdictWithReview
  <2> QED BY <2>1, <2>5, <2>6, <2>7
<1> QED BY <1>2, <1>3, <1>4, <1>5, ReviewedSteps DEF Errors, If

(* The review the enforcer inserts guards the finish and costs nothing: it *)
(* breaks no plan that parsed, and gives a step of the model's own no new  *)
(* error (_ensure_human_review).                                           *)
THEOREM InsertedReviewsGuard == Spec => []InsertedReviewGuards
<1>1. PlanInv => InsertedReviewGuards
  <2> SUFFICES ASSUME PlanInv, at \in {"repair", "finalize", "commit"}, compiled.added
               PROVE  InsertedReviewGuards
    BY DEF InsertedReviewGuards
  <2>1. proposal \in Answers /\ compiled = Compiled(proposal)
    BY DEF PlanInv, Compilation, CompiledOf, Answers
  <2>2. NeedsReview(RawSteps(proposal))
    BY <2>1 DEF Compiled
  <2> DEFINE with == Reviewed(proposal)
             own == Unreviewed(proposal)
  <2>3. /\ compiled.definition = with
        /\ compiled.parsed = Parses(with)
        /\ compiled.parsed => compiled.errors = Errors(with, Registered)
    BY <2>1, <2>2 DEF Compiled, RawDefinition
  <2>4. with.steps[Len(with.steps)].id = Added(proposal).id
    BY <2>1, ReviewedSteps
  <2>5. Parses(own) => compiled.parsed
    BY <2>1, <2>2, <2>3, ParsesWithReview
  <2>6. ASSUME compiled.parsed, NEW s \in OfType(with, "finish")
        PROVE  Before(with, s.id) = {Added(proposal).id}
    BY <2>1, <2>2, <2>3, <2>6, OnlyFinish, BeforeWithReview
  <2>7. ASSUME compiled.parsed, own.edges # <<>>, NEW e \in compiled.errors,
               e.step \in Ids(own)
        PROVE  \/ e \in Errors(own, Registered)
               \/ Problem("reference_not_ancestor", e.step) \in Errors(own, Registered)
    BY <2>1, <2>2, <2>3, <2>7, ErrorsWithReview
  <2> HIDE DEF with, own
  <2> QED BY <2>3, <2>4, <2>5, <2>6, <2>7 DEF InsertedReviewGuards, own
<1> QED BY PlanInvariance, <1>1, PTL
=============================================================================
