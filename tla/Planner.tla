------------------------------- MODULE Planner -------------------------------
(***************************************************************************)
(* One plan_workflow job (worker/main.py) from the queue to its result:    *)
(* the service (planner/service.py) runs the LangGraph machine of          *)
(* planner/graph.py, with a bounded round of tool probes first             *)
(* (planner/grounding.py), and stores the outcome as a draft version.      *)
(*                                                                         *)
(* The model's answers are arbitrary members of Proposals, and any call of *)
(* it may fail.  The job may be cancelled by its timeout at any await, and *)
(* the worker may die; the queue then delivers the job again.              *)
(***************************************************************************)
EXTENDS ProposalCompiler

CONSTANTS
  Proposals,      \* what the model may answer to the first request
  Repairs,        \* what it may answer to the repair request
  Flagged,        \* what the screen may find in the request text
  MaxDeaths       \* bound on the times the worker dies under the job

ASSUME PlannerAssumption ==
  /\ MaxDeaths \in Nat
  /\ \A p \in Proposals \cup Repairs :
       /\ IsProposal(p)
       /\ \E i \in DOMAIN ReviewNames : ReviewNames[i] \notin TakenIds(RawSteps(p))
  /\ ReviewNames \in Seq(STRING)

VARIABLES
  at,         \* the node the job is in
  session,    \* the job's database session: closed, open or broken
  probes,     \* rounds asked, calls made, calls of this round still pending
  screened,   \* rejections the screen recorded
  proposal,   \* the proposal of the last answer
  compiled,   \* what the enforcer made of it
  attempt,    \* 0 for the first proposal, 1 for the repaired one
  draft,      \* the draft this execution of the job has committed, if any
  commits,    \* how many drafts all executions of the job have committed
  deaths,     \* how often a worker died under the job
  result      \* what the queue reports for the job

vars == <<at, session, probes, screened, proposal, compiled, attempt, draft,
          commits, deaths, result>>
model == <<proposal, compiled, attempt>>
stored == <<draft, commits>>

MaxProbeRounds == 2
MaxProbeCalls == 4
MaxCallsPerAnswer == 3      \* bound: tool calls in one model answer

None == [is |-> "none"]
NoProbes == [rounds |-> 0, calls |-> 0, pending |-> 0]

Nodes == {"queued", "screen", "probe", "tool", "propose", "compile", "repair",
          "finalize", "commit", "report", "done"}
Results == {"pending", "proposed", "needs_clarification", "rejected", "failed",
            "raised", "cancelled"}

Go(node) == at' = node
End(what) ==
  /\ Go("done")
  /\ result' = what
  /\ session' = "closed"

-----------------------------------------------------------------------------
Init ==
  /\ at = "queued"
  /\ session = "closed"
  /\ probes = NoProbes
  /\ screened = {}
  /\ proposal = None
  /\ compiled = None
  /\ attempt = 0
  /\ draft = None
  /\ commits = 0
  /\ deaths = 0
  /\ result = "pending"

(* The job starts, whether for the first time or after a death: it opens   *)
(* its session, checks that user, project and workflow still exist and     *)
(* gathers the grounding facts.  A statement that fails, or a re-plan      *)
(* without any request, raises.                                            *)
Begin ==
  /\ at = "queued"
  /\ UNCHANGED <<probes, screened, model, stored, deaths>>
  /\ \/ End("failed")
     \/ End("raised")
     \/ Go("screen") /\ session' = "open" /\ UNCHANGED result

Screen ==
  /\ at = "screen"
  /\ screened' \in SUBSET Flagged
  /\ Go("probe")
  /\ UNCHANGED <<session, probes, model, stored, deaths, result>>

(* probe_tools asks the model for tool calls: a provider error or an       *)
(* answer without calls ends the probing.                                  *)
ProbeAsk ==
  /\ at = "probe"
  /\ UNCHANGED <<session, screened, model, stored, deaths, result>>
  /\ \/ Go("propose") /\ UNCHANGED probes
     \/ \E n \in 1..MaxCallsPerAnswer :
          /\ probes' = [probes EXCEPT !.rounds = @ + 1, !.pending = n]
          /\ Go("tool")

(* Bug: every call of a round is run, whatever the cap.                    *)
ProbeCallUncapped ==
  /\ at = "tool"
  /\ probes.pending > 0
  /\ probes' = [probes EXCEPT !.calls = @ + 1, !.pending = @ - 1]
  /\ session' \in {session, "broken"}
  /\ UNCHANGED <<at, screened, model, stored, deaths, result>>

(* One requested call, run while the cap allows.  Whatever it ends in is   *)
(* recorded and not raised; but the tools query through the job's session, *)
(* and a failed or cancelled statement leaves its transaction unusable.    *)
ProbeCall ==
  /\ at = "tool"
  /\ probes.pending > 0
  /\ probes.calls < MaxProbeCalls
  /\ probes' = [probes EXCEPT !.calls = @ + 1, !.pending = @ - 1]
  /\ session' \in {session, "broken"}
  /\ UNCHANGED <<at, screened, model, stored, deaths, result>>

(* The round is over, the calls beyond the cap ignored.                    *)
ProbeRoundEnds ==
  /\ at = "tool"
  /\ probes.pending = 0 \/ probes.calls >= MaxProbeCalls
  /\ IF probes.calls >= MaxProbeCalls \/ probes.rounds >= MaxProbeRounds
     THEN Go("propose") /\ probes' = NoProbes
     ELSE Go("probe") /\ probes' = [probes EXCEPT !.pending = 0]
  /\ UNCHANGED <<session, screened, model, stored, deaths, result>>

(* ProviderError from generate_structured ends the plan: the job rolls     *)
(* back and reports "failed".  Another exception, or one of the rollback,  *)
(* is raised.                                                              *)
ModelFails ==
  /\ at \in {"propose", "repair"}
  /\ End("failed") \/ End("raised")
  /\ UNCHANGED <<probes, screened, model, stored, deaths>>

Propose ==
  /\ at = "propose"
  /\ proposal' \in Proposals
  /\ attempt' = 0
  /\ Go("compile")
  /\ UNCHANGED <<session, probes, screened, compiled, stored, deaths, result>>

(* Bug: every proposal with problems is sent back, repaired ones too.      *)
RouteWithoutAttempt(p, c) ==
  IF p.outcome # "rejected" /\ c.errors # {} THEN "repair" ELSE "finalize"

(* Nothing is repaired in a request the model declined, and only once.     *)
RouteAfterCompile(p, c) ==
  IF p.outcome # "rejected" /\ c.errors # {} /\ attempt = 0 THEN "repair" ELSE "finalize"

(* The enforcer is a function of the proposal.                             *)
CompiledOf == [p \in Proposals \cup Repairs |-> Compiled(p)]

Compile ==
  /\ at = "compile"
  /\ compiled' = CompiledOf[proposal]
  /\ Go(RouteAfterCompile(proposal, compiled'))
  /\ UNCHANGED <<session, probes, screened, proposal, attempt, stored, deaths, result>>

Repair ==
  /\ at = "repair"
  /\ proposal' \in Repairs
  /\ attempt' = 1
  /\ Go("compile")
  /\ UNCHANGED <<session, probes, screened, compiled, stored, deaths, result>>

-----------------------------------------------------------------------------
(* A proposal that still asks something is not simply "proposed".          *)
Outcome(p) ==
  IF p.outcome = "proposed" /\ p.questions > 0 THEN "needs_clarification" ELSE p.outcome

(* What the output lists as rejected, keyed by category and action: what   *)
(* the screen found, what the model declined, what the enforcer dropped.   *)
AllRejected(p, c) == screened \cup p.declined \cup c.rejected

Draft(p, c) ==
  [definition |-> c.definition, errors |-> c.errors, warnings |-> c.warnings,
   outcome |-> Outcome(p), rejected |-> AllRejected(p, c), added |-> c.added]

Persistable(p, c) ==
  /\ Outcome(p) # "rejected"
  /\ c.parsed
  /\ OfType(c.definition, "finish") # {}

(* The graph is done; plan_workflow flushes the draft, which needs a       *)
(* usable session, or reports that there is nothing to store.  A flush may *)
(* fail, on the unique number of a version another job has committed too;  *)
(* and so may the commit of a session that stores nothing.                 *)
Finalize ==
  /\ at = "finalize"
  /\ UNCHANGED <<probes, screened, model, stored, deaths>>
  /\ \/ ~Persistable(proposal, compiled) /\ End("rejected")
     \/ /\ Persistable(proposal, compiled)
        /\ session = "open"
        /\ Go("commit")
        /\ UNCHANGED <<session, result>>
     \/ End("raised")

(* A commit that fails or is cut off may have reached the database.        *)
CommitsIfCutOff == IF at = "commit" THEN {commits, commits + 1} ELSE {commits}

Commit ==
  /\ at = "commit"
  /\ UNCHANGED <<probes, screened, model, deaths>>
  /\ \/ /\ draft' = Draft(proposal, compiled)
        /\ commits' = commits + 1
        /\ session' = "closed"
        /\ Go("report")
        /\ UNCHANGED result
     \/ /\ End("raised")
        /\ commits' \in CommitsIfCutOff
        /\ UNCHANGED draft

(* Bug: the result names the outcome as the model gave it.                 *)
ReportRaw ==
  /\ at = "report"
  /\ End(proposal.outcome)
  /\ UNCHANGED <<probes, screened, model, stored, deaths>>

Report ==
  /\ at = "report"
  /\ End(Outcome(proposal))
  /\ UNCHANGED <<probes, screened, model, stored, deaths>>

(* GET /api/jobs/{id}: a job that raised or was cancelled has failed; the  *)
(* outcomes of the plan, "failed" among them, are results of a complete    *)
(* job.                                                                    *)
JobStatus ==
  CASE at # "done" -> "unfinished"
    [] at = "done" /\ result \in {"raised", "cancelled"} -> "failed"
    [] OTHER -> "complete"

(* The job's timeout strikes at an await.  The queue does not retry a      *)
(* cancelled job.                                                          *)
Cancel ==
  /\ at \notin {"queued", "report", "done"}
  /\ End("cancelled")
  /\ commits' \in CommitsIfCutOff
  /\ UNCHANGED <<probes, screened, model, draft, deaths>>

(* A worker dies before it has reported: the job is still in the queue and *)
(* is delivered again, with nothing of the first attempt but its commit.   *)
WorkerDies ==
  /\ at \notin {"queued", "done"}
  /\ deaths < MaxDeaths
  /\ deaths' = deaths + 1
  /\ Go("queued")
  /\ session' = "closed"
  /\ probes' = NoProbes
  /\ screened' = {}
  /\ proposal' = None
  /\ compiled' = None
  /\ attempt' = 0
  /\ draft' = None
  /\ commits' \in CommitsIfCutOff
  /\ UNCHANGED result

Advance ==
  \/ Begin \/ Screen \/ ProbeAsk \/ ProbeCall \/ ProbeRoundEnds
  \/ Propose \/ Compile \/ Repair \/ ModelFails
  \/ Finalize \/ Commit \/ Report

Next == Advance \/ Cancel \/ WorkerDies

(* The event loop runs a ready job on, and the queue delivers what it      *)
(* holds; no timeout has to help.                                          *)
Spec == Init /\ [][Next]_vars /\ WF_vars(Advance)

-----------------------------------------------------------------------------
(* The variables keep their types, the probe counters their caps.          *)
TypeOK ==
  /\ at \in Nodes
  /\ session \in {"closed", "open", "broken"}
  /\ session = "closed" <=> at \in {"queued", "report", "done"}
  /\ probes.rounds \in 0..MaxProbeRounds
  /\ probes.calls \in 0..MaxProbeCalls
  /\ probes.pending \in 0..MaxCallsPerAnswer
  /\ screened \subseteq Flagged
  /\ proposal \in {None} \cup Proposals \cup Repairs
  /\ attempt \in {0, 1}
  /\ commits \in 0..(deaths + 1)
  /\ deaths \in 0..MaxDeaths
  /\ result \in Results

(* Whatever the model proposed, repaired or not, a stored draft obeys the  *)
(* enforcer: it parses, ends in a finish and has a human review, uses only *)
(* registered tools and has exactly the approval points its steps call     *)
(* for; and what the screen flagged is listed as rejected.                 *)
DraftEnforced ==
  draft # None =>
    LET d == draft.definition IN
    /\ Parses(d)
    /\ OfType(d, "finish") # {} /\ OfType(d, "human_review") # {}
    /\ d.tools \subseteq Registered
    /\ d.approvals = {s.id : s \in {x \in StepsOf(d) : x.approval \/ x.type = "human_review"}}
    /\ \A i \in DOMAIN proposal.steps :
         proposal.steps[i].step.approval => proposal.steps[i].step.id \in d.approvals
    /\ screened \subseteq draft.rejected
    /\ draft.outcome # "rejected"

(* A draft stored without validation errors can be executed: in every      *)
(* order of its steps that respects the edges, each step's references name *)
(* outputs that an earlier step has produced.  Nothing here mentions the   *)
(* ancestors the validator computes (_check_ref, _compute_ancestors).      *)
CleanDraftRuns ==
  (draft # None /\ draft.errors = {}) => Resolvable(draft.definition)

(* The review the enforcer inserts is a guard that costs nothing: it alone *)
(* leads into the finish, a plan that parsed without it parses with it,    *)
(* and in a plan with edges a step of the model's own gets no error it did *)
(* not have, or only in the place of one: a reference to a step that was   *)
(* not there may now name the review (_ensure_human_review).               *)
InsertedReviewGuards ==
  (at \in {"repair", "finalize", "commit"} /\ compiled.added) =>
    LET d == compiled.definition
        own == Unreviewed(proposal)
        review == d.steps[Len(d.steps)].id
    IN  /\ Parses(own) => compiled.parsed
        /\ compiled.parsed =>
             /\ \A s \in OfType(d, "finish") : Before(d, s.id) = {review}
             /\ own.edges # <<>> =>
                  \A e \in compiled.errors : e.step \in Ids(own) =>
                    \/ e \in Errors(own, Registered)
                    \/ Problem("reference_not_ancestor", e.step) \in Errors(own, Registered)

(* What a client is told of the job and what the database holds agree: a   *)
(* reported plan is the draft stored last, and a complete job that reports *)
(* none has stored none, unless a worker died under it.  Of a failed job   *)
(* a client cannot tell whether its commit reached the database; but what  *)
(* it left there is a plan that was finished and worth storing             *)
(* (worker/main.py:153, api/routes/documents.py:212).                      *)
ReportsMatchDrafts ==
  /\ JobStatus = "complete" =>
       IF result \in {"proposed", "needs_clarification"}
       THEN commits \in 1..(deaths + 1) /\ draft # None /\ draft.outcome = result
       ELSE commits <= deaths /\ draft = None
  /\ JobStatus = "failed" =>
       /\ draft = None
       /\ commits > deaths => Persistable(proposal, compiled)

(* Every job comes to an end without the help of its timeout: the graph    *)
(* goes round at most once, the probes at most twice.                      *)
PlanEnds == <>(at = "done")
=============================================================================
