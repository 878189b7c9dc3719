-------------------------- MODULE ProposalCompiler --------------------------
(***************************************************************************)
(* compile_proposal (planner/compile.py): turns what the model proposed    *)
(* into a definition under rules the model cannot talk its way around.     *)
(*                                                                         *)
(* A proposal has an outcome, the number of clarifying questions it asks,  *)
(* steps, edges, input names, tool names and the actions it declined.  A   *)
(* proposed step holds the step it describes (step) and the common fields  *)
(* its config tried to set on the side (strays: field name to value).      *)
(***************************************************************************)
EXTENDS WorkflowRules, SequencesExt

CONSTANTS
  Registered,     \* the names of the tool registry
  ReviewNames     \* "review", "review_2", ...: as many as a proposal can take, and one

PlanOutcomes == {"proposed", "needs_clarification", "rejected"}

(* The schema the model's answer has to fit: everything has a type, but    *)
(* names may be empty, doubled or unknown and edges may lead anywhere.     *)
IsProposal(p) ==
  /\ p.outcome \in PlanOutcomes
  /\ p.questions \in Nat
  /\ p.steps \in Seq(ToSet(p.steps)) /\ p.edges \in Seq(ToSet(p.edges))
  /\ \A i \in DOMAIN p.steps :
       /\ IsStep(p.steps[i].step)
       /\ DOMAIN p.steps[i].strays \subseteq DOMAIN p.steps[i].step
  /\ \A i \in DOMAIN p.edges : DOMAIN p.edges[i] = {"source", "target"}
  /\ p.inputs \in Seq(STRING) /\ p.tools \in Seq(STRING)
  /\ \A r \in p.declined : DOMAIN r = {"category", "action"}

(* Rule 1: registered tools are kept, every other name is a rejection.     *)
KeptTools(p) == ToSet(p.tools) \cap Registered
Rejection(category, action) == [category |-> category, action |-> action]
DroppedTools(p) ==
  {Rejection("unsupported_tool", name) : name \in ToSet(p.tools) \ Registered}

(* Bug: the stray fields of a config win over the common fields.           *)
RawStepWithStrays(proposed) ==
  [f \in DOMAIN proposed.step |->
     IF f \in DOMAIN proposed.strays THEN proposed.strays[f] ELSE proposed.step[f]]

(* Rule 2: a step is its common fields and its config without strays.      *)
RawStep(proposed) == proposed.step
RawSteps(p) == [i \in DOMAIN p.steps |-> RawStep(p.steps[i])]

(* The first position of a sequence that is one of these.                  *)
FirstOf(s, positions) == s[CHOOSE i \in positions : \A j \in positions : i <= j]

(* _unique_step_id: the plain name, else the first free suffix.            *)
FreeReviewName(taken) ==
  FirstOf(ReviewNames, {i \in DOMAIN ReviewNames : ReviewNames[i] \notin taken})

ReviewStep(id, shown) ==
  [id |-> id, type |-> "human_review", approval |-> TRUE, refs |-> shown,
   filled |-> TRUE, tool |-> "", caveats |-> {}, shaped |-> TRUE]

NeedsReview(steps) ==
  /\ \A s \in ToSet(steps) : s.type # "human_review"
  /\ \E s \in ToSet(steps) : s.type = "finish"

FinishOf(steps) == FirstOf(steps, {i \in DOMAIN steps : steps[i].type = "finish"})
TakenIds(steps) == {s.id : s \in ToSet(steps)}

WithReview(steps) ==
  Append(steps, ReviewStep(FreeReviewName(TakenIds(steps)), FinishOf(steps).refs))

(* Bug: the new review is put beside the edges into finish, not before it. *)
RedirectedBeside(edges, finish, review) ==
  Append(edges, [source |-> review, target |-> finish])

(* Every edge into finish now enters the review, which alone leads on.     *)
Redirected(edges, finish, review) ==
  Append([i \in DOMAIN edges |->
            IF edges[i].target = finish THEN [edges[i] EXCEPT !.target = review]
            ELSE edges[i]],
         [source |-> review, target |-> finish])

ApprovalPoints(steps) ==
  {s.id : s \in {x \in ToSet(steps) : x.approval \/ x.type = "human_review"}}

Definition(p, steps, edges) ==
  [steps |-> steps, edges |-> edges, inputs |-> ToSet(p.inputs) \ {""},
   tools |-> KeptTools(p), approvals |-> ApprovalPoints(steps)]

(* The raw definition before and after rule 3, which adds a review before  *)
(* finish when no step of the proposal is one.                             *)
Unreviewed(p) == Definition(p, RawSteps(p), p.edges)
Reviewed(p) ==
  LET steps == WithReview(RawSteps(p))
      finish == FinishOf(RawSteps(p)).id
  IN  Definition(p, steps, Redirected(p.edges, finish, steps[Len(steps)].id))
RawDefinition(p) == IF NeedsReview(RawSteps(p)) THEN Reviewed(p) ELSE Unreviewed(p)

ParseError == Problem("parse_error", Nowhere)

(* Rules 4 and 5: parse, then validate against the live registry.          *)
Compiled(p) ==
  LET d == RawDefinition(p) IN
  [parsed |-> Parses(d),
   definition |-> d,
   errors |-> IF Parses(d) THEN Errors(d, Registered) ELSE {ParseError},
   warnings |-> IF Parses(d) THEN DefinitionWarnings(d) ELSE {},
   rejected |-> DroppedTools(p),
   added |-> NeedsReview(RawSteps(p))]
=============================================================================
