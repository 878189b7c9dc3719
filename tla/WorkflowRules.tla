---------------------------- MODULE WorkflowRules ----------------------------
(***************************************************************************)
(* The two layers that judge a workflow definition: what                   *)
(* WorkflowDefinition refuses to parse (schemas/workflow.py) and what      *)
(* validate_workflow reports (schemas/workflow_validation.py).             *)
(*                                                                         *)
(* A definition is a record of steps (a sequence), edges (a sequence),     *)
(* inputs and tools (sets of names) and approvals (a set of step ids).  A  *)
(* step keeps what the rules look at: its id and type, whether it requires *)
(* approval, the values of its reference fields (refs), whether its other  *)
(* required fields are filled (filled), its tool, the warnings its own     *)
(* numbers and flags earn (caveats), and whether pydantic accepts its      *)
(* fields at all (shaped).                                                 *)
(***************************************************************************)
EXTENDS Naturals, Sequences, FiniteSets

Outputs ==
  [retrieve_documents |-> {"chunks"},
   extract_fields |-> {"fields"},
   compare_policy |-> {"results"},
   classify |-> {"category", "confidence", "evidence", "rationale"},
   draft_summary |-> {"summary_markdown", "citations", "uncertainties"},
   human_review |-> {"decision", "reviewer_notes", "edited_payload"},
   validate_output |-> {"passed", "checks"},
   finish |-> {"result"}]

StepTypes == DOMAIN Outputs

(* The types that name a tool, with the tools each may name.               *)
AllowedTools ==
  [retrieve_documents |-> {"search_documents", "get_document_chunk"},
   compare_policy |-> {"lookup_policy_rules"}]

(* parse_ref: a value is a literal, a malformed reference, a reference to  *)
(* an input, or one to a field of a step.                                  *)
Literal == [kind |-> "literal"]
Malformed == [kind |-> "malformed"]
InputRef(name) == [kind |-> "input", name |-> name]
StepRef(id, field) == [kind |-> "step", name |-> id, field |-> field]

IsRef(value) ==
  CASE value.kind \in {"literal", "malformed"} -> DOMAIN value = {"kind"}
    [] value.kind = "input" -> DOMAIN value = {"kind", "name"}
    [] value.kind = "step" -> DOMAIN value = {"kind", "name", "field"}
    [] OTHER -> FALSE

(* Warnings a step's own fields may earn.                                  *)
Caveats == {"high_retry_budget", "draft_without_citations"}

(* A step of one of the eight types.  Only retrievals and comparisons have *)
(* a tool; a review shows what it likes and needs no reference.            *)
IsStep(s) ==
  /\ DOMAIN s = {"id", "type", "approval", "refs", "filled", "tool", "caveats", "shaped"}
  /\ s.type \in StepTypes
  /\ s.approval \in BOOLEAN /\ s.filled \in BOOLEAN /\ s.shaped \in BOOLEAN
  /\ \A value \in s.refs : IsRef(value)
  /\ s.caveats \subseteq Caveats
  /\ s.tool # "" => s.type \in DOMAIN AllowedTools

-----------------------------------------------------------------------------
StepsOf(d) == {d.steps[i] : i \in DOMAIN d.steps}
Ids(d) == {s.id : s \in StepsOf(d)}
OfType(d, type) == {s \in StepsOf(d) : s.type = type}
StepNamed(d, id) == CHOOSE s \in StepsOf(d) : s.id = id
Arrows(d) == {d.edges[i] : i \in DOMAIN d.edges}
Before(d, id) == {e.source : e \in {x \in Arrows(d) : x.target = id}}
After(d, id) == {e.target : e \in {x \in Arrows(d) : x.source = id}}

Sources(d) == {e.source : e \in Arrows(d)}

(* A set that holds the predecessors of a step and of its own members.     *)
ClosedAbove(d, id, S) ==
  Before(d, id) \subseteq S /\ \A m \in S : Before(d, m) \subseteq S

(* The least such set; WorkflowGraph shows that the code's walk computes   *)
(* it.                                                                     *)
Ancestors(d, id) ==
  {m \in Sources(d) : \A S \in SUBSET Sources(d) : ClosedAbove(d, id, S) => m \in S}

Acyclic(d) == \A id \in Ids(d) : id \notin Ancestors(d, id)

(* parse_definition raises unless all of this holds.                       *)
Parses(d) ==
  /\ \A s \in StepsOf(d) : s.shaped
  /\ \A i, j \in DOMAIN d.steps : d.steps[i].id = d.steps[j].id => i = j
  /\ \A e \in Arrows(d) : e.source \in Ids(d) /\ e.target \in Ids(d)
  /\ d.approvals \subseteq Ids(d)
  /\ Acyclic(d)
  /\ Cardinality({i \in DOMAIN d.steps : d.steps[i].type = "finish"}) <= 1

-----------------------------------------------------------------------------
Problem(code, id) == [code |-> code, step |-> id]
Nowhere == "none"
If(condition, problem) == IF condition THEN {problem} ELSE {}

MissingConfig(s) ==
  If(~s.filled \/ (s.refs = {} /\ s.type # "human_review"),
     Problem("missing_required_config", s.id))

(* Bug: a reference may name any step, one beside or after it included.    *)
RefVerdictAnyStep(d, s, value) ==
  CASE value.kind = "malformed" -> "invalid_reference_syntax"
    [] value.kind = "literal" -> "fine"
    [] value.kind = "input" ->
         IF value.name \in d.inputs THEN "fine" ELSE "unknown_input_reference"
    [] value.kind = "step" ->
         IF value.name \in Ids(d) THEN "fine" ELSE "unknown_step_reference"

(* _check_ref.  Only finish insists on a reference.                        *)
RefVerdict(d, s, value) ==
  CASE value.kind = "malformed" ->
         IF s.type = "finish" THEN "finish_result_reference_invalid"
         ELSE "invalid_reference_syntax"
    [] value.kind = "literal" ->
         IF s.type = "finish" THEN "finish_result_reference_invalid" ELSE "fine"
    [] value.kind = "input" ->
         IF value.name \in d.inputs THEN "fine" ELSE "unknown_input_reference"
    [] value.kind = "step" ->
         IF value.name \notin Ids(d) \cap Ancestors(d, s.id)
         THEN "reference_not_ancestor"
         ELSE IF value.field \in Outputs[StepNamed(d, value.name).type] THEN "fine"
              ELSE "reference_unknown_field"

RefErrors(d, s) ==
  {Problem(code, s.id) : code \in {RefVerdict(d, s, v) : v \in s.refs} \ {"fine"}}

(* _check_tool, for the two types that have a tool.                        *)
ToolErrors(d, s, known) ==
  IF s.type \notin DOMAIN AllowedTools THEN {}
  ELSE If(s.tool \notin d.tools, Problem("tool_not_declared", s.id))
         \cup If(s.tool \notin AllowedTools[s.type],
                 Problem("tool_not_allowed_for_step", s.id))
         \cup If(s.tool \notin known, Problem("tool_not_registered", s.id))

(* _unreachable_steps, in the form WorkflowGraph proves for acyclic edges. *)
Isolated(d) == {id \in Ids(d) : Before(d, id) = {} /\ After(d, id) = {}}
UnreachableErrors(d) ==
  IF d.edges = <<>> THEN {}
  ELSE {Problem("unreachable_step", id) : id \in Isolated(d)}

ExpectedApprovals(d) ==
  {s.id : s \in {x \in StepsOf(d) : x.approval \/ x.type = "human_review"}}

Errors(d, known) ==
  If(OfType(d, "finish") = {}, Problem("no_finish_step", Nowhere))
    \cup UnreachableErrors(d)
    \cup If(~(d.tools \subseteq known), Problem("tool_not_registered", Nowhere))
    \cup If(d.approvals # ExpectedApprovals(d),
            Problem("approval_point_mismatch", Nowhere))
    \cup UNION {MissingConfig(s) \cup RefErrors(d, s) \cup ToolErrors(d, s, known) :
                s \in StepsOf(d)}

UnsupportedExtractions(d) ==
  {s.id : s \in {x \in OfType(d, "extract_fields") :
     \A id \in Ancestors(d, x.id) \cap Ids(d) :
       StepNamed(d, id).type # "retrieve_documents"}}

DefinitionWarnings(d) ==
  If(OfType(d, "human_review") = {}, Problem("no_human_review", Nowhere))
    \cup {Problem("no_retrieval_before_extraction", id) : id \in UnsupportedExtractions(d)}
    \cup UNION {{Problem(code, s.id) : code \in s.caveats} : s \in StepsOf(d)}

-----------------------------------------------------------------------------
(* What the rules are for, said without ancestors: whatever steps have run *)
(* when a step may start, they have produced what its references name.     *)
RunSoFar(d) == {ran \in SUBSET Ids(d) : \A id \in ran : Before(d, id) \subseteq ran}

Resolvable(d) ==
  \A ran \in RunSoFar(d) : \A s \in StepsOf(d) :
    (s.id \notin ran /\ Before(d, s.id) \subseteq ran) =>
      \A v \in s.refs :
        v.kind = "step" =>
          v.name \in ran /\ v.field \in Outputs[StepNamed(d, v.name).type]
=============================================================================
