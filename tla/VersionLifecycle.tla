-------------------------- MODULE VersionLifecycle --------------------------
(***************************************************************************)
(* What the API promises of one workflow's versions, as atomic operations: *)
(* a version is edited, validated, approved and then immutable; the        *)
(* current version moves only by approval.  WorkflowVersions shows when    *)
(* the repository's read-then-write transactions keep this promise.        *)
(***************************************************************************)
EXTENDS Naturals, Sequences

CONSTANTS
    Definitions,    \* workflow definitions that parse
    Warned,         \* those for which semantic validation has warnings
    Registries      \* per deployable tool registry, the semantically valid definitions

ASSUME LifecycleAssumption ==
    /\ Warned \subseteq Definitions
    /\ Registries \subseteq SUBSET Definitions

VARIABLES
    versions,   \* the workflow's versions; version_number is the index
    current,    \* version_number of workflows.current_version_id, 0 before creation
    valid       \* definitions that pass semantic validation under the running registry

vars == <<versions, current, valid>>

NoWarnings == "no_warnings"
Warnings(d) == IF d \in Warned THEN d ELSE NoWarnings

Row == [definition : Definitions, status : {"draft", "validated", "approved"},
        warnings : {NoWarnings} \cup Definitions, approvedAt : BOOLEAN]

Draft(d, w) ==
    [definition |-> d, status |-> "draft", warnings |-> w, approvedAt |-> FALSE]

Init ==
    /\ versions = <<>>
    /\ current = 0
    /\ valid \in Registries

Replace(v, row) == versions' = [versions EXCEPT ![v] = row]

\* POST workflows, versions or restore, or a planner job: a new draft at the end; the
\* first one is current.
Create(d, w) ==
    /\ versions' = Append(versions, Draft(d, w))
    /\ current' = IF versions = <<>> THEN 1 ELSE current
    /\ UNCHANGED valid

\* PATCH of a version that is not approved.
Edit(v, d) ==
    /\ versions[v].status # "approved"
    /\ Replace(v, [versions[v] EXCEPT !.definition = d, !.status = "draft",
                                      !.warnings = NoWarnings])
    /\ UNCHANGED <<current, valid>>

Validate(v) ==
    /\ versions[v].status # "approved"
    /\ versions[v].definition \in valid
    /\ Replace(v, [versions[v] EXCEPT !.status = "validated",
                                      !.warnings = Warnings(versions[v].definition)])
    /\ UNCHANGED <<current, valid>>

Approve(v) ==
    /\ versions[v].status = "validated"
    /\ versions[v].definition \in valid
    /\ Replace(v, [versions[v] EXCEPT !.status = "approved", !.approvedAt = TRUE])
    /\ current' = v
    /\ UNCHANGED valid

\* A release with another tool registry.
Deploy ==
    /\ valid' \in Registries
    /\ UNCHANGED <<versions, current>>

Next ==
    \/ \E d \in Definitions, w \in {NoWarnings} \cup Warned : Create(d, w)
    \/ \E v \in DOMAIN versions :
         (\E d \in Definitions : Edit(v, d)) \/ Validate(v) \/ Approve(v)
    \/ Deploy

Spec == Init /\ [][Next]_vars

=============================================================================
