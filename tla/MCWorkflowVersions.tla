------------------------ MODULE MCWorkflowVersions ------------------------
(***************************************************************************)
(* Instances of WorkflowVersions for TLC: two definitions, of which the    *)
(* second has warnings and is not accepted by the second tool registry.    *)
(***************************************************************************)
EXTENDS WorkflowVersions, TLC

CONSTANTS d1, d2

MCRegistries == {{d1, d2}, {d1}}

SessionSymmetry == Permutations(Editors) \cup Permutations(Planners)

=============================================================================
