------------------------------ MODULE MCIngestion ------------------------------
(***************************************************************************)
(* Instances of Ingestion for TLC: a policy document and a contract.  The  *)
(* second edition of the policy has the section the rule cites twice, the  *)
(* third drops it, one dataset has no contract, and one has the first      *)
(* edition with a rule that cites another section.                         *)
(***************************************************************************)
EXTENDS Ingestion, TLC

CONSTANTS first, second, third, contract, rule, scope, term

MCHeadingsOf ==
    (first :> <<scope, term>>) @@ (second :> <<term, scope, term>>) @@
    (third :> <<scope>>) @@ (contract :> <<scope>>)

MCPolicyOf == rule :> 1

Edition(policy, other, section) ==
    [content |-> <<policy, other>>, section |-> (rule :> section)]

MCDatasets ==
    {Edition(first, contract, term), Edition(second, contract, term),
     Edition(third, NoText, term), Edition(first, contract, scope)}

JobSymmetry == Permutations(Jobs)

=============================================================================
