--------------------------- MODULE MCModelRouter ---------------------------
(***************************************************************************)
(* ModelRouter behind a process that started with these settings and this  *)
(* catalog: planner calls have a fallback, drafter calls ask for           *)
(* structured output, which their fallback lacks, and embedding is         *)
(* disabled.                                                               *)
(***************************************************************************)
EXTENDS ModelRouter, ModelSetup, TLC

CONSTANTS m1, m2, m3, e1

Able == [modality |-> "generation", supports_structured_output |-> TRUE,
         supports_tools |-> TRUE]
MCCatalog == (m1 :> Able) @@ (m2 :> Able)
               @@ (m3 :> [Able EXCEPT !.supports_structured_output = FALSE])
               @@ (e1 :> [modality |-> "embedding", supports_structured_output |-> FALSE,
                          supports_tools |-> FALSE])
MCDefaultRoutes ==
    [r \in ModelRoles |-> [primary |-> IF r = "embedding" THEN e1 ELSE m1,
                           fallbacks |-> IF r = "planner" THEN <<m2>> ELSE <<>>]]

Here ==
    [app_env |-> "production", auth_mode |-> "clerk", clerk |-> TRUE,
     model_provider |-> "nvidia", nvidia_api_key |-> TRUE,
     embedding_provider |-> "none", reranker_provider |-> "none",
     primary |-> [r \in ModelRoles |-> IF r = "drafter" THEN m2 ELSE Unset],
     fallbacks |-> [r \in Generators |-> IF r = "drafter" THEN <<m2, m3>> ELSE Unset],
     model_cache_enabled |-> Unset, model_max_attempts |-> 2,
     model_provider_concurrency |-> 2, model_per_model_concurrency |-> 1]

Operation == [planner |-> "tool_call", drafter |-> "generate_structured", embedding |-> "embed"]

MCRoute == [r \in Roles |-> CandidatesOf(Here, r)]
MCCapable == [r \in Roles |-> {m \in Models : CanServe(m, r, Operation[r])}]
MCMaxAttempts == Here.model_max_attempts
MCPerProvider == Here.model_provider_concurrency
MCPerModel == Here.model_per_model_concurrency

\* The settings of this instance, and some that differ from them.
Variants ==
    {[Here EXCEPT !.model_provider = p, !.embedding_provider = q, !.nvidia_api_key = k,
                  !.app_env = e, !.primary["planner"] = m, !.fallbacks["planner"] = f] :
       p \in {"nvidia", "mock"}, q \in {"nvidia", "mock", "none"}, k \in BOOLEAN,
       e \in {"test", "production"}, m \in {m1, m3, Unset}, f \in {<<>>, <<m2>>, <<m3>>}}

\* A process that starts with any of them is usable, and caches outside production only.
ASSUME StartsUsable ==
    /\ Here \in Settings(Models) /\ Starts(Here)
    /\ \A s \in {v \in Variants : Starts(v)} :
         Usable(s) /\ (CacheEnabled(s, TRUE) <=> ~InProduction(s))

=============================================================================
