----------------------------- MODULE ModelSetup -----------------------------
(***************************************************************************)
(* How a process comes to its model router: the settings it accepts        *)
(* (core/config.py), the capability registry (providers/capabilities.py),  *)
(* the routes resolved from both (resolve_routes in providers/router.py)   *)
(* and the providers built behind them (providers/factory.py).  Settings   *)
(* are read once per process, so all of this is a function of a settings   *)
(* record; the modules of the router take their constants from here.       *)
(***************************************************************************)
EXTENDS Naturals, Sequences, SequencesExt

CONSTANTS
    Catalog,            \* model -> what the catalog says it can do
    DefaultRoutes,      \* role -> the catalog's primary and fallbacks
    Unset               \* an optional setting that was left out

ModelRoles == {"planner", "extractor", "drafter", "evaluator", "embedding", "reranker"}
Generators == ModelRoles \ {"embedding", "reranker"}

Capabilities ==
    [modality : {"generation", "embedding", "rerank"},
     supports_structured_output : BOOLEAN,
     supports_tools : BOOLEAN]

\* CapabilityRegistry.load: every entry has its capabilities and every role a default
\* route (whose models need not be in the catalog: resolve_routes would object).
CatalogLoads ==
    /\ \A m \in DOMAIN Catalog : Catalog[m] \in Capabilities
    /\ DOMAIN DefaultRoutes = ModelRoles

ASSUME CatalogAssumption == CatalogLoads

\* ROLE_REQUIREMENTS: what each role needs from a model.
RoleRequirements ==
    [planner   |-> [modality |-> "generation", supports_structured_output |-> TRUE,
                    supports_tools |-> TRUE],
     extractor |-> [modality |-> "generation", supports_structured_output |-> TRUE],
     drafter   |-> [modality |-> "generation"],
     evaluator |-> [modality |-> "generation", supports_structured_output |-> TRUE],
     embedding |-> [modality |-> "embedding"],
     reranker  |-> [modality |-> "rerank"]]

Satisfies(model, role) ==
    /\ model \in DOMAIN Catalog
    /\ \A need \in DOMAIN RoleRequirements[role] :
         Catalog[model][need] = RoleRequirements[role][need]

\* What an operation of the router asks of a model beyond its role.
ExtraRequirements ==
    [generate |-> {}, embed |-> {}, rerank |-> {},
     generate_structured |-> {"supports_structured_output"},
     tool_call |-> {"supports_tools"}]

CanServe(model, role, operation) ==
    /\ Satisfies(model, role)
    /\ \A extra \in ExtraRequirements[operation] : Catalog[model][extra]

-----------------------------------------------------------------------------
\* Settings that pydantic and the two model validators accept.
Settings(models) ==
    [app_env : {"development", "test", "production"},
     auth_mode : {"clerk", "dev"},
     clerk : BOOLEAN,                       \* jwks url and issuer are both given
     model_provider : {"nvidia", "mock"},
     nvidia_api_key : BOOLEAN,              \* whether there is one
     embedding_provider : {"nvidia", "mock", "none"},
     reranker_provider : {"nvidia", "mock", "none"},
     primary : [ModelRoles -> models \cup {Unset}],
     fallbacks : [Generators -> Seq(models) \cup {Unset}],
     model_cache_enabled : BOOLEAN \cup {Unset},
     model_max_attempts : 1..10,
     model_provider_concurrency : 1..64,
     model_per_model_concurrency : 1..64]

InProduction(s) == s.app_env = "production"

Accepted(s) ==
    /\ InProduction(s) =>
         "mock" \notin {s.model_provider, s.embedding_provider, s.reranker_provider}
    /\ s.auth_mode = "clerk" => s.clerk
    /\ s.auth_mode = "dev" => ~InProduction(s)

CacheActive(s) ==
    IF s.model_cache_enabled = Unset THEN ~InProduction(s) ELSE s.model_cache_enabled

-----------------------------------------------------------------------------
\* resolve_routes.
ProviderOf(s, role) ==
    CASE role = "embedding" -> s.embedding_provider
      [] role = "reranker"  -> s.reranker_provider
      [] OTHER              -> s.model_provider

Enabled(s) == {role \in ModelRoles : ProviderOf(s, role) # "none"}

OrDefault(setting, default) == IF setting = Unset THEN default ELSE setting

Primary(s, role) == OrDefault(s.primary[role], DefaultRoutes[role].primary)

Fallbacks(s, role) ==
    LET source == IF role \in Generators
                  THEN OrDefault(s.fallbacks[role], DefaultRoutes[role].fallbacks)
                  ELSE DefaultRoutes[role].fallbacks
    IN  SelectSeq(source, LAMBDA model : model # Primary(s, role))

\* The models a call for the role tries in turn; none for a disabled role.
CandidatesOf(s, role) ==
    IF role \in Enabled(s) THEN <<Primary(s, role)>> \o Fallbacks(s, role) ELSE <<>>

\* All problems of all roles, raised together.
RoutingProblems(s) ==
    UNION {{[role |-> role, model |-> model] :
              model \in {m \in ToSet(CandidatesOf(s, role)) : ~Satisfies(m, role)}} :
           role \in Enabled(s)}

\* build_model_router: which client stands behind a provider's name.  Behind the last
\* one every operation raises ProviderNotConfiguredError.
Client(s, provider) ==
    CASE provider = "mock" -> "mock"
      [] provider = "nvidia" /\ s.nvidia_api_key -> "nvidia"
      [] OTHER -> "not_configured"

\* The process starts with this router and does not stop with a ConfigurationError.
Starts(s) == Accepted(s) /\ RoutingProblems(s) = {}

CacheEnabled(s, hasBackend) == CacheActive(s) /\ hasBackend

\* planner_configured, which the planning endpoints ask first; and what the provider
\* status reports as configured.
PlannerConfigured(s) ==
    "planner" \in Enabled(s) /\ Client(s, ProviderOf(s, "planner")) # "not_configured"
ReportedConfigured(s) == s.model_provider = "mock" \/ s.nvidia_api_key

\* What a request to plan must bring: a new plan its text, a re-plan text or answers.
Asks(replan, text, answers) == text \/ (replan /\ answers)

\* The planning endpoints, up to the queue that takes the job.
PlanAnswer(s, owned, asks, queue) ==
    CASE ~owned -> "not_found"
      [] owned /\ ~asks -> "validation_error"
      [] owned /\ asks /\ ~PlannerConfigured(s) -> "provider_not_configured"
      [] owned /\ asks /\ PlannerConfigured(s) /\ ~queue -> "queue_unavailable"
      [] OTHER -> "accepted"

-----------------------------------------------------------------------------
\* The operations that ask of a model no more than its role does.
CoveredBy(role) ==
    {operation \in DOMAIN ExtraRequirements :
       \A extra \in ExtraRequirements[operation] :
          extra \in DOMAIN RoleRequirements[role] /\ RoleRequirements[role][extra]}

\* Whatever primaries and fallbacks the settings name, a process that starts can serve
\* every call its roles cover with each model of the route, also the last fallback; in
\* production it mocks no role; and it accepts plans exactly where the status endpoint
\* says that the provider is configured (providers/router.py:93, core/config.py:144,
\* api/routes/workflows.py:141).
Usable(s) ==
    /\ \A role \in ModelRoles : \A model \in ToSet(CandidatesOf(s, role)) :
         \A operation \in CoveredBy(role) : CanServe(model, role, operation)
    /\ InProduction(s) => \A role \in Enabled(s) : Client(s, ProviderOf(s, role)) # "mock"
    /\ \A replan \in BOOLEAN :
         PlanAnswer(s, TRUE, Asks(replan, TRUE, FALSE), TRUE) = "accepted"
           <=> ReportedConfigured(s)

=============================================================================
