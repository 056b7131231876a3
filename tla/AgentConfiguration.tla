------------------------- MODULE AgentConfiguration -------------------------
(***************************************************************************)
(* The agent configuration of the store (apps/web/src/persistence.ts) and  *)
(* what the planner makes of it                                            *)
(* (packages/core/src/project-manager-planner-service.ts): providers,      *)
(* models of a provider, agent roles with a model.  Keys are unique and in *)
(* lower case once normalised, so that a configuration is two functions;   *)
(* names, URLs and responsibilities are left out, but for what kind of     *)
(* specialist the words of a role make it.                                 *)
(***************************************************************************)
EXTENDS Integers, FiniteSets, Functions

CONSTANTS
  Providers, Models,
  Specialists,     \* role keys besides the project manager's
  ReviewRoles,     \* specialists whose words speak of reviews
  IntegrationRoles, BackendRoles

\* The defaults name a provider, a model and specialists.
ASSUME AgentAssumption ==
  /\ Providers # {} /\ Models # {}
  /\ Specialists # {} /\ IsFiniteSet(Specialists)
  /\ ReviewRoles \subseteq Specialists /\ IntegrationRoles \subseteq Specialists
  /\ BackendRoles \subseteq Specialists /\ "project_manager" \notin Specialists

AgentRoles == Specialists \cup {"project_manager"}

PartialFunctions(S, T) == UNION {[D -> T] : D \in SUBSET S}

\* The rows of the three tables; also what the body of a PUT may carry.
Drafts ==
  [providers : SUBSET Providers,
   models : PartialFunctions(Models, Providers),
   roles : PartialFunctions(AgentRoles, Models)]

NoRows == [providers |-> {}, models |-> <<>>, roles |-> <<>>]

\* createDefaultAgentConfiguration
DefaultConfiguration ==
  LET p == CHOOSE p \in Providers : TRUE
      m == CHOOSE m \in Models : TRUE
  IN [providers |-> {p}, models |-> [x \in {m} |-> p], roles |-> [r \in AgentRoles |-> m]]

-----------------------------------------------------------------------------
(* The normalizers of a save: each refuses what does not hang together.    *)

NormalProviders(d) == d.providers # {}

NormalModels(d) == d.models # <<>> /\ Range(d.models) \subseteq d.providers

\* Mutant: the reserved role is not asked for.
NormalRolesOfAnyKind(d) ==
  /\ Cardinality(DOMAIN d.roles) >= 2
  /\ Range(d.roles) \subseteq DOMAIN d.models

\* The reserved role must be there for the planner.
NormalRoles(d) ==
  /\ Cardinality(DOMAIN d.roles) >= 2
  /\ Range(d.roles) \subseteq DOMAIN d.models
  /\ "project_manager" \in DOMAIN d.roles

Normal(d) == NormalProviders(d) /\ NormalModels(d) /\ NormalRoles(d)

\* ensureAgentConfigurationSeeded leaves a configuration with enough rows alone.
Seeded(d) ==
  /\ d.providers # {} /\ d.models # <<>>
  /\ Cardinality(DOMAIN d.roles) >= 2

-----------------------------------------------------------------------------
(* The planner: the specialists a workflow command is routed to.           *)

Commands == {"plan", "implement", "review", "integrate"}

Integrators(S) == (IntegrationRoles \ ReviewRoles) \cap S

\* selectWorkflowRoles; an empty choice is the planner's refusal.
SelectedRoles(command, S) ==
  CASE command = "plan" -> S
    [] command = "implement" -> S \ (ReviewRoles \cup Integrators(S))
    [] command = "review" -> ReviewRoles \cap S
    [] command = "integrate" ->
         IF Integrators(S) # {} THEN Integrators(S)
         ELSE IF BackendRoles \cap S # {} THEN BackendRoles \cap S ELSE S

\* planGoal: nothing is planned without a project manager and a specialist.
PlannedRoles(command, d) ==
  IF "project_manager" \in DOMAIN d.roles
  THEN SelectedRoles(command, DOMAIN d.roles \ {"project_manager"}) ELSE {}

\* Goals without a command and integrations find somebody, and whoever is
\* found has a model of a provider.
CanPlan(d) ==
  /\ PlannedRoles("plan", d) # {} /\ PlannedRoles("integrate", d) # {}
  /\ \A command \in Commands : \A r \in PlannedRoles(command, d) :
       d.roles[r] \in DOMAIN d.models /\ d.models[d.roles[r]] \in d.providers

=============================================================================
