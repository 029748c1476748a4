--------------------------- MODULE AccessPolicy ---------------------------
(***************************************************************************)
(* The pure access decisions of the gateway: the capability ladder of      *)
(* gateway/auth/schemas.py, the best-match rules of gateway/policy/        *)
(* ceiling.py, the scope resolution of gateway/scope.py and the tenant and *)
(* route tables of gateway/dispatcher.py.                                  *)
(*                                                                         *)
(* A scope is [tenant, project, workspace]: org and bu always travel and   *)
(* are compared together, so they are one field.  In a grant or a ceiling  *)
(* entry a project or workspace may be Wildcard (None and "*" behave the   *)
(* same there); in a hint it may be Missing (None).                        *)
(***************************************************************************)
EXTENDS Integers, FiniteSets

CONSTANTS
  KnownWorkspaces,  \* the scopes of dispatcher.KNOWN_WORKSPACES
  TenantPolicy      \* the <<tenant, intent>> pairs _TENANT_POLICY allows

Wildcard == "*"
Missing  == "missing"

\* _CAPABILITY_ORDER: a capability is its rank.
Capabilities == 0..6
CapNone == 0

\* gateway/schemas.py Intent, and the absence of one in an IntakeDecision.
Intents  == {"provision", "inquiry", "compliance_check"}
NoIntent == "no_intent"

\* Mutant of ResolveRouteId: an intent without a route becomes its own route.
ResolveRouteIdDefaulted(intent) == intent

\* resolve_route_id: the route of an intent, NoRoute when the table has none.
NoRoute == "no_route"
ResolveRouteId(intent) ==
  IF intent \in {"compliance_check", "provision"} THEN intent ELSE NoRoute

\* ROUTE_REGISTRY: the routes a handler is registered for.
RouteRegistry == {"provision"}

\* check_tenant_policy: deny by default.
CheckTenantPolicy(tenant, intent) == <<tenant, intent>> \in TenantPolicy

---------------------------------------------------------------------------
\* _specificity: how many of project and workspace an entry names.
Specificity(s) ==
  Cardinality({part \in {"project", "workspace"} : s[part] # Wildcard})

\* _scope_matches: an entry's scope covers the queried scope.
ScopeMatches(entry, query) ==
  /\ entry.tenant = query.tenant
  /\ entry.project \in {Wildcard, query.project}
  /\ entry.workspace \in {Wildcard, query.workspace}

\* The entries (grants or ceilings) of the highest specificity among the
\* matching ones.
MostSpecific(scope, entries) ==
  LET matches == {e \in entries : ScopeMatches(e.scope, scope)}
  IN {e \in matches : \A f \in matches :
        Specificity(f.scope) <= Specificity(e.scope)}

\* The lowest capability of tied grants, CapNone when there is none.
LowestCapability(tied) ==
  IF tied = {} THEN CapNone
  ELSE CHOOSE k \in {g.capability : g \in tied} :
         \A g \in tied : k <= g.capability

\* resolve_execution_capability: what the most specific matching grants give.
ResolveExecutionCapability(scope, grants) ==
  LowestCapability(MostSpecific(scope, grants))

\* resolve_ceiling: the ceiling of the most specific matching entries of the
\* intent, CapNone when there is none.  Entries that disagree raise.
Ambiguous == "ambiguous"
CeilingsOf(scope, intent, entries) ==
  MostSpecific(scope, {e \in entries : e.intent = intent})
ResolveCeiling(scope, intent, entries) ==
  LET ceilings == {e.ceiling : e \in CeilingsOf(scope, intent, entries)}
  IN IF ceilings = {} THEN CapNone
     ELSE IF \E k, l \in ceilings : k # l THEN Ambiguous
     ELSE CHOOSE k \in ceilings : TRUE

\* effective_access: the lower of what the actor was granted and what the
\* organization allows.  Nothing in the gateway calls it yet.
EffectiveAccess(scope, intent, grants, entries) ==
  LET grant   == ResolveExecutionCapability(scope, grants)
      ceiling == ResolveCeiling(scope, intent, entries)
  IN IF ceiling = Ambiguous THEN Ambiguous
     ELSE IF grant <= ceiling THEN grant ELSE ceiling

---------------------------------------------------------------------------
\* Mutant of ResolveScope: any known workspace resolves, granted or not.
ResolveScopeUngranted(hint, grants) ==
  IF Missing \in {hint.project, hint.workspace} THEN "clarification_required"
  ELSE IF hint \notin KnownWorkspaces THEN "unavailable"
  ELSE "resolved"

\* resolve_scope: a hint without project or workspace needs a clarification;
\* an unknown target and one no grant covers give the same public answer.
ResolveScope(hint, grants) ==
  IF Missing \in {hint.project, hint.workspace} THEN "clarification_required"
  ELSE IF \/ hint \notin KnownWorkspaces
          \/ ResolveExecutionCapability(hint, grants) = CapNone
       THEN "unavailable"
       ELSE "resolved"
=============================================================================
