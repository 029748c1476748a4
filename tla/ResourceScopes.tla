--------------------------- MODULE ResourceScopes ---------------------------
(***************************************************************************)
(* The decisions of the Resource Scope layer as operators: who is granted  *)
(* what on a scope (gateway/resource_scope_access.py), what the guardrails *)
(* of its hierarchy say (resource_scope_governance.py), which provider     *)
(* binding serves it (resource_scope_bindings.py) and whether a sealed     *)
(* context still describes it (resolved_resource_scope.py).                *)
(***************************************************************************)
EXTENDS Integers, FiniteSets

CONSTANTS
  Users,     \* user subjects, the principals of kind user
  Scopes,    \* scope ids
  Hierarchy, \* the ids above each scope: [organization, ..., environment]
  GroupsOf   \* the active identity groups of each user (external lookup)

Actions == {"provision_request", "provision_approve"}
Levels  == {"organization", "business_unit", "team", "project", "environment"}

ASSUME HierarchyAssumption ==
  /\ \A s \in Scopes : DOMAIN Hierarchy[s] = Levels
  /\ DOMAIN GroupsOf = Users

---------------------------------------------------------------------------
\* _principal_matches: a binding names the user, or a group of the user.
PrincipalMatches(principal, user) ==
  \/ principal = [kind |-> "user", id |-> user]
  \/ principal.kind = "identity_group" /\ principal.id \in GroupsOf[user]

\* _target_matches: the scope or its environment, or an inherited ancestor.
TargetMatches(target, s) ==
  \/ target.kind = "scope" /\ target.id = s
  \/ target.kind = "environment" /\ target.id = Hierarchy[s].environment
  \/ /\ target.kind \in Levels \ {"environment"}
     /\ target.inherit
     /\ target.id = Hierarchy[s][target.kind]

\* _binding_allows: a role binding grants the action on the scope.
BindingAllows(b, user, action, s) ==
  /\ action \in b.actions
  /\ PrincipalMatches(b.principal, user)
  /\ b.environments = {} \/ Hierarchy[s].environment \in b.environments
  /\ TargetMatches(b.target, s)

\* matched_binding_ids: the active role bindings that allow the action.
MatchedGrants(active, user, action, s) ==
  {b.id : b \in {c \in active : BindingAllows(c, user, action, s)}}

---------------------------------------------------------------------------
\* applicable_policies: the guardrails set on the scope or above it.
ApplicablePolicies(s, policies) ==
  {p \in policies : \/ p.kind = "scope" /\ p.id = s
                    \/ p.kind \in Levels /\ p.id = Hierarchy[s][p.kind]}

\* matched_policy_targets: "kind:id", whatever the policies there say.
MatchedTargets(s, policies) ==
  {[kind |-> p.kind, id |-> p.id] : p \in ApplicablePolicies(s, policies)}

\* ResourceScopeGovernanceEvaluator.evaluate: a denied action, then a
\* provider outside some restriction, then a missing approval.
Governance(s, provider, action, approved, policies) ==
  LET applicable == ApplicablePolicies(s, policies)
  IN IF \/ \E p \in applicable : action \in p.denied
        \/ \E p \in applicable :
             p.providers # {} /\ provider \notin p.providers
     THEN "denied"
     ELSE IF /\ action = "provision_request"
             /\ \E p \in applicable : p.approval
             /\ ~approved
     THEN "approval_required"
     ELSE "allowed"

---------------------------------------------------------------------------
\* active_bindings: what the registry holds for the scope, as
\* [id, provider, container, version] records.
ActiveBindings(registry, s) ==
  {[id |-> b, provider |-> registry[b].provider,
    container |-> registry[b].container, version |-> registry[b].version] :
     b \in {c \in DOMAIN registry :
              registry[c].scope = s /\ registry[c].active}}

\* ResourceScopeBindingResolver.resolve: the eligible bindings; the scope is
\* routable when there is exactly one.
Eligible(active, providers) == {b \in active : b.provider \in providers}

\* Mutant of RequiresFreshResolution: a binding counts by its id alone.
RequiresFreshResolutionById(plan, version, bindings) ==
  \/ version # plan.version
  \/ plan.binding \notin {b.id : b \in bindings}

\* requires_fresh_resolution: the scope record (NoVersion: not active) or
\* the active bindings no longer are what the context sealed.
RequiresFreshResolution(plan, version, bindings) ==
  \/ version # plan.version
  \/ ~\E b \in bindings :
        b.id = plan.binding /\ b.version = plan.binding_version
=============================================================================
