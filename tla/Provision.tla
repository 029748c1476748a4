----------------------------- MODULE Provision -----------------------------
(***************************************************************************)
(* A provision operation from its preflight to the executor: workflows/    *)
(* provision/preflight.py, the seals of gateway/resolved_resource_scope.py *)
(* and gateway/provision_plan.py, workflows/provision/approval_graph.py    *)
(* and gateway/provision_execution.py, over the registries of              *)
(* gateway/resource_scope_registry.py and resource_scope_bindings.py.      *)
(*                                                                         *)
(* Every registry read is a database transaction of its own, so an         *)
(* operation takes one step per read, and reviewed changes of registries,  *)
(* memberships, grants and guardrails may fall between any two of them.    *)
(*                                                                         *)
(* A digest is modelled by what it seals: two plans have the same digest   *)
(* exactly when their sealed contents are the same.                        *)
(***************************************************************************)
EXTENDS ResourceScopes

CONSTANTS
  Ops,          \* provision operations
  Bindings,     \* binding ids
  Providers,    \* cloud providers
  Profile,      \* eligible_providers of the trusted profile
  Containers,   \* container_reference values
  RoleBindings, \* ResourceScopeRoleBinding records
  Policies,     \* ResourceScopeGovernancePolicy records
  Contents,     \* typed inputs and policy version of a plan
  MaxVersion,   \* bound: registry versions
  MaxChanges,   \* bound: reviewed changes made while operations run
  MaxExecutions \* bound: executor calls recorded before the last load

ASSUME ProvisionAssumption ==
  /\ Profile \subseteq Providers
  /\ {MaxVersion, MaxChanges, MaxExecutions} \subseteq Nat
  /\ MaxVersion > 0

VARIABLES
  scopes,     \* the scope registry: is_complete_and_active and version
  bindings,   \* the provider binding registry
  members,    \* active memberships of the organization above the scopes
  grants,     \* active role bindings
  policies,   \* guardrails in force
  op,         \* each operation: where it is and what it has read
  receipts,   \* the approval receipt repository (external)
  executions, \* history: executor calls, with the digest the approver
              \* answered
  registered, \* history: the container of every binding id and version
  changes     \* reviewed changes so far: the bound, and the clock that
              \* tells a quiet stretch from one with changes

registry == <<scopes, bindings, members, grants, policies, registered, changes>>
vars == <<registry, op, receipts, executions>>

---------------------------------------------------------------------------
Versions == 1..MaxVersion
NoVersion == 0  \* what resolve_active tells of an inactive scope

\* ResourceScope.state and those of its hierarchy are one Boolean, and
\* version stands for version and canonical_path, which freshness compares
\* together; ScopeRegistry has both, and the rows they come from.
ScopeRecords == [active : BOOLEAN, version : Versions]
BindingRecords ==
  [scope : Scopes, provider : Providers, container : Containers,
   active : BOOLEAN, version : Versions]

\* CloudResourceContainerBinding as read by an operation.
Snapshots ==
  [id : Bindings, provider : Providers, container : Containers,
   version : Versions]

GrantIds == {b.id : b \in RoleBindings}
Targets == {[kind |-> p.kind, id |-> p.id] : p \in Policies}

\* ResolvedResourceScopeContext and SealedProvisionPlan: what plan_digest
\* and approval_digest cover.  Grants and guardrails are named, by binding
\* id and by policy target; neither digest names the requester.
Plans ==
  [scope : Scopes, version : Versions, binding : Bindings,
   binding_version : Versions, grants : SUBSET GrantIds,
   guardrails : SUBSET Targets, contents : Contents]

Idle == [at |-> "idle"]
Preflights ==
  [at : {"authorize", "member", "match", "route"}, requester : Users,
   scope : Scopes, version : Versions, grants : SUBSET GrantIds]
Evaluations ==
  [at : {"evaluate"}, requester : Users, scope : Scopes,
   version : Versions, grants : SUBSET GrantIds, binding : Snapshots]
Sealed ==
  [at : {"sealed"}, requester : Users, plan : Plans, container : Containers]
Reviews ==
  [at : {"review", "review_member", "review_match", "approved"},
   requester : Users, plan : Plans, container : Containers,
   reviewer : Users, answer : Plans]
Loads ==
  [at : {"load", "gate"}, requester : Users, plan : Plans,
   container : Containers, version : Versions \cup {NoVersion},
   bindings : SUBSET Snapshots, since : 0..MaxChanges]

Executions ==
  [plan : Plans, requester : Users, approver : Users, answer : Plans]
Registrations == [id : Bindings, version : Versions, container : Containers]

\* What a binding record says its id and version stand for.
Registration(b, r) ==
  [id |-> b, version |-> r.version, container |-> r.container]

Init ==
  /\ scopes = [s \in Scopes |-> [active |-> TRUE, version |-> 1]]
  /\ bindings \in [Bindings -> {r \in BindingRecords :
                                  r.active /\ r.version = 1
                                    /\ r.provider \in Profile}]
  /\ members = Users
  /\ grants = RoleBindings
  /\ policies \in SUBSET Policies
  /\ op = [o \in Ops |-> Idle]
  /\ receipts = {}
  /\ executions = {}
  /\ registered = {Registration(b, bindings[b]) : b \in Bindings}
  /\ changes = 0

\* resolve_active of the scope registry.
ResolveActive(s) ==
  IF scopes[s].active THEN scopes[s].version ELSE NoVersion

\* An operation moves on; only its own record changes.
MoveTo(o, record) ==
  /\ op' = [op EXCEPT ![o] = record]
  /\ UNCHANGED <<registry, receipts, executions>>

---------------------------------------------------------------------------
(* ResourceScopeProvisionPreflight.evaluate, one step per registry read.   *)

\* Mutant of Start: the scope is not required to be active.
StartAnywhere(o, user, s) ==
  /\ op[o] = Idle
  /\ MoveTo(o, [at |-> "authorize", requester |-> user, scope |-> s,
                version |-> ResolveActive(s), grants |-> {}])

\* The gateway derives the requester; an inactive scope is non-routable.
Start(o, user, s) ==
  /\ op[o] = Idle
  /\ MoveTo(o, IF ResolveActive(s) = NoVersion THEN Idle
               ELSE [at |-> "authorize", requester |-> user, scope |-> s,
                     version |-> ResolveActive(s), grants |-> {}])

\* authorize reads the scope again, then the membership.
AuthorizeScope(o) ==
  /\ op[o].at = "authorize"
  /\ MoveTo(o, IF ResolveActive(op[o].scope) # NoVersion
               THEN [op[o] EXCEPT !.at = "member"] ELSE Idle)

AuthorizeMember(o) ==
  /\ op[o].at = "member"
  /\ MoveTo(o, IF op[o].requester \in members
               THEN [op[o] EXCEPT !.at = "match"] ELSE Idle)

\* authorize matches the active role bindings.
AuthorizeGrants(o) ==
  /\ op[o].at = "match"
  /\ LET matched == MatchedGrants(grants, op[o].requester,
                                  "provision_request", op[o].scope)
     IN MoveTo(o, IF matched # {}
                  THEN [op[o] EXCEPT !.at = "route", !.grants = matched]
                  ELSE Idle)

\* resolve: exactly one eligible active binding, or non-routable.
Route(o) ==
  /\ op[o].at = "route"
  /\ LET eligible == Eligible(ActiveBindings(bindings, op[o].scope), Profile)
     IN \/ \E b \in eligible :
             /\ eligible = {b}
             /\ MoveTo(o, [at |-> "evaluate", requester |-> op[o].requester,
                           scope |-> op[o].scope, version |-> op[o].version,
                           grants |-> op[o].grants, binding |-> b])
        \/ /\ Cardinality(eligible) # 1
           /\ MoveTo(o, Idle)

\* evaluate, then seal: the context holds the scope version of the first
\* read, the grants of the third and the binding of the fourth.
Seal(o, contents) ==
  LET me == op[o]
  IN /\ me.at = "evaluate"
     /\ MoveTo(o,
          IF Governance(me.scope, me.binding.provider, "provision_request",
                        FALSE, policies) = "denied"
          THEN Idle
          ELSE [at |-> "sealed", requester |-> me.requester,
                container |-> me.binding.container,
                plan |-> [scope |-> me.scope, version |-> me.version,
                          binding |-> me.binding.id,
                          binding_version |-> me.binding.version,
                          grants |-> me.grants,
                          guardrails |-> MatchedTargets(me.scope, policies),
                          contents |-> contents]])

---------------------------------------------------------------------------
(* The review node of the approval graph, resumed by a reviewer.           *)

\* The record of an operation outside review and execution.
AsSealed(me) ==
  [at |-> "sealed", requester |-> me.requester, plan |-> me.plan,
   container |-> me.container]

\* The digests a resume body may carry: those of plans under way.
KnownPlans == {op[o].plan : o \in {p \in Ops : "plan" \in DOMAIN op[p]}}

\* Mutant of DigestMatches: any sealed plan will do.
DigestMatchesAny(plan, digest) == digest \in KnownPlans

\* ProvisionApprovalDigest.matches
DigestMatches(plan, digest) == digest = plan

\* A reviewer answers "approve".  A self-approval or a digest of another
\* plan raises, and the checkpoint stays where it was.
Approve(o, reviewer, digest) ==
  LET me == op[o]
  IN /\ me.at = "sealed"
     /\ MoveTo(o, IF reviewer # me.requester /\ DigestMatches(me.plan, digest)
                  THEN [at |-> "review", requester |-> me.requester,
                        plan |-> me.plan, container |-> me.container,
                        reviewer |-> reviewer, answer |-> digest]
                  ELSE me)

\* A reviewer answers anything else.
Reject(o, reviewer) ==
  /\ op[o].at = "sealed"
  /\ reviewer # op[o].requester
  /\ MoveTo(o, Idle)

\* authorize of the reviewer, again one step per read.
ReviewScope(o) ==
  /\ op[o].at = "review"
  /\ MoveTo(o, IF ResolveActive(op[o].plan.scope) # NoVersion
               THEN [op[o] EXCEPT !.at = "review_member"]
               ELSE AsSealed(op[o]))

ReviewMember(o) ==
  /\ op[o].at = "review_member"
  /\ MoveTo(o, IF op[o].reviewer \in members
               THEN [op[o] EXCEPT !.at = "review_match"]
               ELSE AsSealed(op[o]))

ReviewGrants(o) ==
  /\ op[o].at = "review_match"
  /\ MoveTo(o, IF MatchedGrants(grants, op[o].reviewer, "provision_approve",
                                op[o].plan.scope) # {}
               THEN [op[o] EXCEPT !.at = "approved"]
               ELSE AsSealed(op[o]))

\* The approval the graph returned is stored (external repository).
RecordReceipt(o) ==
  /\ op[o].at = "approved"
  /\ receipts' = receipts \cup
       {[plan |-> op[o].plan, approver |-> op[o].reviewer,
         answer |-> op[o].answer]}
  /\ op' = [op EXCEPT ![o] = AsSealed(op[o])]
  /\ UNCHANGED <<registry, executions>>

---------------------------------------------------------------------------
(* The execution gate and its caller, which loads the current records.     *)

LoadScope(o) ==
  /\ op[o].at = "sealed"
  /\ Cardinality(executions) < MaxExecutions
  /\ MoveTo(o, [at |-> "load", requester |-> op[o].requester,
                plan |-> op[o].plan, container |-> op[o].container,
                version |-> ResolveActive(op[o].plan.scope),
                bindings |-> {}, since |-> changes])

LoadBindings(o) ==
  /\ op[o].at = "load"
  /\ MoveTo(o, [op[o] EXCEPT !.at = "gate",
                  !.bindings = ActiveBindings(bindings, op[o].plan.scope)])

\* What ProvisionExecutionGate.execute requires of the loaded binding b and
\* of a receipt.
Passes(me, b, receipt) ==
  /\ receipt.plan = me.plan
  /\ ~RequiresFreshResolution(me.plan, me.version, me.bindings)
  /\ b.id = me.plan.binding
  /\ Governance(me.plan.scope, b.provider, "provision_request", TRUE,
                policies) = "allowed"

\* ProvisionExecutionGate.execute calls the executor with the plan, and the
\* executor finds the registries as they are by then.  Nothing consumes the
\* receipt: the plan may be executed again.
Execute(o) ==
  /\ op[o].at = "gate"
  /\ \E b \in op[o].bindings, receipt \in receipts :
       /\ Passes(op[o], b, receipt)
       /\ executions' = executions \cup
            {[plan |-> op[o].plan, requester |-> op[o].requester,
              approver |-> receipt.approver, answer |-> receipt.answer]}
  /\ op' = [op EXCEPT ![o] = AsSealed(op[o])]
  /\ UNCHANGED <<registry, receipts>>

\* ProvisionExecutionGate.execute raises ProvisionExecutionDenied.
Deny(o) ==
  /\ op[o].at = "gate"
  /\ \A b \in op[o].bindings, receipt \in receipts :
       ~Passes(op[o], b, receipt)
  /\ MoveTo(o, AsSealed(op[o]))

---------------------------------------------------------------------------
(* Reviewed changes of the records operations read.                        *)

\* register_reviewed of the scope registry, of this scope or of another that
\* shares its hierarchy: version is the caller's.
RegisterScope(s) ==
  /\ \E r \in ScopeRecords : scopes' = [scopes EXCEPT ![s] = r]
  /\ UNCHANGED <<bindings, members, grants, policies, registered>>

\* register_reviewed of the binding registry overwrites the whole record,
\* under whatever version the caller gives, the present one included.
RegisterBinding(b) ==
  /\ \E r \in BindingRecords :
       /\ bindings' = [bindings EXCEPT ![b] = r]
       /\ registered' = registered \cup {Registration(b, r)}
  /\ UNCHANGED <<scopes, members, grants, policies>>

\* set_state keeps the version: a suspended binding comes back unchanged.
SetBindingState(b) ==
  /\ bindings' = [bindings EXCEPT ![b].active = ~@]
  /\ UNCHANGED <<scopes, members, grants, policies, registered>>

\* A membership, a role binding or a guardrail starts or ends (stores of
\* other components).
ChangeAuthority ==
  \/ /\ \E u \in Users :
          members' \in {members \cup {u}, members \ {u}}
     /\ UNCHANGED <<scopes, bindings, grants, policies, registered>>
  \/ /\ \E b \in RoleBindings : grants' \in {grants \cup {b}, grants \ {b}}
     /\ UNCHANGED <<scopes, bindings, members, policies, registered>>
  \/ /\ policies' \in SUBSET Policies
     /\ UNCHANGED <<scopes, bindings, members, grants, registered>>

Change ==
  /\ changes < MaxChanges
  /\ changes' = changes + 1
  /\ \/ \E s \in Scopes : RegisterScope(s)
     \/ \E b \in Bindings : RegisterBinding(b) \/ SetBindingState(b)
     \/ ChangeAuthority
  /\ UNCHANGED <<op, receipts, executions>>

Preflight(o) ==
  \/ \E user \in Users, s \in Scopes : Start(o, user, s)
  \/ AuthorizeScope(o) \/ AuthorizeMember(o) \/ AuthorizeGrants(o) \/ Route(o)
  \/ \E contents \in Contents : Seal(o, contents)

Approval(o) ==
  \/ \E reviewer \in Users :
       \/ \E digest \in KnownPlans : Approve(o, reviewer, digest)
       \/ Reject(o, reviewer)
  \/ ReviewScope(o) \/ ReviewMember(o) \/ ReviewGrants(o) \/ RecordReceipt(o)

Execution(o) == LoadScope(o) \/ LoadBindings(o) \/ Execute(o) \/ Deny(o)

Next ==
  \/ \E o \in Ops : Preflight(o) \/ Approval(o) \/ Execution(o)
  \/ Change

Spec == Init /\ [][Next]_vars

---------------------------------------------------------------------------
(* Properties *)

TypeOK ==
  /\ scopes \in [Scopes -> ScopeRecords]
  /\ bindings \in [Bindings -> BindingRecords]
  /\ members \subseteq Users
  /\ grants \subseteq RoleBindings
  /\ policies \subseteq Policies
  /\ op \in [Ops -> {Idle} \cup Preflights \cup Evaluations \cup Sealed
                      \cup Reviews \cup Loads]
  /\ receipts \subseteq [plan : Plans, approver : Users, answer : Plans]
  /\ executions \subseteq Executions
  /\ registered \subseteq Registrations
  /\ changes \in 0..MaxChanges

\* The executor only ever receives the very plan its approver answered
\* "approve" to: same scope, versions, grants, guardrails and inputs.
ReviewedPlanIsExecuted == \A e \in executions : e.answer = e.plan

\* The version stands for one container in all the registry ever held.
Unambiguous(id, version) ==
  \A r, t \in registered :
    r.id = id /\ t.id = id /\ r.version = version /\ t.version = version
      => r.container = t.container

\* What the executor finds under a plan is what its preflight sealed, after
\* any changes between the reads of the preflight, the review and the load,
\* when nothing changes from the load to the call: the scope active at its
\* version, the binding active on that scope at its version, and the
\* container the preflight was routed to unless a reviewer has registered
\* another under the same id and version.
PlanDescribesRegistry ==
  [][\A o \in Ops : Execute(o) /\ op[o].since = changes =>
       LET plan == op[o].plan
           found == bindings[plan.binding]
       IN /\ scopes[plan.scope] = [active |-> TRUE, version |-> plan.version]
          /\ found.active /\ found.scope = plan.scope
          /\ found.version = plan.binding_version
          /\ Unambiguous(plan.binding, plan.binding_version)
               => found.container = op[o].container]_vars

\* openspec/changes/remediate-control-plane-review/specs/
\* control-plane-remediation/spec.md:46-49: before execution a recorded
\* authorized approver distinct from the requester.
DistinctApprover ==
  \A e \in executions : e.approver # e.requester
=============================================================================
