---------------------------- MODULE MCProvision ----------------------------
(***************************************************************************)
(* A small instance of Provision for TLC: one scope, two users with a      *)
(* shared request grant (one through a group, one inherited from above),   *)
(* an approver grant, and a guardrail of each kind.                        *)
(***************************************************************************)
EXTENDS Provision, TLC

CONSTANTS prod, alice, bob

MCHierarchy == prod :>
  [organization |-> "org", business_unit |-> "bu", team |-> "team",
   project |-> "checkout", environment |-> "env"]
MCGroupsOf == alice :> {"devs"} @@ bob :> {"devs"}

RoleBinding(kind, id, actions, target) ==
  [id |-> id, principal |-> [kind |-> kind, id |-> id], actions |-> actions,
   environments |-> {}, target |-> target]
MCRoleBindings ==
  {RoleBinding("identity_group", "devs", {"provision_request"},
     [kind |-> "project", id |-> "checkout", inherit |-> TRUE]),
   RoleBinding("user", bob, {"provision_approve"},
     [kind |-> "scope", id |-> prod, inherit |-> FALSE])}

MCPolicies ==
  {[kind |-> "environment", id |-> "env", providers |-> {"aws"},
    denied |-> {}, approval |-> TRUE]}
MCProfile == {"aws"}
MCProviders == {"aws", "gcp"}
Symmetry == Permutations(Ops) \cup Permutations(Containers)
=============================================================================
