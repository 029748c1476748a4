CONSTANTS
  prod = prod
  alice = alice
  bob = bob
  Users = {alice, bob}
  Scopes = {prod}
  Hierarchy <- MCHierarchy
  GroupsOf <- MCGroupsOf
  Ops = {o1, o2}
  Bindings = {b1}
  Providers <- MCProviders
  Profile <- MCProfile
  Containers = {k1, k2}
  RoleBindings <- MCRoleBindings
  Policies <- MCPolicies
  Contents = {v1}
  MaxVersion = 2
  MaxChanges = 1
  MaxExecutions = 1
SPECIFICATION Spec
INVARIANT DistinctApprover
