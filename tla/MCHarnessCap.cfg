CONSTANTS
  KnownWorkspaces <- MCKnownWorkspaces
  TenantPolicy <- MCTenantPolicy
  Requests = {r1}
  Actors = {a1}
  NoActor = NoActor
  Calls = {c1, c2}
  GrantSets <- MCWideOnly
  Hints <- MCHints
  NoHint = NoHint
  Prefixes <- MCPrefixes
  MaxRuns = 2
SPECIFICATION Spec
INVARIANT EveryQuestionCanBeAnswered
