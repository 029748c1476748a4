CONSTANTS
  KnownWorkspaces <- MCKnownWorkspaces
  TenantPolicy <- MCTenantPolicy
  Requests = {r1}
  Actors = {a1, a2}
  NoActor = NoActor
  Calls = {c1, c2}
  GrantSets <- MCGrantSets
  Hints <- MCHints
  NoHint = NoHint
  Prefixes <- MCPrefixes
  MaxRuns = 2
SPECIFICATION FairSpec
INVARIANTS
  TypeOK
  SlotHoldsItsQuestion
  RunInOnePlace
  ReplayIsFaithful
  ReadyIsAuthorized
  QuestionsBounded
PROPERTIES
  RefinesClarification
  Quiesces
