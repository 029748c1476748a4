CONSTANTS
  Logins = {p1, p2}
  Users = {u1, u2}
  NoUser = NoUser
  Groups = {g1}
  Mappings <- MCMappings
  Keys = {k1, k2}
  Lifetimes = {0, 2}
  Intervals = {0, 1}
  SessionTTL = 1
SPECIFICATION FairSpec
INVARIANTS TypeOK NeverTooFast ShownIsApproved
PROPERTIES LoginEnds LoginReplacesFile
CHECK_DEADLOCK FALSE
