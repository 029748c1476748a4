CONSTANTS
  Users = {u1, u2}
  NoUser = NoUser
  Boundaries = {d1, d2}
  NoProof = NoProof
  Workers = {w1, w2}
  MaxRequests = 1
  MaxInvitations = 2
  MaxChanges = 2
SPECIFICATION Spec
SYMMETRY Symmetry
INVARIANTS
  TypeOK
  ActivatedOnce
  AdminIsEarned
  InvitationSpentOnce
  MembershipIsInvited
PROPERTY JoinIsAtomic
