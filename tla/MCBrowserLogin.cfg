CONSTANTS
  Emails = {e1, e2}
  Sources = {s1}
  NoSource = NoSource
  Callers = {s1}
  Workers = {w1, w2}
  MaxPerEmail = 1
  MaxPerSource = 1
  Window = 2
  TokenTTL = 3
  SessionTTL = 1
  MaxTime = 4
SPECIFICATION Spec
SYMMETRY Symmetry
INVARIANTS
  TypeOK
  OneSessionPerLink
  OneUserPerMailbox
  AttemptEndsOnce
  
PROPERTY LogoutIsFinal
