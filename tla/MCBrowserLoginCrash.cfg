CONSTANTS
  Emails = {e1}
  Sources = {s1}
  NoSource = NoSource
  Callers = {s1}
  Workers = {w1, w2}
  MaxPerEmail = 2
  MaxPerSource = 2
  Window = 2
  TokenTTL = 2
  SessionTTL = 1
  MaxTime = 2
SPECIFICATION Spec
INVARIANT ConsumedLinkHasUser
