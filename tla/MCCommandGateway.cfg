\* Expected to be violated: see the README, findings.
CONSTANTS
  Workers = {w1}
  Users = {u1}
  Sessions = {s1}
  k1 = k1
  k2 = k2
  Rings <- MCRings
  Payloads <- MCPayloads
  Enabled <- MCEnabled
SPECIFICATION Spec
INVARIANTS ValidCommandStarts
