SPECIFICATION Spec
CONSTANTS
  Users = {u1, u2}
  Connections = {c1, c2}
  Organizations = {orgA, orgB}
  Boundaries = {aws, gcp}
  Served = {aws}
  Scopes = {s1}
  Containers = {k1}
  Nobody = nobody
  MaxAttachments = 2
  MaxBootstraps = 1
  MaxChanges = 1
SYMMETRY Symmetry
INVARIANTS TypeOK BindingTakesTwo CreationTakesTwo
PROPERTY ApprovedForItsConnection
