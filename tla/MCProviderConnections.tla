----------------------- MODULE MCProviderConnections -----------------------
EXTENDS ProviderConnections, TLC

Symmetry == Permutations(Users) \cup Permutations(Connections)
              \cup Permutations(Organizations)
=============================================================================
