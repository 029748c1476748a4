--------------------------- MODULE MCOnboarding ---------------------------
(***************************************************************************)
(* A small instance of Onboarding for TLC.                                 *)
(***************************************************************************)
EXTENDS Onboarding, TLC

Symmetry == Permutations(Users) \cup Permutations(Workers)
              \cup Permutations(Boundaries)
=============================================================================
