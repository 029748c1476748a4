-------------------------- MODULE MCBrowserLogin --------------------------
(***************************************************************************)
(* A small instance of BrowserLogin for TLC.                               *)
(***************************************************************************)
EXTENDS BrowserLogin, TLC

Symmetry == Permutations(Emails) \cup Permutations(Workers)
=============================================================================
