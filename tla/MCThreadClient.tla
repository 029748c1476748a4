--------------------------- MODULE MCThreadClient ---------------------------
(***************************************************************************)
(* A small instance of ThreadClient for TLC: all its constants are model   *)
(* values and numbers given in the .cfg.                                   *)
(***************************************************************************)
EXTENDS ThreadClient
=============================================================================
