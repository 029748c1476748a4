-------------------------- MODULE MCTerminalLogin --------------------------
(***************************************************************************)
(* A small instance of TerminalLogin for TLC: the mapping file maps the    *)
(* one group there is; a token without that group shows what is not        *)
(* granted.                                                                *)
(***************************************************************************)
EXTENDS TerminalLogin

MCMappings == {Groups}
=============================================================================
