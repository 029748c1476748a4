-------------------------- MODULE MCCommandGateway --------------------------
(***************************************************************************)
(* A small instance of CommandGateway for TLC: two deployed key sets, of   *)
(* which the later still accepts the key of the earlier, every workflow    *)
(* enabled, and the payload of every contract.                             *)
(***************************************************************************)
EXTENDS CommandGateway

CONSTANTS k1, k2

MCRings == {[current |-> k1, keys |-> {k1}],
            [current |-> k2, keys |-> {k1, k2}]}
MCPayloads == {Contract[c] : c \in DOMAIN Route} \cup {{"scope_id", "subject"}}
MCEnabled == {Route[c] : c \in DOMAIN Route}
=============================================================================
