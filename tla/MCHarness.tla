----------------------------- MODULE MCHarness -----------------------------
(***************************************************************************)
(* A small instance of Harness for TLC: one thread two actors write to,    *)
(* two calls in flight, one known workspace, and hints that are missing,   *)
(* incomplete and exact.                                                   *)
(***************************************************************************)
EXTENDS Harness

Scope(t, p, w) == [tenant |-> t, project |-> p, workspace |-> w]
InvoicesDev == Scope("aiq:it", "invoices", "dev")

MCKnownWorkspaces == {InvoicesDev}
MCTenantPolicy    == {<<"aiq:it", "provision">>}
MCHints == {InvoicesDev, Scope("aiq:it", "invoices", Missing)}

\* A session without grants, and one with a tenant-wide grant.
Wide   == [scope |-> Scope("aiq:it", Wildcard, Wildcard), capability |-> 4]
MCGrantSets == {{}, {Wide}}
MCWideOnly == {{Wide}}
MCPrefixes == {"provision", NoIntent}
=============================================================================
