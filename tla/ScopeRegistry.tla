--------------------------- MODULE ScopeRegistry ---------------------------
(***************************************************************************)
(* The reviewed Resource Scope registry over PostgreSQL                    *)
(* (gateway/resource_scope_registry.py, resource_scope_registry_postgres.py*)
(* and migration 003), with each registration as one step, and the part of *)
(* gateway/resolved_resource_scope.py that compares a sealed context with  *)
(* what the registry says now.  ScopeTransactions takes a registration     *)
(* apart into its statements.                                              *)
(*                                                                         *)
(* Scopes of one team or project share the rows of their hierarchy, so a   *)
(* registration may rename or suspend what other scopes resolve to.  A     *)
(* slug holds no colon: a canonical path is the function from levels to    *)
(* slugs.  Of a state only "active" or not matters.                        *)
(***************************************************************************)
CONSTANTS
  Organizations, \* organization ids
  Records        \* ResourceScope records that may be registered: ids of
                 \* the five levels and the scope, slugs of the levels,
                 \* states ("active") and the scope's version

Levels == {"organization", "business_unit", "team", "project",
           "environment"}
Tables == (Levels \ {"organization"}) \cup {"scope"}
Missing == [active |-> FALSE, version |-> 0]

VARIABLES
  organizations, \* the state of each organization there is
  tables,        \* the rows of each table, by primary key
  seals          \* ResolvedResourceScopeContexts, each with the scope it
                 \* was sealed from

vars == <<organizations, tables, seals>>

---------------------------------------------------------------------------
\* FOREIGN KEYs, which records follow.
Above == [business_unit |-> "organization", team |-> "business_unit",
          project |-> "team", environment |-> "project"]

Exists(l, id) == id \in DOMAIN tables[l]

\* The row INSERT ... ON CONFLICT (primary key) DO UPDATE leaves.  The
\* update names neither the parent of a level nor, of a scope, its place in
\* the hierarchy (id) and organization_slug (root).
Upsert(l, r) ==
  CASE l = "scope" /\ Exists(l, r.id[l]) ->
         [tables[l][r.id[l]] EXCEPT !.path = r.slug, !.active = r.active[l],
                                    !.version = r.version]
    [] l = "scope" /\ ~Exists(l, r.id[l]) ->
         [id |-> r.id, root |-> r.slug.organization, path |-> r.slug,
          active |-> r.active[l], version |-> r.version]
    [] l # "scope" /\ Exists(l, r.id[l]) ->
         [tables[l][r.id[l]] EXCEPT !.slug = r.slug[l],
                                    !.active = r.active[l]]
    [] l # "scope" /\ ~Exists(l, r.id[l]) ->
         [parent |-> r.id[Above[l]], slug |-> r.slug[l],
          active |-> r.active[l]]

\* What the UNIQUE constraints of a table say a row has for itself.
UniqueKeys(l, row) ==
  IF l = "scope" THEN {[path |-> row.path],
                       [environment |-> row.id.environment]}
                 ELSE {[parent |-> row.parent, slug |-> row.slug]}

\* psycopg.errors.UniqueViolation
Violates(l, id, row) ==
  \E other \in DOMAIN tables[l] \ {id} :
     UniqueKeys(l, tables[l][other]) \cap UniqueKeys(l, row) # {}

With(rows, id, row) ==
  [i \in DOMAIN rows \cup {id} |-> IF i = id THEN row ELSE rows[i]]

\* resolve_active: one SELECT over the committed rows.  The path is built
\* anew from the slugs of the rows, whatever the scope's own row says.
ResolveActive(s) ==
  IF ~Exists("scope", s) THEN Missing ELSE
  LET scope  == tables["scope"][s]
      row(l) == tables[l][scope.id[l]]
  IN IF /\ scope.active
        /\ organizations[scope.id.organization] = "active"
        /\ \A l \in DOMAIN Above : row(l).active
     THEN [active |-> TRUE, version |-> scope.version, id |-> scope.id,
           path |-> [l \in Levels |-> IF l = "organization" THEN scope.root
                                      ELSE row(l).slug]]
     ELSE Missing

\* The scope's half of requires_fresh_resolution.
RequiresFreshResolution(c, now) ==
  \/ ~now.active
  \/ now.path # c.of.path
  \/ now.version # c.of.version

---------------------------------------------------------------------------
Init ==
  /\ \E there \in SUBSET Organizations :
       organizations \in [there -> {"pending", "active"}]
  /\ tables = [l \in Tables |-> [id \in {} |-> Missing]]
  /\ seals = {}

\* register_reviewed: five upserts, all of them or none.
Register(r) ==
  /\ r.id.organization \in DOMAIN organizations
  /\ \A l \in Tables : ~Violates(l, r.id[l], Upsert(l, r))
  /\ tables' = [l \in Tables |-> With(tables[l], r.id[l], Upsert(l, r))]
  /\ UNCHANGED <<organizations, seals>>

\* The onboarding of an organization is requested and approved (save_pending
\* and activate of organization_onboarding_postgres.py).
Onboard ==
  /\ \E o \in Organizations :
       \/ /\ o \notin DOMAIN organizations
          /\ organizations' = With(organizations, o, "pending")
       \/ /\ o \in DOMAIN organizations
          /\ organizations[o] = "pending"
          /\ organizations' = With(organizations, o, "active")
  /\ UNCHANGED <<tables, seals>>

\* ResolvedResourceScopeContext.seal
Seal ==
  /\ \E s \in DOMAIN tables["scope"] :
       /\ ResolveActive(s).active
       /\ seals' = seals \cup {[scope |-> s, of |-> ResolveActive(s)]}
  /\ UNCHANGED <<organizations, tables>>

Next == (\E r \in Records : Register(r)) \/ Onboard \/ Seal

Spec == Init /\ [][Next]_vars

---------------------------------------------------------------------------
(* Properties *)

\* Every FOREIGN KEY of a scope holds: its JOINs in resolve_active find a row
\* at each level, whatever was registered over its hierarchy since.
EveryScopeHasItsRows ==
  \A s \in DOMAIN tables["scope"] :
    LET id == tables["scope"][s].id
    IN /\ id.organization \in DOMAIN organizations
       /\ \A l \in DOMAIN Above : Exists(l, id[l])

\* A sealed context that needs no fresh resolution still describes its
\* scope: every id and slug of the hierarchy the grants were matched on is
\* what the registry resolves now -- though path and version are all that
\* is compared, and registrations of other scopes rename shared rows.
SealDescribesScope ==
  \A c \in seals :
    ~RequiresFreshResolution(c, ResolveActive(c.scope)) =>
       ResolveActive(c.scope) = c.of
=============================================================================
