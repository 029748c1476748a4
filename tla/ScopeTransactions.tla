------------------------- MODULE ScopeTransactions -------------------------
(***************************************************************************)
(* register_reviewed of gateway/resource_scope_registry_postgres.py, one   *)
(* statement at a time, by several administrators at once.  PostgreSQL     *)
(* (external) runs each at READ COMMITTED: an upsert sees committed rows,  *)
(* keeps its row and its unique keys locked until its transaction ends,    *)
(* and waits for those of others.  Everything ScopeRegistry shows of       *)
(* registrations in one step holds here by RegistrationsAreAtomic.         *)
(***************************************************************************)
CONSTANTS
  Organizations, Records, \* as in ScopeRegistry
  Connections             \* database connections that register

VARIABLES
  organizations, tables, seals, \* what is committed, as in ScopeRegistry
  txn \* the transaction each connection has open

committed == <<organizations, tables, seals>>
vars == <<committed, txn>>

\* The registry with every registration in one step.
Registry == INSTANCE ScopeRegistry

---------------------------------------------------------------------------
NoTransaction == [at |-> "none"]

Init ==
  /\ Registry!Init
  /\ txn = [c \in Connections |-> NoTransaction]

Proceed(c, transaction) ==
  /\ txn' = [txn EXCEPT ![c] = transaction]
  /\ UNCHANGED committed

\* The row lock and the unique keys of a write: those it takes, and those of
\* the row it replaces, which are not free before it commits.
Locks(l, id, row) ==
  {[key |-> id]} \cup Registry!UniqueKeys(l, row) \cup
    (IF Registry!Exists(l, id)
     THEN Registry!UniqueKeys(l, tables[l][id]) ELSE {})

\* Another open transaction has written what this write needs.
Waits(c, l, id, row) ==
  \E o \in Connections \ {c} :
    /\ txn[o].at # "none" /\ l \in DOMAIN txn[o].written
    /\ Locks(l, id, row) \cap
         Locks(l, txn[o].record.id[l], txn[o].written[l]) # {}

\* The statements of register_reviewed, in their order.
Following == [business_unit |-> "team", team |-> "project",
              project |-> "environment", environment |-> "scope",
              scope |-> "commit"]

\* SELECT ... FOR KEY SHARE: the organization must exist, or the ValueError
\* leaves everything as it was (organizations are never deleted).
Begin(c, r) ==
  /\ txn[c] = NoTransaction
  /\ r.id.organization \in DOMAIN organizations
  /\ Proceed(c, [at |-> "business_unit", record |-> r,
                 written |-> [l \in {} |-> NoTransaction]])

\* The transaction block rolls back whatever leaves it by an exception.
RolledBack == NoTransaction

\* One INSERT ... ON CONFLICT; a UniqueViolation becomes
\* DuplicateCanonicalResourceScope.
Statement(c) ==
  /\ txn[c].at \in DOMAIN Following
  /\ LET me  == txn[c]
         l   == me.at
         id  == me.record.id[l]
         row == Registry!Upsert(l, me.record)
     IN /\ ~Waits(c, l, id, row)
        /\ Proceed(c, IF Registry!Violates(l, id, row) THEN RolledBack
             ELSE [me EXCEPT !.at = Following[l],
                             !.written = Registry!With(@, l, row)])

\* The end of the transaction block.
Commit(c) ==
  /\ txn[c].at = "commit"
  /\ tables' = [l \in DOMAIN tables |->
       Registry!With(tables[l], txn[c].record.id[l], txn[c].written[l])]
  /\ txn' = [txn EXCEPT ![c] = NoTransaction]
  /\ UNCHANGED <<organizations, seals>>

\* The connection is lost, the process dies, or the server ends the
\* transaction: nothing of it stays.
Abort(c) == txn[c].at # "none" /\ Proceed(c, RolledBack)

\* Everybody else sees committed rows only.
Others == (Registry!Onboard \/ Registry!Seal) /\ UNCHANGED txn

Next ==
  \/ \E c \in Connections, r \in Records : Begin(c, r)
  \/ \E c \in Connections : Statement(c) \/ Commit(c) \/ Abort(c)
  \/ Others

Spec == Init /\ [][Next]_vars

---------------------------------------------------------------------------
(* Properties *)

\* What is committed changes as if every registration were one step, made
\* in full or not at all: no interleaving of the statements of two of them
\* loses an update, doubles a slug or leaves half a hierarchy.
RegistrationsAreAtomic == Registry!Spec
=============================================================================
