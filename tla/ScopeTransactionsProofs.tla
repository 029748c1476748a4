---------------------- MODULE ScopeTransactionsProofs ----------------------
(***************************************************************************)
(* Statement by statement and with any number of connections, the registry *)
(* implements the one whose registrations are single steps; what that one  *)
(* keeps for any records and organizations; and so, what both keep.        *)
(***************************************************************************)
EXTENDS ScopeTransactions, TLAPS

TableNames == {"business_unit", "team", "project", "environment", "scope"}

\* The tables a transaction has written when its next step is at.
Before(at) ==
  CASE at = "business_unit" -> {}
    [] at = "team"          -> {"business_unit"}
    [] at = "project"       -> {"business_unit", "team"}
    [] at = "environment"   -> {"business_unit", "team", "project"}
    [] at = "scope"         -> {"business_unit", "team", "project",
                                "environment"}
    [] at = "commit"        -> TableNames

Open(c) == txn[c].at # "none"

Id(c, l) == txn[c].record.id[l]

\* What a transaction has written is what it would write now: nobody can
\* have changed what the row and its constraints depend on.
Current(c) ==
  \A l \in DOMAIN txn[c].written :
    /\ txn[c].written[l] = Registry!Upsert(l, txn[c].record)
    /\ ~Registry!Violates(l, Id(c, l), txn[c].written[l])

WellFormed(c) ==
  /\ txn[c] = [at |-> txn[c].at, record |-> txn[c].record,
               written |-> txn[c].written]
  /\ txn[c].at \in TableNames \cup {"commit"}
  /\ txn[c].record \in Records
  /\ txn[c].record.id.organization \in DOMAIN organizations
  /\ txn[c].written =
       [l \in DOMAIN txn[c].written |-> txn[c].written[l]]
  /\ DOMAIN txn[c].written = Before(txn[c].at)

Disjoint(c, o) ==
  \A l \in DOMAIN txn[c].written \cap DOMAIN txn[o].written :
    Locks(l, Id(c, l), txn[c].written[l]) \cap
      Locks(l, Id(o, l), txn[o].written[l]) = {}

IInv ==
  /\ DOMAIN tables = TableNames
  /\ txn = [c \in Connections |-> txn[c]]
  /\ \A c \in Connections : Open(c) => WellFormed(c) /\ Current(c)
  /\ \A c, o \in Connections :
       c # o /\ Open(c) /\ Open(o) => Disjoint(c, o)

\* The facts of one open transaction depend on its own record, on the
\* organizations and on the tables alone.
Unmoved(c) == txn'[c] = txn[c]

---------------------------------------------------------------------------
LEMMA UnmovedKeeps ==
  ASSUME IInv, tables' = tables,
         DOMAIN organizations \subseteq DOMAIN organizations',
         NEW c \in Connections, Unmoved(c), Open(c)'
  PROVE  Open(c) /\ WellFormed(c)' /\ Current(c)'
<1>1. Open(c) /\ WellFormed(c) /\ Current(c)
  BY DEF IInv, Open, Unmoved
<1>2. WellFormed(c)'
  BY <1>1 DEF WellFormed, Unmoved
<1>3. Current(c)'
  <2> SUFFICES ASSUME NEW l \in DOMAIN txn[c].written
               PROVE  (/\ txn[c].written[l] =
                            Registry!Upsert(l, txn[c].record)
                       /\ ~Registry!Violates(l, Id(c, l),
                                             txn[c].written[l]))'
    BY DEF Current, Unmoved
  <2>1. Registry!Upsert(l, txn[c].record)' =
          Registry!Upsert(l, txn[c].record)
    BY DEF Unmoved, Registry!Upsert, Registry!Exists
  <2>2. Registry!Violates(l, Id(c, l), txn[c].written[l])' =
          Registry!Violates(l, Id(c, l), txn[c].written[l])
    BY DEF Unmoved, Id, Registry!Violates, Registry!UniqueKeys
  <2> QED
    BY <1>1, <2>1, <2>2 DEF Current, Unmoved
<1> QED
  BY <1>1, <1>2, <1>3

LEMMA UnmovedDisjoint ==
  ASSUME IInv, tables' = tables,
         NEW c \in Connections, NEW o \in Connections, c # o,
         Unmoved(c), Unmoved(o), Open(c)', Open(o)'
  PROVE  Disjoint(c, o)'
<1>1. Disjoint(c, o)
  BY DEF IInv, Open, Unmoved
<1> SUFFICES ASSUME NEW l \in DOMAIN txn[c].written \cap
                              DOMAIN txn[o].written
             PROVE  (Locks(l, Id(c, l), txn[c].written[l]) \cap
                       Locks(l, Id(o, l), txn[o].written[l]) = {})'
  BY DEF Disjoint, Unmoved
<1>2. /\ Locks(l, Id(c, l), txn[c].written[l])' =
           Locks(l, Id(c, l), txn[c].written[l])
      /\ Locks(l, Id(o, l), txn[o].written[l])' =
           Locks(l, Id(o, l), txn[o].written[l])
  BY DEF Unmoved, Id, Locks, Registry!Exists, Registry!UniqueKeys
<1> QED
  BY <1>1, <1>2 DEF Disjoint

\* A transaction that ends without a commit takes nothing from the others.
LEMMA Ends ==
  ASSUME IInv, NEW c \in Connections, Proceed(c, NoTransaction)
  PROVE  IInv'
<1>1. /\ tables' = tables /\ organizations' = organizations
      /\ txn' = [txn EXCEPT ![c] = NoTransaction]
  BY DEF Proceed, committed
<1>2. ~Open(c)' /\ \A o \in Connections \ {c} : Unmoved(o)
  BY <1>1 DEF IInv, Open, Unmoved, NoTransaction
<1>3. \A o \in Connections : Open(o)' => WellFormed(o)' /\ Current(o)'
  BY <1>1, <1>2, UnmovedKeeps
<1>4. \A o, p \in Connections :
        o # p /\ Open(o)' /\ Open(p)' => Disjoint(o, p)'
  BY <1>1, <1>2, UnmovedDisjoint
<1> QED
  BY <1>1, <1>3, <1>4 DEF IInv

LEMMA BeginKeeps ==
  ASSUME IInv, NEW c \in Connections, NEW r \in Records, Begin(c, r)
  PROVE  IInv'
<1> DEFINE new == [at |-> "business_unit", record |-> r,
                   written |-> [l \in {} |-> NoTransaction]]
<1>1. /\ tables' = tables /\ organizations' = organizations
      /\ txn' = [txn EXCEPT ![c] = new]
  BY DEF Begin, Proceed, committed
<1>2. txn'[c] = new /\ \A o \in Connections \ {c} : Unmoved(o)
  BY <1>1 DEF IInv, Unmoved
<1>3. DOMAIN new.written = {}
  OBVIOUS
<1>4. WellFormed(c)' /\ Current(c)'
  BY <1>1, <1>2, <1>3
     DEF Begin, WellFormed, Current, Before, TableNames
<1>5. \A o \in Connections : Open(o)' => WellFormed(o)' /\ Current(o)'
  BY <1>1, <1>2, <1>4, UnmovedKeeps
<1>6. ASSUME NEW o \in Connections, NEW p \in Connections, o # p,
             Open(o)', Open(p)'
      PROVE  Disjoint(o, p)'
  <2>1. CASE o = c \/ p = c
    BY <1>2, <1>3, <2>1 DEF Disjoint
  <2>2. CASE o # c /\ p # c
    BY <1>1, <1>2, <1>6, <2>2, UnmovedDisjoint
  <2> QED
    BY <2>1, <2>2
<1> QED
  BY <1>1, <1>5, <1>6 DEF IInv

\* A statement that does not wait takes locks nobody holds.
LEMMA StatementKeeps ==
  ASSUME IInv, NEW c \in Connections, Statement(c)
  PROVE  IInv'
<1> DEFINE me  == txn[c]
           l   == me.at
           id  == me.record.id[l]
           row == Registry!Upsert(l, me.record)
           new == [me EXCEPT !.at = Following[l],
                             !.written = Registry!With(@, l, row)]
<1>1. l \in TableNames /\ ~Waits(c, l, id, row)
  BY DEF Statement, Following, TableNames
<1>2. Open(c) /\ WellFormed(c) /\ Current(c)
  BY <1>1 DEF IInv, Open, TableNames
<1>3. CASE Registry!Violates(l, id, row)
  <2>1. Proceed(c, NoTransaction)
    BY <1>3 DEF Statement, RolledBack
  <2> QED
    BY <2>1, Ends
<1>4. CASE ~Registry!Violates(l, id, row)
  <2>1. Proceed(c, new)
    BY <1>4 DEF Statement
  <2>2. /\ tables' = tables /\ organizations' = organizations
        /\ txn' = [txn EXCEPT ![c] = new]
    BY <2>1 DEF Proceed, committed
  <2>3. txn'[c] = new /\ \A o \in Connections \ {c} : Unmoved(o)
    BY <2>2 DEF IInv, Unmoved
  <2>4. new = [at |-> Following[l], record |-> me.record,
               written |-> Registry!With(me.written, l, row)]
    <3>1. me = [at |-> me.at, record |-> me.record,
                written |-> me.written]
      BY <1>2 DEF WellFormed
    <3> DEFINE w == Registry!With(me.written, l, row)
               f == Following[l]
    <3>2. new = [me EXCEPT !.at = f, !.written = w]
      OBVIOUS
    <3> HIDE DEF w, f, new, me
    <3>3. new = [at |-> f, record |-> me.record, written |-> w]
      BY <3>1, <3>2
    <3> QED
      BY <3>3 DEF w, f
  <2>5. /\ DOMAIN new.written = DOMAIN me.written \cup {l}
        /\ new.written = [t \in DOMAIN new.written |-> new.written[t]]
        /\ new.written[l] = row
        /\ \A t \in DOMAIN me.written : t # l =>
             new.written[t] = me.written[t]
    BY <2>4 DEF Registry!With
  <2>6. /\ Following[l] \in TableNames \cup {"commit"}
        /\ Before(Following[l]) = Before(l) \cup {l}
        /\ l \notin Before(l)
    BY <1>1 DEF Following, TableNames, Before
  <2>7. WellFormed(c)'
    <3>1. /\ txn'[c].at = Following[l] /\ txn'[c].record = me.record
          /\ txn'[c].written = new.written
          /\ txn'[c] = [at |-> txn'[c].at, record |-> txn'[c].record,
                        written |-> txn'[c].written]
      BY <2>3, <2>4
    <3>2. DOMAIN txn'[c].written = Before(Following[l])
      BY <1>2, <2>5, <2>6, <3>1 DEF WellFormed
    <3> HIDE DEF new, row
    <3> QED
      BY <1>2, <2>2, <2>5, <2>6, <3>1, <3>2 DEF WellFormed
  <2>8. Current(c)'
    <3>1. txn'[c].written = new.written /\ txn'[c].record = me.record
      BY <2>3, <2>4
    <3> SUFFICES ASSUME NEW t \in DOMAIN new.written
                 PROVE  (/\ txn[c].written[t] =
                              Registry!Upsert(t, txn[c].record)
                         /\ ~Registry!Violates(t, Id(c, t),
                                               txn[c].written[t]))'
      BY <3>1 DEF Current
    <3>2. Registry!Upsert(t, txn[c].record)' =
            Registry!Upsert(t, me.record)
      BY <2>2, <3>1 DEF Registry!Upsert, Registry!Exists
    <3>3. Registry!Violates(t, Id(c, t), txn[c].written[t])' =
            Registry!Violates(t, me.record.id[t], new.written[t])
      BY <2>2, <3>1 DEF Id, Registry!Violates, Registry!UniqueKeys
    <3>4. /\ new.written[t] = Registry!Upsert(t, me.record)
          /\ ~Registry!Violates(t, me.record.id[t], new.written[t])
      <4>1. CASE t = l
        BY <1>4, <2>5, <4>1
      <4>2. CASE t # l
        BY <1>2, <2>5, <4>2 DEF Current, Id
      <4> QED
        BY <4>1, <4>2
    <3> QED
      BY <3>1, <3>2, <3>3, <3>4
  <2>9. ASSUME NEW o \in Connections \ {c}, Open(o)
        PROVE  /\ \A t \in DOMAIN new.written \cap DOMAIN txn[o].written :
                    Locks(t, me.record.id[t], new.written[t]) \cap
                      Locks(t, Id(o, t), txn[o].written[t]) = {}
    <3> SUFFICES ASSUME NEW t \in DOMAIN new.written \cap
                                 DOMAIN txn[o].written
                 PROVE  Locks(t, me.record.id[t], new.written[t]) \cap
                          Locks(t, Id(o, t), txn[o].written[t]) = {}
      OBVIOUS
    <3>1. CASE t = l
      <4>1. Locks(l, id, row) \cap
              Locks(l, txn[o].record.id[l], txn[o].written[l]) = {}
        BY <1>1, <2>9, <3>1 DEF Waits, Open
      <4> QED
        BY <2>5, <3>1, <4>1 DEF Id
    <3>2. CASE t # l
      <4>1. Disjoint(c, o) /\ t \in DOMAIN me.written
        BY <1>2, <2>5, <2>9, <3>2 DEF IInv
      <4>2. new.written[t] = me.written[t]
        BY <2>5, <3>2, <4>1
      <4> QED
        BY <4>1, <4>2 DEF Disjoint, Id
    <3> QED
      BY <3>1, <3>2
  <2>10. ASSUME NEW o \in Connections \ {c}, Open(o)'
         PROVE  Disjoint(c, o)' /\ Disjoint(o, c)'
    <3>1. Open(o)
      BY <2>3, <2>10 DEF Open, Unmoved
    <3>2. /\ txn'[c].written = new.written /\ txn'[c].record = me.record
          /\ txn'[o] = txn[o]
      BY <2>3, <2>4, <2>10 DEF Unmoved
    <3> SUFFICES ASSUME NEW t \in DOMAIN new.written \cap
                                 DOMAIN txn[o].written
                 PROVE  (Locks(t, Id(c, t), txn[c].written[t]) \cap
                           Locks(t, Id(o, t), txn[o].written[t]) = {})'
      BY <3>2 DEF Disjoint
    <3>3. /\ Locks(t, Id(c, t), txn[c].written[t])' =
               Locks(t, me.record.id[t], new.written[t])
          /\ Locks(t, Id(o, t), txn[o].written[t])' =
               Locks(t, Id(o, t), txn[o].written[t])
      BY <2>2, <3>2
         DEF Id, Locks, Registry!Exists, Registry!UniqueKeys
    <3> QED
      BY <2>9, <3>1, <3>3
  <2>11. \A o \in Connections : Open(o)' => WellFormed(o)' /\ Current(o)'
    BY <2>2, <2>3, <2>7, <2>8, UnmovedKeeps
  <2>12. \A o, p \in Connections :
           o # p /\ Open(o)' /\ Open(p)' => Disjoint(o, p)'
    BY <2>2, <2>3, <2>10, UnmovedDisjoint
  <2> QED
    BY <2>2, <2>11, <2>12 DEF IInv
<1> QED
  BY <1>3, <1>4

\* At its commit a transaction has a row for every table, each as the
\* registry in single steps would write it now.
LEMMA CommitIsRegister ==
  ASSUME IInv, NEW c \in Connections, Commit(c)
  PROVE  /\ txn[c].record \in Records
         /\ Registry!Register(txn[c].record)
<1> DEFINE r == txn[c].record
<1>1. WellFormed(c) /\ Current(c)
  BY DEF Commit, IInv, Open
<1>2. DOMAIN txn[c].written = TableNames /\ DOMAIN tables = TableNames
  BY <1>1 DEF Commit, WellFormed, Before, IInv
<1>3. \A l \in TableNames :
        /\ txn[c].written[l] = Registry!Upsert(l, r)
        /\ ~Registry!Violates(l, r.id[l], Registry!Upsert(l, r))
  BY <1>1, <1>2 DEF Current, Id
<1>4. tables' = [l \in TableNames |->
                   Registry!With(tables[l], r.id[l], Registry!Upsert(l, r))]
  BY <1>2, <1>3 DEF Commit
<1>5. Registry!Tables = TableNames
  BY DEF Registry!Tables, Registry!Levels, TableNames
<1> QED
  BY <1>1, <1>3, <1>4, <1>5 DEF Commit, WellFormed, Registry!Register

\* A commit touches no row and no key another transaction holds.
LEMMA CommitKeeps ==
  ASSUME IInv, NEW c \in Connections, Commit(c)
  PROVE  IInv'
<1> DEFINE new(l) == txn[c].written[l]
<1>1. WellFormed(c) /\ Open(c)
  BY DEF Commit, IInv, Open
<1>2. DOMAIN txn[c].written = TableNames /\ DOMAIN tables = TableNames
  BY <1>1 DEF Commit, WellFormed, Before, IInv
<1>3. /\ organizations' = organizations
      /\ txn' = [txn EXCEPT ![c] = NoTransaction]
      /\ \A l \in TableNames :
           tables'[l] = Registry!With(tables[l], Id(c, l), new(l))
      /\ DOMAIN tables' = TableNames
  BY <1>2 DEF Commit, Id
<1>4. ~Open(c)' /\ \A o \in Connections \ {c} : Unmoved(o)
  BY <1>3 DEF IInv, Open, Unmoved, NoTransaction
<1>5. ASSUME NEW o \in Connections \ {c}, Open(o),
             NEW l \in DOMAIN txn[o].written
      PROVE  LET i == Id(o, l)
                 w == txn[o].written[l]
             IN /\ Registry!Upsert(l, txn[o].record)' =
                     Registry!Upsert(l, txn[o].record)
                /\ ~Registry!Violates(l, i, w)'
                /\ Locks(l, i, w)' = Locks(l, i, w)
  <2> DEFINE i == Id(o, l)
             j == Id(c, l)
             w == txn[o].written[l]
  <2>1. l \in TableNames
    <3>1. WellFormed(o)
      BY <1>5 DEF IInv
    <3>2. \A at \in TableNames \cup {"commit"} : Before(at) \subseteq TableNames
      BY DEF Before, TableNames
    <3> QED
      BY <3>1, <3>2 DEF WellFormed
  <2>2. Locks(l, i, w) \cap Locks(l, j, new(l)) = {}
    BY <1>1, <1>2, <1>5, <2>1 DEF IInv, Disjoint
  <2>3. [key |-> i] \in Locks(l, i, w) /\ [key |-> j] \in Locks(l, j, new(l))
    BY DEF Locks
  <2>4. i # j
    BY <2>2, <2>3
  <2>5. Registry!UniqueKeys(l, new(l)) \cap Registry!UniqueKeys(l, w) = {}
    BY <2>2 DEF Locks
  <2>6. /\ DOMAIN tables'[l] = DOMAIN tables[l] \cup {j}
        /\ tables'[l][j] = new(l)
        /\ \A k \in DOMAIN tables[l] : k # j => tables'[l][k] = tables[l][k]
    <3>1. tables'[l] = Registry!With(tables[l], j, new(l))
      BY <1>3, <2>1
    <3> HIDE DEF j, new
    <3> QED
      BY <3>1 DEF Registry!With
  <2>7. txn'[o] = txn[o]
    BY <1>4 DEF Unmoved
  <2>8. txn[o].record.id[l] = i
    BY DEF Id
  <2>9. Registry!Upsert(l, txn[o].record)' =
          Registry!Upsert(l, txn[o].record)
    BY <2>4, <2>6, <2>7, <2>8 DEF Registry!Upsert, Registry!Exists
  <2>10. ~Registry!Violates(l, i, w)
    BY <1>5 DEF IInv, Current
  <2>11. i' = i /\ w' = w
    BY <2>7 DEF Id
  <2>12. ~Registry!Violates(l, i, w)'
    <3> SUFFICES ASSUME NEW k \in DOMAIN tables'[l] \ {i}
                 PROVE  Registry!UniqueKeys(l, tables'[l][k]) \cap
                          Registry!UniqueKeys(l, w) = {}
      BY <2>11 DEF Registry!Violates, Registry!UniqueKeys
    <3>1. CASE k = j
      BY <2>5, <2>6, <3>1
    <3>2. CASE k # j
      BY <2>6, <2>10, <3>2 DEF Registry!Violates
    <3> QED
      BY <3>1, <3>2
  <2>13. Locks(l, i, w)' = Locks(l, i, w)
    BY <2>4, <2>6, <2>11 DEF Locks, Registry!Exists, Registry!UniqueKeys
  <2> QED
    BY <2>9, <2>11, <2>12, <2>13
<1>6. ASSUME NEW o \in Connections, Open(o)'
      PROVE  o # c /\ Open(o) /\ WellFormed(o)' /\ Current(o)'
  <2>1. o # c /\ txn'[o] = txn[o] /\ Open(o)
    BY <1>4, <1>6 DEF Open, Unmoved
  <2>2. WellFormed(o) /\ Current(o)
    BY <2>1 DEF IInv
  <2>3. WellFormed(o)'
    BY <1>3, <2>1, <2>2 DEF WellFormed
  <2>4. Current(o)'
    <3> SUFFICES ASSUME NEW l \in DOMAIN txn[o].written
                 PROVE  (/\ txn[o].written[l] =
                              Registry!Upsert(l, txn[o].record)
                         /\ ~Registry!Violates(l, Id(o, l),
                                               txn[o].written[l]))'
      BY <2>1 DEF Current
    <3> QED
      BY <1>5, <2>1, <2>2 DEF Current
  <2> QED
    BY <2>1, <2>3, <2>4
<1>7. ASSUME NEW o \in Connections, NEW p \in Connections, o # p,
             Open(o)', Open(p)'
      PROVE  Disjoint(o, p)'
  <2>1. /\ o # c /\ txn'[o] = txn[o] /\ Open(o)
        /\ p # c /\ txn'[p] = txn[p] /\ Open(p)
    BY <1>4, <1>6, <1>7 DEF Unmoved
  <2>2. Disjoint(o, p)
    BY <1>7, <2>1 DEF IInv
  <2> SUFFICES ASSUME NEW l \in DOMAIN txn[o].written \cap
                               DOMAIN txn[p].written
               PROVE  (Locks(l, Id(o, l), txn[o].written[l]) \cap
                         Locks(l, Id(p, l), txn[p].written[l]) = {})'
    BY <2>1 DEF Disjoint
  <2> QED
    BY <1>5, <2>1, <2>2 DEF Disjoint
<1> QED
  BY <1>3, <1>6, <1>7 DEF IInv

LEMMA OthersKeep ==
  ASSUME IInv, Others
  PROVE  IInv'
<1>1. tables' = tables /\ txn' = txn
  BY DEF Others, Registry!Onboard, Registry!Seal
<1>2. DOMAIN organizations \subseteq DOMAIN organizations'
  BY DEF Others, Registry!Onboard, Registry!Seal, Registry!With
<1>3. \A c \in Connections : Unmoved(c)
  BY <1>1 DEF Unmoved
<1>4. \A c \in Connections : Open(c)' => WellFormed(c)' /\ Current(c)'
  BY <1>1, <1>2, <1>3, UnmovedKeeps
<1>5. \A c, o \in Connections :
        c # o /\ Open(c)' /\ Open(o)' => Disjoint(c, o)'
  BY <1>1, <1>3, UnmovedDisjoint
<1> QED
  BY <1>1, <1>4, <1>5 DEF IInv

---------------------------------------------------------------------------
\* Every step of the statements is a registration in one step, a step of
\* somebody else, or changes nothing that is committed.
LEMMA StepIsRegistryStep ==
  ASSUME IInv, [Next]_vars
  PROVE  IInv' /\ [Registry!Next]_Registry!vars
<1>1. ASSUME NEW c \in Connections, NEW r \in Records, Begin(c, r)
      PROVE  IInv' /\ UNCHANGED Registry!vars
  BY <1>1, BeginKeeps DEF Begin, Proceed, committed, Registry!vars
<1>2. ASSUME NEW c \in Connections, Statement(c)
      PROVE  IInv' /\ UNCHANGED Registry!vars
  BY <1>2, StatementKeeps DEF Statement, Proceed, committed, Registry!vars
<1>3. ASSUME NEW c \in Connections, Commit(c)
      PROVE  IInv' /\ Registry!Next
  BY <1>3, CommitKeeps, CommitIsRegister DEF Registry!Next
<1>4. ASSUME NEW c \in Connections, Abort(c)
      PROVE  IInv' /\ UNCHANGED Registry!vars
  BY <1>4, Ends DEF Abort, RolledBack, Proceed, committed, Registry!vars
<1>5. CASE Others
  BY <1>5, OthersKeep DEF Others, Registry!Next
<1>6. CASE UNCHANGED vars
  <2>1. /\ tables' = tables /\ organizations' = organizations
        /\ txn' = txn
    BY <1>6 DEF vars, committed
  <2>2. \A c \in Connections : Unmoved(c)
    BY <2>1 DEF Unmoved
  <2>3. \A c \in Connections : Open(c)' => WellFormed(c)' /\ Current(c)'
    BY <2>1, <2>2, UnmovedKeeps
  <2>4. \A c, o \in Connections :
          c # o /\ Open(c)' /\ Open(o)' => Disjoint(c, o)'
    BY <2>1, <2>2, UnmovedDisjoint
  <2> QED
    BY <1>6, <2>1, <2>3, <2>4 DEF IInv, vars, committed, Registry!vars
<1> QED
  BY <1>1, <1>2, <1>3, <1>4, <1>5, <1>6 DEF Next

LEMMA InitIsRegistryInit ==
  ASSUME Init
  PROVE  IInv /\ Registry!Init
BY DEF Init, Registry!Init, Registry!Tables, Registry!Levels, IInv,
       TableNames, Open, NoTransaction

\* register_reviewed is atomic: whatever registrations run at once, and
\* wherever one of them fails or is cut off, the committed rows change as
\* if each were made in one step.
THEOREM RegistrationIsOneStep == Spec => RegistrationsAreAtomic
BY InitIsRegistryInit, StepIsRegistryStep, PTL
   DEF Spec, Registry!Spec, RegistrationsAreAtomic

---------------------------------------------------------------------------
(* What the registry keeps, each registration in one step                  *)

ScopeRow(row) ==
  row = [id |-> row.id, root |-> row.root, path |-> row.path,
         active |-> row.active, version |-> row.version]

\* A sealed context is of a scope that was active, still has a row, and has
\* not moved.
Placed(c) ==
  /\ c.of = [active |-> TRUE, version |-> c.of.version, id |-> c.of.id,
             path |-> c.of.path]
  /\ c.scope \in DOMAIN tables["scope"]
  /\ tables["scope"][c.scope].id = c.of.id

PlaceInv ==
  /\ \A s \in DOMAIN tables["scope"] : ScopeRow(tables["scope"][s])
  /\ \A c \in seals : Placed(c)

---------------------------------------------------------------------------
\* An upsert leaves a scope's row with the shape it has, and a scope that
\* has a row at its place.
LEMMA UpsertKeepsPlace ==
  ASSUME NEW r, PlaceInv, NEW row, row = Registry!Upsert("scope", r)
  PROVE  /\ ScopeRow(row)
         /\ Registry!Exists("scope", r.id["scope"]) =>
              row.id = tables["scope"][r.id["scope"]].id
<1> DEFINE old == tables["scope"][r.id["scope"]]
<1>1. CASE Registry!Exists("scope", r.id["scope"])
  <2>1. old = [id |-> old.id, root |-> old.root, path |-> old.path,
               active |-> old.active, version |-> old.version]
    BY <1>1 DEF PlaceInv, ScopeRow, Registry!Exists
  <2>2. row = [old EXCEPT !.path = r.slug, !.active = r.active["scope"],
                          !.version = r.version]
    BY <1>1 DEF Registry!Upsert
  <2>3. row = [id |-> old.id, root |-> old.root, path |-> r.slug,
               active |-> r.active["scope"], version |-> r.version]
    BY <2>1, <2>2
  <2> QED
    BY <2>3 DEF ScopeRow
<1>2. CASE ~Registry!Exists("scope", r.id["scope"])
  <2>1. row = [id |-> r.id, root |-> r.slug.organization, path |-> r.slug,
               active |-> r.active["scope"], version |-> r.version]
    BY <1>2 DEF Registry!Upsert
  <2> QED
    BY <1>2, <2>1 DEF ScopeRow
<1> QED
  BY <1>1, <1>2

\* What is sealed describes the scope as it is at that moment.
LEMMA SealIsPlaced ==
  ASSUME NEW s \in DOMAIN tables["scope"], Registry!ResolveActive(s).active
  PROVE  Placed([scope |-> s, of |-> Registry!ResolveActive(s)])
<1> DEFINE c == [scope |-> s, of |-> Registry!ResolveActive(s)]
<1>1. PICK v, p : Registry!ResolveActive(s) =
        [active |-> TRUE, version |-> v, id |-> tables["scope"][s].id,
         path |-> p]
  <2>1. Registry!ResolveActive(s) # Registry!Missing
    BY DEF Registry!Missing
  <2> QED
    BY <2>1 DEF Registry!ResolveActive, Registry!Exists
<1>2. c.scope = s /\ c.of = Registry!ResolveActive(s)
  OBVIOUS
<1>3. /\ c.of.version = v /\ c.of.path = p
      /\ c.of.id = tables["scope"][s].id
  BY <1>1, <1>2
<1> QED
  BY <1>1, <1>2, <1>3 DEF Placed

\* No registration moves a scope from its place in the hierarchy.
LEMMA PlaceInductive ==
  ASSUME PlaceInv, [Registry!Next]_Registry!vars
  PROVE  PlaceInv'
<1>1. ASSUME NEW r \in Records, Registry!Register(r)
      PROVE  PlaceInv'
  <2> DEFINE key == r.id["scope"]
             row == Registry!Upsert("scope", r)
  <2>1. tables'["scope"] = Registry!With(tables["scope"], key, row)
    BY <1>1 DEF Registry!Register, Registry!Tables
  <2>2. /\ DOMAIN tables'["scope"] = DOMAIN tables["scope"] \cup {key}
        /\ \A s \in DOMAIN tables'["scope"] :
             tables'["scope"][s] = IF s = key THEN row
                                              ELSE tables["scope"][s]
    BY <2>1 DEF Registry!With
  <2>3. ScopeRow(row) /\ (key \in DOMAIN tables["scope"] =>
                            row.id = tables["scope"][key].id)
    BY UpsertKeepsPlace DEF Registry!Exists
  <2>4. \A s \in DOMAIN tables'["scope"] : ScopeRow(tables'["scope"][s])
    BY <2>2, <2>3 DEF PlaceInv
  <2>5. ASSUME NEW c \in seals
        PROVE  Placed(c)'
    BY <2>2, <2>3 DEF PlaceInv, Placed
  <2>6. seals' = seals
    BY <1>1 DEF Registry!Register
  <2> QED
    BY <2>4, <2>5, <2>6 DEF PlaceInv
<1>2. CASE Registry!Onboard
  BY <1>2 DEF Registry!Onboard, PlaceInv, Placed, ScopeRow
<1>3. CASE Registry!Seal
  <2>1. tables' = tables
    BY <1>3 DEF Registry!Seal
  <2>2. ASSUME NEW c \in seals'
        PROVE  Placed(c)
    BY <1>3, SealIsPlaced DEF Registry!Seal, PlaceInv
  <2> QED
    BY <2>1, <2>2 DEF PlaceInv, Placed
<1>4. CASE UNCHANGED Registry!vars
  BY <1>4 DEF Registry!vars, PlaceInv, Placed, ScopeRow
<1> QED
  BY <1>1, <1>2, <1>3, <1>4 DEF Registry!Next

---------------------------------------------------------------------------
\* Path and version are enough for a freshness check: a context that needs
\* no fresh resolution (requires_fresh_resolution) still describes every
\* level of its scope, for any registrations.
THEOREM FreshContextDescribesScope ==
  Registry!Spec => []Registry!SealDescribesScope
<1>1. Registry!Init => PlaceInv
  BY DEF Registry!Init, PlaceInv, Registry!Tables
<1>2. PlaceInv => Registry!SealDescribesScope
  <2> SUFFICES ASSUME PlaceInv, NEW c \in seals,
                      ~Registry!RequiresFreshResolution(
                         c, Registry!ResolveActive(c.scope))
               PROVE  Registry!ResolveActive(c.scope) = c.of
    BY DEF Registry!SealDescribesScope
  <2> DEFINE now == Registry!ResolveActive(c.scope)
  <2>1. Placed(c)
    BY DEF PlaceInv
  <2>2. /\ now.active /\ now.path = c.of.path
        /\ now.version = c.of.version
    BY DEF Registry!RequiresFreshResolution
  <2>3. now # Registry!Missing
    BY <2>2 DEF Registry!Missing
  <2>4. PICK v, p : now = [active |-> TRUE, version |-> v,
                           id |-> tables["scope"][c.scope].id, path |-> p]
    BY <2>3 DEF Registry!ResolveActive, Registry!Exists
  <2> HIDE DEF now
  <2>5. v = c.of.version /\ p = c.of.path
    BY <2>2, <2>4
  <2>6. now = c.of
    BY <2>1, <2>4, <2>5 DEF Placed
  <2> QED
    BY <2>6 DEF now
<1> QED
  BY <1>1, <1>2, PlaceInductive, PTL DEF Registry!Spec

---------------------------------------------------------------------------
\* Each of the five tables of the registry holds a row for every scope.
RowsInv ==
  /\ DOMAIN tables = Registry!Tables
  /\ Registry!EveryScopeHasItsRows

LEMMA LevelsHaveTables ==
  DOMAIN Registry!Above \subseteq Registry!Tables /\ "scope" \in Registry!Tables
BY DEF Registry!Above, Registry!Tables, Registry!Levels

\* Rows are added, never taken away.
LEMMA RowsGrow ==
  ASSUME PlaceInv, RowsInv, NEW r \in Records, Registry!Register(r)
  PROVE  RowsInv'
<1> DEFINE key == r.id["scope"]
           row == Registry!Upsert("scope", r)
<1>1. /\ DOMAIN tables' = Registry!Tables /\ organizations' = organizations
      /\ r.id.organization \in DOMAIN organizations
  BY DEF Registry!Register
<1>2. \A l \in Registry!Tables :
        DOMAIN tables'[l] = DOMAIN tables[l] \cup {r.id[l]}
  BY DEF Registry!Register, Registry!With
<1>3. \A s \in DOMAIN tables'["scope"] :
        tables'["scope"][s] = IF s = key THEN row ELSE tables["scope"][s]
  BY LevelsHaveTables DEF Registry!Register, Registry!With
<1>4. key \in DOMAIN tables["scope"] => row.id = tables["scope"][key].id
  BY UpsertKeepsPlace DEF Registry!Exists
<1>5. key \notin DOMAIN tables["scope"] => row.id = r.id
  BY DEF Registry!Upsert, Registry!Exists
<1>6. ASSUME NEW s \in DOMAIN tables'["scope"]
      PROVE  LET id == tables'["scope"][s].id
             IN /\ id.organization \in DOMAIN organizations
                /\ \A l \in DOMAIN Registry!Above : id[l] \in DOMAIN tables'[l]
  <2>1. CASE s \in DOMAIN tables["scope"]
    <3>1. tables'["scope"][s].id = tables["scope"][s].id
      BY <1>3, <1>4, <2>1
    <3> QED
      BY <1>2, <2>1, <3>1, LevelsHaveTables
         DEF RowsInv, Registry!EveryScopeHasItsRows, Registry!Exists
  <2>2. CASE s \notin DOMAIN tables["scope"]
    <3>1. s = key
      BY <1>2, <2>2, LevelsHaveTables
    <3>2. tables'["scope"][s].id = r.id
      BY <1>3, <1>5, <2>2, <3>1
    <3> QED
      BY <1>1, <1>2, <3>2, LevelsHaveTables
  <2> QED
    BY <2>1, <2>2
<1> QED
  BY <1>1, <1>6 DEF RowsInv, Registry!EveryScopeHasItsRows, Registry!Exists

\* No registration, in whatever order, leaves a scope without a row at one
\* of its levels or without its organization.
THEOREM EveryScopeKeepsItsRows ==
  Registry!Spec => []Registry!EveryScopeHasItsRows
<1>1. Registry!Init => PlaceInv /\ RowsInv
  BY LevelsHaveTables
     DEF Registry!Init, PlaceInv, RowsInv, Registry!EveryScopeHasItsRows
<1>2. ASSUME PlaceInv, RowsInv, [Registry!Next]_Registry!vars
      PROVE  RowsInv'
  <2>1. CASE Registry!Onboard
    BY <1>2, <2>1
       DEF Registry!Onboard, Registry!With, Registry!Exists, RowsInv,
           Registry!EveryScopeHasItsRows
  <2>2. CASE Registry!Seal \/ UNCHANGED Registry!vars
    BY <1>2, <2>2
       DEF Registry!Seal, Registry!vars, Registry!Exists, RowsInv,
           Registry!EveryScopeHasItsRows
  <2> QED
    BY <1>2, <2>1, <2>2, RowsGrow DEF Registry!Next
<1>3. RowsInv => Registry!EveryScopeHasItsRows
  BY DEF RowsInv
<1> QED
  BY <1>1, <1>2, <1>3, PlaceInductive, PTL DEF Registry!Spec

---------------------------------------------------------------------------
\* Both hold statement by statement as well: of concurrent registrations,
\* of those that fail and of those that are cut off.
THEOREM ConcurrentRegistrationsKeepBoth ==
  Spec => []Registry!EveryScopeHasItsRows /\ []Registry!SealDescribesScope
BY RegistrationIsOneStep, EveryScopeKeepsItsRows, FreshContextDescribesScope,
   PTL DEF RegistrationsAreAtomic
=============================================================================
