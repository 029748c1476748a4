------------------------------ MODULE Topology ------------------------------
(***************************************************************************)
(* validate_topology (workflows/provision/topology.py): the checks of a    *)
(* reviewed topology and Kahn's loop that decides whether its graph has a  *)
(* cycle.  The order of the queue is left open: it decides in which order  *)
(* the units are taken, and the function returns none of that.             *)
(***************************************************************************)
EXTENDS Integers, Sequences, FiniteSets

CONSTANTS
  Ids,             \* unit ids
  Kinds,           \* what a unit may use
  RegisteredUnits  \* the kinds the caller has a unit registered for

VARIABLES
  spec,      \* the TopologySpec: [fits, units, edges]
  at,        \* "check", "sort", "accepted" or "rejected"
  indegree,  \* of each unit, its predecessors not taken yet
  queue,     \* units to take next
  ordered    \* the units taken

vars == <<spec, at, indegree, queue, ordered>>

\* UnitSpec; refs are the units its inputs take outputs of (UnitOutputRef).
UnitSpecs == [id : Ids, uses : Kinds, refs : SUBSET Ids]
EdgeSpecs == [source : Ids, target : Ids]
\* TopologySpec; fits: profile and provider are those of the selection.
Specs ==
  [fits : BOOLEAN, units : Seq(UnitSpecs) \ {<<>>}, edges : Seq(EdgeSpecs)]

\* by_id
ById == {spec.units[i].id : i \in DOMAIN spec.units}

\* predecessors and successors; without duplicate edges their lists are sets.
Edges == {spec.edges[i] : i \in DOMAIN spec.edges}
Predecessors(u) == {s \in ById : [source |-> s, target |-> u] \in Edges}
Successors(u)   == {t \in ById : [source |-> u, target |-> t] \in Edges}

\* The checks up to the loop.
WellFormed ==
  /\ spec.fits
  /\ \A i, j \in DOMAIN spec.units :
       spec.units[i].id = spec.units[j].id => i = j
  /\ \A i \in DOMAIN spec.units :
       LET unit == spec.units[i]
       IN unit.uses \in RegisteredUnits /\ unit.refs \subseteq ById \ {unit.id}
  /\ \A e \in Edges : e.source \in ById /\ e.target \in ById \ {e.source}
  /\ \A i, j \in DOMAIN spec.edges : spec.edges[i] = spec.edges[j] => i = j

Init ==
  /\ spec \in Specs /\ at = "check"
  /\ indegree = [u \in Ids |-> 0] /\ queue = {} /\ ordered = {}

Check ==
  /\ at = "check"
  /\ UNCHANGED <<spec, ordered>>
  /\ IF WellFormed
     THEN /\ at' = "sort"
          /\ indegree' =
               [u \in Ids |-> IF u \in ById THEN Cardinality(Predecessors(u))
                                            ELSE 0]
          /\ queue' = {u \in ById : indegree'[u] = 0}
     ELSE at' = "rejected" /\ UNCHANGED <<indegree, queue>>

\* popleft, and the loop over the successors.
Take(u) ==
  /\ at = "sort" /\ u \in queue
  /\ ordered' = ordered \cup {u}
  /\ indegree' = [v \in Ids |-> IF v \in Successors(u) THEN indegree[v] - 1
                                                       ELSE indegree[v]]
  /\ queue' = (queue \ {u}) \cup {v \in Successors(u) : indegree'[v] = 0}
  /\ UNCHANGED <<spec, at>>

\* The comparison of what was taken with what there is.
Finish ==
  /\ at = "sort" /\ queue = {}
  /\ at' = IF ordered = ById THEN "accepted" ELSE "rejected"
  /\ UNCHANGED <<spec, indegree, queue, ordered>>

Next == Check \/ (\E u \in Ids : Take(u)) \/ Finish

Spec == Init /\ [][Next]_vars

---------------------------------------------------------------------------
\* No unit waits, through however many others, for itself: in every set of
\* units there is one without a predecessor in the set.
Acyclic ==
  \A S \in SUBSET ById :
    S # {} => \E u \in S : \A v \in S : v \notin Predecessors(u)

\* A topology is accepted exactly if it passes the checks and its graph has
\* no cycle, in whatever order the loop takes the units.
AcceptsTheAcyclic ==
  /\ at = "accepted" => WellFormed /\ Acyclic
  /\ at = "rejected" => ~(WellFormed /\ Acyclic)

\* A unit is taken after all of its predecessors, and never twice.
TakesInOrder ==
  [][\A u \in Ids : Take(u) =>
       u \notin ordered /\ Predecessors(u) \subseteq ordered]_vars
=============================================================================
