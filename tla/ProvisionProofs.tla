-------------------------- MODULE ProvisionProofs --------------------------
(***************************************************************************)
(* Theorems about Provision, for any operations, users, scopes, bindings   *)
(* and policies and any number of changes between the reads; at the end,   *)
(* the topology a plan is made of (Topology), of any size.                 *)
(***************************************************************************)
EXTENDS Provision, Sequences, FiniteSetTheorems, TLAPS

---------------------------------------------------------------------------
(* Types                                                                   *)

Activities ==
  {Idle} \cup Preflights \cup Evaluations \cup Sealed \cup Reviews \cup Loads
Receipts == [plan : Plans, approver : Users, answer : Plans]

\* The stages past the seal.
Past == {"sealed", "review", "review_member", "review_match", "approved",
         "load", "gate"}

\* What the stage of an operation says of the record it holds.
LEMMA StageTypes ==
  ASSUME TypeOK, NEW o \in Ops
  PROVE  /\ op[o] \in Activities
         /\ op[o].at \in {"authorize", "member", "match", "route"}
              => op[o] \in Preflights
         /\ op[o].at = "evaluate" => op[o] \in Evaluations
         /\ op[o].at = "sealed" => op[o] \in Sealed
         /\ op[o].at \in {"review", "review_member", "review_match", "approved"}
              => op[o] \in Reviews
         /\ op[o].at \in {"load", "gate"} => op[o] \in Loads
<1>1. op[o] \in Activities
  BY DEF TypeOK, Activities
<1> QED
  BY <1>1
     DEF Activities, Idle, Preflights, Evaluations, Sealed, Reviews, Loads

\* Past the seal an operation has a requester, a plan and its container.
LEMMA PastTypes ==
  ASSUME TypeOK, NEW o \in Ops, op[o].at \in Past
  PROVE  /\ op[o].requester \in Users /\ op[o].plan \in Plans
         /\ op[o].container \in Containers
BY StageTypes DEF Past, Sealed, Reviews, Loads

LEMMA AsSealedType ==
  ASSUME TypeOK, NEW o \in Ops, op[o].at \in Past
  PROVE  AsSealed(op[o]) \in Sealed
BY PastTypes DEF AsSealed, Sealed

\* A digest of a plan under way is a plan.
LEMMA KnownPlansType ==
  ASSUME TypeOK
  PROVE  KnownPlans \subseteq Plans
<1> SUFFICES ASSUME NEW o \in Ops, "plan" \in DOMAIN op[o]
             PROVE  op[o].plan \in Plans
  BY DEF KnownPlans
<1>1. CASE op[o] \in Sealed \cup Reviews \cup Loads
  BY <1>1 DEF Sealed, Reviews, Loads
<1>2. CASE op[o] \in {Idle} \cup Preflights \cup Evaluations
  BY <1>2 DEF Idle, Preflights, Evaluations
<1> QED
  BY <1>1, <1>2, StageTypes DEF Activities

\* The active bindings of a scope are read as the registry has them, at
\* most one for each id.
LEMMA ActiveBindingsRead ==
  ASSUME TypeOK, NEW s \in Scopes
  PROVE  /\ ActiveBindings(bindings, s) \subseteq Snapshots
         /\ \A b \in ActiveBindings(bindings, s) :
              /\ b.id \in Bindings
              /\ b = [id |-> b.id, provider |-> bindings[b.id].provider,
                      container |-> bindings[b.id].container,
                      version |-> bindings[b.id].version]
<1> SUFFICES ASSUME NEW b \in ActiveBindings(bindings, s)
             PROVE  /\ b \in Snapshots /\ b.id \in Bindings
                    /\ b = [id |-> b.id, provider |-> bindings[b.id].provider,
                            container |-> bindings[b.id].container,
                            version |-> bindings[b.id].version]
  OBVIOUS
<1>1. PICK i \in Bindings :
        b = [id |-> i, provider |-> bindings[i].provider,
             container |-> bindings[i].container,
             version |-> bindings[i].version]
  BY DEF ActiveBindings, TypeOK
<1>2. bindings[i] \in BindingRecords
  BY DEF TypeOK
<1> QED
  BY <1>1, <1>2 DEF Snapshots, BindingRecords

LEMMA MatchedGrantsType ==
  ASSUME TypeOK, NEW user, NEW action, NEW s
  PROVE  MatchedGrants(grants, user, action, s) \in SUBSET GrantIds
BY DEF MatchedGrants, GrantIds, TypeOK

LEMMA MatchedTargetsType ==
  ASSUME TypeOK, NEW s
  PROVE  MatchedTargets(s, policies) \in SUBSET Targets
BY DEF MatchedTargets, ApplicablePolicies, Targets, TypeOK

LEMMA ResolveActiveType ==
  ASSUME TypeOK, NEW s \in Scopes
  PROVE  /\ ResolveActive(s) \in Versions \cup {NoVersion}
BY DEF ResolveActive, TypeOK, ScopeRecords

---------------------------------------------------------------------------
(* What the steps do                                                       *)

\* An operation moves on to a record of its next stage.
Moved(o, record) ==
  /\ record \in Activities
  /\ op' = [op EXCEPT ![o] = record]

\* The steps before the seal; the last one may seal.
LEMMA PreflightMoves ==
  ASSUME TypeOK, NEW o \in Ops, Preflight(o)
  PROVE  /\ UNCHANGED <<registry, receipts, executions>>
         /\ \E record \in Activities :
              /\ op' = [op EXCEPT ![o] = record]
              /\ \/ record.at \in {"idle", "authorize", "member", "match", "route"}
                 \/ /\ record.at = "evaluate"
                    /\ record.binding \in
                         ActiveBindings(bindings, op[o].scope)
                    /\ op[o].scope \in Scopes
                 \/ /\ op[o].at = "evaluate" /\ record.at = "sealed"
                    /\ record.plan.binding = op[o].binding.id
                    /\ record.plan.binding_version = op[o].binding.version
                    /\ record.container = op[o].binding.container
<1> DEFINE Goal(record) ==
      /\ record \in Activities
      /\ \/ record.at \in {"idle", "authorize", "member", "match", "route"}
         \/ /\ record.at = "evaluate"
            /\ record.binding \in ActiveBindings(bindings, op[o].scope)
            /\ op[o].scope \in Scopes
         \/ /\ op[o].at = "evaluate" /\ record.at = "sealed"
            /\ record.plan.binding = op[o].binding.id
            /\ record.plan.binding_version = op[o].binding.version
            /\ record.container = op[o].binding.container
<1> SUFFICES \E record : MoveTo(o, record) /\ Goal(record)
  BY DEF MoveTo
<1>1. Goal(Idle)
  BY DEF Idle, Activities
<1>2. ASSUME NEW user \in Users, NEW s \in Scopes, Start(o, user, s)
      PROVE  \E record : MoveTo(o, record) /\ Goal(record)
  <2> DEFINE record == [at |-> "authorize", requester |-> user, scope |-> s,
                        version |-> ResolveActive(s), grants |-> {}]
  <2>1. CASE ResolveActive(s) # NoVersion
    <3>1. record \in Preflights
      BY <2>1, ResolveActiveType DEF Preflights
    <3>2. Goal(record)
      BY <3>1 DEF Activities
    <3>3. MoveTo(o, record)
      BY <1>2, <2>1 DEF Start
    <3> QED
      BY <3>2, <3>3
  <2>2. CASE ResolveActive(s) = NoVersion
    <3>1. MoveTo(o, Idle)
      BY <1>2, <2>2 DEF Start
    <3> QED
      BY <1>1, <3>1
  <2> QED
    BY <2>1, <2>2
<1>3. CASE AuthorizeScope(o) \/ AuthorizeMember(o)
  <2>1. op[o] \in Preflights
    BY <1>3, StageTypes DEF AuthorizeScope, AuthorizeMember
  <2>2. PICK stage \in {"member", "match"} :
          MoveTo(o, [op[o] EXCEPT !.at = stage]) \/ MoveTo(o, Idle)
    BY <1>3 DEF AuthorizeScope, AuthorizeMember
  <2>3. [op[o] EXCEPT !.at = stage] \in Preflights
    BY <2>1 DEF Preflights
  <2>4. Goal([op[o] EXCEPT !.at = stage])
    BY <2>1, <2>3 DEF Activities, Preflights
  <2> QED
    BY <1>1, <2>2, <2>4
<1>4. CASE AuthorizeGrants(o)
  <2>1. op[o] \in Preflights
    BY <1>4, StageTypes DEF AuthorizeGrants
  <2>2. PICK matched \in SUBSET GrantIds :
          \/ MoveTo(o, [op[o] EXCEPT !.at = "route", !.grants = matched])
          \/ MoveTo(o, Idle)
    BY <1>4, MatchedGrantsType DEF AuthorizeGrants
  <2>3. [op[o] EXCEPT !.at = "route", !.grants = matched] \in Preflights
    BY <2>1 DEF Preflights
  <2>4. Goal([op[o] EXCEPT !.at = "route", !.grants = matched])
    BY <2>1, <2>3 DEF Activities, Preflights
  <2> QED
    BY <1>1, <2>2, <2>4
<1>5. CASE Route(o)
  <2>1. op[o] \in Preflights
    BY <1>5, StageTypes DEF Route
  <2>2. CASE MoveTo(o, Idle)
    BY <1>1, <2>2
  <2>3. ASSUME NEW b \in ActiveBindings(bindings, op[o].scope),
               MoveTo(o, [at |-> "evaluate", requester |-> op[o].requester,
                          scope |-> op[o].scope, version |-> op[o].version,
                          grants |-> op[o].grants, binding |-> b])
        PROVE  \E record : MoveTo(o, record) /\ Goal(record)
    <3> DEFINE record ==
          [at |-> "evaluate", requester |-> op[o].requester,
           scope |-> op[o].scope, version |-> op[o].version,
           grants |-> op[o].grants, binding |-> b]
    <3>1. op[o].scope \in Scopes /\ b \in Snapshots
      BY <2>1, <2>3, ActiveBindingsRead DEF Preflights
    <3>2. record \in Evaluations
      BY <2>1, <3>1 DEF Preflights, Evaluations
    <3>3. Goal(record)
      BY <2>3, <3>1, <3>2 DEF Activities
    <3> QED
      BY <2>3, <3>3
  <2> QED
    BY <1>5, <2>2, <2>3 DEF Route, Eligible
<1>6. ASSUME NEW contents \in Contents, Seal(o, contents)
      PROVE  \E record : MoveTo(o, record) /\ Goal(record)
  <2> DEFINE me == op[o]
             plan == [scope |-> me.scope, version |-> me.version,
                      binding |-> me.binding.id,
                      binding_version |-> me.binding.version,
                      grants |-> me.grants,
                      guardrails |-> MatchedTargets(me.scope, policies),
                      contents |-> contents]
             record == [at |-> "sealed", requester |-> me.requester,
                        container |-> me.binding.container, plan |-> plan]
  <2>1. me \in Evaluations /\ me.at = "evaluate"
    BY <1>6, StageTypes DEF Seal
  <2>2. MatchedTargets(me.scope, policies) \in SUBSET Targets
    BY MatchedTargetsType
  <2>3. /\ me.requester \in Users /\ me.scope \in Scopes
        /\ me.version \in Versions /\ me.grants \in SUBSET GrantIds
        /\ me.binding \in Snapshots
    BY <2>1 DEF Evaluations
  <2>4. /\ me.binding.id \in Bindings /\ me.binding.version \in Versions
        /\ me.binding.container \in Containers
    BY <2>3 DEF Snapshots
  <2>5. plan \in Plans
    BY <2>2, <2>3, <2>4 DEF Plans
  <2>6. record \in Sealed
    BY <2>3, <2>4, <2>5 DEF Sealed
  <2>7. Goal(record)
    BY <2>1, <2>6 DEF Activities
  <2>8. MoveTo(o, Idle) \/ MoveTo(o, record)
    BY <1>6 DEF Seal
  <2> QED
    BY <1>1, <2>7, <2>8
<1> QED
  BY <1>2, <1>3, <1>4, <1>5, <1>6 DEF Preflight

\* The plan, its container and its requester stay with an operation.
Kept(o, record) ==
  /\ record.requester = op[o].requester
  /\ record.plan = op[o].plan
  /\ record.container = op[o].container

InReview == {"review", "review_member", "review_match", "approved"}

\* The steps of the review, to its receipt.
LEMMA ApprovalMoves ==
  ASSUME TypeOK, NEW o \in Ops, Approval(o)
  PROVE  /\ UNCHANGED <<registry, executions>>
         /\ op[o].at \in {"sealed"} \cup InReview
         /\ \E record \in Activities :
              /\ op' = [op EXCEPT ![o] = record]
              /\ \/ record.at = "idle"
                 \/ record.at = "sealed" /\ Kept(o, record)
                 \/ /\ record.at \in InReview /\ Kept(o, record)
                    /\ \/ record.answer = record.plan
                       \/ /\ op[o].at \in InReview
                          /\ record.answer = op[o].answer
         /\ \/ UNCHANGED receipts
            \/ \E receipt \in Receipts :
                 /\ op[o].at = "approved"
                 /\ receipt.plan = op[o].plan
                 /\ receipt.answer = op[o].answer
                 /\ receipts' = receipts \cup {receipt}
<1> DEFINE Goal(record) ==
      /\ record \in Activities
      /\ \/ record.at = "idle"
         \/ record.at = "sealed" /\ Kept(o, record)
         \/ /\ record.at \in InReview /\ Kept(o, record)
            /\ \/ record.answer = record.plan
               \/ op[o].at \in InReview /\ record.answer = op[o].answer
<1>1. Goal(Idle)
  BY DEF Idle, Activities
<1>2. op[o].at \in Past => Goal(AsSealed(op[o]))
  BY AsSealedType DEF Activities, AsSealed, Kept
<1>3. ASSUME NEW reviewer \in Users, NEW digest \in KnownPlans,
             Approve(o, reviewer, digest)
      PROVE  /\ op[o].at = "sealed"
             /\ \E record : MoveTo(o, record) /\ Goal(record)
  <2> DEFINE record == [at |-> "review", requester |-> op[o].requester,
                        plan |-> op[o].plan, container |-> op[o].container,
                        reviewer |-> reviewer, answer |-> digest]
  <2>1. op[o].at = "sealed" /\ op[o] \in Sealed
    BY <1>3, StageTypes DEF Approve
  <2>2. CASE MoveTo(o, record) /\ digest = op[o].plan
    <3>1. record \in Reviews
      BY <2>1, <2>2, KnownPlansType DEF Sealed, Reviews
    <3>2. Goal(record)
      BY <2>2, <3>1 DEF Activities, Kept, InReview
    <3> QED
      BY <2>1, <2>2, <3>2
  <2>3. CASE MoveTo(o, op[o])
    <3>1. Goal(op[o])
      BY <2>1 DEF Activities, Kept
    <3> QED
      BY <2>1, <2>3, <3>1
  <2> QED
    BY <1>3, <2>2, <2>3 DEF Approve, DigestMatches
<1>4. ASSUME NEW reviewer \in Users, Reject(o, reviewer)
      PROVE  op[o].at = "sealed" /\ MoveTo(o, Idle)
  BY <1>4 DEF Reject
<1>5. CASE ReviewScope(o) \/ ReviewMember(o) \/ ReviewGrants(o)
  <2>1. op[o].at \in InReview /\ op[o] \in Reviews
    BY <1>5, StageTypes DEF ReviewScope, ReviewMember, ReviewGrants, InReview
  <2>2. PICK stage \in InReview :
          \/ MoveTo(o, [op[o] EXCEPT !.at = stage])
          \/ MoveTo(o, AsSealed(op[o]))
    BY <1>5 DEF ReviewScope, ReviewMember, ReviewGrants, InReview
  <2>3. [op[o] EXCEPT !.at = stage] \in Reviews
    BY <2>1 DEF Reviews, InReview
  <2>4. Goal([op[o] EXCEPT !.at = stage])
    BY <2>1, <2>3 DEF Activities, Kept, Reviews
  <2>5. Goal(AsSealed(op[o]))
    BY <1>2, <2>1 DEF Past, InReview
  <2>6. \E record : MoveTo(o, record) /\ Goal(record)
    BY <2>2, <2>4, <2>5
  <2> QED
    BY <2>1, <2>6 DEF MoveTo
<1>6. CASE RecordReceipt(o)
  <2>1. op[o].at = "approved" /\ op[o] \in Reviews
    BY <1>6, StageTypes DEF RecordReceipt
  <2>2. Goal(AsSealed(op[o]))
    BY <1>2, <2>1 DEF Past
  <2>3. PICK receipt : receipt = [plan |-> op[o].plan,
                                  approver |-> op[o].reviewer,
                                  answer |-> op[o].answer]
    OBVIOUS
  <2>4. receipt \in Receipts
    BY <2>1, <2>3 DEF Reviews, Receipts
  <2> QED
    BY <1>6, <2>1, <2>2, <2>3, <2>4 DEF RecordReceipt, InReview
<1> HIDE DEF Goal
<1>7. ASSUME NEW record, MoveTo(o, record), Goal(record),
             op[o].at \in {"sealed"} \cup InReview
      PROVE  /\ UNCHANGED <<registry, executions, receipts>>
             /\ \E r : Goal(r) /\ op' = [op EXCEPT ![o] = r]
  BY <1>7 DEF MoveTo
<1> QED
  BY <1>1, <1>3, <1>4, <1>5, <1>6, <1>7 DEF Approval, Goal

\* What the gate has found when it calls the executor.
Passed(o, execution) ==
  \E b \in op[o].bindings, receipt \in receipts :
    /\ op[o].at = "gate"
    /\ Passes(op[o], b, receipt)
    /\ execution = [plan |-> op[o].plan, requester |-> op[o].requester,
                    approver |-> receipt.approver, answer |-> receipt.answer]

\* The steps of the gate and its caller.
LEMMA ExecutionMoves ==
  ASSUME TypeOK, NEW o \in Ops, Execution(o)
  PROVE  /\ UNCHANGED <<registry, receipts>>
         /\ op[o].at \in {"sealed", "load", "gate"}
         /\ \E record \in Activities :
              /\ op' = [op EXCEPT ![o] = record]
              /\ Kept(o, record)
              /\ \/ record.at = "sealed"
                 \/ /\ record.at = "load" /\ record.since = changes
                    /\ record.version = ResolveActive(op[o].plan.scope)
                 \/ /\ op[o].at = "load" /\ record.at = "gate"
                    /\ record.since = op[o].since
                    /\ record.version = op[o].version
                    /\ record.bindings =
                         ActiveBindings(bindings, op[o].plan.scope)
         /\ \/ UNCHANGED executions
            \/ \E execution :
                 /\ Passed(o, execution)
                 /\ executions' = executions \cup {execution}
<1>1. CASE LoadScope(o)
  <2> DEFINE record == [at |-> "load", requester |-> op[o].requester,
                        plan |-> op[o].plan, container |-> op[o].container,
                        version |-> ResolveActive(op[o].plan.scope),
                        bindings |-> {}, since |-> changes]
  <2>1. op[o].at = "sealed" /\ op[o] \in Sealed
    BY <1>1, StageTypes DEF LoadScope
  <2>2. op[o].plan \in Plans /\ op[o].plan.scope \in Scopes
    BY <2>1 DEF Sealed, Plans
  <2>3. ResolveActive(op[o].plan.scope) \in Versions \cup {NoVersion}
    BY <2>2, ResolveActiveType
  <2>4. record \in Loads
    BY <2>1, <2>3 DEF Loads, Sealed, TypeOK
  <2>5. record \in Activities /\ Kept(o, record) /\ record.at = "load"
    BY <2>4 DEF Activities, Kept
  <2> QED
    BY <1>1, <2>1, <2>5 DEF LoadScope, MoveTo
<1>2. CASE LoadBindings(o)
  <2>1. op[o].at = "load" /\ op[o] \in Loads
    BY <1>2, StageTypes DEF LoadBindings
  <2>2. PICK read \in SUBSET Snapshots :
          read = ActiveBindings(bindings, op[o].plan.scope)
    BY <2>1, ActiveBindingsRead DEF Loads, Plans
  <2>3. PICK record :
          record = [op[o] EXCEPT !.at = "gate", !.bindings = read]
    OBVIOUS
  <2>4. /\ record \in Loads /\ Kept(o, record)
        /\ record.at = "gate" /\ record.bindings = read
        /\ record.since = op[o].since /\ record.version = op[o].version
    BY <2>1, <2>3 DEF Loads, Kept
  <2>5. record \in Activities
    BY <2>4 DEF Activities
  <2>6. MoveTo(o, record)
    BY <1>2, <2>2, <2>3 DEF LoadBindings
  <2> QED
    BY <2>1, <2>2, <2>4, <2>5, <2>6 DEF MoveTo
<1>3. CASE Execute(o) \/ Deny(o)
  <2>1. op[o].at = "gate"
    BY <1>3 DEF Execute, Deny
  <2>2. PICK record : record = AsSealed(op[o])
    OBVIOUS
  <2>3. record \in Activities /\ Kept(o, record) /\ record.at = "sealed"
    BY <2>1, <2>2, AsSealedType DEF Past, Activities, AsSealed, Kept
  <2>4. /\ op' = [op EXCEPT ![o] = record]
        /\ UNCHANGED <<registry, receipts>>
        /\ \/ UNCHANGED executions
           \/ \E execution :
                /\ Passed(o, execution)
                /\ executions' = executions \cup {execution}
    BY <1>3, <2>1, <2>2 DEF Execute, Deny, MoveTo, Passed
  <2> QED
    BY <2>1, <2>3, <2>4
<1> QED
  BY <1>1, <1>2, <1>3 DEF Execution

\* A reviewed change: the clock goes on, and no registration is forgotten.
LEMMA ChangeMoves ==
  ASSUME TypeOK, Change
  PROVE  /\ UNCHANGED <<op, receipts, executions>>
         /\ scopes' \in [Scopes -> ScopeRecords]
         /\ bindings' \in [Bindings -> BindingRecords]
         /\ members' \subseteq Users /\ grants' \subseteq RoleBindings
         /\ policies' \subseteq Policies
         /\ registered' \subseteq Registrations
         /\ changes' \in 0..MaxChanges /\ changes' = changes + 1
         /\ registered \subseteq registered'
         /\ \A b \in Bindings :
              \/ Registration(b, bindings'[b]) = Registration(b, bindings[b])
              \/ Registration(b, bindings'[b]) \in registered'
<1>1. /\ UNCHANGED <<op, receipts, executions>>
      /\ changes' \in 0..MaxChanges /\ changes' = changes + 1
  BY ProvisionAssumption DEF Change, TypeOK
<1> DEFINE Goal ==
      /\ scopes' \in [Scopes -> ScopeRecords]
      /\ bindings' \in [Bindings -> BindingRecords]
      /\ members' \subseteq Users /\ grants' \subseteq RoleBindings
      /\ policies' \subseteq Policies
      /\ registered' \subseteq Registrations
      /\ registered \subseteq registered'
      /\ \A b \in Bindings :
           \/ Registration(b, bindings'[b]) = Registration(b, bindings[b])
           \/ Registration(b, bindings'[b]) \in registered'
<1>2. ASSUME NEW s \in Scopes, RegisterScope(s) PROVE Goal
  BY <1>2 DEF RegisterScope, TypeOK
<1>3. ASSUME NEW b \in Bindings, RegisterBinding(b) PROVE Goal
  <2>1. PICK r \in BindingRecords :
          /\ bindings' = [bindings EXCEPT ![b] = r]
          /\ registered' = registered \cup {Registration(b, r)}
    BY <1>3 DEF RegisterBinding
  <2>2. Registration(b, r) \in Registrations
    BY DEF Registration, Registrations, BindingRecords
  <2>3. /\ bindings' \in [Bindings -> BindingRecords]
        /\ \A c \in Bindings : bindings'[c] = IF c = b THEN r ELSE bindings[c]
    BY <2>1 DEF TypeOK
  <2> QED
    BY <1>3, <2>1, <2>2, <2>3 DEF RegisterBinding, TypeOK
<1>4. ASSUME NEW b \in Bindings, SetBindingState(b) PROVE Goal
  <2> DEFINE r == [bindings[b] EXCEPT !.active = ~@]
  <2>1. bindings[b] \in BindingRecords
    BY DEF TypeOK
  <2>2. r \in BindingRecords /\ Registration(b, r) = Registration(b, bindings[b])
    BY <2>1 DEF BindingRecords, Registration
  <2>3. bindings' = [bindings EXCEPT ![b] = r]
    BY <1>4 DEF SetBindingState
  <2> HIDE DEF r
  <2>4. /\ bindings' \in [Bindings -> BindingRecords]
        /\ \A c \in Bindings : bindings'[c] = IF c = b THEN r ELSE bindings[c]
    BY <2>2, <2>3 DEF TypeOK
  <2> QED
    BY <1>4, <2>2, <2>4 DEF SetBindingState, TypeOK
<1>5. ASSUME ChangeAuthority PROVE Goal
  <2>1. ASSUME \E u \in Users : members' \in {members \cup {u}, members \ {u}},
               UNCHANGED <<scopes, bindings, grants, policies, registered>>
        PROVE  Goal
    BY <2>1 DEF TypeOK
  <2>2. ASSUME \E b \in RoleBindings :
                 grants' \in {grants \cup {b}, grants \ {b}},
               UNCHANGED <<scopes, bindings, members, policies, registered>>
        PROVE  Goal
    BY <2>2 DEF TypeOK
  <2>3. ASSUME policies' \in SUBSET Policies,
               UNCHANGED <<scopes, bindings, members, grants, registered>>
        PROVE  Goal
    BY <2>3 DEF TypeOK
  <2> QED
    BY <1>5, <2>1, <2>2, <2>3 DEF ChangeAuthority
<1> HIDE DEF Goal
<1>6. Goal
  BY <1>2, <1>3, <1>4, <1>5 DEF Change
<1> QED
  BY <1>1, <1>6 DEF Goal

LEMMA StepKinds ==
  ASSUME [Next]_vars
  PROVE  \/ \E o \in Ops : Preflight(o) \/ Approval(o) \/ Execution(o)
         \/ Change
         \/ UNCHANGED vars
BY DEF Next

LEMMA TypeInit == Init => TypeOK
<1> SUFFICES ASSUME Init PROVE TypeOK
  OBVIOUS
<1>1. 1 \in Versions
  BY ProvisionAssumption DEF Versions
<1>2. scopes \in [Scopes -> ScopeRecords]
  BY <1>1 DEF Init, ScopeRecords
<1>3. bindings \in [Bindings -> BindingRecords]
  BY DEF Init
<1>4. changes \in 0..MaxChanges
  BY ProvisionAssumption DEF Init
<1>5. registered \subseteq Registrations
  BY <1>1, <1>3 DEF Init, Registration, Registrations, BindingRecords
<1> QED
  BY <1>2, <1>3, <1>4, <1>5 DEF Init, TypeOK

LEMMA TypeNext == TypeOK /\ [Next]_vars => TypeOK'
<1> SUFFICES ASSUME TypeOK, [Next]_vars PROVE TypeOK'
  OBVIOUS
<1>1. ASSUME NEW o \in Ops, NEW record \in Activities,
             op' = [op EXCEPT ![o] = record], UNCHANGED registry,
             receipts' \subseteq Receipts, executions' \subseteq Executions
      PROVE  TypeOK'
  <2>1. op' \in [Ops -> Activities]
    BY <1>1 DEF TypeOK, Activities
  <2> QED
    BY <1>1, <2>1 DEF TypeOK, registry, Activities, Receipts
<1>2. receipts \subseteq Receipts /\ executions \subseteq Executions
  BY DEF TypeOK, Receipts
<1>3. ASSUME NEW o \in Ops, Preflight(o) PROVE TypeOK'
  BY <1>1, <1>2, <1>3, PreflightMoves
<1>4. ASSUME NEW o \in Ops, Approval(o) PROVE TypeOK'
  <2>1. receipts' \subseteq Receipts
    BY <1>2, <1>4, ApprovalMoves
  <2> QED
    BY <1>1, <1>2, <1>4, <2>1, ApprovalMoves
<1>5. ASSUME NEW o \in Ops, Execution(o) PROVE TypeOK'
  <2>1. ASSUME NEW execution, Passed(o, execution)
        PROVE  execution \in Executions
    <3>1. op[o].at = "gate" /\ op[o] \in Loads
      BY <2>1, StageTypes DEF Passed
    <3>2. PICK b \in op[o].bindings, receipt \in receipts :
            execution =
              [plan |-> op[o].plan, requester |-> op[o].requester,
               approver |-> receipt.approver, answer |-> receipt.answer]
      BY <2>1 DEF Passed
    <3>3. b \in Snapshots /\ receipt \in Receipts
      BY <1>2, <3>1, <3>2 DEF Loads
    <3> QED
      BY <3>1, <3>2, <3>3 DEF Loads, Snapshots, Receipts, Executions
  <2>2. executions' \subseteq Executions
    BY <1>2, <1>5, <2>1, ExecutionMoves
  <2> QED
    BY <1>1, <1>2, <1>5, <2>2, ExecutionMoves
<1>6. CASE Change
  BY <1>6, ChangeMoves DEF TypeOK
<1>7. CASE UNCHANGED vars
  BY <1>7 DEF vars, registry, TypeOK
<1> QED
  BY <1>3, <1>4, <1>5, <1>6, <1>7, StepKinds

\* Registries, operations, receipts and executions keep their shape,
\* whatever is registered between the reads of an operation.
THEOREM ProvisionTypeCorrect == Spec => []TypeOK
BY TypeInit, TypeNext, PTL DEF Spec

---------------------------------------------------------------------------
(* What was reviewed                                                       *)

\* A reviewer answers with the digest of the very plan.
AnswersAreThePlan ==
  /\ \A o \in Ops : op[o].at \in InReview => op[o].answer = op[o].plan
  /\ \A receipt \in receipts : receipt.answer = receipt.plan

ReviewInv == AnswersAreThePlan /\ ReviewedPlanIsExecuted

LEMMA ReviewInvNext == TypeOK /\ ReviewInv /\ [Next]_vars => ReviewInv'
<1> SUFFICES ASSUME TypeOK, ReviewInv, [Next]_vars PROVE ReviewInv'
  OBVIOUS
<1>1. ASSUME NEW o \in Ops, NEW record, op' = [op EXCEPT ![o] = record],
             record.at \in InReview => record.answer = record.plan,
             \A receipt \in receipts' \ receipts : receipt.answer = receipt.plan,
             \A e \in executions' \ executions : e.answer = e.plan
      PROVE  ReviewInv'
  <2>1. \A p \in Ops : op'[p] = IF p = o THEN record ELSE op[p]
    BY <1>1 DEF TypeOK
  <2> QED
    BY <1>1, <2>1
       DEF ReviewInv, AnswersAreThePlan, ReviewedPlanIsExecuted
<1>2. ASSUME NEW o \in Ops, Preflight(o) PROVE ReviewInv'
  <2>1. PICK record :
          op' = [op EXCEPT ![o] = record] /\ record.at \notin InReview
    BY <1>2, PreflightMoves DEF InReview
  <2> QED
    BY <1>1, <1>2, <2>1, PreflightMoves
<1>3. ASSUME NEW o \in Ops, Approval(o) PROVE ReviewInv'
  <2>1. op[o].at \in InReview => op[o].answer = op[o].plan
    BY DEF ReviewInv, AnswersAreThePlan
  <2>2. PICK record :
          /\ op' = [op EXCEPT ![o] = record]
          /\ \/ record.at \notin InReview
             \/ /\ record.plan = op[o].plan
                /\ \/ record.answer = record.plan
                   \/ op[o].at \in InReview /\ record.answer = op[o].answer
    BY <1>3, ApprovalMoves DEF InReview, Kept
  <2>3. \A receipt \in receipts' \ receipts : receipt.answer = receipt.plan
    BY <1>3, <2>1, ApprovalMoves DEF InReview
  <2> QED
    BY <1>1, <1>3, <2>1, <2>2, <2>3, ApprovalMoves
<1>4. ASSUME NEW o \in Ops, Execution(o) PROVE ReviewInv'
  <2>1. PICK record :
          op' = [op EXCEPT ![o] = record] /\ record.at \notin InReview
    BY <1>4, ExecutionMoves DEF InReview
  <2>2. ASSUME NEW e, Passed(o, e) PROVE e.answer = e.plan
    BY <2>2 DEF Passed, Passes, ReviewInv, AnswersAreThePlan
  <2>3. \A e \in executions' \ executions : e.answer = e.plan
    BY <1>4, <2>2, ExecutionMoves
  <2> QED
    BY <1>1, <1>4, <2>1, <2>3, ExecutionMoves
<1>5. CASE UNCHANGED <<op, receipts, executions>>
  BY <1>5 DEF ReviewInv, AnswersAreThePlan, ReviewedPlanIsExecuted
<1> QED
  BY <1>2, <1>3, <1>4, <1>5, ChangeMoves, StepKinds DEF vars

\* What the executor receives is what an approver answered "approve" to.
THEOREM ReviewedPlansAreExecuted == Spec => []ReviewedPlanIsExecuted
<1>1. Init => ReviewInv
  BY DEF Init, Idle, InReview, ReviewInv, AnswersAreThePlan,
         ReviewedPlanIsExecuted
<1>2. Spec => []ReviewInv
  BY <1>1, TypeInit, TypeNext, ReviewInvNext, PTL DEF Spec
<1> QED
  BY <1>2, PTL DEF ReviewInv

---------------------------------------------------------------------------
(* What was sealed                                                         *)

\* What an operation has read of a binding was registered, and what it has
\* loaded is what the registries hold for as long as nothing changes.
Reads(me) ==
  /\ me.at = "evaluate" =>
       Registration(me.binding.id, me.binding) \in registered
  /\ me.at \in Past =>
       [id |-> me.plan.binding, version |-> me.plan.binding_version,
        container |-> me.container] \in registered
  /\ me.at \in {"load", "gate"} =>
       /\ me.since <= changes
       /\ me.since = changes => me.version = ResolveActive(me.plan.scope)
  /\ me.at = "gate" /\ me.since = changes =>
       me.bindings = ActiveBindings(bindings, me.plan.scope)

ReadsInv ==
  /\ \A b \in Bindings : Registration(b, bindings[b]) \in registered
  /\ \A o \in Ops : Reads(op[o])

LEMMA ReadsInvNext == TypeOK /\ ReadsInv /\ [Next]_vars => ReadsInv'
<1> SUFFICES ASSUME TypeOK, ReadsInv, [Next]_vars PROVE ReadsInv'
  OBVIOUS
<1>1. ASSUME NEW o \in Ops, NEW record, op' = [op EXCEPT ![o] = record],
             UNCHANGED registry, Reads(record)
      PROVE  ReadsInv'
  <2>1. \A p \in Ops : op'[p] = IF p = o THEN record ELSE op[p]
    BY <1>1 DEF TypeOK
  <2>2. \A p \in Ops : Reads(op'[p])
    BY <1>1, <2>1 DEF ReadsInv
  <2>3. \A p \in Ops : Reads(op[p])'
    BY <1>1, <2>2 DEF Reads, registry, ResolveActive, ActiveBindings
  <2> QED
    BY <1>1, <2>3 DEF ReadsInv, registry
<1>2. ASSUME NEW o \in Ops, Preflight(o) PROVE ReadsInv'
  <2>1. PICK record :
          /\ op' = [op EXCEPT ![o] = record]
          /\ \/ record.at \in {"idle", "authorize", "member", "match", "route"}
             \/ /\ record.at = "evaluate"
                /\ record.binding \in ActiveBindings(bindings, op[o].scope)
                /\ op[o].scope \in Scopes
             \/ /\ op[o].at = "evaluate" /\ record.at = "sealed"
                /\ record.plan.binding = op[o].binding.id
                /\ record.plan.binding_version = op[o].binding.version
                /\ record.container = op[o].binding.container
    BY <1>2, PreflightMoves
  <2>2. Reads(record)
    <3>1. CASE record.at \in {"idle", "authorize", "member", "match", "route"}
      BY <3>1 DEF Reads, Past
    <3>2. CASE /\ record.at = "evaluate"
               /\ record.binding \in ActiveBindings(bindings, op[o].scope)
               /\ op[o].scope \in Scopes
      <4> DEFINE b == record.binding
      <4>1. /\ b.id \in Bindings
            /\ b.version = bindings[b.id].version
            /\ b.container = bindings[b.id].container
        BY <3>2, ActiveBindingsRead
      <4>2. Registration(b.id, b) = Registration(b.id, bindings[b.id])
        BY <4>1 DEF Registration
      <4> QED
        BY <3>2, <4>1, <4>2 DEF Reads, Past, ReadsInv
    <3>3. CASE /\ op[o].at = "evaluate" /\ record.at = "sealed"
               /\ record.plan.binding = op[o].binding.id
               /\ record.plan.binding_version = op[o].binding.version
               /\ record.container = op[o].binding.container
      <4>1. Registration(op[o].binding.id, op[o].binding) \in registered
        BY <3>3 DEF ReadsInv, Reads
      <4> QED
        BY <3>3, <4>1 DEF Reads, Registration
    <3> QED
      BY <2>1, <3>1, <3>2, <3>3
  <2> QED
    BY <1>1, <1>2, <2>1, <2>2, PreflightMoves
<1>3. ASSUME NEW o \in Ops, Approval(o) PROVE ReadsInv'
  <2>1. PICK record :
          /\ op' = [op EXCEPT ![o] = record]
          /\ \/ record.at = "idle"
             \/ record.at \in {"sealed"} \cup InReview /\ Kept(o, record)
    BY <1>3, ApprovalMoves
  <2>2. op[o].at \in Past
    BY <1>3, ApprovalMoves DEF Past, InReview
  <2>3. Reads(record)
    BY <2>1, <2>2 DEF ReadsInv, Reads, Kept, InReview, Past
  <2> QED
    BY <1>1, <1>3, <2>1, <2>3, ApprovalMoves
<1>4. ASSUME NEW o \in Ops, Execution(o) PROVE ReadsInv'
  <2>1. PICK record :
          /\ op' = [op EXCEPT ![o] = record]
          /\ Kept(o, record)
          /\ \/ record.at = "sealed"
             \/ /\ record.at = "load" /\ record.since = changes
                /\ record.version = ResolveActive(op[o].plan.scope)
             \/ /\ op[o].at = "load" /\ record.at = "gate"
                /\ record.since = op[o].since
                /\ record.version = op[o].version
                /\ record.bindings =
                     ActiveBindings(bindings, op[o].plan.scope)
    BY <1>4, ExecutionMoves
  <2>2. op[o].at \in Past
    BY <1>4, ExecutionMoves DEF Past
  <2>3. Reads(op[o]) /\ changes <= changes
    BY DEF ReadsInv, TypeOK
  <2>4. Reads(record)
    BY <2>1, <2>2, <2>3 DEF Reads, Kept, Past
  <2> QED
    BY <1>1, <1>4, <2>1, <2>4, ExecutionMoves
<1>5. CASE Change
  <2>1. ASSUME NEW o \in Ops PROVE Reads(op[o])'
    <3>1. Reads(op[o])
      BY DEF ReadsInv
    <3>2. /\ op' = op /\ registered \subseteq registered'
          /\ changes' = changes + 1 /\ changes \in Nat
      BY <1>5, ChangeMoves DEF TypeOK
    <3>3. op[o].at \in {"load", "gate"} => op[o].since \in Nat
      BY StageTypes DEF Loads
    <3>4. op[o].at \in {"load", "gate"} =>
            op[o].since <= changes' /\ op[o].since # changes'
      BY <3>1, <3>2, <3>3 DEF Reads
    <3> QED
      BY <3>1, <3>2, <3>4 DEF Reads
  <2>2. \A b \in Bindings : Registration(b, bindings'[b]) \in registered'
    BY <1>5, ChangeMoves DEF ReadsInv
  <2> QED
    BY <2>1, <2>2 DEF ReadsInv, Registration
<1>6. CASE UNCHANGED vars
  BY <1>6 DEF vars, registry, ReadsInv, Reads, ResolveActive, ActiveBindings
<1> QED
  BY <1>2, <1>3, <1>4, <1>5, <1>6, StepKinds

\* What is loaded and passes the gate is what the registries hold when
\* nothing has changed since.
LEMMA PassedPlanIsCurrent ==
  ASSUME TypeOK, ReadsInv, NEW o \in Ops, Execute(o), op[o].since = changes
  PROVE  LET plan == op[o].plan
             found == bindings[plan.binding]
         IN /\ scopes[plan.scope] = [active |-> TRUE, version |-> plan.version]
            /\ found.active /\ found.scope = plan.scope
            /\ found.version = plan.binding_version
            /\ Unambiguous(plan.binding, plan.binding_version)
                 => found.container = op[o].container
<1> DEFINE plan == op[o].plan
           found == bindings[plan.binding]
<1>1. op[o].at = "gate" /\ op[o].at \in Past /\ Reads(op[o])
  BY DEF Execute, Past, ReadsInv
<1>2. plan \in Plans
  BY <1>1, PastTypes
<1>3. /\ plan.scope \in Scopes /\ plan.binding \in Bindings
      /\ plan.version \in Versions
  BY <1>2 DEF Plans
<1>4. /\ op[o].version = ResolveActive(plan.scope)
      /\ op[o].bindings = ActiveBindings(bindings, plan.scope)
  BY <1>1 DEF Reads
<1>5. ~RequiresFreshResolution(plan, op[o].version, op[o].bindings)
  BY DEF Execute, Passes
<1>6. scopes[plan.scope] = [active |-> TRUE, version |-> plan.version]
  <2>1. ResolveActive(plan.scope) = plan.version /\ plan.version # NoVersion
    BY <1>3, <1>4, <1>5 DEF RequiresFreshResolution, Versions, NoVersion
  <2>2. scopes[plan.scope].active /\ scopes[plan.scope].version = plan.version
    BY <2>1 DEF ResolveActive
  <2>3. scopes[plan.scope] \in [active : BOOLEAN, version : Versions]
    BY <1>3 DEF TypeOK, ScopeRecords
  <2> QED
    BY <2>2, <2>3
<1>7. PICK b \in ActiveBindings(bindings, plan.scope) :
        b.id = plan.binding /\ b.version = plan.binding_version
  BY <1>4, <1>5 DEF RequiresFreshResolution
<1>8. found.active /\ found.scope = plan.scope
  <2>1. PICK i \in DOMAIN bindings :
          bindings[i].scope = plan.scope /\ bindings[i].active /\ b.id = i
    BY <1>7 DEF ActiveBindings
  <2> QED
    BY <1>7, <2>1
<1>9. found.version = plan.binding_version
  BY <1>3, <1>7, ActiveBindingsRead
<1>10. ASSUME Unambiguous(plan.binding, plan.binding_version)
       PROVE  found.container = op[o].container
  <2> DEFINE r == Registration(plan.binding, found)
             t == [id |-> plan.binding, version |-> plan.binding_version,
                   container |-> op[o].container]
  <2>1. r \in registered /\ t \in registered
    BY <1>1, <1>3 DEF ReadsInv, Reads
  <2>2. /\ r.id = plan.binding /\ r.version = plan.binding_version
        /\ r.container = found.container
    BY <1>9 DEF Registration
  <2>3. /\ t.id = plan.binding /\ t.version = plan.binding_version
        /\ t.container = op[o].container
    OBVIOUS
  <2> HIDE DEF r, t
  <2>4. r.container = t.container
    BY <1>10, <2>1, <2>2, <2>3 DEF Unambiguous
  <2> QED
    BY <2>2, <2>3, <2>4
<1> QED
  BY <1>6, <1>8, <1>9, <1>10

\* The executor finds what the preflight sealed, whatever changed before the
\* load, if nothing changes after it and no version is used twice.
THEOREM PlansDescribeTheRegistry == Spec => PlanDescribesRegistry
<1>1. Init => ReadsInv
  BY DEF Init, Idle, Past, ReadsInv, Reads
<1>2. TypeOK /\ ReadsInv /\ [Next]_vars =>
        [\A o \in Ops : Execute(o) /\ op[o].since = changes =>
           LET plan == op[o].plan
               found == bindings[plan.binding]
           IN /\ scopes[plan.scope] =
                   [active |-> TRUE, version |-> plan.version]
              /\ found.active /\ found.scope = plan.scope
              /\ found.version = plan.binding_version
              /\ Unambiguous(plan.binding, plan.binding_version)
                   => found.container = op[o].container]_vars
  BY PassedPlanIsCurrent
<1> QED
  BY <1>1, <1>2, TypeInit, TypeNext, ReadsInvNext, PTL
     DEF Spec, PlanDescribesRegistry

---------------------------------------------------------------------------
(* The topology a plan is made of: validate_topology, for every topology   *)
(* and every order of its loop.                                            *)

CONSTANTS Ids, Kinds, RegisteredUnits
VARIABLES spec, at, indegree, queue, ordered

Topo == INSTANCE Topology

\* In a cycle, or in anything else that waits for itself, every unit has a
\* predecessor.
Waits(S) == \A u \in S : \E v \in S : v \in Topo!Predecessors(u)

\* What holds while the loop runs: the counts are those of the predecessors
\* not taken, the queue holds the units without any, and nothing that waits
\* for itself has been taken.
Loop ==
  /\ Topo!WellFormed
  /\ \A u \in Topo!ById :
       indegree[u] = Cardinality(Topo!Predecessors(u) \ ordered)
  /\ queue = {u \in Topo!ById \ ordered : indegree[u] = 0}
  /\ \A u \in ordered : Topo!Predecessors(u) \subseteq ordered
  /\ \A S \in SUBSET Topo!ById : Waits(S) => S \cap ordered = {}

TopologyInv ==
  /\ spec \in Topo!Specs
  /\ indegree \in [Ids -> Int]
  /\ ordered \subseteq Topo!ById
  /\ at \in {"check", "sort", "accepted", "rejected"}
  /\ at = "check" => ordered = {} /\ queue = {}
  /\ at = "sort" => Loop
  /\ Topo!AcceptsTheAcyclic

\* The units of a topology are among the ids there are.
LEMMA UnitsAreIds ==
  ASSUME spec \in Topo!Specs
  PROVE  Topo!ById \subseteq Ids
<1>1. spec.units \in Seq(Topo!UnitSpecs)
  BY DEF Topo!Specs
<1>2. \A i \in DOMAIN spec.units : spec.units[i] \in Topo!UnitSpecs
  BY <1>1
<1>3. \A unit \in Topo!UnitSpecs : unit.id \in Ids
  BY DEF Topo!UnitSpecs
<1> QED
  BY <1>2, <1>3 DEF Topo!ById

\* A topology is a list, so it has finitely many units.
LEMMA UnitsAreFinite ==
  ASSUME spec \in Topo!Specs
  PROVE  IsFiniteSet(Topo!ById)
<1> DEFINE f == [i \in DOMAIN spec.units |-> spec.units[i].id]
<1>1. spec.units \in Seq(Topo!UnitSpecs)
  BY DEF Topo!Specs
<1>2. IsFiniteSet(DOMAIN spec.units)
  <2>1. DOMAIN spec.units = 1..Len(spec.units) /\ Len(spec.units) \in Nat
    BY <1>1
  <2>2. IsFiniteSet(1..Len(spec.units))
    BY <2>1, FS_Interval
  <2> QED
    BY <2>1, <2>2
<1>3. f \in [DOMAIN spec.units -> Topo!ById]
  BY DEF Topo!ById
<1>4. f \in Surjection(DOMAIN spec.units, Topo!ById)
  BY <1>3 DEF Topo!ById, Surjection
<1> QED
  BY <1>2, <1>4, FS_Surjection

\* What a unit still waits for can be counted, and the count is zero when
\* there is nothing.
LEMMA Counting ==
  ASSUME spec \in Topo!Specs, NEW u, NEW T
  PROVE  /\ IsFiniteSet(Topo!Predecessors(u) \ T)
         /\ Cardinality(Topo!Predecessors(u) \ T) \in Nat
         /\ Cardinality(Topo!Predecessors(u) \ T) = 0
              <=> Topo!Predecessors(u) \ T = {}
<1>1. Topo!Predecessors(u) \ T \subseteq Topo!ById
  BY DEF Topo!Predecessors
<1>2. IsFiniteSet(Topo!Predecessors(u) \ T)
  BY <1>1, UnitsAreFinite, FS_Subset
<1> QED
  BY <1>2, FS_CardinalityType, FS_EmptySet

\* Instances of Topology have the Cardinality of every other module.
LEMMA SameCount == \A S : Topo!Cardinality(S) = Cardinality(S)
  BY Zenon DEF Cardinality, Topo!Cardinality

\* Before the checks there is nothing to maintain.
LEMMA TopologyInit == Topo!Init => TopologyInv
  BY DEF Topo!Init, TopologyInv, Topo!AcceptsTheAcyclic

\* The counts the loop starts with are right.
LEMMA CheckKeeps ==
  ASSUME TopologyInv, Topo!Check
  PROVE  TopologyInv'
<1>1. spec' = spec /\ Topo!ById' = Topo!ById /\ ordered' = {}
  BY DEF TopologyInv, Topo!Check, Topo!ById
<1>2. /\ \A u : Topo!Predecessors(u)' = Topo!Predecessors(u)
      /\ Topo!WellFormed' = Topo!WellFormed
  BY <1>1 DEF Topo!Predecessors, Topo!Edges, Topo!WellFormed
<1>3. CASE ~Topo!WellFormed
  BY <1>1, <1>2, <1>3 DEF TopologyInv, Topo!Check, Topo!AcceptsTheAcyclic
<1>4. CASE Topo!WellFormed
  <2>1. at' = "sort"
    BY <1>4 DEF Topo!Check
  <2>2. \A u : Cardinality(Topo!Predecessors(u)) \in Nat
    <3>1. \A u : Topo!Predecessors(u) \ {} = Topo!Predecessors(u)
      OBVIOUS
    <3> QED
      BY <3>1, Counting DEF TopologyInv
  <2>3. indegree' = [u \in Ids |->
                       IF u \in Topo!ById
                       THEN Cardinality(Topo!Predecessors(u)) ELSE 0]
    BY <1>4, SameCount DEF Topo!Check
  <2>4. indegree' \in [Ids -> Int]
    BY <2>2, <2>3
  <2>5. \A u \in Topo!ById :
          indegree'[u] = Cardinality(Topo!Predecessors(u)' \ ordered')
    <3>1. \A u : Topo!Predecessors(u)' \ ordered' = Topo!Predecessors(u)
      BY <1>1, <1>2
    <3> QED
      BY <2>3, <3>1, UnitsAreIds DEF TopologyInv
  <2>6. queue' = {u \in Topo!ById' \ ordered' : indegree'[u] = 0}
    BY <1>1, <1>4 DEF Topo!Check
  <2>7. Loop'
    BY <1>1, <1>2, <1>4, <2>5, <2>6 DEF Loop
  <2> QED
    BY <1>1, <2>1, <2>4, <2>7 DEF TopologyInv, Topo!AcceptsTheAcyclic
<1> QED
  BY <1>3, <1>4

\* A unit in the queue has all its predecessors behind it.
LEMMA QueueIsReady ==
  ASSUME TopologyInv, Loop, NEW u \in queue
  PROVE  /\ u \in Topo!ById /\ u \notin ordered
         /\ Topo!Predecessors(u) \subseteq ordered
<1>1. u \in Topo!ById \ ordered /\ indegree[u] = 0
  BY DEF Loop
<1>2. Cardinality(Topo!Predecessors(u) \ ordered) = 0
  BY <1>1 DEF Loop
<1> QED
  BY <1>1, <1>2, Counting DEF TopologyInv

\* One turn of the loop keeps the counts, the queue and the order.
LEMMA TakeKeeps ==
  ASSUME TopologyInv, NEW u \in Ids, Topo!Take(u)
  PROVE  TopologyInv'
<1>1. Loop /\ u \in queue /\ at = "sort"
  BY DEF Topo!Take, TopologyInv
<1>2. /\ u \in Topo!ById /\ u \notin ordered
      /\ Topo!Predecessors(u) \subseteq ordered
  BY <1>1, QueueIsReady
<1>3. /\ spec' = spec /\ at' = at /\ Topo!ById' = Topo!ById
      /\ ordered' = ordered \cup {u}
  BY DEF Topo!Take, Topo!ById
<1>4. /\ \A v : Topo!Predecessors(v)' = Topo!Predecessors(v)
      /\ Topo!WellFormed' = Topo!WellFormed
  BY <1>3 DEF Topo!Predecessors, Topo!Edges, Topo!WellFormed
<1>5. \A v \in Topo!ById :
        v \in Topo!Successors(u) <=> u \in Topo!Predecessors(v)
  BY <1>2 DEF Topo!Successors, Topo!Predecessors
<1>6. u \notin Topo!Successors(u)
  BY <1>1, <1>2 DEF Loop, Topo!WellFormed, Topo!Successors
<1>7. indegree' \in [Ids -> Int]
  BY DEF Topo!Take, TopologyInv
<1>8. ASSUME NEW v \in Topo!ById
      PROVE  indegree'[v] = Cardinality(Topo!Predecessors(v)' \ ordered')
  <2> DEFINE P == Topo!Predecessors(v) \ ordered
  <2>1. Topo!Predecessors(v)' \ ordered' = P \ {u}
    BY <1>3, <1>4
  <2>2. indegree'[v] = IF v \in Topo!Successors(u) THEN indegree[v] - 1
                                              ELSE indegree[v]
    BY UnitsAreIds DEF Topo!Take, TopologyInv
  <2>3. indegree[v] = Cardinality(P)
    BY <1>1 DEF Loop
  <2>4. CASE v \in Topo!Successors(u)
    <3>1. u \in P
      BY <1>2, <1>5, <2>4
    <3>2. Cardinality(P \ {u}) = Cardinality(P) - 1
      BY <3>1, Counting, FS_RemoveElement DEF TopologyInv
    <3> QED
      BY <2>1, <2>2, <2>3, <2>4, <3>2
  <2>5. CASE v \notin Topo!Successors(u)
    <3>1. P \ {u} = P
      BY <1>5, <2>5
    <3> QED
      BY <2>1, <2>2, <2>3, <2>5, <3>1
  <2> QED
    BY <2>4, <2>5
<1>9. queue' = {v \in Topo!ById' \ ordered' : indegree'[v] = 0}
  <2>1. queue' = (queue \ {u})
                   \cup {v \in Topo!Successors(u) : indegree'[v] = 0}
    BY DEF Topo!Take
  <2>2. \A v \in Topo!ById \ Topo!Successors(u) : indegree'[v] = indegree[v]
    BY UnitsAreIds DEF Topo!Take, TopologyInv
  <2>3. queue \cap Topo!Successors(u) = {}
    BY <1>1, <1>2, <1>5, QueueIsReady
  <2>4. Topo!Successors(u) \cap ordered' = {}
    BY <1>1, <1>2, <1>3, <1>5, <1>6 DEF Loop, TopologyInv
  <2>5. Topo!Successors(u) \subseteq Topo!ById
    BY DEF Topo!Successors
  <2>6. queue = {v \in Topo!ById \ ordered : indegree[v] = 0}
    BY <1>1 DEF Loop
  <2> QED
    BY <1>3, <2>1, <2>2, <2>3, <2>4, <2>5, <2>6
<1>10. \A v \in ordered' : Topo!Predecessors(v)' \subseteq ordered'
  BY <1>1, <1>2, <1>3, <1>4 DEF Loop
<1>11. ASSUME NEW S \in SUBSET Topo!ById, Waits(S)
       PROVE  S \cap ordered' = {}
  <2>1. S \cap ordered = {}
    BY <1>1, <1>11 DEF Loop
  <2>2. u \notin S
    BY <1>2, <1>11, <2>1 DEF Waits
  <2> QED
    BY <1>3, <2>1, <2>2
<1>12. \A S : Waits(S)' <=> Waits(S)
  BY <1>4 DEF Waits
<1>13. Loop'
  BY <1>1, <1>3, <1>4, <1>8, <1>9, <1>10, <1>11, <1>12 DEF Loop
<1>14. ordered' \subseteq Topo!ById'
  BY <1>2, <1>3 DEF TopologyInv
<1> QED
  BY <1>1, <1>3, <1>7, <1>13, <1>14 DEF TopologyInv, Topo!AcceptsTheAcyclic

\* When the queue is empty, what is left waits for itself.
LEMMA FinishKeeps ==
  ASSUME TopologyInv, Topo!Finish
  PROVE  TopologyInv'
<1>1. Loop /\ at = "sort" /\ queue = {}
  BY DEF Topo!Finish, TopologyInv
<1>2. ordered = Topo!ById <=> Topo!Acyclic
  <2>1. ASSUME ordered = Topo!ById PROVE Topo!Acyclic
    BY <1>1, <2>1 DEF Topo!Acyclic, Loop, Waits
  <2>2. ASSUME ordered # Topo!ById PROVE ~Topo!Acyclic
    <3> DEFINE S == Topo!ById \ ordered
    <3>1. S # {} /\ S \in SUBSET Topo!ById
      BY <2>2 DEF TopologyInv
    <3>2. ASSUME NEW u \in S PROVE \E v \in S : v \in Topo!Predecessors(u)
      <4>1. indegree[u] # 0 /\ u \in Topo!ById
        BY <1>1 DEF Loop
      <4>2. Cardinality(Topo!Predecessors(u) \ ordered) # 0
        BY <1>1, <4>1 DEF Loop
      <4>3. Topo!Predecessors(u) \ ordered # {}
        BY <4>2, Counting DEF TopologyInv
      <4> QED
        BY <4>3 DEF Topo!Predecessors
    <3> QED
      BY <3>1, <3>2 DEF Topo!Acyclic
  <2> QED
    BY <2>1, <2>2
<1>3. UNCHANGED <<spec, indegree, queue, ordered>>
  BY DEF Topo!Finish
<1>4. /\ Topo!ById' = Topo!ById /\ Topo!WellFormed' = Topo!WellFormed
      /\ Topo!Acyclic' = Topo!Acyclic
  BY <1>3 DEF Topo!ById, Topo!WellFormed, Topo!Acyclic, Topo!Edges,
              Topo!Predecessors
<1>5. at' = IF ordered = Topo!ById THEN "accepted" ELSE "rejected"
  BY DEF Topo!Finish
<1>6. Topo!AcceptsTheAcyclic'
  BY <1>1, <1>2, <1>4, <1>5 DEF Topo!AcceptsTheAcyclic, Loop
<1> QED
  BY <1>3, <1>4, <1>5, <1>6 DEF TopologyInv

\* The invariant is about the variables alone.
LEMMA StutterKeeps ==
  ASSUME TopologyInv, UNCHANGED Topo!vars
  PROVE  TopologyInv'
<1>1. UNCHANGED <<spec, at, indegree, queue, ordered>>
  BY DEF Topo!vars
<1>2. Topo!ById' = Topo!ById /\ Topo!Edges' = Topo!Edges
  BY <1>1 DEF Topo!ById, Topo!Edges
<1>3. \A u : Topo!Predecessors(u)' = Topo!Predecessors(u)
  BY <1>2 DEF Topo!Predecessors
<1>4. Topo!WellFormed' = Topo!WellFormed
  BY <1>1, <1>2 DEF Topo!WellFormed
<1>5. Topo!Acyclic' = Topo!Acyclic
  BY <1>2, <1>3 DEF Topo!Acyclic
<1>6. \A S : Waits(S)' <=> Waits(S)
  BY <1>3 DEF Waits
<1>7. Loop' = Loop
  BY <1>1, <1>2, <1>3, <1>4, <1>6 DEF Loop
<1> QED
  BY <1>1, <1>2, <1>4, <1>5, <1>7 DEF TopologyInv, Topo!AcceptsTheAcyclic

\* TopologyInv holds throughout validate_topology.
LEMMA TopologyInvariance == Topo!Spec => []TopologyInv
<1>1. TopologyInv /\ [Topo!Next]_(Topo!vars) => TopologyInv'
  BY CheckKeeps, TakeKeeps, FinishKeeps, StutterKeeps DEF Topo!Next
<1> QED
  BY TopologyInit, <1>1, PTL DEF Topo!Spec

\* validate_topology accepts a topology exactly if it passes the checks and
\* has no cycle, whatever its size and in whatever order the loop runs.
THEOREM AcceptanceIsAcyclicity == Topo!Spec => []Topo!AcceptsTheAcyclic
<1>1. TopologyInv => Topo!AcceptsTheAcyclic
  BY DEF TopologyInv
<1> QED
  BY TopologyInvariance, <1>1, PTL

\* The loop takes every unit after all of its predecessors and never twice,
\* so it ends after as many turns as there are units.
THEOREM UnitsAreTakenInOrder == Topo!Spec => Topo!TakesInOrder
<1>1. ASSUME TopologyInv, [Topo!Next]_(Topo!vars)
      PROVE  [\A u \in Ids : Topo!Take(u) =>
                u \notin ordered /\
                Topo!Predecessors(u) \subseteq ordered]_(Topo!vars)
  <2>1. ASSUME NEW u \in Ids, Topo!Take(u)
        PROVE  u \notin ordered /\ Topo!Predecessors(u) \subseteq ordered
    <3>1. Loop /\ u \in queue
      BY <1>1, <2>1 DEF Topo!Take, TopologyInv
    <3> QED
      BY <1>1, <3>1, QueueIsReady
  <2> QED
    BY <2>1
<1> QED
  BY TopologyInvariance, <1>1, PTL DEF Topo!Spec, Topo!TakesInOrder
=============================================================================
