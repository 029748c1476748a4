---------------------- MODULE ProviderConnectionsProofs ----------------------
(***************************************************************************)
(* Theorems about ProviderConnections, for any users, connections,         *)
(* boundaries and bounds.  Copies of records are never forgotten, so what  *)
(* a binding or a creation rests on stays in the sets that hold them.      *)
(***************************************************************************)
EXTENDS ProviderConnections, TLAPS

\* uuid4 gives an id of the right type where one is left.
LEMMA FreshIdType ==
  ASSUME NEW ids, NEW requests, HasFreshId(ids, requests)
  PROVE  FreshId(ids, requests) \in ids
BY DEF HasFreshId, FreshId

\* Every record keeps its shape.
THEOREM TypeCorrect == Spec => []TypeOK
<1>1. Init => TypeOK
  <2> SUFFICES ASSUME Init PROVE TypeOK
    OBVIOUS
  <2>1. copies \subseteq ConnectionRecords
    BY DEF Init, ConnectionRecords, States
  <2>2. permission \in [Permissions -> [Organizations -> SUBSET Users]]
    BY DEF Init
  <2> QED
    BY <2>1, <2>2, ProviderAssumption DEF Init, TypeOK
<1>2. TypeOK /\ [Next]_vars => TypeOK'
  <2> SUFFICES ASSUME TypeOK, [Next]_vars PROVE TypeOK'
    OBVIOUS
  <2>1. ASSUME NEW u \in Users, NEW c \in copies, Inquire(u, c)
        PROVE  TypeOK'
    BY <2>1 DEF Inquire, TypeOK, records, outside
  <2>2. ASSUME NEW u \in Users, NEW c \in copies, Refuse(u, c)
        PROVE  TypeOK'
    BY <2>2 DEF Refuse, TypeOK, records, outside
  <2>3. ASSUME NEW u \in Users, NEW c \in copies, NEW s \in Scopes,
               NEW k \in Candidates, RequestAttachment(u, c, s, k)
        PROVE  TypeOK'
    BY <2>3, FreshIdType
       DEF RequestAttachment, TypeOK, AttachmentRequests, ConnectionRecords,
           outside
  <2>4. ASSUME NEW u \in Users, NEW c \in copies,
               NEW r \in attachments, ApproveAttachment(u, c, r)
        PROVE  TypeOK'
    <3>1. r \in AttachmentRequests
      BY DEF TypeOK
    <3>2. [r EXCEPT !.state = "approved", !.reviewer = u] \in AttachmentRequests
      BY <3>1 DEF AttachmentRequests
    <3>3. [request |-> r.id, scope |-> r.scope, connection |-> r.connection,
           candidate |-> r.candidate] \in Bindings
      BY <3>1 DEF AttachmentRequests, Bindings
    <3> QED
      BY <2>4, <3>2, <3>3 DEF ApproveAttachment, TypeOK, outside
  <2>5. ASSUME NEW u \in Users, NEW c \in copies, RequestBootstrap(u, c)
        PROVE  TypeOK'
    BY <2>5, FreshIdType
       DEF RequestBootstrap, TypeOK, BootstrapRequests, ConnectionRecords,
           outside
  <2>6. ASSUME NEW u \in Users, NEW c \in copies,
               NEW r \in bootstraps, ApproveBootstrap(u, c, r)
        PROVE  TypeOK'
    <3>1. [r EXCEPT !.state = "approved", !.approver = u] \in BootstrapRequests
      BY DEF TypeOK, BootstrapRequests
    <3> QED
      BY <2>6, <3>1 DEF ApproveBootstrap, TypeOK, outside
  <2>7. ASSUME NEW c \in copies, NEW r \in bootstraps,
               NEW k \in Candidates, CreateContainer(c, r, k)
        PROVE  TypeOK'
    <3>1. [r EXCEPT !.state = "created", !.candidate = k] \in BootstrapRequests
      BY DEF TypeOK, BootstrapRequests
    <3>2. [container |-> k, request |-> r.id]
            \in [container : Candidates, request : BootstrapIds]
      BY DEF TypeOK, BootstrapRequests
    <3> QED
      BY <2>7, <3>1, <3>2 DEF CreateContainer, TypeOK, outside
  <2>8. CASE Change
    <3>1. changes' \in 0..MaxChanges /\ shown' \subseteq Candidates
      BY <2>8, ProviderAssumption DEF Change, TypeOK
    <3>2. copies' \subseteq ConnectionRecords
      BY <2>8 DEF Change, TypeOK
    <3>3. permission' \in [Permissions -> [Organizations -> SUBSET Users]]
      BY <2>8 DEF Change, TypeOK
    <3>4. allowed' \in BOOLEAN
      <4>1. allowed' = ~allowed \/ allowed' = allowed
        BY <2>8 DEF Change
      <4> QED
        BY <4>1, Zenon DEF TypeOK
    <3>5. UNCHANGED records
      BY <2>8 DEF Change
    <3> QED
      BY <3>1, <3>2, <3>3, <3>4, <3>5 DEF TypeOK, records
  <2>9. CASE UNCHANGED vars
    BY <2>9 DEF vars, TypeOK
  <2> QED
    BY <2>1, <2>2, <2>3, <2>4, <2>5, <2>6, <2>7, <2>8, <2>9 DEF Next
<1> QED
  BY <1>1, <1>2, PTL DEF Spec

---------------------------------------------------------------------------
\* Every approved copy of a bootstrap request was made from a pending one,
\* by another user: what create_container cannot see from the copy alone.
ApprovalsAreReal ==
  \A r \in bootstraps : r.state = "approved" =>
    \E asked \in bootstraps :
      /\ asked.state = "pending_approval"
      /\ r = [asked EXCEPT !.state = "approved", !.approver = r.approver]
      /\ r.approver \in Users \ {asked.by}

\* Behind every binding stand two users, whichever copies of a request are
\* passed to approve_attachment.
THEOREM BindingsTakeTwo == Spec => []BindingTakesTwo
<1>1. Init => BindingTakesTwo
  BY DEF Init, BindingTakesTwo
<1>2. TypeOK /\ BindingTakesTwo /\ [Next]_vars => BindingTakesTwo'
  <2> SUFFICES ASSUME TypeOK, BindingTakesTwo, [Next]_vars
               PROVE  BindingTakesTwo'
    OBVIOUS
  <2>1. CASE attachments \subseteq attachments' /\ bindings' = bindings
    BY <2>1 DEF BindingTakesTwo, AskedAndApproved
  <2>2. ASSUME NEW u \in Users, NEW c \in copies,
               NEW r \in attachments, ApproveAttachment(u, c, r)
        PROVE  BindingTakesTwo'
    <3> DEFINE approved == [r EXCEPT !.state = "approved", !.reviewer = u]
               binding == [request |-> r.id, scope |-> r.scope,
                           connection |-> r.connection,
                           candidate |-> r.candidate]
    <3>1. r \in AttachmentRequests
      BY DEF TypeOK
    <3>2. attachments' = attachments \cup {approved}
          /\ bindings' = bindings \cup {binding}
      BY <2>2 DEF ApproveAttachment
    <3>3. r.state = "pending_review" /\ u # r.by
      BY <2>2 DEF ApproveAttachment, MayApprove
    <3>4. approved.reviewer = u
          /\ approved = [r EXCEPT !.state = "approved",
                                  !.reviewer = approved.reviewer]
      BY <3>1 DEF AttachmentRequests
    <3>5. ASSUME NEW b \in bindings'
          PROVE  AskedAndApproved(b)'
      <4>1. CASE b \in bindings
        <5>1. AskedAndApproved(b)
          BY <4>1 DEF BindingTakesTwo, AskedAndApproved
        <5> QED
          BY <5>1, <3>2 DEF AskedAndApproved
      <4>2. CASE b = binding
        <5>1. r \in attachments' /\ approved \in attachments'
          BY <3>2
        <5> HIDE DEF approved
        <5> QED
          BY <4>2, <5>1, <3>3, <3>4 DEF AskedAndApproved
      <4> QED
        BY <4>1, <4>2, <3>2
    <3> QED
      BY <3>5 DEF BindingTakesTwo, AskedAndApproved
  <2>3. CASE \E u \in Users, c \in copies, r \in attachments :
               ApproveAttachment(u, c, r)
    BY <2>2, <2>3
  <2>4. CASE Change \/ UNCHANGED vars
    BY <2>1, <2>4 DEF Change, records, vars
  <2>5. CASE \E u \in Users, c \in copies :
               \/ Inquire(u, c) \/ Refuse(u, c)
               \/ \E s \in Scopes, k \in Candidates :
                    RequestAttachment(u, c, s, k)
               \/ RequestBootstrap(u, c)
               \/ \E r \in bootstraps : ApproveBootstrap(u, c, r)
    BY <2>1, <2>5 DEF Inquire, Refuse, RequestAttachment, RequestBootstrap,
                      ApproveBootstrap, records
  <2>6. CASE \E c \in copies, r \in bootstraps, k \in Candidates :
               CreateContainer(c, r, k)
    BY <2>1, <2>6 DEF CreateContainer
  <2> QED
    BY <2>3, <2>4, <2>5, <2>6 DEF Next
<1> QED
  BY <1>1, <1>2, TypeCorrect, PTL DEF Spec

---------------------------------------------------------------------------
\* The privileged adapter is called only for a request one user made and
\* another approved, whichever copies are passed to create_container.
THEOREM CreationsTakeTwo == Spec => []CreationTakesTwo
<1> DEFINE IInv == CreationTakesTwo /\ ApprovalsAreReal
<1>1. Init => IInv
  BY DEF Init, CreationTakesTwo, ApprovalsAreReal
<1>2. TypeOK /\ IInv /\ [Next]_vars => IInv'
  <2> SUFFICES ASSUME TypeOK, CreationTakesTwo, ApprovalsAreReal,
                      [Next]_vars
               PROVE  CreationTakesTwo' /\ ApprovalsAreReal'
    OBVIOUS
  <2>1. CASE bootstraps' = bootstraps /\ created' = created
    BY <2>1 DEF CreationTakesTwo, ApprovalsAreReal
  <2>2. ASSUME bootstraps \subseteq bootstraps', created' = created
        PROVE  CreationTakesTwo'
    BY <2>2 DEF CreationTakesTwo
  <2>3. ASSUME NEW u \in Users, NEW c \in copies, RequestBootstrap(u, c)
        PROVE  CreationTakesTwo' /\ ApprovalsAreReal'
    <3>1. CreationTakesTwo'
      BY <2>2, <2>3 DEF RequestBootstrap
    <3>2. ASSUME NEW r \in bootstraps', r.state = "approved"
          PROVE  r \in bootstraps
      BY <2>3, <3>2 DEF RequestBootstrap
    <3>3. bootstraps \subseteq bootstraps'
      BY <2>3 DEF RequestBootstrap
    <3> QED
      BY <3>1, <3>2, <3>3 DEF ApprovalsAreReal
  <2>4. ASSUME NEW u \in Users, NEW c \in copies,
               NEW r \in bootstraps, ApproveBootstrap(u, c, r)
        PROVE  CreationTakesTwo' /\ ApprovalsAreReal'
    <3> DEFINE approved == [r EXCEPT !.state = "approved", !.approver = u]
    <3>1. r \in BootstrapRequests
      BY DEF TypeOK
    <3>2. bootstraps' = bootstraps \cup {approved} /\ created' = created
      BY <2>4 DEF ApproveBootstrap
    <3>3. r.state = "pending_approval" /\ u # r.by
      BY <2>4 DEF ApproveBootstrap
    <3>4. approved.approver = u
          /\ approved = [r EXCEPT !.state = "approved",
                                  !.approver = approved.approver]
      BY <3>1 DEF BootstrapRequests
    <3>5. CreationTakesTwo'
      BY <2>2, <3>2
    <3> HIDE DEF approved
    <3>6. ApprovalsAreReal'
      BY <3>2, <3>3, <3>4 DEF ApprovalsAreReal
    <3> QED
      BY <3>5, <3>6
  <2>5. ASSUME NEW c \in copies, NEW r \in bootstraps,
               NEW k \in Candidates, CreateContainer(c, r, k)
        PROVE  CreationTakesTwo' /\ ApprovalsAreReal'
    <3> DEFINE x == [container |-> k, request |-> r.id]
    <3>1. r \in BootstrapRequests
      BY DEF TypeOK
    <3>2. created' = created \cup {x} /\ bootstraps \subseteq bootstraps'
      BY <2>5 DEF CreateContainer
    <3>3. PICK asked \in bootstraps :
            /\ asked.state = "pending_approval"
            /\ r = [asked EXCEPT !.state = "approved", !.approver = r.approver]
            /\ r.approver \in Users \ {asked.by}
      BY <2>5 DEF CreateContainer, MayCreate, ApprovalsAreReal
    <3>4. asked.id = x.request
      BY <3>1, <3>3 DEF BootstrapRequests, TypeOK
    <3>5. CreationTakesTwo'
      BY <3>2, <3>3, <3>4 DEF CreationTakesTwo
    <3>6. ASSUME NEW s \in bootstraps', s.state = "approved"
          PROVE  s \in bootstraps
      BY <2>5, <3>1, <3>6 DEF CreateContainer, BootstrapRequests
    <3>7. ApprovalsAreReal'
      BY <3>2, <3>6 DEF ApprovalsAreReal
    <3> QED
      BY <3>5, <3>7
  <2>6. CASE \E u \in Users, c \in copies :
               \/ Inquire(u, c) \/ Refuse(u, c)
               \/ \E s \in Scopes, k \in Candidates :
                    RequestAttachment(u, c, s, k)
               \/ \E r \in attachments : ApproveAttachment(u, c, r)
    BY <2>1, <2>6 DEF Inquire, Refuse, RequestAttachment, ApproveAttachment,
                      records
  <2>7. CASE Change \/ UNCHANGED vars
    BY <2>1, <2>7 DEF Change, records, vars
  <2> QED
    BY <2>3, <2>4, <2>5, <2>6, <2>7 DEF Next
<1> QED
  BY <1>1, <1>2, TypeCorrect, PTL DEF Spec

---------------------------------------------------------------------------
\* Nobody approves for a connection by his say in the organization of
\* another, and a container lies where the connection of the request
\* reached, whichever copies of connections and requests are passed.
THEOREM ApprovalsAreForTheirConnection == Spec => ApprovedForItsConnection
<1> DEFINE Attached(r) ==
      r.state = "approved" =>
        \E c \in copies : /\ Vouches(c, r, {r.candidate})
                         /\ Permits("review_attachment", r.reviewer, c)
    Bootstrapped(r) ==
      /\ r.state = "approved" =>
           \E c \in copies : /\ Vouches(c, r, {})
                            /\ Permits("approve_bootstrap", r.approver, c)
      /\ r.state = "created" =>
           \E c \in copies : Vouches(c, r, {r.candidate})
<1>1. ASSUME TypeOK, Next
      PROVE  /\ \A r \in attachments' \ attachments : Attached(r)
             /\ \A r \in bootstraps' \ bootstraps : Bootstrapped(r)
  <2>1. CASE UNCHANGED records
    BY <2>1 DEF records
  <2>2. ASSUME NEW u \in Users, NEW c \in copies, NEW s \in Scopes,
               NEW k \in Candidates, RequestAttachment(u, c, s, k)
        PROVE  /\ \A r \in attachments' \ attachments : Attached(r)
               /\ bootstraps' = bootstraps
    BY <2>2 DEF RequestAttachment
  <2>3. ASSUME NEW u \in Users, NEW c \in copies, NEW r \in attachments,
               ApproveAttachment(u, c, r)
        PROVE  /\ \A a \in attachments' \ attachments : Attached(a)
               /\ bootstraps' = bootstraps
    <3> DEFINE a == [r EXCEPT !.state = "approved", !.reviewer = u]
    <3>1. /\ a.connection = r.connection /\ a.candidate = r.candidate
          /\ a.reviewer = u
      BY DEF TypeOK, AttachmentRequests
    <3>2. attachments' = attachments \cup {a} /\ bootstraps' = bootstraps
      BY <2>3 DEF ApproveAttachment
    <3> HIDE DEF a
    <3>3. Vouches(c, a, {a.candidate}) /\ Permits("review_attachment", a.reviewer, c)
      BY <2>3, <3>1 DEF ApproveAttachment, MayApprove, Vouches
    <3> QED
      BY <3>2, <3>3
  <2>4. ASSUME NEW u \in Users, NEW c \in copies, RequestBootstrap(u, c)
        PROVE  /\ \A r \in bootstraps' \ bootstraps : Bootstrapped(r)
               /\ attachments' = attachments
    BY <2>4 DEF RequestBootstrap
  <2>5. ASSUME NEW u \in Users, NEW c \in copies, NEW r \in bootstraps,
               ApproveBootstrap(u, c, r)
        PROVE  /\ \A a \in bootstraps' \ bootstraps : Bootstrapped(a)
               /\ attachments' = attachments
    <3> DEFINE a == [r EXCEPT !.state = "approved", !.approver = u]
    <3>1. a.state = "approved" /\ a.connection = r.connection /\ a.approver = u
      BY DEF TypeOK, BootstrapRequests
    <3>2. bootstraps' = bootstraps \cup {a} /\ attachments' = attachments
      BY <2>5 DEF ApproveBootstrap
    <3> HIDE DEF a
    <3>3. Vouches(c, a, {}) /\ Permits("approve_bootstrap", a.approver, c)
      BY <2>5, <3>1 DEF ApproveBootstrap, Vouches
    <3> QED
      BY <3>1, <3>2, <3>3
  <2>6. ASSUME NEW c \in copies, NEW r \in bootstraps, NEW k \in Candidates,
               CreateContainer(c, r, k)
        PROVE  /\ \A a \in bootstraps' \ bootstraps : Bootstrapped(a)
               /\ attachments' = attachments
    <3> DEFINE a == [r EXCEPT !.state = "created", !.candidate = k]
    <3>1. /\ a.state = "created" /\ a.connection = r.connection
          /\ a.candidate = k
      BY DEF TypeOK, BootstrapRequests
    <3>2. /\ attachments' = attachments
          /\ \/ bootstraps' = bootstraps
             \/ bootstraps' = bootstraps \cup {a} /\ WithinBoundary(c, k)
      BY <2>6 DEF CreateContainer
    <3> HIDE DEF a
    <3>3. WithinBoundary(c, k) => Vouches(c, a, {a.candidate})
      BY <2>6, <3>1 DEF CreateContainer, MayCreate, HasAdapter, Vouches
    <3> QED
      BY <3>1, <3>2, <3>3
  <2>7. \/ UNCHANGED records
        \/ \E u \in Users, c \in copies :
             \/ \E s \in Scopes, k \in Candidates :
                  RequestAttachment(u, c, s, k)
             \/ \E r \in attachments : ApproveAttachment(u, c, r)
             \/ RequestBootstrap(u, c)
             \/ \E r \in bootstraps : ApproveBootstrap(u, c, r)
        \/ \E c \in copies, r \in bootstraps, k \in Candidates :
             CreateContainer(c, r, k)
    BY <1>1 DEF Next, Inquire, Refuse, Change
  <2> HIDE DEF Attached, Bootstrapped
  <2>8. ASSUME attachments' = attachments
        PROVE  \A r \in attachments' \ attachments : Attached(r)
    BY <2>8
  <2>9. ASSUME bootstraps' = bootstraps
        PROVE  \A r \in bootstraps' \ bootstraps : Bootstrapped(r)
    BY <2>9
  <2> QED
    BY <2>1, <2>2, <2>3, <2>4, <2>5, <2>6, <2>7, <2>8, <2>9
<1>2. TypeOK /\ [Next]_vars =>
        [/\ \A r \in attachments' \ attachments : Attached(r)
         /\ \A r \in bootstraps' \ bootstraps : Bootstrapped(r)]_vars
  BY <1>1
<1> QED
  BY <1>2, TypeCorrect, PTL DEF Spec, ApprovedForItsConnection
=============================================================================
