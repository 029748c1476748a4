------------------------ MODULE ProviderConnections ------------------------
(***************************************************************************)
(* Cloud provider connections (gateway/provider_connections.py): inquiry,  *)
(* reviewed attachment of existing containers to resource scopes, and      *)
(* approved creation of new ones.                                          *)
(*                                                                         *)
(* The services keep nothing.  They take records, of connections as of     *)
(* requests, and never load one again: whoever calls them may pass any     *)
(* copy there ever was, of a connection suspended or moved since as well.  *)
(* What is current are the answers of the authorizers, asked about the     *)
(* organization of the connection passed, and of the policy.  They live    *)
(* outside this file and change between calls.  A call is one step:        *)
(* nothing in it awaits.                                                   *)
(***************************************************************************)
EXTENDS Naturals, FiniteSets

CONSTANTS
  Users,
  Connections,   \* connection ids
  Organizations,
  Boundaries,  \* a provider and one of its boundary references
  Served,      \* boundaries of a provider that has an adapter configured
  Scopes,
  Containers,  \* container references
  Nobody,
  MaxAttachments, \* bound: attachment requests
  MaxBootstraps,  \* bound: bootstrap requests
  MaxChanges      \* bound: changes outside the services

ASSUME ProviderAssumption ==
  MaxAttachments \in Nat /\ MaxBootstraps \in Nat /\ MaxChanges \in Nat

VARIABLES
  copies,      \* every copy of a ProviderConnection there ever was
  permission,  \* who the three authorizers say yes to, per permission and
               \* organization
  allowed,     \* whether the organization's policy permits bootstrap
  attachments, \* every copy of a ContainerAttachmentRequest returned
  bindings,    \* every CloudResourceContainerBinding returned
  bootstraps,  \* every copy of a ProviderContainerBootstrapRequest returned
  created,     \* containers the privileged adapter has created
  shown,       \* output: the candidates an inquiry returns
  changes      \* counts external changes, for the bound

records == <<attachments, bindings, bootstraps, created>>
outside == <<copies, permission, allowed, changes>>
vars == <<copies, permission, allowed, attachments, bindings, bootstraps,
          created, shown, changes>>

States == {"pending", "verified", "active", "suspended"}
Permissions == {"inquire", "request_attachment", "review_attachment",
                "request_bootstrap", "approve_bootstrap"}

ConnectionRecords ==
  [id : Connections, organization : Organizations, state : States,
   boundary : Boundaries]

Candidates == [boundary : Boundaries, ref : Containers]
NoCandidate == [ref |-> Nobody]

AttachmentIds == 1..MaxAttachments
BootstrapIds  == 1..MaxBootstraps

AttachmentRequests ==
  [id : AttachmentIds, scope : Scopes, connection : Connections,
   candidate : Candidates, by : Users, state : {"pending_review", "approved"},
   reviewer : Users \cup {Nobody}]

BootstrapRequests ==
  [id : BootstrapIds, connection : Connections, by : Users,
   state : {"pending_approval", "approved", "created"},
   approver : Users \cup {Nobody}, candidate : Candidates \cup {NoCandidate}]

Bindings ==
  [request : AttachmentIds, scope : Scopes, connection : Connections,
   candidate : Candidates]

Init ==
  /\ \E organization \in [Connections -> Organizations],
        boundary \in [Connections -> Boundaries] :
       copies = {[id |-> c, organization |-> organization[c],
                  state |-> "active", boundary |-> boundary[c]] :
                 c \in Connections}
  /\ \E admins \in [Organizations -> SUBSET Users] :
       permission = [p \in Permissions |-> admins]
  /\ allowed = TRUE
  /\ attachments = {} /\ bindings = {} /\ bootstraps = {} /\ created = {}
  /\ shown = {}
  /\ changes = 0

---------------------------------------------------------------------------
\* require_active, of the copy of the connection it is called on.
RequireActive(c) == c.state = "active"

\* The adapter registries: active, and an adapter for its provider.
HasAdapter(c) == RequireActive(c) /\ c.boundary \in Served

\* _require_connection_candidate
WithinBoundary(c, candidate) == candidate.boundary = c.boundary

\* An authorizer says yes to the user for the organization of the copy.
Permits(p, u, c) == u \in permission[p][c.organization]

\* Mutant of FreshId: numbered by the records there are, copies included.
FreshIdByCount(ids, requests) == Cardinality(requests) + 1

\* uuid4: an id no record has.
FreshId(ids, requests) == CHOOSE i \in ids : \A r \in requests : r.id # i
HasFreshId(ids, requests) == \E i \in ids : \A r \in requests : r.id # i

\* inquire: what the adapter lists, less what lies outside the boundary.
Inquire(u, c) ==
  /\ Permits("inquire", u, c)
  /\ HasAdapter(c)
  /\ \E listed \in SUBSET Candidates :
       shown' = {k \in listed : WithinBoundary(c, k)}
  /\ UNCHANGED <<records, outside>>

\* A call raises and returns nothing.  All refusals look like this one.
Refuse(u, c) ==
  /\ ~ (Permits("inquire", u, c) /\ HasAdapter(c))
  /\ shown' = {}
  /\ UNCHANGED <<records, outside>>

RequestAttachment(u, c, s, k) ==
  /\ RequireActive(c)
  /\ WithinBoundary(c, k)
  /\ Permits("request_attachment", u, c)
  /\ HasFreshId(AttachmentIds, attachments)
  /\ attachments' = attachments \cup
       {[id |-> FreshId(AttachmentIds, attachments), scope |-> s,
         connection |-> c.id, candidate |-> k, by |-> u,
         state |-> "pending_review", reviewer |-> Nobody]}
  /\ shown' = {}
  /\ UNCHANGED <<bindings, bootstraps, created, outside>>

\* Mutants of MayApprove: the connection passed is not compared with that
\* of the request; the requester may approve.
MayApproveElsewhere(u, c, r) ==
  /\ RequireActive(c)
  /\ r.state = "pending_review"
  /\ u # r.by
  /\ WithinBoundary(c, r.candidate)
  /\ Permits("review_attachment", u, c)

MayApproveOwn(u, c, r) ==
  /\ RequireActive(c)
  /\ r.state = "pending_review"
  /\ r.connection = c.id
  /\ WithinBoundary(c, r.candidate)
  /\ Permits("review_attachment", u, c)

\* The checks of approve_attachment, on the copy r it is given.
MayApprove(u, c, r) ==
  /\ RequireActive(c)
  /\ r.state = "pending_review"
  /\ r.connection = c.id
  /\ u # r.by
  /\ WithinBoundary(c, r.candidate)
  /\ Permits("review_attachment", u, c)

\* approve_attachment returns an approved copy and a binding.
ApproveAttachment(u, c, r) ==
  /\ MayApprove(u, c, r)
  /\ attachments' = attachments \cup
       {[r EXCEPT !.state = "approved", !.reviewer = u]}
  /\ bindings' = bindings \cup
       {[request |-> r.id, scope |-> r.scope, connection |-> r.connection,
         candidate |-> r.candidate]}
  /\ shown' = {}
  /\ UNCHANGED <<bootstraps, created, outside>>

RequestBootstrap(u, c) ==
  /\ RequireActive(c)
  /\ allowed
  /\ Permits("request_bootstrap", u, c)
  /\ HasFreshId(BootstrapIds, bootstraps)
  /\ bootstraps' = bootstraps \cup
       {[id |-> FreshId(BootstrapIds, bootstraps), connection |-> c.id, by |-> u,
         state |-> "pending_approval", approver |-> Nobody,
         candidate |-> NoCandidate]}
  /\ shown' = {}
  /\ UNCHANGED <<attachments, bindings, created, outside>>

ApproveBootstrap(u, c, r) ==
  /\ RequireActive(c)
  /\ r.connection = c.id
  /\ r.state = "pending_approval"
  /\ u # r.by
  /\ Permits("approve_bootstrap", u, c)
  /\ bootstraps' = bootstraps \cup
       {[r EXCEPT !.state = "approved", !.approver = u]}
  /\ shown' = {}
  /\ UNCHANGED <<attachments, bindings, created, outside>>

\* Mutant of MayCreate: a request that is not created yet will do.
MayCreateUnapproved(c, r) ==
  /\ HasAdapter(c)
  /\ r.connection = c.id
  /\ r.state # "created"

\* The checks create_container makes before it calls the adapter.
MayCreate(c, r) ==
  /\ HasAdapter(c)
  /\ r.connection = c.id
  /\ r.state = "approved"

\* create_container: the adapter creates k, wherever it does; the boundary
\* is looked at after that, and a container outside it stays behind.
CreateContainer(c, r, k) ==
  /\ MayCreate(c, r)
  /\ [container |-> k, request |-> r.id] \notin created
  /\ created' = created \cup {[container |-> k, request |-> r.id]}
  /\ bootstraps' = bootstraps \cup
       IF WithinBoundary(c, k)
       THEN {[r EXCEPT !.state = "created", !.candidate = k]} ELSE {}
  /\ shown' = {}
  /\ UNCHANGED <<attachments, bindings, outside>>

\* Outside: a connection is verified, activated, suspended or moved, which
\* leaves the copies there were with whoever holds them; a permission or the
\* policy changes.
Change ==
  /\ changes < MaxChanges
  /\ changes' = changes + 1
  /\ \/ /\ \E c \in ConnectionRecords : copies' = copies \cup {c}
        /\ UNCHANGED <<permission, allowed>>
     \/ /\ \E p \in Permissions, o \in Organizations, us \in SUBSET Users :
             permission' = [permission EXCEPT ![p][o] = us]
        /\ UNCHANGED <<copies, allowed>>
     \/ allowed' = ~allowed /\ UNCHANGED <<copies, permission>>
  /\ shown' = {}
  /\ UNCHANGED records

Next ==
  \/ \E u \in Users, c \in copies :
       \/ Inquire(u, c) \/ Refuse(u, c)
       \/ \E s \in Scopes, k \in Candidates : RequestAttachment(u, c, s, k)
       \/ \E r \in attachments : ApproveAttachment(u, c, r)
       \/ RequestBootstrap(u, c)
       \/ \E r \in bootstraps : ApproveBootstrap(u, c, r)
  \/ \E c \in copies, r \in bootstraps, k \in Candidates :
       CreateContainer(c, r, k)
  \/ Change

Spec == Init /\ [][Next]_vars

---------------------------------------------------------------------------
(* Properties *)

TypeOK ==
  /\ copies \subseteq ConnectionRecords
  /\ permission \in [Permissions -> [Organizations -> SUBSET Users]]
  /\ allowed \in BOOLEAN
  /\ attachments \subseteq AttachmentRequests
  /\ bindings \subseteq Bindings
  /\ bootstraps \subseteq BootstrapRequests
  /\ created \subseteq [container : Candidates, request : BootstrapIds]
  /\ shown \subseteq Candidates
  /\ changes \in 0..MaxChanges

\* Whoever approves is someone the authorizer vouches for, in that call, for
\* an organization that the very connection of the request had when it was
\* active, and a container attached or created lies in a boundary it had
\* then: the connection passed is not another one, of an organization where
\* the approver does have a say.  The copy may be an old one: nothing in the
\* code looks at the connection again.
Vouches(c, request, candidates) ==
  /\ c.id = request.connection
  /\ RequireActive(c)
  /\ \A k \in candidates : WithinBoundary(c, k)

ApprovedForItsConnection ==
  [][/\ \A r \in attachments' \ attachments : r.state = "approved" =>
          \E c \in copies : /\ Vouches(c, r, {r.candidate})
                           /\ Permits("review_attachment", r.reviewer, c)
     /\ \A r \in bootstraps' \ bootstraps :
          /\ r.state = "approved" =>
               \E c \in copies : /\ Vouches(c, r, {})
                                /\ Permits("approve_bootstrap", r.approver, c)
          /\ r.state = "created" =>
               \E c \in copies : Vouches(c, r, {r.candidate})]_vars

\* Some user asked for exactly this container in this scope, and another
\* approved the request.
AskedAndApproved(b) ==
  \E asked, approved \in attachments :
    /\ asked.state = "pending_review"
    /\ approved = [asked EXCEPT !.state = "approved",
                                !.reviewer = approved.reviewer]
    /\ approved.reviewer \in Users \ {asked.by}
    /\ b = [request |-> asked.id, scope |-> asked.scope,
            connection |-> asked.connection, candidate |-> asked.candidate]

\* Behind every binding stand two users, whichever copies of the request
\* were passed around (provider_connections.py:355).
BindingTakesTwo == \A b \in bindings : AskedAndApproved(b)

\* The privileged adapter is called only for a request that one user made
\* and another approved.
CreationTakesTwo ==
  \A x \in created : \E asked, approved \in bootstraps :
    /\ asked.id = x.request /\ asked.state = "pending_approval"
    /\ approved = [asked EXCEPT !.state = "approved",
                                !.approver = approved.approver]
    /\ approved.approver \in Users \ {asked.by}
=============================================================================
