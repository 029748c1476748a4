----------------------------- MODULE Onboarding -----------------------------
(***************************************************************************)
(* Organization onboarding, its review, and membership by invitation, over *)
(* PostgreSQL: workflows/organization_onboarding/graph.py and              *)
(* review_graph.py, gateway/organization_onboarding_postgres.py,           *)
(* workflows/organization_member_onboarding/graph.py and                   *)
(* gateway/organization_membership_postgres.py.                            *)
(*                                                                         *)
(* A graph takes one step per transaction; a transaction that locks the    *)
(* rows it reads (FOR UPDATE) is one step.  The row of an onboarding       *)
(* request and of its organization are one record, numbered by position.   *)
(* Requests are never edited, so the onboarding digest of a request is its *)
(* number.                                                                 *)
(***************************************************************************)
EXTENDS Integers, Sequences, FiniteSets

CONSTANTS
  Users,
  NoUser,
  Boundaries,     \* identity boundaries (domains, identity providers)
  NoProof,
  Workers,        \* gateway threads running one graph each
  MaxRequests,    \* bound: onboarding requests
  MaxInvitations, \* bound: invitations created
  MaxChanges      \* bound: external changes of organizations and reviewers

ASSUME OnboardingAssumption ==
  /\ NoUser \notin Users
  /\ NoProof \notin Boundaries
  /\ {MaxRequests, MaxInvitations, MaxChanges} \subseteq Nat

VARIABLES
  organizations, \* organizations and organization_onboarding_requests
  activations,   \* history: committed activations and their reviewers
  reviewers,     \* who may_review_onboarding (external authorizer)
  permitted,     \* history: who ever could
  invitations,   \* organization_invitations
  memberships,   \* organization_memberships, with the invitation used
  changes,       \* bound: external changes so far
  work           \* what each worker is doing

authority == <<reviewers, permitted, changes>>
members   == <<invitations, memberships>>
vars == <<organizations, activations, authority, members, work>>

---------------------------------------------------------------------------
\* The columns of a request, of its organization, of the identity proof and
\* of the initial tenant administrator.
Organizations ==
  [applicant : Users, boundary : Boundaries,
   state : {"pending", "active", "suspended"},
   proof : Boundaries \cup {NoProof},
   approvedBy : Users \cup {NoUser}, admin : Users \cup {NoUser}]
Ids == DOMAIN organizations

Invitations ==
  [organization : Ids, recipient : Users, expired : BOOLEAN,
   consumed : BOOLEAN]
Memberships ==
  [user : Users, organization : Ids, state : {"active", "revoked"},
   version : 1..2, invitation : DOMAIN invitations]
Activations == [id : Ids, reviewer : Users]

Idle == [at |-> "idle"]
Starts   == [at : {"verify"}, id : Ids]
Proofs   == [at : {"persist"}, id : Ids, proof : Boundaries]
Reviews  == [at : {"load_proof"}, id : Ids, reviewer : Users]
Loaded   == [at : {"authorize", "activate"}, id : Ids, reviewer : Users,
             proof : Boundaries]
Invites  == [at : {"insert"}, id : Ids, recipient : Users]
Joins    == [at : {"accept"}, user : Users, invitation : DOMAIN invitations]
Activities == {Idle} \cup Starts \cup Proofs \cup Reviews \cup Loaded
                \cup Invites \cup Joins

Init ==
  /\ organizations = <<>>
  /\ activations = <<>>
  /\ reviewers \in SUBSET Users
  /\ permitted = reviewers
  /\ invitations = <<>>
  /\ memberships = <<>>
  /\ changes = 0
  /\ work = [w \in Workers |-> Idle]

Become(w, record) == work' = [work EXCEPT ![w] = record]

\* A step that only reads.
Read(w, record) ==
  /\ Become(w, record)
  /\ UNCHANGED <<organizations, activations, authority, members>>

---------------------------------------------------------------------------
(* /onboard-org                                                            *)

\* Mutant of ProofMatches: evidence for any boundary is accepted.
ProofMatchesAny(id, proof) == TRUE

\* The evidence is about the boundary the request names.
ProofMatches(id, proof) == proof = organizations[id].boundary

\* create_pending: the unique index admits one request per boundary.
CreatePending(w, u, b) ==
  /\ work[w] = Idle
  /\ Len(organizations) < MaxRequests
  /\ \A i \in Ids : organizations[i].boundary # b
  /\ organizations' = Append(organizations,
       [applicant |-> u, boundary |-> b, state |-> "pending",
        proof |-> NoProof, approvedBy |-> NoUser, admin |-> NoUser])
  /\ Become(w, [at |-> "verify", id |-> Len(organizations) + 1])
  /\ UNCHANGED <<activations, authority, members>>

\* verify_identity: the verifier (external) answers with evidence or None.
VerifyIdentity(w) ==
  /\ work[w].at = "verify"
  /\ \/ \E p \in Boundaries :
          Read(w, [at |-> "persist", id |-> work[w].id, proof |-> p])
     \/ Read(w, Idle)

\* record_identity_proof; evidence that does not match raises, a recorded
\* proof stays.  The graph then ends pending review: its handler passes no
\* reviewer.
PersistProof(w) ==
  LET me == work[w]
  IN /\ me.at = "persist"
     /\ IF /\ ProofMatches(me.id, me.proof)
           /\ organizations[me.id].state = "pending"
           /\ organizations[me.id].proof = NoProof
        THEN organizations' = [organizations EXCEPT ![me.id] =
               [@ EXCEPT !.proof = me.proof]]
        ELSE UNCHANGED organizations
     /\ Become(w, Idle)
     /\ UNCHANGED <<activations, authority, members>>

---------------------------------------------------------------------------
(* /review-onboard-org                                                     *)

\* load_pending, get_pending_request
BeginReview(w, u, id) ==
  /\ work[w] = Idle
  /\ organizations[id].state = "pending"
  /\ Read(w, [at |-> "load_proof", id |-> id, reviewer |-> u])

\* load_pending, get_persisted_identity_proof
LoadProof(w) ==
  LET me == work[w]
      proof == organizations[me.id].proof
  IN /\ me.at = "load_proof"
     /\ Read(w, IF proof # NoProof /\ ProofMatches(me.id, proof)
                THEN [at |-> "authorize", id |-> me.id,
                      reviewer |-> me.reviewer, proof |-> proof]
                ELSE Idle)

\* Mutant of AuthorizeReviewer: any authenticated user may review.
AuthorizeAnyone(w) ==
  /\ work[w].at = "authorize"
  /\ Read(w, [work[w] EXCEPT !.at = "activate"])

\* authorize_reviewer
AuthorizeReviewer(w) ==
  /\ work[w].at = "authorize"
  /\ Read(w, IF work[w].reviewer \in reviewers
             THEN [work[w] EXCEPT !.at = "activate"] ELSE Idle)

\* Mutant of MayActivate: the state of the locked row is not looked at.
MayActivateAgain(id, proof) == ProofMatches(id, proof)

\* What activate checks on the locked rows.
MayActivate(id, proof) ==
  /\ organizations[id].state = "pending"
  /\ ProofMatches(id, proof)

\* record_approval and activate: the approval, the boundary and the initial
\* tenant administrator are written with the activation.
Activate(w) ==
  LET me == work[w]
  IN /\ me.at = "activate"
     /\ IF MayActivate(me.id, me.proof)
        THEN /\ organizations' = [organizations EXCEPT ![me.id] =
                  [@ EXCEPT !.state = "active", !.approvedBy = me.reviewer,
                            !.admin = organizations[me.id].applicant]]
             /\ activations' = Append(activations,
                  [id |-> me.id, reviewer |-> me.reviewer])
        ELSE UNCHANGED <<organizations, activations>>
     /\ Become(w, Idle)
     /\ UNCHANGED <<authority, members>>

---------------------------------------------------------------------------
(* Invitations and memberships                                             *)

\* create_invitation reads the organization without locking it.
BeginInvite(w, u, id) ==
  /\ work[w] = Idle
  /\ Len(invitations) < MaxInvitations
  /\ organizations[id].state = "active"
  /\ Read(w, [at |-> "insert", id |-> id, recipient |-> u])

Invite(w) ==
  /\ work[w].at = "insert"
  /\ Len(invitations) < MaxInvitations
  /\ invitations' = Append(invitations,
       [organization |-> work[w].id, recipient |-> work[w].recipient,
        expired |-> FALSE, consumed |-> FALSE])
  /\ Become(w, Idle)
  /\ UNCHANGED <<organizations, activations, authority, memberships>>

\* The clock passes expires_at.
Expire(i) ==
  /\ ~invitations[i].expired
  /\ invitations' =
       [invitations EXCEPT ![i] = [@ EXCEPT !.expired = TRUE]]
  /\ UNCHANGED <<organizations, activations, authority, memberships, work>>

\* Mutants of Usable: the organization was checked by inspect_invitation
\* already; so was the invitation.
UsableAnywhere(u, i) ==
  /\ ~invitations[i].consumed
  /\ ~invitations[i].expired
  /\ invitations[i].recipient = u

UsableAgain(u, i) ==
  /\ ~invitations[i].expired
  /\ organizations[invitations[i].organization].state = "active"
  /\ invitations[i].recipient = u

UsableByAnyone(u, i) ==
  /\ ~invitations[i].consumed
  /\ ~invitations[i].expired
  /\ organizations[invitations[i].organization].state = "active"

\* The checks of inspect_invitation and, under locks, accept_invitation.
Usable(u, i) ==
  /\ ~invitations[i].consumed
  /\ ~invitations[i].expired
  /\ organizations[invitations[i].organization].state = "active"
  /\ invitations[i].recipient = u

\* validate_invitation: whoever holds the link may try.
BeginJoin(w, u, i) ==
  /\ work[w] = Idle
  /\ Usable(u, i)
  /\ Read(w, [at |-> "accept", user |-> u, invitation |-> i])

\* Mutant of Unaffiliated: the partial unique index is missing.
UnaffiliatedNot(u, id) == TRUE

\* The index organization_memberships_one_active_user_organization.
Unaffiliated(u, id) ==
  \A m \in DOMAIN memberships :
    ~(/\ memberships[m].user = u
      /\ memberships[m].organization = id
      /\ memberships[m].state = "active")

\* activate_membership: joins and consumes in one transaction, or raises
\* and rolls both back.
Accept(w) ==
  LET me == work[w]
      id == invitations[me.invitation].organization
  IN /\ me.at = "accept"
     /\ IF Usable(me.user, me.invitation) /\ Unaffiliated(me.user, id)
        THEN /\ memberships' = Append(memberships,
                  [user |-> me.user, organization |-> id,
                   state |-> "active", version |-> 1,
                   invitation |-> me.invitation])
             /\ invitations' = [invitations EXCEPT ![me.invitation] =
                  [@ EXCEPT !.consumed = TRUE]]
        ELSE UNCHANGED members
     /\ Become(w, Idle)
     /\ UNCHANGED <<organizations, activations, authority>>

\* Mutant of Revoke: a revoked membership is revoked again.
RevokeAgain(m) ==
  /\ memberships' = [memberships EXCEPT ![m] =
       [@ EXCEPT !.state = "revoked",
                 !.version = memberships[m].version + 1]]
  /\ UNCHANGED <<organizations, activations, authority, invitations, work>>

\* revoke_active_membership
Revoke(m) ==
  /\ memberships[m].state = "active"
  /\ memberships' = [memberships EXCEPT ![m] =
       [@ EXCEPT !.state = "revoked",
                 !.version = memberships[m].version + 1]]
  /\ UNCHANGED <<organizations, activations, authority, invitations, work>>

---------------------------------------------------------------------------
\* Operators of the platform suspend an organization, or resume it; a
\* reviewer permission is granted or withdrawn.
SetOrganizationState(id) ==
  /\ organizations[id].state # "pending"
  /\ organizations' = [organizations EXCEPT ![id] =
       [@ EXCEPT !.state = IF organizations[id].state = "active"
                           THEN "suspended" ELSE "active"]]
  /\ UNCHANGED <<reviewers, permitted>>

ChangeReviewers(u) ==
  /\ reviewers' = IF u \in reviewers THEN reviewers \ {u}
                  ELSE reviewers \cup {u}
  /\ permitted' = permitted \cup reviewers'
  /\ UNCHANGED organizations

Change ==
  /\ changes < MaxChanges
  /\ changes' = changes + 1
  /\ \/ \E id \in Ids : SetOrganizationState(id)
     \/ \E u \in Users : ChangeReviewers(u)
  /\ UNCHANGED <<activations, members, work>>

\* A claim of a boundary that has a request, a review of a request that is
\* not pending, an invitation that is not usable: the graph raises in its
\* first node.
Refuse(w) ==
  /\ work[w] = Idle
  /\ ~ /\ organizations = <<>>
       /\ \A u \in Users, i \in DOMAIN invitations : Usable(u, i)
  /\ UNCHANGED vars

\* A worker dies between two transactions; nothing runs its graph again.
Crash(w) ==
  /\ work[w] # Idle
  /\ Read(w, Idle)

Onboard(w) ==
  \/ \E u \in Users, b \in Boundaries : CreatePending(w, u, b)
  \/ VerifyIdentity(w) \/ PersistProof(w)

Review(w) ==
  \/ \E u \in Users, id \in Ids : BeginReview(w, u, id)
  \/ LoadProof(w) \/ AuthorizeReviewer(w) \/ Activate(w)

Join(w) ==
  \/ \E u \in Users, id \in Ids : BeginInvite(w, u, id)
  \/ \E u \in Users, i \in DOMAIN invitations : BeginJoin(w, u, i)
  \/ Invite(w) \/ Accept(w)

Next ==
  \/ \E w \in Workers : Onboard(w) \/ Review(w) \/ Join(w) \/ Refuse(w)
                          \/ Crash(w)
  \/ \E i \in DOMAIN invitations : Expire(i)
  \/ \E m \in DOMAIN memberships : Revoke(m)
  \/ Change

Spec == Init /\ [][Next]_vars

---------------------------------------------------------------------------
(* Properties *)

TypeOK ==
  /\ organizations \in Seq(Organizations)
  /\ activations \in Seq(Activations)
  /\ reviewers \subseteq Users
  /\ permitted \subseteq Users
  /\ invitations \in Seq(Invitations)
  /\ memberships \in Seq(Memberships)
  /\ changes \in 0..MaxChanges
  /\ work \in [Workers -> Activities]

\* However many reviewers resume a request at once, it is activated once,
\* and the approval on record is the one that activated it
\* (build-org-onboarding/tasks.md 4.2 and 4.4).
ActivatedOnce ==
  /\ \A i, j \in DOMAIN activations :
       activations[i].id = activations[j].id => i = j
  /\ \A i \in DOMAIN activations :
       organizations[activations[i].id].approvedBy = activations[i].reviewer

\* An organization that has an administrator has a proof of the boundary it
\* claimed, a reviewer who held the permission, and its own applicant as
\* administrator; no other organization claims the boundary.
AdminIsEarned ==
  \A id \in Ids : organizations[id].state # "pending" =>
    /\ organizations[id].proof = organizations[id].boundary
    /\ organizations[id].approvedBy \in permitted
    /\ organizations[id].admin = organizations[id].applicant
    /\ \A other \in Ids \ {id} :
         organizations[other].boundary # organizations[id].boundary

\* An invitation makes one membership at most, ever: two concurrent accepts,
\* or a second one after the membership was revoked, do not make another.
InvitationSpentOnce ==
  \A m, n \in DOMAIN memberships :
    memberships[m].invitation = memberships[n].invitation => m = n

\* Only the invited user joins, and never twice at the same time, even with
\* two invitations accepted concurrently.
MembershipIsInvited ==
  /\ \A m \in DOMAIN memberships :
       LET i == invitations[memberships[m].invitation]
       IN /\ memberships[m].user = i.recipient
          /\ memberships[m].organization = i.organization
  /\ \A m, n \in DOMAIN memberships :
       /\ memberships[m].state = "active"
       /\ memberships[n].state = "active"
       /\ memberships[m].user = memberships[n].user
       /\ memberships[m].organization = memberships[n].organization
       => m = n

\* Only an organization that is active at that moment gains a member, also
\* when it is suspended between the two nodes of the graph; and the step
\* that spends an invitation is the one that makes its membership.
JoinIsAtomic ==
  [][/\ \A m \in DOMAIN memberships' \ DOMAIN memberships :
          organizations[memberships'[m].organization].state = "active"
     /\ \A i \in DOMAIN invitations :
          invitations'[i].consumed =>
            \E m \in DOMAIN memberships' : memberships'[m].invitation = i
    ]_vars
=============================================================================
