-------------------------- MODULE OnboardingProofs --------------------------
(***************************************************************************)
(* Theorems about Onboarding, for any users, boundaries, workers and       *)
(* bounds.  Tables only grow and rows keep what identifies them, so what a *)
(* worker has read stays true of a row in the part its transaction does    *)
(* not check again.                                                        *)
(***************************************************************************)
EXTENDS Onboarding, SequenceTheorems, TLAPS

---------------------------------------------------------------------------
(* Rows of a table                                                         *)

\* INSERT: one row more, the others as they were.
Added(s, t, e) ==
  /\ DOMAIN t = DOMAIN s \cup {Len(s) + 1}
  /\ Len(s) + 1 \notin DOMAIN s
  /\ t[Len(s) + 1] = e
  /\ \A j \in DOMAIN s : t[j] = s[j]

\* UPDATE of one row: the others as they were.
Updated(s, t, i, e) ==
  /\ DOMAIN t = DOMAIN s
  /\ t[i] = e
  /\ \A j \in DOMAIN s \ {i} : t[j] = s[j]

LEMMA AddedRow ==
  ASSUME NEW S, NEW s \in Seq(S), NEW e \in S, NEW t, t = Append(s, e)
  PROVE  t \in Seq(S) /\ Added(s, t, e)
BY DEF Added

LEMMA UpdatedRow ==
  ASSUME NEW S, NEW s \in Seq(S), NEW i \in DOMAIN s, NEW e \in S,
         NEW t, t = [s EXCEPT ![i] = e]
  PROVE  t \in Seq(S) /\ Updated(s, t, i, e)
BY ExceptSeq, LenProperties DEF Updated

---------------------------------------------------------------------------
(* Types                                                                   *)

\* What a worker does refers to rows, so its types grow with the tables.
LEMMA TypesGrow ==
  ASSUME Ids \subseteq Ids', DOMAIN invitations \subseteq DOMAIN invitations'
  PROVE  /\ Seq(Activations) \subseteq Seq(Activations')
         /\ Seq(Invitations) \subseteq Seq(Invitations')
         /\ Seq(Memberships) \subseteq Seq(Memberships')
         /\ Activities \subseteq Activities'
<1>1. Activations \subseteq Activations'
  BY DEF Activations
<1>2. Invitations \subseteq Invitations'
  BY DEF Invitations
<1>3. Memberships \subseteq Memberships'
  BY DEF Memberships
<1>4. Activities \subseteq Activities'
  BY DEF Activities, Starts, Proofs, Reviews, Loaded, Invites, Joins
<1> QED
  BY <1>1, <1>2, <1>3, <1>4, SeqMonotonic

\* What the stage of a worker says of the record it holds.
LEMMA StageTypes ==
  ASSUME TypeOK, NEW w \in Workers
  PROVE  /\ work[w].at = "verify" => work[w] \in Starts
         /\ work[w].at = "persist" => work[w] \in Proofs
         /\ work[w].at = "load_proof" => work[w] \in Reviews
         /\ work[w].at \in {"authorize", "activate"} => work[w] \in Loaded
         /\ work[w].at = "insert" => work[w] \in Invites
         /\ work[w].at = "accept" => work[w] \in Joins
BY DEF TypeOK, Activities, Idle, Starts, Proofs, Reviews, Loaded, Invites,
       Joins

LEMMA BecomesTyped ==
  ASSUME TypeOK, NEW w \in Workers, NEW record, Become(w, record),
         record \in Activities', Activities \subseteq Activities'
  PROVE  work' \in [Workers -> Activities']
BY DEF TypeOK, Become

\* A step that only reads keeps every table.
LEMMA ReadTyped ==
  ASSUME TypeOK, NEW w \in Workers, NEW record \in Activities,
         Read(w, record)
  PROVE  TypeOK'
<1>1. Activities' = Activities
  BY DEF Read, members, Activities, Starts, Proofs, Reviews, Loaded, Invites,
         Joins, Ids
<1>2. work' \in [Workers -> Activities']
  BY <1>1, BecomesTyped DEF Read
<1> QED
  BY <1>2 DEF Read, TypeOK, members, authority, Activations, Invitations,
              Memberships, Ids

LEMMA IdleTyped == Idle \in Activities
BY DEF Activities

---------------------------------------------------------------------------
(* What the transactions write                                             *)

LEMMA CreatePendingWrites ==
  ASSUME TypeOK, NEW w \in Workers, NEW u \in Users, NEW b \in Boundaries,
         CreatePending(w, u, b)
  PROVE  /\ organizations' \in Seq(Organizations)
         /\ Added(organizations, organizations',
              [applicant |-> u, boundary |-> b, state |-> "pending",
               proof |-> NoProof, approvedBy |-> NoUser, admin |-> NoUser])
<1> DEFINE row == [applicant |-> u, boundary |-> b, state |-> "pending",
                   proof |-> NoProof, approvedBy |-> NoUser,
                   admin |-> NoUser]
<1>1. row \in Organizations
  BY DEF Organizations
<1>2. organizations' = Append(organizations, row)
  BY DEF CreatePending
<1>3. organizations \in Seq(Organizations)
  BY DEF TypeOK
<1> HIDE DEF row
<1>4. organizations' \in Seq(Organizations)
        /\ Added(organizations, organizations', row)
  BY <1>1, <1>2, <1>3, AddedRow
<1> QED
  BY <1>4 DEF row

LEMMA PersistProofWrites ==
  ASSUME TypeOK, NEW w \in Workers, PersistProof(w),
         organizations' # organizations
  PROVE  LET id == work[w].id
         IN /\ id \in Ids
            /\ work[w].proof \in Boundaries
            /\ work[w].proof = organizations[id].boundary
            /\ organizations[id].state = "pending"
            /\ organizations[id].proof = NoProof
            /\ organizations' \in Seq(Organizations)
            /\ Updated(organizations, organizations', id,
                 [organizations[id] EXCEPT !.proof = work[w].proof])
<1> DEFINE id == work[w].id
           row == [organizations[id] EXCEPT !.proof = work[w].proof]
<1>1. id \in Ids /\ work[w].proof \in Boundaries
  BY StageTypes DEF PersistProof, Proofs
<1>2. organizations \in Seq(Organizations) /\ organizations[id] \in Organizations
  BY <1>1, ElementOfSeq, LenProperties DEF TypeOK, Ids
<1>3. row \in Organizations
  BY <1>1, <1>2 DEF Organizations
<1>4. /\ work[w].proof = organizations[id].boundary
      /\ organizations[id].state = "pending"
      /\ organizations[id].proof = NoProof
      /\ organizations' = [organizations EXCEPT ![id] = row]
  BY DEF PersistProof, ProofMatches
<1> HIDE DEF row, id
<1>5. organizations' \in Seq(Organizations)
        /\ Updated(organizations, organizations', id, row)
  BY <1>1, <1>2, <1>3, <1>4, UpdatedRow DEF Ids
<1> QED
  BY <1>1, <1>4, <1>5 DEF row, id

LEMMA ActivateWrites ==
  ASSUME TypeOK, NEW w \in Workers, Activate(w),
         <<organizations, activations>>' # <<organizations, activations>>
  PROVE  LET id == work[w].id
         IN /\ work[w] \in Loaded
            /\ MayActivate(id, work[w].proof)
            /\ organizations' \in Seq(Organizations)
            /\ Updated(organizations, organizations', id,
                 [organizations[id] EXCEPT !.state = "active",
                    !.approvedBy = work[w].reviewer,
                    !.admin = organizations[id].applicant])
            /\ activations' \in Seq(Activations)
            /\ Added(activations, activations',
                 [id |-> id, reviewer |-> work[w].reviewer])
<1> DEFINE id == work[w].id
           row == [organizations[id] EXCEPT !.state = "active",
                     !.approvedBy = work[w].reviewer,
                     !.admin = organizations[id].applicant]
           entry == [id |-> id, reviewer |-> work[w].reviewer]
<1>1. work[w] \in Loaded /\ id \in Ids
  BY StageTypes DEF Activate, Loaded
<1>2. organizations \in Seq(Organizations) /\ organizations[id] \in Organizations
  BY <1>1, ElementOfSeq, LenProperties DEF TypeOK, Ids
<1>3. row \in Organizations /\ entry \in Activations
  BY <1>1, <1>2 DEF Organizations, Activations, Loaded
<1>4. /\ MayActivate(id, work[w].proof)
      /\ organizations' = [organizations EXCEPT ![id] = row]
      /\ activations' = Append(activations, entry)
  BY DEF Activate
<1>5. activations \in Seq(Activations)
  BY DEF TypeOK
<1> HIDE DEF row, id, entry
<1>6. organizations' \in Seq(Organizations)
        /\ Updated(organizations, organizations', id, row)
  BY <1>1, <1>2, <1>3, <1>4, UpdatedRow DEF Ids
<1>7. activations' \in Seq(Activations)
        /\ Added(activations, activations', entry)
  BY <1>3, <1>4, <1>5, AddedRow
<1> QED
  BY <1>1, <1>4, <1>6, <1>7 DEF row, id, entry

LEMMA SetOrganizationStateWrites ==
  ASSUME TypeOK, NEW id \in Ids, SetOrganizationState(id)
  PROVE  /\ organizations[id].state # "pending"
         /\ organizations' \in Seq(Organizations)
         /\ \E state \in {"active", "suspended"} :
              Updated(organizations, organizations', id,
                [organizations[id] EXCEPT !.state = state])
<1> DEFINE state == IF organizations[id].state = "active"
                    THEN "suspended" ELSE "active"
           row == [organizations[id] EXCEPT !.state = state]
<1>1. organizations \in Seq(Organizations) /\ organizations[id] \in Organizations
  BY ElementOfSeq, LenProperties DEF TypeOK, Ids
<1>2. row \in Organizations
  BY <1>1 DEF Organizations
<1>3. /\ organizations[id].state # "pending"
      /\ organizations' = [organizations EXCEPT ![id] = row]
  BY DEF SetOrganizationState
<1>4. state \in {"active", "suspended"}
  OBVIOUS
<1> HIDE DEF row
<1>5. organizations' \in Seq(Organizations)
        /\ Updated(organizations, organizations', id, row)
  BY <1>1, <1>2, <1>3, UpdatedRow DEF Ids
<1> QED
  BY <1>3, <1>4, <1>5 DEF row

LEMMA InviteWrites ==
  ASSUME TypeOK, NEW w \in Workers, Invite(w)
  PROVE  /\ invitations' \in Seq(Invitations)
         /\ \E row \in Invitations :
              row.consumed = FALSE /\ Added(invitations, invitations', row)
<1> DEFINE row == [organization |-> work[w].id,
                   recipient |-> work[w].recipient, expired |-> FALSE,
                   consumed |-> FALSE]
<1>1. row \in Invitations
  BY StageTypes DEF Invite, Invites, Invitations
<1>2. invitations' = Append(invitations, row)
  BY DEF Invite
<1>3. invitations \in Seq(Invitations)
  BY DEF TypeOK
<1>4. row.consumed = FALSE
  OBVIOUS
<1> HIDE DEF row
<1>5. invitations' \in Seq(Invitations)
        /\ Added(invitations, invitations', row)
  BY <1>1, <1>2, <1>3, AddedRow
<1> QED
  BY <1>1, <1>4, <1>5

LEMMA ExpireWrites ==
  ASSUME TypeOK, NEW i \in DOMAIN invitations, Expire(i)
  PROVE  /\ invitations' \in Seq(Invitations)
         /\ Updated(invitations, invitations', i,
              [invitations[i] EXCEPT !.expired = TRUE])
<1> DEFINE row == [invitations[i] EXCEPT !.expired = TRUE]
<1>1. invitations \in Seq(Invitations) /\ invitations[i] \in Invitations
  BY ElementOfSeq, LenProperties DEF TypeOK
<1>2. row \in Invitations
  BY <1>1 DEF Invitations
<1>3. invitations' = [invitations EXCEPT ![i] = row]
  BY DEF Expire
<1> HIDE DEF row
<1>4. invitations' \in Seq(Invitations)
        /\ Updated(invitations, invitations', i, row)
  BY <1>1, <1>2, <1>3, UpdatedRow
<1> QED
  BY <1>4 DEF row

LEMMA AcceptWrites ==
  ASSUME TypeOK, NEW w \in Workers, Accept(w), members' # members
  PROVE  LET i == work[w].invitation
             u == work[w].user
         IN /\ i \in DOMAIN invitations
            /\ u \in Users
            /\ Usable(u, i)
            /\ Unaffiliated(u, invitations[i].organization)
            /\ invitations' \in Seq(Invitations)
            /\ Updated(invitations, invitations', i,
                 [invitations[i] EXCEPT !.consumed = TRUE])
            /\ memberships' \in Seq(Memberships)
            /\ Added(memberships, memberships',
                 [user |-> u, organization |-> invitations[i].organization,
                  state |-> "active", version |-> 1, invitation |-> i])
<1> DEFINE i == work[w].invitation
           u == work[w].user
           row == [invitations[i] EXCEPT !.consumed = TRUE]
           new == [user |-> u, organization |-> invitations[i].organization,
                   state |-> "active", version |-> 1, invitation |-> i]
<1>1. i \in DOMAIN invitations /\ u \in Users
  BY StageTypes DEF Accept, Joins
<1>2. invitations \in Seq(Invitations) /\ invitations[i] \in Invitations
  BY <1>1, ElementOfSeq, LenProperties DEF TypeOK
<1>3. row \in Invitations /\ new \in Memberships
  <2>1. row \in Invitations /\ invitations[i].organization \in Ids
    BY <1>2 DEF Invitations
  <2> QED
    BY <1>1, <2>1 DEF Memberships
<1>4. /\ Usable(u, i)
      /\ Unaffiliated(u, invitations[i].organization)
      /\ invitations' = [invitations EXCEPT ![i] = row]
      /\ memberships' = Append(memberships, new)
  BY DEF Accept, members
<1>5. memberships \in Seq(Memberships)
  BY DEF TypeOK
<1> HIDE DEF i, u, row, new
<1>6. invitations' \in Seq(Invitations)
        /\ Updated(invitations, invitations', i, row)
  BY <1>1, <1>2, <1>3, <1>4, UpdatedRow
<1>7. memberships' \in Seq(Memberships)
        /\ Added(memberships, memberships', new)
  BY <1>3, <1>4, <1>5, AddedRow
<1> QED
  BY <1>1, <1>4, <1>6, <1>7 DEF i, u, row, new

\* A membership is revoked once: its version counts to two and no further.
FirstVersion ==
  \A m \in DOMAIN memberships :
    memberships[m].state = "active" => memberships[m].version = 1

LEMMA RevokeWrites ==
  ASSUME TypeOK, FirstVersion, NEW m \in DOMAIN memberships, Revoke(m)
  PROVE  /\ memberships' \in Seq(Memberships)
         /\ Updated(memberships, memberships', m,
              [memberships[m] EXCEPT !.state = "revoked", !.version = 2])
<1> DEFINE row == [memberships[m] EXCEPT !.state = "revoked", !.version = 2]
<1>1. memberships \in Seq(Memberships) /\ memberships[m] \in Memberships
  BY ElementOfSeq, LenProperties DEF TypeOK
<1>2. memberships[m].version = 1
  BY DEF Revoke, FirstVersion
<1>3. row \in Memberships
  BY <1>1, 2 \in 1..2 DEF Memberships
<1>4. memberships' = [memberships EXCEPT ![m] = row]
  <2>1. memberships[m].version + 1 = 2
    BY <1>2
  <2> QED
    BY <2>1 DEF Revoke
<1> HIDE DEF row
<1>5. memberships' \in Seq(Memberships)
        /\ Updated(memberships, memberships', m, row)
  BY <1>1, <1>3, <1>4, UpdatedRow
<1> QED
  BY <1>5 DEF row

---------------------------------------------------------------------------
(* The steps                                                               *)

\* The steps of a graph that write nothing, and a crash.
Reading(w) ==
  \/ VerifyIdentity(w) \/ LoadProof(w) \/ AuthorizeReviewer(w) \/ Crash(w)
  \/ \E u \in Users, id \in Ids : BeginReview(w, u, id)
  \/ \E u \in Users, id \in Ids : BeginInvite(w, u, id)
  \/ \E u \in Users, i \in DOMAIN invitations : BeginJoin(w, u, i)

\* What a reader takes with it: a review takes the proof from the row, and
\* passes the authorizer only with a reviewer who is one now.
LEMMA ReadingReads ==
  ASSUME TypeOK, NEW w \in Workers, Reading(w)
  PROVE  \E record \in Activities :
           /\ Read(w, record)
           /\ record.at = "authorize" =>
                record.proof = organizations[record.id].proof
           /\ record.at = "activate" =>
                /\ work[w].at = "authorize"
                /\ record.id = work[w].id
                /\ record.proof = work[w].proof
                /\ record.reviewer \in reviewers
<1> DEFINE Taken(record) ==
             /\ Read(w, record)
             /\ record.at = "authorize" =>
                  record.proof = organizations[record.id].proof
             /\ record.at = "activate" =>
                  /\ work[w].at = "authorize"
                  /\ record.id = work[w].id
                  /\ record.proof = work[w].proof
                  /\ record.reviewer \in reviewers
<1>1. ASSUME Read(w, Idle) PROVE \E record \in Activities : Taken(record)
  BY <1>1, IdleTyped DEF Idle
<1>2. CASE VerifyIdentity(w)
  <2>1. ASSUME NEW p \in Boundaries,
               Read(w, [at |-> "persist", id |-> work[w].id, proof |-> p])
        PROVE  \E record \in Activities : Taken(record)
    <3>1. [at |-> "persist", id |-> work[w].id, proof |-> p] \in Activities
      BY <1>2, StageTypes DEF VerifyIdentity, Starts, Proofs, Activities
    <3> QED
      BY <2>1, <3>1
  <2> QED
    BY <1>1, <1>2, <2>1 DEF VerifyIdentity
<1>3. CASE LoadProof(w)
  <2> DEFINE proof == organizations[work[w].id].proof
             record == [at |-> "authorize", id |-> work[w].id,
                        reviewer |-> work[w].reviewer, proof |-> proof]
  <2>1. CASE proof # NoProof /\ ProofMatches(work[w].id, proof)
    <3>1. work[w] \in Reviews
      BY <1>3, StageTypes DEF LoadProof
    <3>2. organizations[work[w].id] \in Organizations
      BY <3>1, ElementOfSeq, LenProperties DEF Reviews, TypeOK, Ids
    <3>3. record \in Activities
      BY <2>1, <3>1, <3>2 DEF Organizations, Reviews, Loaded, Activities
    <3>4. Read(w, record)
      BY <1>3, <2>1 DEF LoadProof
    <3> QED
      BY <3>3, <3>4
  <2>2. CASE ~(proof # NoProof /\ ProofMatches(work[w].id, proof))
    <3>1. Read(w, Idle)
      BY <1>3, <2>2 DEF LoadProof
    <3> QED
      BY <1>1, <3>1
  <2> QED
    BY <2>1, <2>2
<1>4. CASE AuthorizeReviewer(w)
  <2>1. work[w] \in Loaded /\ work[w].at = "authorize"
    BY <1>4, StageTypes DEF AuthorizeReviewer
  <2>2. CASE work[w].reviewer \in reviewers
    <3> DEFINE record == [work[w] EXCEPT !.at = "activate"]
    <3>1. record \in Loaded
      BY <2>1 DEF Loaded
    <3>2. record.at = "activate" /\ record.id = work[w].id
            /\ record.proof = work[w].proof
            /\ record.reviewer = work[w].reviewer
      BY <2>1 DEF Loaded
    <3>3. Read(w, record)
      BY <1>4, <2>2 DEF AuthorizeReviewer
    <3> HIDE DEF record
    <3> QED
      BY <2>1, <2>2, <3>1, <3>2, <3>3 DEF Activities
  <2>3. CASE work[w].reviewer \notin reviewers
    <3>1. Read(w, Idle)
      BY <1>4, <2>3 DEF AuthorizeReviewer
    <3> QED
      BY <1>1, <3>1
  <2> QED
    BY <2>2, <2>3
<1>5. CASE Crash(w)
  BY <1>1, <1>5 DEF Crash
<1>6. ASSUME NEW u \in Users, NEW id \in Ids, BeginReview(w, u, id)
      PROVE  \E record \in Activities : Taken(record)
  <2>1. [at |-> "load_proof", id |-> id, reviewer |-> u] \in Activities
    BY DEF Reviews, Activities
  <2> QED
    BY <1>6, <2>1 DEF BeginReview
<1>7. ASSUME NEW u \in Users, NEW id \in Ids, BeginInvite(w, u, id)
      PROVE  \E record \in Activities : Taken(record)
  <2>1. [at |-> "insert", id |-> id, recipient |-> u] \in Activities
    BY DEF Invites, Activities
  <2> QED
    BY <1>7, <2>1 DEF BeginInvite
<1>8. ASSUME NEW u \in Users, NEW i \in DOMAIN invitations,
             BeginJoin(w, u, i)
      PROVE  \E record \in Activities : Taken(record)
  <2>1. [at |-> "accept", user |-> u, invitation |-> i] \in Activities
    BY DEF Joins, Activities
  <2> QED
    BY <1>8, <2>1 DEF BeginJoin
<1> QED
  BY <1>2, <1>3, <1>4, <1>5, <1>6, <1>7, <1>8 DEF Reading

\* Every step reads, writes in one of eight ways, or changes nothing.
LEMMA StepKinds ==
  ASSUME [Next]_vars
  PROVE  \/ \E w \in Workers :
              \/ Reading(w) \/ PersistProof(w) \/ Activate(w)
              \/ Invite(w) \/ Accept(w)
              \/ \E u \in Users, b \in Boundaries : CreatePending(w, u, b)
         \/ \E i \in DOMAIN invitations : Expire(i)
         \/ \E m \in DOMAIN memberships : Revoke(m)
         \/ Change
         \/ UNCHANGED vars
BY DEF Next, Reading, Onboard, Review, Join, Refuse

---------------------------------------------------------------------------
TypeInv == TypeOK /\ FirstVersion

LEMMA TypeInvInit == Init => TypeInv
BY OnboardingAssumption, EmptySeq, IdleTyped
   DEF Init, TypeInv, TypeOK, FirstVersion, Activities

LEMMA TypeInvNext == TypeInv /\ [Next]_vars => TypeInv'
<1> SUFFICES ASSUME TypeInv, [Next]_vars PROVE TypeInv'
  OBVIOUS
<1> USE DEF TypeInv
<1>1. ASSUME NEW w \in Workers, Reading(w) PROVE TypeInv'
  <2>1. PICK record \in Activities : Read(w, record)
    BY <1>1, ReadingReads
  <2> QED
    BY <2>1, ReadTyped DEF Read, members, FirstVersion
<1>2. ASSUME NEW w \in Workers, NEW u \in Users, NEW b \in Boundaries,
             CreatePending(w, u, b)
      PROVE  TypeInv'
  <2>1. /\ organizations' \in Seq(Organizations)
        /\ Ids' = Ids \cup {Len(organizations) + 1}
    BY <1>2, CreatePendingWrites DEF Added, Ids
  <2>2. UNCHANGED <<activations, reviewers, permitted, changes, invitations,
                    memberships>>
    BY <1>2 DEF CreatePending, authority, members
  <2>3. [at |-> "verify", id |-> Len(organizations) + 1] \in Activities'
    BY <2>1 DEF Activities, Starts
  <2>4. work' \in [Workers -> Activities']
    BY <1>2, <2>1, <2>2, <2>3, TypesGrow, BecomesTyped DEF CreatePending
  <2>5. /\ activations' \in Seq(Activations')
        /\ invitations' \in Seq(Invitations')
        /\ memberships' \in Seq(Memberships')
    BY <2>1, <2>2, TypesGrow DEF TypeOK
  <2> QED
    BY <2>1, <2>2, <2>4, <2>5 DEF TypeOK, FirstVersion
<1>3. ASSUME NEW w \in Workers, PersistProof(w) PROVE TypeInv'
  <2>1. organizations' \in Seq(Organizations) /\ Ids' = Ids
    BY <1>3, PersistProofWrites DEF Updated, Ids, TypeOK
  <2>2. UNCHANGED <<activations, reviewers, permitted, changes, invitations,
                    memberships>>
    BY <1>3 DEF PersistProof, authority, members
  <2>3. work' \in [Workers -> Activities']
    BY <1>3, <2>1, <2>2, TypesGrow, IdleTyped, BecomesTyped DEF PersistProof
  <2>4. /\ activations' \in Seq(Activations')
        /\ invitations' \in Seq(Invitations')
        /\ memberships' \in Seq(Memberships')
    BY <2>1, <2>2, TypesGrow DEF TypeOK
  <2> QED
    BY <2>1, <2>2, <2>3, <2>4 DEF TypeOK, FirstVersion
<1>4. ASSUME NEW w \in Workers, Activate(w) PROVE TypeInv'
  <2>1. /\ organizations' \in Seq(Organizations) /\ Ids' = Ids
        /\ activations' \in Seq(Activations)
    BY <1>4, ActivateWrites DEF Updated, Ids, TypeOK
  <2>2. UNCHANGED <<reviewers, permitted, changes, invitations, memberships>>
    BY <1>4 DEF Activate, authority, members
  <2>3. work' \in [Workers -> Activities']
    BY <1>4, <2>1, <2>2, TypesGrow, IdleTyped, BecomesTyped DEF Activate
  <2>4. /\ activations' \in Seq(Activations')
        /\ invitations' \in Seq(Invitations')
        /\ memberships' \in Seq(Memberships')
    BY <2>1, <2>2, TypesGrow DEF TypeOK
  <2> QED
    BY <2>1, <2>2, <2>3, <2>4 DEF TypeOK, FirstVersion
<1>5. ASSUME NEW w \in Workers, Invite(w) PROVE TypeInv'
  <2>1. /\ invitations' \in Seq(Invitations)
        /\ DOMAIN invitations \subseteq DOMAIN invitations'
    BY <1>5, InviteWrites DEF Added
  <2>2. UNCHANGED <<organizations, activations, reviewers, permitted, changes,
                    memberships>>
    BY <1>5 DEF Invite, authority
  <2>3. work' \in [Workers -> Activities']
    BY <1>5, <2>1, <2>2, TypesGrow, IdleTyped, BecomesTyped DEF Invite, Ids
  <2>4. /\ activations' \in Seq(Activations')
        /\ invitations' \in Seq(Invitations')
        /\ memberships' \in Seq(Memberships')
    BY <2>1, <2>2, TypesGrow DEF TypeOK, Ids
  <2> QED
    BY <2>1, <2>2, <2>3, <2>4 DEF TypeOK, FirstVersion
<1>6. ASSUME NEW i \in DOMAIN invitations, Expire(i) PROVE TypeInv'
  <2>1. /\ invitations' \in Seq(Invitations)
        /\ DOMAIN invitations \subseteq DOMAIN invitations'
    BY <1>6, ExpireWrites DEF Updated
  <2>2. UNCHANGED <<organizations, activations, reviewers, permitted, changes,
                    memberships, work>>
    BY <1>6 DEF Expire, authority
  <2>3. /\ activations' \in Seq(Activations')
        /\ invitations' \in Seq(Invitations')
        /\ memberships' \in Seq(Memberships')
        /\ work' \in [Workers -> Activities']
    BY <2>1, <2>2, TypesGrow DEF TypeOK, Ids
  <2> QED
    BY <2>2, <2>3 DEF TypeOK, FirstVersion
<1>7. ASSUME NEW w \in Workers, Accept(w) PROVE TypeInv'
  <2>1. /\ invitations' \in Seq(Invitations)
        /\ DOMAIN invitations' = DOMAIN invitations
        /\ memberships' \in Seq(Memberships)
        /\ FirstVersion'
    <3>1. CASE members' = members
      BY <3>1 DEF members, TypeOK, FirstVersion
    <3>2. CASE members' # members
      <4> DEFINE i == work[w].invitation
                 new == [user |-> work[w].user,
                         organization |-> invitations[i].organization,
                         state |-> "active", version |-> 1, invitation |-> i]
      <4>1. Added(memberships, memberships', new) /\ new.version = 1
        BY <1>7, <3>2, AcceptWrites
      <4> HIDE DEF new
      <4>2. FirstVersion'
        BY <4>1 DEF FirstVersion, Added
      <4> QED
        BY <1>7, <3>2, <4>2, AcceptWrites DEF Updated
    <3> QED
      BY <3>1, <3>2
  <2>2. UNCHANGED <<organizations, activations, reviewers, permitted, changes>>
    BY <1>7 DEF Accept, authority
  <2>3. work' \in [Workers -> Activities']
    BY <1>7, <2>1, <2>2, TypesGrow, IdleTyped, BecomesTyped DEF Accept, Ids
  <2>4. /\ activations' \in Seq(Activations')
        /\ invitations' \in Seq(Invitations')
        /\ memberships' \in Seq(Memberships')
    BY <2>1, <2>2, TypesGrow DEF TypeOK, Ids
  <2> QED
    BY <2>1, <2>2, <2>3, <2>4 DEF TypeOK
<1>8. ASSUME NEW m \in DOMAIN memberships, Revoke(m) PROVE TypeInv'
  <2>1. memberships' \in Seq(Memberships) /\ FirstVersion'
    <3>1. memberships[m] \in Memberships
      BY ElementOfSeq, LenProperties DEF TypeOK
    <3>2. memberships'[m].state = "revoked"
      BY <1>8, <3>1, RevokeWrites DEF Updated, Memberships
    <3>3. FirstVersion'
      BY <1>8, <3>2, RevokeWrites DEF Updated, FirstVersion
    <3> QED
      BY <1>8, <3>3, RevokeWrites
  <2>2. UNCHANGED <<organizations, activations, reviewers, permitted, changes,
                    invitations, work>>
    BY <1>8 DEF Revoke, authority
  <2>3. /\ activations' \in Seq(Activations')
        /\ invitations' \in Seq(Invitations')
        /\ memberships' \in Seq(Memberships')
        /\ work' \in [Workers -> Activities']
    BY <2>1, <2>2, TypesGrow DEF TypeOK, Ids
  <2> QED
    BY <2>1, <2>2, <2>3 DEF TypeOK
<1>9. CASE Change
  <2>1. changes' \in 0..MaxChanges
    BY <1>9, OnboardingAssumption DEF Change, TypeOK
  <2>2. /\ organizations' \in Seq(Organizations) /\ Ids' = Ids
        /\ reviewers' \subseteq Users /\ permitted' \subseteq Users
    <3>1. ASSUME NEW id \in Ids, SetOrganizationState(id)
          PROVE  organizations' \in Seq(Organizations) /\ Ids' = Ids
      BY <3>1, SetOrganizationStateWrites DEF Updated, Ids
    <3>2. ASSUME NEW u \in Users, ChangeReviewers(u)
          PROVE  /\ organizations' = organizations
                 /\ reviewers' \subseteq Users /\ permitted' \subseteq Users
      BY <3>2 DEF ChangeReviewers, TypeOK
    <3> QED
      BY <1>9, <3>1, <3>2 DEF Change, SetOrganizationState, TypeOK, Ids
  <2>3. UNCHANGED <<activations, invitations, memberships, work>>
    BY <1>9 DEF Change, members
  <2>4. /\ activations' \in Seq(Activations')
        /\ invitations' \in Seq(Invitations')
        /\ memberships' \in Seq(Memberships')
        /\ work' \in [Workers -> Activities']
    BY <2>2, <2>3, TypesGrow DEF TypeOK
  <2> QED
    BY <2>1, <2>2, <2>3, <2>4 DEF TypeOK, FirstVersion
<1>10. CASE UNCHANGED vars
  BY <1>10 DEF vars, authority, members, TypeOK, FirstVersion, Activations,
     Invitations, Memberships, Activities, Starts, Proofs, Reviews, Loaded,
     Invites, Joins, Ids
<1> QED
  BY <1>1, <1>2, <1>3, <1>4, <1>5, <1>6, <1>7, <1>8, <1>9, <1>10, StepKinds

\* Every row and every record of a worker keeps its shape; a membership is
\* revoked at most once.
THEOREM OnboardingTypeCorrect == Spec => []TypeOK
<1>1. Spec => []TypeInv
  BY TypeInvInit, TypeInvNext, PTL DEF Spec
<1> QED
  BY <1>1, PTL DEF TypeInv

---------------------------------------------------------------------------
(* Activation                                                              *)

\* The unique index of create_pending.
OneRequestPerBoundary ==
  \A i, j \in Ids :
    organizations[i].boundary = organizations[j].boundary => i = j

\* The proof a review has loaded is still the one on the row.
ReviewsKeepTheProof ==
  \A w \in Workers : work[w].at \in {"authorize", "activate"} =>
    work[w].proof = organizations[work[w].id].proof

\* A review past the authorizer is by someone who could once review.
ReviewersArePermitted ==
  /\ reviewers \subseteq permitted
  /\ \A w \in Workers :
       work[w].at = "activate" => work[w].reviewer \in permitted

\* An activated request never becomes pending again.
ActivatedIsDecided ==
  \A i \in DOMAIN activations :
    organizations[activations[i].id].state # "pending"

DecisionInv ==
  /\ OneRequestPerBoundary /\ ReviewsKeepTheProof /\ ReviewersArePermitted
  /\ ActivatedIsDecided /\ ActivatedOnce /\ AdminIsEarned

LEMMA RowTypes ==
  ASSUME TypeOK
  PROVE  /\ \A id \in Ids : organizations[id] \in Organizations
         /\ \A i \in DOMAIN activations : activations[i] \in Activations
         /\ \A i \in DOMAIN invitations : invitations[i] \in Invitations
         /\ \A m \in DOMAIN memberships : memberships[m] \in Memberships
         /\ \A w \in Workers :
              work[w].at \in {"authorize", "activate"} => work[w].id \in Ids
BY ElementOfSeq, LenProperties, StageTypes DEF TypeOK, Ids, Loaded

\* What a worker does elsewhere leaves decisions alone.
LEMMA DecisionsKept ==
  ASSUME DecisionInv,
         UNCHANGED <<organizations, activations, reviewers, permitted>>,
         \A w \in Workers : work'[w] = work[w] \/ work'[w] = Idle
  PROVE  DecisionInv'
<1>1. UNCHANGED Ids
  BY DEF Ids
<1>2. OneRequestPerBoundary' /\ ActivatedIsDecided' /\ ActivatedOnce'
  BY <1>1 DEF DecisionInv, OneRequestPerBoundary, ActivatedIsDecided,
              ActivatedOnce
<1>3. AdminIsEarned'
  BY <1>1 DEF DecisionInv, AdminIsEarned
<1>4. ReviewsKeepTheProof' /\ ReviewersArePermitted'
  BY DEF DecisionInv, ReviewsKeepTheProof, ReviewersArePermitted, Idle
<1> QED
  BY <1>2, <1>3, <1>4 DEF DecisionInv

LEMMA IdleNext ==
  ASSUME TypeOK, NEW w \in Workers, Become(w, Idle)
  PROVE  \A v \in Workers : work'[v] = work[v] \/ work'[v] = Idle
BY DEF TypeOK, Become

LEMMA DecisionInvNext == TypeInv /\ DecisionInv /\ [Next]_vars => DecisionInv'
<1> SUFFICES ASSUME TypeInv, DecisionInv, [Next]_vars PROVE DecisionInv'
  OBVIOUS
<1>0. TypeOK /\ TypeOK'
  BY TypeInvNext DEF TypeInv
<1>1. ASSUME NEW w \in Workers, Reading(w) PROVE DecisionInv'
  <2>1. PICK record \in Activities :
           /\ Read(w, record)
           /\ record.at = "authorize" =>
                record.proof = organizations[record.id].proof
           /\ record.at = "activate" =>
                /\ work[w].at = "authorize"
                /\ record.id = work[w].id
                /\ record.proof = work[w].proof
                /\ record.reviewer \in reviewers
    BY <1>0, <1>1, ReadingReads
  <2>2. UNCHANGED <<organizations, activations, reviewers, permitted, Ids>>
    BY <2>1 DEF Read, authority, Ids
  <2>3. \A v \in Workers : work'[v] = IF v = w THEN record ELSE work[v]
    BY <1>0, <2>1 DEF Read, Become, TypeOK
  <2>4. OneRequestPerBoundary' /\ ActivatedIsDecided' /\ ActivatedOnce'
    BY <2>2 DEF DecisionInv, OneRequestPerBoundary, ActivatedIsDecided,
                ActivatedOnce
  <2>5. AdminIsEarned'
    BY <2>2 DEF DecisionInv, AdminIsEarned
  <2>6. ReviewsKeepTheProof' /\ ReviewersArePermitted'
    BY <2>1, <2>2, <2>3
       DEF DecisionInv, ReviewsKeepTheProof, ReviewersArePermitted
  <2> QED
    BY <2>4, <2>5, <2>6 DEF DecisionInv
<1>2. ASSUME NEW w \in Workers, NEW u \in Users, NEW b \in Boundaries,
             CreatePending(w, u, b)
      PROVE  DecisionInv'
  <2> DEFINE n == Len(organizations) + 1
             row == [applicant |-> u, boundary |-> b, state |-> "pending",
                     proof |-> NoProof, approvedBy |-> NoUser,
                     admin |-> NoUser]
  <2>1. Added(organizations, organizations', row)
    BY <1>0, <1>2, CreatePendingWrites
  <2>2. Ids' = Ids \cup {n} /\ n \notin Ids
    BY <2>1 DEF Added, Ids
  <2>3. /\ organizations'[n].state = "pending"
        /\ organizations'[n].boundary = b
        /\ \A i \in Ids : organizations'[i] = organizations[i]
    BY <2>1 DEF Added, Ids
  <2>4. /\ UNCHANGED <<activations, reviewers, permitted>>
        /\ \A i \in Ids : organizations[i].boundary # b
    BY <1>2 DEF CreatePending, authority
  <2>5. \A v \in Workers : v # w => work'[v] = work[v]
    BY <1>0, <1>2 DEF CreatePending, Become, TypeOK
  <2>6. work'[w].at = "verify"
    BY <1>0, <1>2 DEF CreatePending, Become, TypeOK
  <2> HIDE DEF n, row
  <2>7. OneRequestPerBoundary'
    BY <2>2, <2>3, <2>4 DEF DecisionInv, OneRequestPerBoundary
  <2>8. ReviewsKeepTheProof'
    BY <1>0, <2>3, <2>5, <2>6, RowTypes DEF DecisionInv, ReviewsKeepTheProof
  <2>9. ReviewersArePermitted'
    BY <2>4, <2>5, <2>6 DEF DecisionInv, ReviewersArePermitted
  <2>10. \A i \in DOMAIN activations :
           /\ activations[i].id \in Ids
           /\ organizations'[activations[i].id]
                = organizations[activations[i].id]
    BY <1>0, <2>3, RowTypes DEF Activations
  <2>11. ActivatedIsDecided' /\ ActivatedOnce'
    BY <2>4, <2>10 DEF DecisionInv, ActivatedIsDecided, ActivatedOnce
  <2>12. AdminIsEarned'
    BY <2>2, <2>3, <2>4 DEF DecisionInv, AdminIsEarned
  <2> QED
    BY <2>7, <2>8, <2>9, <2>11, <2>12 DEF DecisionInv
<1>3. ASSUME NEW w \in Workers, PersistProof(w) PROVE DecisionInv'
  <2>1. UNCHANGED <<activations, reviewers, permitted>>
    BY <1>3 DEF PersistProof, authority
  <2>2. \A v \in Workers : work'[v] = work[v] \/ work'[v] = Idle
    BY <1>0, <1>3, IdleNext DEF PersistProof
  <2>3. CASE organizations' = organizations
    BY <2>1, <2>2, <2>3, DecisionsKept
  <2>4. CASE organizations' # organizations
    <3> DEFINE id == work[w].id
               row == [organizations[id] EXCEPT !.proof = work[w].proof]
    <3>1. /\ id \in Ids
          /\ organizations[id].state = "pending"
          /\ organizations[id].proof = NoProof
          /\ Updated(organizations, organizations', id, row)
      BY <1>0, <1>3, <2>4, PersistProofWrites
    <3>2. row \in Organizations
            /\ row.boundary = organizations[id].boundary
            /\ row.state = "pending"
            /\ row.approvedBy = organizations[id].approvedBy
      <4>1. work[w].proof \in Boundaries
        BY <1>0, <1>3, <2>4, PersistProofWrites
      <4> QED
        BY <1>0, <3>1, <4>1, RowTypes DEF Organizations
    <3> HIDE DEF row
    <3>3. /\ Ids' = Ids
          /\ organizations'[id] = row
          /\ \A i \in Ids \ {id} : organizations'[i] = organizations[i]
      BY <3>1 DEF Updated, Ids
    <3>4. \A i \in Ids :
            /\ organizations'[i].boundary = organizations[i].boundary
            /\ organizations'[i].state = organizations[i].state
            /\ organizations'[i].approvedBy = organizations[i].approvedBy
      BY <3>1, <3>2, <3>3
    <3>5. OneRequestPerBoundary'
      BY <3>3, <3>4 DEF DecisionInv, OneRequestPerBoundary
    <3>6. ReviewsKeepTheProof'
      <4> SUFFICES ASSUME NEW v \in Workers,
                          work'[v].at \in {"authorize", "activate"}
                   PROVE  work'[v].proof = organizations'[work'[v].id].proof
        BY DEF ReviewsKeepTheProof
      <4>1. work'[v] = work[v]
        BY <2>2 DEF Idle
      <4>2. work[v].proof = organizations[work[v].id].proof
              /\ work[v].id \in Ids /\ work[v].proof \in Boundaries
        BY <1>0, <4>1, StageTypes DEF Loaded, DecisionInv,
           ReviewsKeepTheProof
      <4>3. work[v].id # id
        BY <3>1, <4>2, OnboardingAssumption
      <4> QED
        BY <3>3, <4>1, <4>2, <4>3
    <3>7. ReviewersArePermitted'
      BY <2>1, <2>2 DEF DecisionInv, ReviewersArePermitted, Idle
    <3>8. \A i \in DOMAIN activations : activations[i].id \in Ids
      BY <1>0, RowTypes DEF Activations
    <3>9. ActivatedIsDecided' /\ ActivatedOnce'
      BY <2>1, <3>4, <3>8 DEF DecisionInv, ActivatedIsDecided, ActivatedOnce
    <3>10. \A i \in Ids : organizations'[i].state # "pending" =>
             organizations'[i] = organizations[i]
      BY <3>2, <3>3
    <3>11. AdminIsEarned'
      BY <2>1, <3>3, <3>4, <3>10 DEF DecisionInv, AdminIsEarned
    <3> QED
      BY <3>5, <3>6, <3>7, <3>9, <3>11 DEF DecisionInv
  <2> QED
    BY <2>3, <2>4
<1>4. ASSUME NEW w \in Workers, Activate(w) PROVE DecisionInv'
  <2>1. UNCHANGED <<reviewers, permitted>>
    BY <1>4 DEF Activate, authority
  <2>2. \A v \in Workers : work'[v] = work[v] \/ work'[v] = Idle
    BY <1>0, <1>4, IdleNext DEF Activate
  <2>3. CASE <<organizations, activations>>' = <<organizations, activations>>
    BY <2>1, <2>2, <2>3, DecisionsKept
  <2>4. CASE <<organizations, activations>>' # <<organizations, activations>>
    <3> DEFINE id == work[w].id
               row == [organizations[id] EXCEPT !.state = "active",
                         !.approvedBy = work[w].reviewer,
                         !.admin = organizations[id].applicant]
               entry == [id |-> id, reviewer |-> work[w].reviewer]
               n == Len(activations) + 1
    <3>1. /\ work[w] \in Loaded
          /\ MayActivate(id, work[w].proof)
          /\ Updated(organizations, organizations', id, row)
          /\ Added(activations, activations', entry)
      BY <1>0, <1>4, <2>4, ActivateWrites
    <3>2. /\ id \in Ids
          /\ organizations[id].state = "pending"
          /\ organizations[id].proof = organizations[id].boundary
          /\ work[w].reviewer \in permitted
      BY <1>4, <3>1 DEF Activate, MayActivate, ProofMatches, Loaded,
         DecisionInv, ReviewsKeepTheProof, ReviewersArePermitted
    <3>3. /\ row.boundary = organizations[id].boundary
          /\ row.proof = organizations[id].proof
          /\ row.applicant = organizations[id].applicant
          /\ row.state = "active"
          /\ row.approvedBy = work[w].reviewer
          /\ row.admin = organizations[id].applicant
      BY <1>0, <3>2, RowTypes DEF Organizations
    <3>4. entry.id = id /\ entry.reviewer = work[w].reviewer
      OBVIOUS
    <3> HIDE DEF row, entry
    <3>5. /\ Ids' = Ids
          /\ organizations'[id] = row
          /\ \A i \in Ids \ {id} : organizations'[i] = organizations[i]
      BY <3>1 DEF Updated, Ids
    <3>6. /\ DOMAIN activations' = DOMAIN activations \cup {n}
          /\ activations'[n] = entry
          /\ \A i \in DOMAIN activations : activations'[i] = activations[i]
      BY <3>1 DEF Added
    <3> HIDE DEF n
    <3>7. \A i \in DOMAIN activations :
            activations[i].id \in Ids /\ activations[i].id # id
      BY <1>0, <3>2, RowTypes DEF Activations, DecisionInv, ActivatedIsDecided
    <3>8. OneRequestPerBoundary'
      BY <3>3, <3>5 DEF DecisionInv, OneRequestPerBoundary
    <3>9. ReviewsKeepTheProof'
      BY <1>0, <2>2, <3>3, <3>5, RowTypes
         DEF DecisionInv, ReviewsKeepTheProof, Idle
    <3>10. ReviewersArePermitted'
      BY <2>1, <2>2 DEF DecisionInv, ReviewersArePermitted, Idle
    <3>11. ActivatedIsDecided'
      BY <3>3, <3>4, <3>5, <3>6, <3>7 DEF DecisionInv, ActivatedIsDecided
    <3>12. ActivatedOnce'
      BY <3>3, <3>4, <3>5, <3>6, <3>7 DEF DecisionInv, ActivatedOnce
    <3>13. AdminIsEarned'
      <4> SUFFICES ASSUME NEW i \in Ids, organizations'[i].state # "pending"
                   PROVE  /\ organizations'[i].proof
                               = organizations'[i].boundary
                          /\ organizations'[i].approvedBy \in permitted'
                          /\ organizations'[i].admin
                               = organizations'[i].applicant
                          /\ \A other \in Ids \ {i} :
                               organizations'[other].boundary
                                 # organizations'[i].boundary
        BY <3>5 DEF AdminIsEarned
      <4>1. \A other \in Ids \ {i} :
              organizations'[other].boundary # organizations'[i].boundary
        BY <3>3, <3>5 DEF DecisionInv, OneRequestPerBoundary
      <4>2. CASE i = id
        BY <2>1, <3>2, <3>3, <3>5, <4>1, <4>2
      <4>3. CASE i # id
        BY <2>1, <3>5, <4>1, <4>3 DEF DecisionInv, AdminIsEarned
      <4> QED
        BY <4>2, <4>3
    <3> QED
      BY <3>8, <3>9, <3>10, <3>11, <3>12, <3>13 DEF DecisionInv
  <2> QED
    BY <2>3, <2>4
<1>5. ASSUME NEW w \in Workers, Invite(w) PROVE DecisionInv'
  BY <1>0, <1>5, IdleNext, DecisionsKept DEF Invite, authority
<1>6. ASSUME NEW i \in DOMAIN invitations, Expire(i) PROVE DecisionInv'
  BY <1>6, DecisionsKept DEF Expire, authority
<1>7. ASSUME NEW w \in Workers, Accept(w) PROVE DecisionInv'
  BY <1>0, <1>7, IdleNext, DecisionsKept DEF Accept, authority
<1>8. ASSUME NEW m \in DOMAIN memberships, Revoke(m) PROVE DecisionInv'
  BY <1>8, DecisionsKept DEF Revoke, authority
<1>9. CASE Change
  <2>1. UNCHANGED <<activations, work>>
    BY <1>9 DEF Change
  <2>2. ASSUME NEW u \in Users, ChangeReviewers(u) PROVE DecisionInv'
    <3>1. /\ UNCHANGED <<organizations, Ids>>
          /\ permitted \subseteq permitted' /\ reviewers' \subseteq permitted'
      BY <2>2 DEF ChangeReviewers, Ids
    <3>2. OneRequestPerBoundary' /\ ActivatedIsDecided' /\ ActivatedOnce'
      BY <2>1, <3>1 DEF DecisionInv, OneRequestPerBoundary,
         ActivatedIsDecided, ActivatedOnce
    <3>3. AdminIsEarned'
      BY <3>1 DEF DecisionInv, AdminIsEarned
    <3>4. ReviewsKeepTheProof' /\ ReviewersArePermitted'
      BY <2>1, <3>1 DEF DecisionInv, ReviewsKeepTheProof,
         ReviewersArePermitted
    <3> QED
      BY <3>2, <3>3, <3>4 DEF DecisionInv
  <2>3. ASSUME NEW id \in Ids, SetOrganizationState(id) PROVE DecisionInv'
    <3>1. UNCHANGED <<reviewers, permitted>>
      BY <2>3 DEF SetOrganizationState
    <3>2. PICK state \in {"active", "suspended"} :
            Updated(organizations, organizations', id,
              [organizations[id] EXCEPT !.state = state])
      BY <1>0, <2>3, SetOrganizationStateWrites
    <3> DEFINE row == [organizations[id] EXCEPT !.state = state]
    <3>3. /\ row.boundary = organizations[id].boundary
          /\ row.proof = organizations[id].proof
          /\ row.applicant = organizations[id].applicant
          /\ row.approvedBy = organizations[id].approvedBy
          /\ row.admin = organizations[id].admin
          /\ row.state # "pending"
          /\ organizations[id].state # "pending"
      BY <1>0, <2>3, RowTypes DEF Organizations, SetOrganizationState
    <3>4. /\ Ids' = Ids
          /\ organizations'[id] = row
          /\ \A i \in Ids \ {id} : organizations'[i] = organizations[i]
      BY <3>2 DEF Updated, Ids
    <3> HIDE DEF row
    <3>5. \A i \in Ids :
            /\ organizations'[i].boundary = organizations[i].boundary
            /\ organizations'[i].proof = organizations[i].proof
            /\ organizations'[i].applicant = organizations[i].applicant
            /\ organizations'[i].approvedBy = organizations[i].approvedBy
            /\ organizations'[i].admin = organizations[i].admin
            /\ organizations'[i].state = "pending" <=>
                 organizations[i].state = "pending"
      BY <2>3, <3>3, <3>4
    <3>6. OneRequestPerBoundary'
      BY <3>4, <3>5 DEF DecisionInv, OneRequestPerBoundary
    <3>7. ReviewsKeepTheProof'
      BY <1>0, <2>1, <3>5, RowTypes DEF DecisionInv, ReviewsKeepTheProof
    <3>8. ReviewersArePermitted'
      BY <2>1, <3>1 DEF DecisionInv, ReviewersArePermitted
    <3>9. \A i \in DOMAIN activations : activations[i].id \in Ids
      BY <1>0, RowTypes DEF Activations
    <3>10. ActivatedIsDecided' /\ ActivatedOnce'
      BY <2>1, <3>5, <3>9 DEF DecisionInv, ActivatedIsDecided, ActivatedOnce
    <3>11. AdminIsEarned'
      BY <3>1, <3>4, <3>5 DEF DecisionInv, AdminIsEarned
    <3> QED
      BY <3>6, <3>7, <3>8, <3>10, <3>11 DEF DecisionInv
  <2> QED
    BY <1>9, <2>2, <2>3 DEF Change
<1>10. CASE UNCHANGED vars
  BY <1>10, DecisionsKept DEF vars, authority
<1> QED
  BY <1>1, <1>2, <1>3, <1>4, <1>5, <1>6, <1>7, <1>8, <1>9, <1>10, StepKinds

LEMMA DecisionInvariant == Spec => []DecisionInv
<1>1. Init => DecisionInv
  BY EmptySeq DEF Init, DecisionInv, OneRequestPerBoundary,
     ReviewsKeepTheProof, ReviewersArePermitted, ActivatedIsDecided,
     ActivatedOnce, AdminIsEarned, Ids, Idle
<1> QED
  BY <1>1, TypeInvInit, TypeInvNext, DecisionInvNext, PTL DEF Spec

\* However many reviewers resume a request at once, one activates it, and
\* the approval on record is that one.
THEOREM RequestsAreActivatedOnce == Spec => []ActivatedOnce
BY DecisionInvariant, PTL DEF DecisionInv

\* An organization with an administrator has proved the boundary it claimed,
\* alone, before a permitted reviewer; its administrator is its applicant.
THEOREM AdminsAreEarned == Spec => []AdminIsEarned
BY DecisionInvariant, PTL DEF DecisionInv

---------------------------------------------------------------------------
(* Membership                                                              *)

\* An invitation is consumed exactly when a membership was made with it.
ConsumedIsSpent ==
  /\ \A m \in DOMAIN memberships :
       invitations[memberships[m].invitation].consumed
  /\ \A i \in DOMAIN invitations : invitations[i].consumed =>
       \E m \in DOMAIN memberships : memberships[m].invitation = i

MemberInv == ConsumedIsSpent /\ InvitationSpentOnce /\ MembershipIsInvited

\* Rows of invitations that keep what they are for, and memberships that
\* only end.
LEMMA MembersKept ==
  ASSUME TypeOK, MemberInv,
         DOMAIN invitations \subseteq DOMAIN invitations',
         \A i \in DOMAIN invitations :
           /\ invitations'[i].recipient = invitations[i].recipient
           /\ invitations'[i].organization = invitations[i].organization
           /\ invitations'[i].consumed = invitations[i].consumed,
         \A i \in DOMAIN invitations' \ DOMAIN invitations :
           ~invitations'[i].consumed,
         DOMAIN memberships' = DOMAIN memberships,
         \A m \in DOMAIN memberships :
           /\ memberships'[m].user = memberships[m].user
           /\ memberships'[m].organization = memberships[m].organization
           /\ memberships'[m].invitation = memberships[m].invitation
           /\ memberships'[m].state = "active" =>
                memberships[m].state = "active"
  PROVE  MemberInv'
<1>1. \A m \in DOMAIN memberships :
        memberships[m].invitation \in DOMAIN invitations
  BY RowTypes DEF Memberships
<1>2. ConsumedIsSpent'
  BY <1>1 DEF MemberInv, ConsumedIsSpent
<1>3. InvitationSpentOnce'
  BY DEF MemberInv, InvitationSpentOnce
<1>4. MembershipIsInvited'
  BY <1>1 DEF MemberInv, MembershipIsInvited
<1> QED
  BY <1>2, <1>3, <1>4 DEF MemberInv

\* What a join writes, in the terms of MemberInv.
LEMMA Joined ==
  ASSUME TypeOK, NEW w \in Workers, Accept(w), members' # members
  PROVE  LET i == work[w].invitation
             n == Len(memberships) + 1
         IN /\ i \in DOMAIN invitations
            /\ Usable(work[w].user, i)
            /\ Unaffiliated(work[w].user, invitations[i].organization)
            /\ DOMAIN invitations' = DOMAIN invitations
            /\ invitations'[i].consumed
            /\ \A j \in DOMAIN invitations :
                 /\ invitations'[j].recipient = invitations[j].recipient
                 /\ invitations'[j].organization = invitations[j].organization
                 /\ j # i => invitations'[j].consumed = invitations[j].consumed
            /\ DOMAIN memberships' = DOMAIN memberships \cup {n}
            /\ \A m \in DOMAIN memberships :
                 m # n /\ memberships'[m] = memberships[m]
            /\ memberships'[n].user = work[w].user
            /\ memberships'[n].organization = invitations[i].organization
            /\ memberships'[n].invitation = i
<1> DEFINE i == work[w].invitation
           row == [invitations[i] EXCEPT !.consumed = TRUE]
           new == [user |-> work[w].user,
                   organization |-> invitations[i].organization,
                   state |-> "active", version |-> 1, invitation |-> i]
<1>1. /\ i \in DOMAIN invitations
      /\ Usable(work[w].user, i)
      /\ Unaffiliated(work[w].user, invitations[i].organization)
      /\ Updated(invitations, invitations', i, row)
      /\ Added(memberships, memberships', new)
  BY AcceptWrites
<1>2. /\ row.consumed = TRUE
      /\ row.recipient = invitations[i].recipient
      /\ row.organization = invitations[i].organization
  BY <1>1, RowTypes DEF Invitations
<1>3. /\ new.user = work[w].user /\ new.invitation = i
      /\ new.organization = invitations[i].organization
  OBVIOUS
<1> HIDE DEF i, row, new
<1> QED
  BY <1>1, <1>2, <1>3 DEF Updated, Added, i

LEMMA MemberInvNext == TypeInv /\ MemberInv /\ [Next]_vars => MemberInv'
<1> SUFFICES ASSUME TypeInv, MemberInv, [Next]_vars PROVE MemberInv'
  OBVIOUS
<1>0. TypeOK
  BY DEF TypeInv
<1>1. CASE UNCHANGED members
  BY <1>0, <1>1, MembersKept DEF members
<1>2. ASSUME NEW w \in Workers, Invite(w) PROVE MemberInv'
  <2>1. PICK row \in Invitations :
          row.consumed = FALSE /\ Added(invitations, invitations', row)
    BY <1>0, <1>2, InviteWrites
  <2>2. UNCHANGED memberships
    BY <1>2 DEF Invite
  <2> QED
    BY <1>0, <2>1, <2>2, MembersKept DEF Added
<1>3. ASSUME NEW i \in DOMAIN invitations, Expire(i) PROVE MemberInv'
  <2> DEFINE row == [invitations[i] EXCEPT !.expired = TRUE]
  <2>1. Updated(invitations, invitations', i, row)
    BY <1>0, <1>3, ExpireWrites
  <2>2. /\ row.recipient = invitations[i].recipient
        /\ row.organization = invitations[i].organization
        /\ row.consumed = invitations[i].consumed
    BY <1>0, RowTypes DEF Invitations
  <2>3. UNCHANGED memberships
    BY <1>3 DEF Expire
  <2> HIDE DEF row
  <2> QED
    BY <1>0, <2>1, <2>2, <2>3, MembersKept DEF Updated
<1>4. ASSUME NEW m \in DOMAIN memberships, Revoke(m) PROVE MemberInv'
  <2> DEFINE row == [memberships[m] EXCEPT !.state = "revoked", !.version = 2]
  <2>1. Updated(memberships, memberships', m, row)
    BY <1>4, RevokeWrites DEF TypeInv
  <2>2. /\ row.user = memberships[m].user
        /\ row.organization = memberships[m].organization
        /\ row.invitation = memberships[m].invitation
        /\ row.state = "revoked"
    BY <1>0, RowTypes DEF Memberships
  <2>3. UNCHANGED invitations
    BY <1>4 DEF Revoke
  <2> HIDE DEF row
  <2> QED
    BY <1>0, <2>1, <2>2, <2>3, MembersKept DEF Updated
<1>5. ASSUME NEW w \in Workers, Accept(w), members' # members
      PROVE  MemberInv'
  <2> DEFINE i == work[w].invitation
             n == Len(memberships) + 1
  <2>1. /\ i \in DOMAIN invitations
        /\ Usable(work[w].user, i)
        /\ Unaffiliated(work[w].user, invitations[i].organization)
        /\ DOMAIN invitations' = DOMAIN invitations
        /\ invitations'[i].consumed
        /\ \A j \in DOMAIN invitations :
             /\ invitations'[j].recipient = invitations[j].recipient
             /\ invitations'[j].organization = invitations[j].organization
             /\ j # i => invitations'[j].consumed = invitations[j].consumed
        /\ DOMAIN memberships' = DOMAIN memberships \cup {n}
        /\ \A m \in DOMAIN memberships :
             m # n /\ memberships'[m] = memberships[m]
        /\ memberships'[n].user = work[w].user
        /\ memberships'[n].organization = invitations[i].organization
        /\ memberships'[n].invitation = i
    BY <1>0, <1>5, Joined
  <2> HIDE DEF i, n
  <2>2. \A m \in DOMAIN memberships :
          memberships[m].invitation \in DOMAIN invitations
    BY <1>0, RowTypes DEF Memberships
  <2>3. \A m \in DOMAIN memberships : memberships[m].invitation # i
    BY <2>1 DEF MemberInv, ConsumedIsSpent, Usable
  <2>4. ConsumedIsSpent'
    BY <2>1, <2>2 DEF MemberInv, ConsumedIsSpent
  <2>5. InvitationSpentOnce'
    BY <2>1, <2>3 DEF MemberInv, InvitationSpentOnce
  <2>6. MembershipIsInvited'
    BY <2>1, <2>2 DEF MemberInv, MembershipIsInvited, Usable, Unaffiliated
  <2> QED
    BY <2>4, <2>5, <2>6 DEF MemberInv
<1> QED
  BY <1>1, <1>2, <1>3, <1>4, <1>5, StepKinds
     DEF Reading, VerifyIdentity, LoadProof, AuthorizeReviewer, Crash,
         BeginReview, BeginInvite, BeginJoin, Read, PersistProof, Activate,
         CreatePending, Change, vars

LEMMA MemberInvariant == Spec => []MemberInv
<1>1. Init => MemberInv
  BY EmptySeq DEF Init, MemberInv, ConsumedIsSpent, InvitationSpentOnce,
     MembershipIsInvited
<1> QED
  BY <1>1, TypeInvInit, TypeInvNext, MemberInvNext, PTL DEF Spec

\* An invitation makes one membership at most, ever.
THEOREM InvitationsAreSpentOnce == Spec => []InvitationSpentOnce
BY MemberInvariant, PTL DEF MemberInv

\* Only the invited user joins, and is never an active member twice.
THEOREM MembershipsAreInvited == Spec => []MembershipIsInvited
BY MemberInvariant, PTL DEF MemberInv

\* A step that adds a member finds the organization active, and a consumed
\* invitation has its membership in the same step.
THEOREM JoinsAreAtomic == Spec => JoinIsAtomic
<1> DEFINE Atomic ==
      /\ \A m \in DOMAIN memberships' \ DOMAIN memberships :
           organizations[memberships'[m].organization].state = "active"
      /\ \A i \in DOMAIN invitations :
           invitations'[i].consumed =>
             \E m \in DOMAIN memberships' : memberships'[m].invitation = i
<1>1. TypeInv /\ MemberInv /\ MemberInv' /\ [Next]_vars => [Atomic]_vars
  <2> SUFFICES ASSUME TypeInv, MemberInv, MemberInv', [Next]_vars
               PROVE  Atomic
    OBVIOUS
  <2>1. DOMAIN invitations \subseteq DOMAIN invitations'
    <3>1. ASSUME NEW i \in DOMAIN invitations, Expire(i)
          PROVE  DOMAIN invitations' = DOMAIN invitations
      BY <3>1, ExpireWrites DEF TypeInv, Updated
    <3>2. ASSUME NEW w \in Workers, Invite(w)
          PROVE  DOMAIN invitations \subseteq DOMAIN invitations'
      BY <3>2, InviteWrites DEF TypeInv, Added
    <3>3. ASSUME NEW w \in Workers, Accept(w), members' # members
          PROVE  DOMAIN invitations' = DOMAIN invitations
      BY <3>3, Joined DEF TypeInv
    <3> QED
      BY <3>1, <3>2, <3>3, StepKinds
         DEF Reading, VerifyIdentity, LoadProof, AuthorizeReviewer, Crash,
             BeginReview, BeginInvite, BeginJoin, Read, PersistProof,
             Activate, CreatePending, Change, Revoke, vars, members
  <2>2. \A i \in DOMAIN invitations :
          invitations'[i].consumed =>
            \E m \in DOMAIN memberships' : memberships'[m].invitation = i
    BY <2>1 DEF MemberInv, ConsumedIsSpent
  <2>3. \A m \in DOMAIN memberships' \ DOMAIN memberships :
          organizations[memberships'[m].organization].state = "active"
    <3>1. CASE DOMAIN memberships' = DOMAIN memberships
      BY <3>1
    <3>2. ASSUME NEW w \in Workers, Accept(w), members' # members,
                 NEW m \in DOMAIN memberships' \ DOMAIN memberships
          PROVE  organizations[memberships'[m].organization].state = "active"
      BY <3>2, Joined DEF TypeInv, Usable
    <3>3. ASSUME NEW m \in DOMAIN memberships, Revoke(m)
          PROVE  DOMAIN memberships' = DOMAIN memberships
      BY <3>3, RevokeWrites DEF TypeInv, Updated
    <3> QED
      BY <3>1, <3>2, <3>3, StepKinds
         DEF Reading, VerifyIdentity, LoadProof, AuthorizeReviewer, Crash,
             BeginReview, BeginInvite, BeginJoin, Read, PersistProof,
             Activate, CreatePending, Change, Invite, Expire, vars, members
  <2> QED
    BY <2>2, <2>3
<1> QED
  BY <1>1, TypeInvInit, TypeInvNext, MemberInvariant, PTL
     DEF Spec, JoinIsAtomic

=============================================================================
