------------------------- MODULE BrowserLoginProofs -------------------------
(***************************************************************************)
(* Theorems about BrowserLogin, for any addresses, sources, workers and    *)
(* limits.  Rows keep what identifies them, so a worker that has consumed  *)
(* a link is the only one that holds it, and what it carries to the        *)
(* session it issues stays true while it is under way.                     *)
(***************************************************************************)
EXTENDS BrowserLogin, SequenceTheorems, FunctionTheorems, FiniteSetTheorems,
        TLAPS

---------------------------------------------------------------------------
(* Types                                                                   *)

\* What refers to rows has a type that grows with the tables.
LEMMA TypesGrow ==
  ASSUME DOMAIN attempts \subseteq DOMAIN attempts',
         DOMAIN sessions \subseteq DOMAIN sessions',
         Subjects \subseteq Subjects'
  PROVE  /\ Seq(Sessions) \subseteq Seq(Sessions')
         /\ Activities \subseteq Activities'
<1>1. Sessions \subseteq Sessions'
  BY DEF Sessions
<1>2. Activities \subseteq Activities'
  BY DEF Activities, Requests, Saves, Sends, Confirms, Issues, Mutations,
         Logouts
<1> QED
  BY <1>1, <1>2, SeqMonotonic

\* What the stage of a worker says of the record it holds.
LEMMA StageTypes ==
  ASSUME TypeOK, NEW w \in Workers
  PROVE  /\ work[w].at = "update" => work[w] \in Requests
         /\ work[w].at = "insert" => work[w] \in Saves
         /\ work[w].at = "send" => work[w] \in Sends
         /\ work[w].at = "recover" => work[w] \in Confirms
         /\ work[w].at = "issue" => work[w] \in Issues
         /\ work[w].at \in {"csrf", "routed"} => work[w] \in Mutations
         /\ work[w].at = "revoke" => work[w] \in Logouts
BY DEF TypeOK, Activities, Idle, Requests, Saves, Sends, Confirms, Issues,
       Mutations, Logouts

LEMMA RowTypes ==
  ASSUME TypeOK
  PROVE  /\ DOMAIN attempts = 1..Len(attempts) /\ Len(attempts) \in Nat
         /\ DOMAIN sessions = 1..Len(sessions) /\ Len(sessions) \in Nat
         /\ \A i \in DOMAIN attempts : attempts[i] \in Attempts
         /\ \A i \in DOMAIN sessions : sessions[i] \in Sessions
BY ElementOfSeq, LenProperties DEF TypeOK

\* The entries of a log that have left the window are its first ones, and
\* what is kept is a log of the same kind.
LEMMA RecentType ==
  ASSUME NEW log \in Seq(0..MaxTime)
  PROVE  Recent(log) \in Seq(0..MaxTime)
<1> DEFINE left == Cardinality({i \in DOMAIN log : log[i] + Window <= now})
<1>1. left \in Nat
  <2>1. IsFiniteSet(1..Len(log))
    BY LenProperties, FS_Interval
  <2>2. IsFiniteSet({i \in DOMAIN log : log[i] + Window <= now})
    BY <2>1, LenProperties, FS_Subset
  <2> QED
    BY <2>2, FS_CardinalityType
<1> HIDE DEF left
<1>2. ASSUME NEW i \in (left + 1)..Len(log) PROVE log[i] \in 0..MaxTime
  <2>1. Len(log) \in Nat
    BY LenProperties
  <2>2. i \in 1..Len(log)
    BY <1>1, <2>1
  <2> QED
    BY <2>2, ElementOfSeq
<1>3. SubSeq(log, left + 1, Len(log)) \in Seq(0..MaxTime)
  BY <1>1, <1>2, LenProperties, SubSeqProperties
<1> QED
  BY <1>3 DEF Recent, left

LEMMA BecomesTyped ==
  ASSUME TypeOK, NEW w \in Workers, NEW record, Become(w, record),
         record \in Activities', Activities \subseteq Activities'
  PROVE  work' \in [Workers -> Activities']
BY DEF TypeOK, Become

LEMMA IdleTyped == Idle \in Activities
BY DEF Activities

\* A step that leaves the tables alone.
LEMMA ReadTyped ==
  ASSUME TypeOK, NEW w \in Workers, NEW record \in Activities,
         Become(w, record),
         UNCHANGED <<now, limiter, attempts, mail, users, sessions>>
  PROVE  TypeOK'
<1>1. Subjects' = Subjects /\ Sessions' = Sessions
  BY DEF users, Subjects, Sessions
<1>2. Activities' = Activities
  BY <1>1 DEF Activities, Requests, Saves, Sends, Confirms, Issues,
              Mutations, Logouts
<1>3. work' \in [Workers -> Activities']
  BY <1>2, BecomesTyped
<1> QED
  BY <1>1, <1>3 DEF TypeOK, limiter, users

LEMMA RequestTyped ==
  ASSUME TypeOK, NEW w \in Workers, NEW e \in Emails, NEW s \in Callers,
         Request(w, e, s)
  PROVE  TypeOK'
<1>1. emailLog' \in [Emails -> Seq(0..MaxTime)]
  <2>1. Append(Recent(emailLog[e]), now) \in Seq(0..MaxTime)
    BY RecentType, AppendProperties DEF TypeOK
  <2> QED
    BY <2>1 DEF TypeOK, Request
<1>2. sourceLog' \in [Sources -> Seq(0..MaxTime)]
  <2>1. ASSUME s \in Sources
        PROVE  Append(SourceLog(s), now) \in Seq(0..MaxTime)
    BY <2>1, RecentType, AppendProperties, LoginAssumption
       DEF TypeOK, SourceLog
  <2> QED
    BY <2>1 DEF TypeOK, Request
<1>3. [at |-> "update", email |-> e, source |-> s, created |-> now]
        \in Activities
  BY DEF TypeOK, Activities, Requests
<1>4. Activities' = Activities /\ Subjects' = Subjects /\ Sessions' = Sessions
  BY DEF Request, users, Subjects, Sessions, Activities, Requests, Saves,
         Sends, Confirms, Issues, Mutations, Logouts
<1>5. work' \in [Workers -> Activities']
  BY <1>3, <1>4, BecomesTyped DEF Request
<1> QED
  BY <1>1, <1>2, <1>4, <1>5 DEF TypeOK, Request, users

---------------------------------------------------------------------------
(* What the transactions write                                             *)

\* INSERT of an attempt after the UPDATE of the outstanding ones.
LEMMA SaveCommitWrites ==
  ASSUME TypeOK, NEW w \in Workers, SaveCommit(w)
  PROVE  /\ attempts' \in Seq(Attempts)
         /\ DOMAIN attempts' = DOMAIN attempts \cup {Len(attempts) + 1}
         /\ Len(attempts) + 1 \notin DOMAIN attempts
         /\ attempts'[Len(attempts) + 1] =
              [email |-> work[w].email, source |-> work[w].source,
               created |-> work[w].created, consumed |-> FALSE,
               invalidated |-> FALSE]
         /\ \A i \in DOMAIN attempts :
              \/ attempts'[i] = attempts[i]
              \/ /\ ~attempts[i].consumed
                 /\ attempts'[i] = [attempts[i] EXCEPT !.invalidated = TRUE]
<1> DEFINE rows == work[w].outstanding
           new == [email |-> work[w].email, source |-> work[w].source,
                   created |-> work[w].created, consumed |-> FALSE,
                   invalidated |-> FALSE]
<1>1. new \in Attempts
  BY StageTypes DEF SaveCommit, Saves, Attempts
<1>2. \A i \in DOMAIN attempts : Invalidated(rows)[i] \in Attempts
  BY RowTypes DEF Invalidated, Attempts
<1>3. Invalidated(rows) \in [1..Len(attempts) -> Attempts]
  BY <1>2, RowTypes DEF Invalidated
<1>4. Invalidated(rows) \in Seq(Attempts)
  BY <1>3, RowTypes, SeqDef
<1>5. Len(Invalidated(rows)) = Len(attempts)
  BY <1>3, <1>4, RowTypes, LenProperties
<1>6. attempts' = Append(Invalidated(rows), new)
  BY DEF SaveCommit
<1>7. \A i \in DOMAIN attempts :
        \/ Invalidated(rows)[i] = attempts[i]
        \/ /\ ~attempts[i].consumed
           /\ Invalidated(rows)[i] = [attempts[i] EXCEPT !.invalidated = TRUE]
  BY DEF Invalidated
<1> HIDE DEF rows, new
<1>8. /\ attempts' \in Seq(Attempts)
      /\ Len(attempts') = Len(attempts) + 1
      /\ attempts'[Len(attempts) + 1] = new
      /\ \A i \in 1..Len(attempts) : attempts'[i] = Invalidated(rows)[i]
  BY <1>1, <1>4, <1>5, <1>6, AppendProperties
<1>9. DOMAIN attempts' = 1..(Len(attempts) + 1)
  BY <1>8, LenProperties
<1> QED
  BY <1>7, <1>8, <1>9, RowTypes DEF new

LEMMA ConsumeWrites ==
  ASSUME TypeOK, NEW w \in Workers, NEW token \in mail, Consume(w, token)
  PROVE  /\ token \in DOMAIN attempts
         /\ ~attempts[token].consumed /\ ~attempts[token].invalidated
         /\ attempts' \in Seq(Attempts)
         /\ DOMAIN attempts' = DOMAIN attempts
         /\ attempts'[token] = [attempts[token] EXCEPT !.consumed = TRUE]
         /\ \A i \in DOMAIN attempts \ {token} : attempts'[i] = attempts[i]
<1> DEFINE row == [attempts[token] EXCEPT !.consumed = TRUE]
<1>1. token \in DOMAIN attempts
  BY DEF TypeOK
<1>2. row \in Attempts
  BY <1>1, RowTypes DEF Attempts
<1>3. attempts' = [attempts EXCEPT ![token] = row]
  BY DEF Consume
<1> HIDE DEF row
<1>4. attempts' \in Seq(Attempts) /\ Len(attempts') = Len(attempts)
  BY <1>1, <1>2, <1>3, RowTypes, ExceptSeq DEF TypeOK
<1>5. /\ DOMAIN attempts' = DOMAIN attempts /\ attempts'[token] = row
      /\ \A i \in DOMAIN attempts \ {token} : attempts'[i] = attempts[i]
  BY <1>1, <1>3
<1> QED
  BY <1>1, <1>4, <1>5 DEF row, Consume, IsActive

LEMMA RecoverWrites ==
  ASSUME TypeOK, NEW w \in Workers, Recover(w)
  PROVE  LET email == attempts[work[w].token].email
         IN /\ work[w].token \in DOMAIN attempts
            /\ email \in Emails
            /\ accounts' \in Nat /\ Subjects \subseteq Subjects'
            /\ contacts' \in [Emails -> Subjects' \cup {0}]
            /\ contacts'[email] \in Subjects'
            /\ \A e \in Emails \ {email} : contacts'[e] = contacts[e]
            /\ \/ /\ contacts[email] # 0
                  /\ UNCHANGED users
               \/ /\ contacts[email] = 0
                  /\ Subjects' = Subjects \cup {contacts'[email]}
                  /\ contacts'[email] \notin Subjects
            /\ Become(w, [at |-> "issue", token |-> work[w].token,
                          subject |-> contacts'[email]])
<1> DEFINE email == attempts[work[w].token].email
<1>1. work[w].token \in DOMAIN attempts /\ email \in Emails
  BY StageTypes, RowTypes DEF Recover, Confirms, Attempts
<1>2. accounts \in Nat /\ contacts \in [Emails -> Subjects \cup {0}]
  BY DEF TypeOK
<1>3. CASE contacts[email] # 0 /\ UNCHANGED users
  <2>1. Recovered(w, contacts[email])
    BY <1>2, <1>3 DEF Recover, users, Subjects
  <2> QED
    BY <1>1, <1>2, <1>3, <2>1 DEF users, Subjects, Recovered
<1>4. CASE /\ contacts[email] = 0
           /\ accounts' = accounts + 1
           /\ contacts' = [contacts EXCEPT ![email] = accounts + 1]
           /\ Recovered(w, accounts + 1)
  <2>1. contacts'[email] = accounts + 1
    BY <1>1, <1>2, <1>4
  <2>2. Subjects' = Subjects \cup {accounts + 1} /\ accounts + 1 \notin Subjects
    BY <1>2, <1>4 DEF Subjects
  <2>3. contacts' \in [Emails -> Subjects' \cup {0}]
    BY <1>1, <1>2, <1>4, <2>2
  <2> QED
    BY <1>1, <1>2, <1>4, <2>1, <2>2, <2>3 DEF Recovered
<1> QED
  BY <1>3, <1>4 DEF Recover

LEMMA IssueWrites ==
  ASSUME TypeOK, NEW w \in Workers, Issue(w)
  PROVE  /\ work[w].token \in DOMAIN attempts
         /\ sessions' \in Seq(Sessions)
         /\ DOMAIN sessions' = DOMAIN sessions \cup {Len(sessions) + 1}
         /\ Len(sessions) + 1 \notin DOMAIN sessions
         /\ sessions'[Len(sessions) + 1] =
              [subject |-> work[w].subject, attempt |-> work[w].token,
               created |-> now, revoked |-> FALSE]
         /\ \A i \in DOMAIN sessions : sessions'[i] = sessions[i]
<1> DEFINE row == [subject |-> work[w].subject, attempt |-> work[w].token,
                   created |-> now, revoked |-> FALSE]
<1>1. row \in Sessions /\ work[w].token \in DOMAIN attempts
  BY StageTypes DEF Issue, Issues, Sessions, TypeOK
<1>2. sessions' = Append(sessions, row) /\ sessions \in Seq(Sessions)
  BY DEF Issue, TypeOK
<1> HIDE DEF row
<1>3. /\ sessions' \in Seq(Sessions) /\ Len(sessions') = Len(sessions) + 1
      /\ sessions'[Len(sessions) + 1] = row
      /\ \A i \in 1..Len(sessions) : sessions'[i] = sessions[i]
  BY <1>1, <1>2, AppendProperties
<1>4. DOMAIN sessions' = 1..(Len(sessions) + 1)
  BY <1>3, LenProperties
<1> QED
  BY <1>1, <1>3, <1>4, RowTypes DEF row

LEMMA RevokeWrites ==
  ASSUME TypeOK, NEW w \in Workers, Revoke(w)
  PROVE  LET s == work[w].session
         IN /\ s \in DOMAIN sessions
            /\ sessions' \in Seq(Sessions)
            /\ DOMAIN sessions' = DOMAIN sessions
            /\ sessions'[s] = [sessions[s] EXCEPT !.revoked = TRUE]
            /\ \A i \in DOMAIN sessions \ {s} : sessions'[i] = sessions[i]
<1> DEFINE s == work[w].session
           row == [sessions[s] EXCEPT !.revoked = TRUE]
<1>1. s \in DOMAIN sessions
  BY StageTypes DEF Revoke, Logouts
<1>2. row \in Sessions
  BY <1>1, RowTypes DEF Sessions
<1>3. sessions' = [sessions EXCEPT ![s] = row]
  BY DEF Revoke
<1> HIDE DEF row, s
<1>4. sessions' \in Seq(Sessions)
  BY <1>1, <1>2, <1>3, RowTypes, ExceptSeq DEF TypeOK
<1> QED
  BY <1>1, <1>3, <1>4 DEF row, s

---------------------------------------------------------------------------
(* The steps                                                               *)

\* The steps that leave the tables alone: reads, what a worker holds, the
\* mailbox a link reaches.
Reading(w) ==
  \/ SaveUpdate(w) \/ VerifyCsrf(w) \/ Finish(w) \/ Crash(w)
  \/ \E s, proof \in DOMAIN sessions : BeginMutation(w, s, proof)
  \/ \E s \in DOMAIN sessions : BeginLogout(w, s)

LEMMA ReadingReads ==
  ASSUME TypeOK, NEW w \in Workers, Reading(w)
  PROVE  /\ UNCHANGED <<now, limiter, attempts, mail, users, sessions>>
         /\ \E record \in Activities :
              /\ Become(w, record)
              /\ record.at \in {"idle", "insert", "csrf", "routed", "revoke"}
              /\ record.at = "insert" =>
                   /\ work[w].at = "update"
                   /\ record.email = work[w].email
                   /\ record.source = work[w].source
                   /\ record.created = work[w].created
              /\ record.at = "routed" => ~sessions[record.session].revoked
<1>1. CASE SaveUpdate(w)
  <2> DEFINE record == [at |-> "insert", email |-> work[w].email,
                        source |-> work[w].source,
                        created |-> work[w].created,
                        outstanding |-> Outstanding(work[w].email)]
  <2>1. record \in Activities
    BY <1>1, StageTypes
       DEF SaveUpdate, Requests, Saves, Activities, Outstanding
  <2>2. Become(w, record) /\ work[w].at = "update"
          /\ UNCHANGED <<now, limiter, attempts, mail, users, sessions>>
    BY <1>1 DEF SaveUpdate
  <2>3. /\ record.at = "insert" /\ record.email = work[w].email
        /\ record.source = work[w].source
        /\ record.created = work[w].created
    OBVIOUS
  <2> HIDE DEF record
  <2> QED
    BY <2>1, <2>2, <2>3
<1>2. CASE VerifyCsrf(w)
  <2> DEFINE record == [work[w] EXCEPT !.at = "routed"]
  <2>1. work[w] \in Mutations /\ work[w].at = "csrf"
    BY <1>2, StageTypes DEF VerifyCsrf
  <2>2. /\ record \in Activities /\ record.at = "routed"
        /\ record.session = work[w].session
    BY <2>1 DEF Mutations, Activities
  <2>3. /\ UNCHANGED <<now, limiter, attempts, mail, users, sessions>>
        /\ \/ Become(w, record) /\ ~sessions[work[w].session].revoked
           \/ Become(w, Idle)
    BY <1>2 DEF VerifyCsrf, GetActive
  <2> HIDE DEF record
  <2> QED
    BY <2>1, <2>2, <2>3, IdleTyped DEF Idle
<1>3. CASE Finish(w) \/ Crash(w)
  BY <1>3, IdleTyped DEF Finish, Crash, Idle
<1>4. ASSUME NEW s \in DOMAIN sessions, NEW proof \in DOMAIN sessions,
             BeginMutation(w, s, proof)
      PROVE  /\ UNCHANGED <<now, limiter, attempts, mail, users, sessions>>
             /\ \E record \in Activities :
                  Become(w, record) /\ record.at = "csrf"
  <2> DEFINE record == [at |-> "csrf", session |-> s, proof |-> proof]
  <2>1. record \in Activities /\ record.at = "csrf"
    BY DEF Activities, Mutations
  <2>2. Become(w, record)
          /\ UNCHANGED <<now, limiter, attempts, mail, users, sessions>>
    BY <1>4 DEF BeginMutation
  <2> HIDE DEF record
  <2> QED
    BY <2>1, <2>2
<1>5. ASSUME NEW s \in DOMAIN sessions, BeginLogout(w, s)
      PROVE  /\ UNCHANGED <<now, limiter, attempts, mail, users, sessions>>
             /\ \E record \in Activities :
                  Become(w, record) /\ record.at = "revoke"
  <2> DEFINE record == [at |-> "revoke", session |-> s]
  <2>1. record \in Activities /\ record.at = "revoke"
    BY DEF Activities, Logouts
  <2>2. Become(w, record)
          /\ UNCHANGED <<now, limiter, attempts, mail, users, sessions>>
    BY <1>5 DEF BeginLogout
  <2> HIDE DEF record
  <2> QED
    BY <2>1, <2>2
<1> QED
  BY <1>1, <1>2, <1>3, <1>4, <1>5 DEF Reading

LEMMA StepKinds ==
  ASSUME [Next]_vars
  PROVE  \/ \E w \in Workers, e \in Emails, s \in Callers : Request(w, e, s)
         \/ \E w \in Workers : SaveCommit(w) \/ Send(w)
         \/ \E w \in Workers, token \in mail : Consume(w, token)
         \/ \E w \in Workers : Recover(w) \/ Issue(w) \/ Revoke(w)
         \/ \E w \in Workers : Reading(w)
         \/ Tick
         \/ UNCHANGED vars
BY DEF Next, Registration, Confirmation, Browsing, Refuse, Reading

LEMMA TypeInit == Init => TypeOK
BY EmptySeq, LoginAssumption
   DEF Init, TypeOK, Activities, Subjects

LEMMA TypeNext == TypeOK /\ [Next]_vars => TypeOK'
<1> SUFFICES ASSUME TypeOK, [Next]_vars PROVE TypeOK'
  OBVIOUS
<1>1. ASSUME NEW w \in Workers, SaveCommit(w) PROVE TypeOK'
  <2>1. attempts' \in Seq(Attempts) /\ DOMAIN attempts \subseteq DOMAIN attempts'
    BY <1>1, SaveCommitWrites
  <2>2. UNCHANGED <<now, limiter, mail, users, sessions>>
    BY <1>1 DEF SaveCommit
  <2>3. Seq(Sessions) \subseteq Seq(Sessions') /\ Activities \subseteq Activities'
    BY <2>1, <2>2, TypesGrow DEF users, Subjects
  <2>4. [at |-> "send", token |-> Len(attempts) + 1] \in Activities'
    BY <1>1, SaveCommitWrites DEF Activities, Sends
  <2>5. work' \in [Workers -> Activities']
    BY <1>1, <2>3, <2>4, BecomesTyped DEF SaveCommit
  <2> QED
    BY <2>1, <2>2, <2>3, <2>5 DEF TypeOK, limiter, users, Subjects
<1>2. ASSUME NEW w \in Workers, Send(w) PROVE TypeOK'
  <2>1. mail' \subseteq DOMAIN attempts
    BY <1>2, StageTypes DEF Send, Sends, TypeOK
  <2>2. UNCHANGED <<now, limiter, attempts, users, sessions>>
    BY <1>2 DEF Send
  <2>3. Sessions' = Sessions /\ Activities' = Activities
    BY <2>2 DEF users, Sessions, Subjects, Activities, Requests, Saves,
                Sends, Confirms, Issues, Mutations, Logouts
  <2>4. work' \in [Workers -> Activities']
    BY <1>2, <2>3, IdleTyped, BecomesTyped DEF Send
  <2> QED
    BY <2>1, <2>2, <2>3, <2>4 DEF TypeOK, limiter, users, Subjects
<1>3. ASSUME NEW w \in Workers, NEW token \in mail, Consume(w, token)
      PROVE  TypeOK'
  <2>1. /\ attempts' \in Seq(Attempts) /\ DOMAIN attempts' = DOMAIN attempts
        /\ token \in DOMAIN attempts
    BY <1>3, ConsumeWrites
  <2>2. UNCHANGED <<now, limiter, mail, users, sessions>>
    BY <1>3 DEF Consume
  <2>3. Seq(Sessions) \subseteq Seq(Sessions') /\ Activities \subseteq Activities'
    BY <2>1, <2>2, TypesGrow DEF users, Subjects
  <2>4. [at |-> "recover", token |-> token] \in Activities'
    BY <2>1 DEF Activities, Confirms
  <2>5. work' \in [Workers -> Activities']
    BY <1>3, <2>3, <2>4, BecomesTyped DEF Consume
  <2> QED
    BY <2>1, <2>2, <2>3, <2>5 DEF TypeOK, limiter, users, Subjects
<1>4. ASSUME NEW w \in Workers, Recover(w) PROVE TypeOK'
  <2> DEFINE record == [at |-> "issue", token |-> work[w].token,
                        subject |->
                          contacts'[attempts[work[w].token].email]]
  <2>1. /\ accounts' \in Nat /\ Subjects \subseteq Subjects'
        /\ contacts' \in [Emails -> Subjects' \cup {0}]
    BY <1>4, RecoverWrites
  <2>2. UNCHANGED <<now, limiter, attempts, mail, sessions>>
    BY <1>4 DEF Recover, Recovered
  <2>3. Seq(Sessions) \subseteq Seq(Sessions') /\ Activities \subseteq Activities'
    BY <2>1, <2>2, TypesGrow
  <2>4. record \in Activities' /\ Become(w, record)
    BY <1>4, <2>2, RecoverWrites DEF Activities, Issues
  <2> HIDE DEF record
  <2>5. work' \in [Workers -> Activities']
    BY <2>3, <2>4, BecomesTyped
  <2> QED
    BY <2>1, <2>2, <2>3, <2>5 DEF TypeOK, limiter
<1>5. ASSUME NEW w \in Workers, Issue(w) PROVE TypeOK'
  <2>1. sessions' \in Seq(Sessions) /\ DOMAIN sessions \subseteq DOMAIN sessions'
    BY <1>5, IssueWrites
  <2>2. UNCHANGED <<now, limiter, attempts, mail, users>>
    BY <1>5 DEF Issue
  <2>3. Seq(Sessions) \subseteq Seq(Sessions') /\ Activities \subseteq Activities'
    BY <2>1, <2>2, TypesGrow DEF users, Subjects
  <2>4. work' \in [Workers -> Activities']
    BY <1>5, <2>3, IdleTyped, BecomesTyped DEF Issue
  <2> QED
    BY <2>1, <2>2, <2>3, <2>4 DEF TypeOK, limiter, users, Subjects
<1>6. ASSUME NEW w \in Workers, Revoke(w) PROVE TypeOK'
  <2>1. sessions' \in Seq(Sessions) /\ DOMAIN sessions' = DOMAIN sessions
    BY <1>6, RevokeWrites
  <2>2. UNCHANGED <<now, limiter, attempts, mail, users>>
    BY <1>6 DEF Revoke
  <2>3. Seq(Sessions) \subseteq Seq(Sessions') /\ Activities \subseteq Activities'
    BY <2>1, <2>2, TypesGrow DEF users, Subjects
  <2>4. work' \in [Workers -> Activities']
    BY <1>6, <2>3, IdleTyped, BecomesTyped DEF Revoke
  <2> QED
    BY <2>1, <2>2, <2>3, <2>4 DEF TypeOK, limiter, users, Subjects
<1>7. ASSUME NEW w \in Workers, Reading(w) PROVE TypeOK'
  BY <1>7, ReadingReads, ReadTyped
<1>8. CASE Tick \/ UNCHANGED vars
  <2>1. now' \in 0..MaxTime
    BY <1>8, LoginAssumption DEF Tick, vars, TypeOK
  <2>2. UNCHANGED <<limiter, attempts, mail, users, sessions, work>>
    BY <1>8 DEF Tick, vars
  <2>3. Sessions' = Sessions /\ Activities' = Activities
    BY <2>2 DEF users, Sessions, Subjects, Activities, Requests, Saves,
                Sends, Confirms, Issues, Mutations, Logouts
  <2> QED
    BY <2>1, <2>2, <2>3 DEF TypeOK, limiter, users, Subjects
<1> QED
  BY <1>1, <1>2, <1>3, <1>4, <1>5, <1>6, <1>7, <1>8, StepKinds, RequestTyped

\* Every row, log and record of a worker keeps its shape, and refers to rows
\* that exist.
THEOREM LoginTypeCorrect == Spec => []TypeOK
BY TypeInit, TypeNext, PTL DEF Spec

---------------------------------------------------------------------------
(* Links                                                                   *)

\* Between the two transactions that follow it, whoever consumed a link is
\* the only one to hold it, and no session has come of it yet.
Holds(w) == work[w].at \in {"recover", "issue"}

HoldersAreSole ==
  \A w \in Workers : Holds(w) =>
    /\ attempts[work[w].token].consumed
    /\ \A i \in DOMAIN sessions : sessions[i].attempt # work[w].token
    /\ \A v \in Workers : Holds(v) /\ work[v].token = work[w].token => v = w

LinkInv == HoldersAreSole /\ OneSessionPerLink

\* An attempt keeps its address, its source, its time, and stays consumed.
LEMMA AttemptsKept ==
  ASSUME TypeOK, [Next]_vars
  PROVE  \A i \in DOMAIN attempts :
           /\ i \in DOMAIN attempts'
           /\ attempts'[i].email = attempts[i].email
           /\ attempts'[i].source = attempts[i].source
           /\ attempts'[i].created = attempts[i].created
           /\ attempts[i].consumed => attempts'[i].consumed
<1> DEFINE Kept == \A i \in DOMAIN attempts :
             /\ i \in DOMAIN attempts'
             /\ attempts'[i].email = attempts[i].email
             /\ attempts'[i].source = attempts[i].source
             /\ attempts'[i].created = attempts[i].created
             /\ attempts[i].consumed => attempts'[i].consumed
<1>1. ASSUME NEW w \in Workers, SaveCommit(w) PROVE Kept
  <2>1. \A i \in DOMAIN attempts :
          attempts'[i] = attempts[i]
            \/ attempts'[i] = [attempts[i] EXCEPT !.invalidated = TRUE]
    BY <1>1, SaveCommitWrites
  <2>2. DOMAIN attempts \subseteq DOMAIN attempts'
    BY <1>1, SaveCommitWrites
  <2> QED
    BY <2>1, <2>2, RowTypes DEF Attempts
<1>2. ASSUME NEW w \in Workers, NEW token \in mail, Consume(w, token)
      PROVE  Kept
  <2>1. /\ attempts'[token] = [attempts[token] EXCEPT !.consumed = TRUE]
        /\ token \in DOMAIN attempts /\ DOMAIN attempts' = DOMAIN attempts
        /\ \A i \in DOMAIN attempts \ {token} : attempts'[i] = attempts[i]
    BY <1>2, ConsumeWrites
  <2>2. /\ attempts'[token].email = attempts[token].email
        /\ attempts'[token].source = attempts[token].source
        /\ attempts'[token].created = attempts[token].created
        /\ attempts'[token].consumed
    BY <2>1, RowTypes DEF Attempts
  <2> QED
    BY <2>1, <2>2
<1>3. CASE UNCHANGED attempts
  BY <1>3
<1> QED
  BY <1>1, <1>2, <1>3, StepKinds, ReadingReads
     DEF Request, Send, Recover, Recovered, Issue, Revoke, Tick, vars

\* Steps after which no other worker holds a link than before.
LEMMA LinksKept ==
  ASSUME TypeOK, LinkInv, [Next]_vars,
         UNCHANGED DOMAIN sessions,
         \A i \in DOMAIN sessions :
           sessions'[i].attempt = sessions[i].attempt,
         \A w \in Workers :
           Holds(w)' => Holds(w) /\ work'[w].token = work[w].token
  PROVE  LinkInv'
<1>1. \A i \in DOMAIN sessions : sessions[i].attempt \in DOMAIN attempts
  BY RowTypes DEF Sessions
<1>2. \A w \in Workers : Holds(w) => work[w].token \in DOMAIN attempts
  BY StageTypes DEF Holds, Confirms, Issues
<1>3. HoldersAreSole'
  <2> SUFFICES ASSUME NEW w \in Workers, Holds(w)'
               PROVE  /\ attempts'[work'[w].token].consumed
                      /\ \A i \in DOMAIN sessions' :
                           sessions'[i].attempt # work'[w].token
                      /\ \A v \in Workers :
                           Holds(v)' /\ work'[v].token = work'[w].token
                             => v = w
    BY DEF HoldersAreSole
  <2>1. Holds(w) /\ work'[w].token = work[w].token
    OBVIOUS
  <2> QED
    BY <1>2, <2>1, AttemptsKept DEF LinkInv, HoldersAreSole
<1>4. OneSessionPerLink'
  BY <1>1, AttemptsKept DEF LinkInv, OneSessionPerLink
<1> QED
  BY <1>3, <1>4 DEF LinkInv

LEMMA LinkInvNext == TypeOK /\ LinkInv /\ [Next]_vars => LinkInv'
<1> SUFFICES ASSUME TypeOK, LinkInv, [Next]_vars PROVE LinkInv'
  OBVIOUS
<1>1. \A i \in DOMAIN sessions : sessions[i].attempt \in DOMAIN attempts
  BY RowTypes DEF Sessions
<1>2. \A w \in Workers : Holds(w) => work[w].token \in DOMAIN attempts
  BY StageTypes DEF Holds, Confirms, Issues
<1>3. ASSUME NEW w \in Workers, NEW token \in mail, Consume(w, token)
      PROVE  LinkInv'
  <2>1. /\ token \in DOMAIN attempts /\ ~attempts[token].consumed
        /\ attempts'[token].consumed
        /\ sessions' = sessions
    BY <1>3, ConsumeWrites, RowTypes DEF Consume, Attempts
  <2>2. work' = [work EXCEPT ![w] = [at |-> "recover", token |-> token]]
    BY <1>3 DEF Consume, Become
  <2>3. /\ Holds(w)' /\ work'[w].token = token
        /\ \A v \in Workers \ {w} : work'[v] = work[v] /\ Holds(v)' = Holds(v)
    BY <2>2 DEF TypeOK, Holds
  <2>4. /\ \A v \in Workers : Holds(v) => work[v].token # token
        /\ \A i \in DOMAIN sessions : sessions[i].attempt # token
    BY <2>1 DEF LinkInv, HoldersAreSole, OneSessionPerLink
  <2>5. HoldersAreSole'
    <3> SUFFICES ASSUME NEW v \in Workers, Holds(v)'
                 PROVE  /\ attempts'[work'[v].token].consumed
                        /\ \A i \in DOMAIN sessions' :
                             sessions'[i].attempt # work'[v].token
                        /\ \A u \in Workers :
                             Holds(u)' /\ work'[u].token = work'[v].token
                               => u = v
      BY DEF HoldersAreSole
    <3>1. CASE v = w
      BY <2>1, <2>3, <2>4, <3>1
    <3>2. CASE v # w
      BY <1>2, <2>1, <2>3, <2>4, <3>2, AttemptsKept
         DEF LinkInv, HoldersAreSole
    <3> QED
      BY <3>1, <3>2
  <2>6. OneSessionPerLink'
    BY <1>1, <2>1, AttemptsKept DEF LinkInv, OneSessionPerLink
  <2> QED
    BY <2>5, <2>6 DEF LinkInv
<1>4. ASSUME NEW w \in Workers, Recover(w) PROVE LinkInv'
  <2>1. PICK subject :
          Become(w, [at |-> "issue", token |-> work[w].token,
                     subject |-> subject])
    BY <1>4, RecoverWrites
  <2>2. Holds(w) /\ UNCHANGED sessions
    BY <1>4 DEF Recover, Recovered, Holds
  <2>3. \A v \in Workers :
          Holds(v)' => Holds(v) /\ work'[v].token = work[v].token
    BY <2>1, <2>2 DEF Become, TypeOK, Holds
  <2> QED
    BY <2>2, <2>3, LinksKept
<1>5. ASSUME NEW w \in Workers, Issue(w) PROVE LinkInv'
  <2> DEFINE n == Len(sessions) + 1
  <2>1. /\ DOMAIN sessions' = DOMAIN sessions \cup {n}
        /\ n \notin DOMAIN sessions
        /\ sessions'[n].attempt = work[w].token
        /\ \A i \in DOMAIN sessions : sessions'[i] = sessions[i]
    <3>1. sessions'[n] = [subject |-> work[w].subject,
                          attempt |-> work[w].token,
                          created |-> now, revoked |-> FALSE]
      BY <1>5, IssueWrites
    <3>2. sessions'[n].attempt = work[w].token
      BY <3>1
    <3> QED
      BY <1>5, <3>2, IssueWrites
  <2>2. Holds(w) /\ UNCHANGED attempts
    BY <1>5 DEF Issue, Holds
  <2>3. /\ ~Holds(w)'
        /\ \A v \in Workers \ {w} : work'[v] = work[v] /\ Holds(v)' = Holds(v)
    BY <1>5 DEF Issue, Become, TypeOK, Holds, Idle
  <2> HIDE DEF n
  <2>4. HoldersAreSole'
    BY <2>1, <2>2, <2>3 DEF LinkInv, HoldersAreSole
  <2>5. OneSessionPerLink'
    BY <2>1, <2>2 DEF LinkInv, HoldersAreSole, OneSessionPerLink
  <2> QED
    BY <2>4, <2>5 DEF LinkInv
<1>6. ASSUME NEW w \in Workers, NEW record, Become(w, record),
             record.at \notin {"recover", "issue"}, UNCHANGED sessions
      PROVE  LinkInv'
  <2>1. \A v \in Workers :
          Holds(v)' => Holds(v) /\ work'[v].token = work[v].token
    BY <1>6 DEF Become, TypeOK, Holds
  <2> QED
    BY <1>6, <2>1, LinksKept
<1>7. ASSUME NEW w \in Workers, Revoke(w) PROVE LinkInv'
  <2>1. \A v \in Workers :
          Holds(v)' => Holds(v) /\ work'[v].token = work[v].token
    BY <1>7 DEF Revoke, Become, TypeOK, Holds, Idle
  <2>2. /\ UNCHANGED DOMAIN sessions
        /\ \A i \in DOMAIN sessions :
             sessions'[i].attempt = sessions[i].attempt
    <3>1. PICK s \in DOMAIN sessions :
            /\ DOMAIN sessions' = DOMAIN sessions
            /\ sessions'[s] = [sessions[s] EXCEPT !.revoked = TRUE]
            /\ \A i \in DOMAIN sessions \ {s} : sessions'[i] = sessions[i]
      BY <1>7, RevokeWrites
    <3>2. sessions'[s].attempt = sessions[s].attempt
      BY <3>1, RowTypes DEF Sessions
    <3> QED
      BY <3>1, <3>2
  <2> QED
    BY <2>1, <2>2, LinksKept
<1>8. ASSUME NEW w \in Workers, Reading(w) PROVE LinkInv'
  BY <1>6, <1>8, ReadingReads
<1>9. ASSUME NEW w \in Workers, NEW e \in Emails, NEW s \in Callers,
             Request(w, e, s)
      PROVE  LinkInv'
  BY <1>6, <1>9 DEF Request
<1>10. ASSUME NEW w \in Workers, SaveCommit(w) \/ Send(w) PROVE LinkInv'
  BY <1>6, <1>10 DEF SaveCommit, Send, Idle
<1>11. CASE Tick \/ UNCHANGED vars
  <2>1. UNCHANGED <<sessions, work>>
    BY <1>11 DEF Tick, vars
  <2> QED
    BY <2>1, LinksKept DEF Holds
<1> QED
  BY <1>3, <1>4, <1>5, <1>7, <1>8, <1>9, <1>10, <1>11, StepKinds

\* A link makes one session at most, whoever confirms it, how often and
\* whatever dies on the way.
THEOREM LinksAreSpentOnce == Spec => []OneSessionPerLink
<1>1. Init => LinkInv
  BY EmptySeq DEF Init, LinkInv, HoldersAreSole, Holds, OneSessionPerLink,
     Idle
<1>2. Spec => []LinkInv
  BY <1>1, TypeInit, TypeNext, LinkInvNext, PTL DEF Spec
<1> QED
  BY <1>2, PTL DEF LinkInv

\* An attempt is never both consumed and invalidated: the UPDATE of a new
\* request looks at each row again under its lock.
THEOREM AttemptsEndOnce == Spec => []AttemptEndsOnce
<1>1. Init => AttemptEndsOnce
  BY EmptySeq DEF Init, AttemptEndsOnce
<1>2. TypeOK /\ AttemptEndsOnce /\ [Next]_vars => AttemptEndsOnce'
  <2> SUFFICES ASSUME TypeOK, AttemptEndsOnce, [Next]_vars
               PROVE  AttemptEndsOnce'
    OBVIOUS
  <2>1. ASSUME NEW w \in Workers, SaveCommit(w) PROVE AttemptEndsOnce'
    <3>1. \A i \in DOMAIN attempts :
            ~(attempts'[i].consumed /\ attempts'[i].invalidated)
      BY <2>1, SaveCommitWrites, RowTypes DEF AttemptEndsOnce, Attempts
    <3>2. attempts'[Len(attempts) + 1] =
            [email |-> work[w].email, source |-> work[w].source,
             created |-> work[w].created, consumed |-> FALSE,
             invalidated |-> FALSE]
      BY <2>1, SaveCommitWrites
    <3>3. ~attempts'[Len(attempts) + 1].consumed
      BY <3>2
    <3> QED
      BY <2>1, <3>1, <3>3, SaveCommitWrites DEF AttemptEndsOnce
  <2>2. ASSUME NEW w \in Workers, NEW token \in mail, Consume(w, token)
        PROVE  AttemptEndsOnce'
    <3>1. /\ attempts'[token] = [attempts[token] EXCEPT !.consumed = TRUE]
          /\ ~attempts[token].invalidated
          /\ token \in DOMAIN attempts /\ DOMAIN attempts' = DOMAIN attempts
          /\ \A i \in DOMAIN attempts \ {token} : attempts'[i] = attempts[i]
      BY <2>2, ConsumeWrites
    <3>2. ~attempts'[token].invalidated
      BY <3>1, RowTypes DEF Attempts
    <3> QED
      BY <3>1, <3>2 DEF AttemptEndsOnce
  <2>3. CASE UNCHANGED attempts
    BY <2>3 DEF AttemptEndsOnce
  <2> QED
    BY <2>1, <2>2, <2>3, StepKinds, ReadingReads
       DEF Request, Send, Recover, Recovered, Issue, Revoke, Tick, vars
<1> QED
  BY <1>1, <1>2, TypeInit, TypeNext, PTL DEF Spec

---------------------------------------------------------------------------
(* Users                                                                   *)

\* The user a worker issues a session for is the one its link leads to.
IssuesAreOfTheMailbox ==
  \A w \in Workers : work[w].at = "issue" =>
    work[w].subject = contacts[attempts[work[w].token].email]

UserInv == IssuesAreOfTheMailbox /\ OneUserPerMailbox

\* Steps that touch no user, and issue nothing new.
LEMMA UsersKept ==
  ASSUME TypeOK, UserInv, [Next]_vars, UNCHANGED users,
         UNCHANGED DOMAIN sessions,
         \A i \in DOMAIN sessions :
           /\ sessions'[i].attempt = sessions[i].attempt
           /\ sessions'[i].subject = sessions[i].subject,
         \A w \in Workers :
           work'[w].at = "issue" => work'[w] = work[w]
  PROVE  UserInv'
<1>1. \A i \in DOMAIN sessions : sessions[i].attempt \in DOMAIN attempts
  BY RowTypes DEF Sessions
<1>2. \A w \in Workers :
        work[w].at = "issue" => work[w].token \in DOMAIN attempts
  BY StageTypes DEF Issues
<1>3. IssuesAreOfTheMailbox'
  BY <1>2, AttemptsKept DEF UserInv, IssuesAreOfTheMailbox, users
<1>4. OneUserPerMailbox'
  BY <1>1, AttemptsKept DEF UserInv, OneUserPerMailbox, users, Subjects
<1> QED
  BY <1>3, <1>4 DEF UserInv

LEMMA UserInvNext == TypeOK /\ UserInv /\ [Next]_vars => UserInv'
<1> SUFFICES ASSUME TypeOK, UserInv, [Next]_vars PROVE UserInv'
  OBVIOUS
<1>1. /\ \A i \in DOMAIN sessions :
           /\ sessions[i].attempt \in DOMAIN attempts
           /\ sessions[i].subject \in Subjects
      /\ \A w \in Workers : work[w].at = "issue" =>
           work[w].token \in DOMAIN attempts /\ work[w].subject \in Subjects
      /\ \A i \in DOMAIN attempts : attempts[i].email \in Emails
      /\ \A e \in Emails : contacts[e] \in Subjects \cup {0}
      /\ 0 \notin Subjects
  <2>1. \A i \in DOMAIN sessions :
          /\ sessions[i].attempt \in DOMAIN attempts
          /\ sessions[i].subject \in Subjects
    BY RowTypes DEF Sessions
  <2>2. \A w \in Workers : work[w].at = "issue" =>
          work[w].token \in DOMAIN attempts /\ work[w].subject \in Subjects
    BY StageTypes DEF Issues
  <2>3. \A i \in DOMAIN attempts : attempts[i].email \in Emails
    BY RowTypes DEF Attempts
  <2>4. (\A e \in Emails : contacts[e] \in Subjects \cup {0}) /\ 0 \notin Subjects
    BY DEF TypeOK, Subjects
  <2> QED
    BY <2>1, <2>2, <2>3, <2>4
<1>2. ASSUME NEW w \in Workers, NEW record, Become(w, record),
             record.at # "issue", UNCHANGED <<sessions, users>>
      PROVE  UserInv'
  <2>1. \A v \in Workers : work'[v].at = "issue" => work'[v] = work[v]
    BY <1>2 DEF Become, TypeOK
  <2> QED
    BY <1>2, <2>1, UsersKept
<1>3. ASSUME NEW w \in Workers, Recover(w) PROVE UserInv'
  <2> DEFINE email == attempts[work[w].token].email
             record == [at |-> "issue", token |-> work[w].token,
                        subject |-> contacts'[email]]
  <2>1. /\ work[w].token \in DOMAIN attempts /\ email \in Emails
        /\ contacts'[email] \in Subjects'
        /\ \A e \in Emails \ {email} : contacts'[e] = contacts[e]
        /\ \/ contacts[email] # 0 /\ UNCHANGED users
           \/ /\ contacts[email] = 0
              /\ Subjects' = Subjects \cup {contacts'[email]}
              /\ contacts'[email] \notin Subjects
        /\ Become(w, record)
    BY <1>3, RecoverWrites
  <2>2. UNCHANGED <<attempts, sessions>> /\ work[w].at = "recover"
    BY <1>3 DEF Recover, Recovered
  <2>3. /\ work'[w] = record /\ record.token = work[w].token
        /\ record.subject = contacts'[email]
        /\ \A v \in Workers \ {w} : work'[v] = work[v]
    BY <2>1 DEF Become, TypeOK
  <2> HIDE DEF record
  <2>4. CASE UNCHANGED users
    <3>1. IssuesAreOfTheMailbox'
      BY <2>2, <2>3, <2>4 DEF UserInv, IssuesAreOfTheMailbox, users
    <3>2. OneUserPerMailbox'
      BY <2>2, <2>4 DEF UserInv, OneUserPerMailbox, users, Subjects
    <3> QED
      BY <3>1, <3>2 DEF UserInv
  <2>5. CASE /\ contacts[email] = 0
             /\ Subjects' = Subjects \cup {contacts'[email]}
             /\ contacts'[email] \notin Subjects
    <3>1. /\ \A i \in DOMAIN sessions : attempts[sessions[i].attempt].email # email
          /\ \A v \in Workers : work[v].at = "issue" =>
               attempts[work[v].token].email # email
      BY <1>1, <2>5 DEF UserInv, IssuesAreOfTheMailbox, OneUserPerMailbox
    <3>2. IssuesAreOfTheMailbox'
      BY <1>1, <2>1, <2>2, <2>3, <3>1 DEF UserInv, IssuesAreOfTheMailbox
    <3>3. \A i \in DOMAIN sessions' :
            sessions'[i].subject
              = contacts'[attempts'[sessions'[i].attempt].email]
      BY <1>1, <2>1, <2>2, <3>1 DEF UserInv, OneUserPerMailbox
    <3>4. \A e, f \in Emails :
            contacts'[e] = contacts'[f] /\ contacts'[e] # 0 => e = f
      BY <1>1, <2>1, <2>5 DEF UserInv, OneUserPerMailbox
    <3>5. \A subject \in Subjects' : \E e \in Emails : contacts'[e] = subject
      <4> SUFFICES ASSUME NEW subject \in Subjects'
                   PROVE  \E e \in Emails : contacts'[e] = subject
        OBVIOUS
      <4>1. CASE subject = contacts'[email]
        BY <2>1, <4>1
      <4>2. CASE subject \in Subjects
        <5>1. PICK e \in Emails : contacts[e] = subject
          BY <4>2 DEF UserInv, OneUserPerMailbox
        <5>2. e # email
          BY <1>1, <2>5, <4>2, <5>1
        <5> QED
          BY <2>1, <5>1, <5>2
      <4> QED
        BY <2>5, <4>1, <4>2
    <3> QED
      BY <3>2, <3>3, <3>4, <3>5 DEF UserInv, OneUserPerMailbox
  <2> QED
    BY <2>1, <2>4, <2>5
<1>4. ASSUME NEW w \in Workers, Issue(w) PROVE UserInv'
  <2> DEFINE n == Len(sessions) + 1
             row == [subject |-> work[w].subject, attempt |-> work[w].token,
                     created |-> now, revoked |-> FALSE]
  <2>1. /\ DOMAIN sessions' = DOMAIN sessions \cup {n}
        /\ sessions'[n] = row
        /\ \A i \in DOMAIN sessions : sessions'[i] = sessions[i]
    BY <1>4, IssueWrites
  <2>2. row.subject = work[w].subject /\ row.attempt = work[w].token
    OBVIOUS
  <2> HIDE DEF n, row
  <2>3. UNCHANGED <<attempts, users>> /\ work[w].at = "issue"
    BY <1>4 DEF Issue
  <2>4. \A v \in Workers : work'[v].at = "issue" => work'[v] = work[v]
    BY <1>4 DEF Issue, Become, TypeOK, Idle
  <2>5. IssuesAreOfTheMailbox'
    BY <2>3, <2>4 DEF UserInv, IssuesAreOfTheMailbox, users
  <2>6. OneUserPerMailbox'
    BY <2>1, <2>2, <2>3
       DEF UserInv, IssuesAreOfTheMailbox, OneUserPerMailbox, users, Subjects
  <2> QED
    BY <2>5, <2>6 DEF UserInv
<1>5. ASSUME NEW w \in Workers, Revoke(w) PROVE UserInv'
  <2>1. \A v \in Workers : work'[v].at = "issue" => work'[v] = work[v]
    BY <1>5 DEF Revoke, Become, TypeOK, Idle
  <2>2. /\ UNCHANGED DOMAIN sessions /\ UNCHANGED users
        /\ \A i \in DOMAIN sessions :
             /\ sessions'[i].attempt = sessions[i].attempt
             /\ sessions'[i].subject = sessions[i].subject
    BY <1>5, RevokeWrites, RowTypes DEF Sessions, Revoke
  <2> QED
    BY <2>1, <2>2, UsersKept
<1>6. ASSUME NEW w \in Workers, Reading(w) PROVE UserInv'
  BY <1>2, <1>6, ReadingReads
<1>7. ASSUME NEW w \in Workers, NEW e \in Emails, NEW s \in Callers,
             Request(w, e, s)
      PROVE  UserInv'
  BY <1>2, <1>7 DEF Request
<1>8. ASSUME NEW w \in Workers, SaveCommit(w) \/ Send(w) PROVE UserInv'
  BY <1>2, <1>8 DEF SaveCommit, Send, Idle
<1>9. ASSUME NEW w \in Workers, NEW token \in mail, Consume(w, token)
      PROVE  UserInv'
  BY <1>2, <1>9 DEF Consume
<1>10. CASE Tick \/ UNCHANGED vars
  <2>1. UNCHANGED <<sessions, users, work>>
    BY <1>10 DEF Tick, vars
  <2> QED
    BY <2>1, UsersKept
<1> QED
  BY <1>3, <1>4, <1>5, <1>6, <1>7, <1>8, <1>9, <1>10, StepKinds

\* Every session of a link of one address is of one user, no user has two
\* addresses, and none is left without one.
THEOREM MailboxesAreUsers == Spec => []OneUserPerMailbox
<1>1. Init => UserInv
  BY EmptySeq
     DEF Init, UserInv, IssuesAreOfTheMailbox, OneUserPerMailbox, Subjects,
         Idle
<1>2. Spec => []UserInv
  BY <1>1, TypeInit, TypeNext, UserInvNext, PTL DEF Spec
<1> QED
  BY <1>2, PTL DEF UserInv

---------------------------------------------------------------------------
(* Logout                                                                  *)

\* A step that routes a mutation finds its session unrevoked.
RoutesUnrevoked ==
  \A w \in Workers : work[w].at # "routed" /\ work'[w].at = "routed"
    => ~sessions[work'[w].session].revoked

LEMMA StepsRouteUnrevoked == TypeOK /\ [Next]_vars => RoutesUnrevoked
<1> SUFFICES ASSUME TypeOK, [Next]_vars PROVE RoutesUnrevoked
  OBVIOUS
<1>1. ASSUME NEW w \in Workers, NEW record, Become(w, record),
             record.at = "routed" => ~sessions[record.session].revoked
      PROVE  RoutesUnrevoked
  BY <1>1 DEF Become, TypeOK, RoutesUnrevoked
<1>2. ASSUME NEW w \in Workers, Reading(w) PROVE RoutesUnrevoked
  BY <1>1, <1>2, ReadingReads
<1>3. ASSUME NEW w \in Workers, Recover(w) PROVE RoutesUnrevoked
  <2>1. PICK subject :
          Become(w, [at |-> "issue", token |-> work[w].token,
                     subject |-> subject])
    BY <1>3, RecoverWrites
  <2> QED
    BY <1>1, <2>1
<1>4. ASSUME NEW w \in Workers, NEW e \in Emails, NEW s \in Callers,
             Request(w, e, s)
      PROVE  RoutesUnrevoked
  BY <1>1, <1>4 DEF Request
<1>5. ASSUME NEW w \in Workers,
             SaveCommit(w) \/ Send(w) \/ Issue(w) \/ Revoke(w)
      PROVE  RoutesUnrevoked
  BY <1>1, <1>5 DEF SaveCommit, Send, Issue, Revoke, Idle
<1>6. ASSUME NEW w \in Workers, NEW token \in mail, Consume(w, token)
      PROVE  RoutesUnrevoked
  BY <1>1, <1>6 DEF Consume
<1>7. CASE UNCHANGED work
  BY <1>7 DEF RoutesUnrevoked
<1> QED
  BY <1>2, <1>3, <1>4, <1>5, <1>6, <1>7, StepKinds DEF Tick, vars

\* No mutation is routed for a session that is revoked by then.
THEOREM LogoutsAreFinal == Spec => LogoutIsFinal
<1>1. TypeOK /\ [Next]_vars => [RoutesUnrevoked]_vars
  BY StepsRouteUnrevoked
<1> QED
  BY <1>1, TypeInit, TypeNext, PTL DEF Spec, LogoutIsFinal, RoutesUnrevoked

---------------------------------------------------------------------------
(* Rates: links, each with the time the limiter admitted it, and the log   *)
(* of the limiter that admitted them.                                      *)

Since(L, t)  == {x \in L : x.created >= t}
Within(L, t) == {x \in L : x.created \in t..(t + Window - 1)}
Later(log, t) == {i \in DOMAIN log : log[i] >= t}

InOrder(log, n) ==
  \A i, j \in DOMAIN log : i <= j => log[i] <= log[j] /\ log[j] <= n

\* At time n: the log has an entry for each link still in its window, and
\* no window has had more links than the limit.
Bounded(L, log, n, max) ==
  /\ IsFiniteSet(L)
  /\ \A x \in L : x.created \in Nat /\ x.created <= n
  /\ InOrder(log, n)
  /\ \A t \in Nat :
       t + Window > n =>
         Cardinality(Since(L, t)) <= Cardinality(Later(log, t))
  /\ \A t \in Nat : Cardinality(Within(L, t)) <= max

LEMMA AtMost ==
  ASSUME NEW a \in Nat, NEW b \in Nat, NEW c \in Nat, a <= b, b <= c
  PROVE  a <= c
OBVIOUS

LEMMA FewerBounded ==
  ASSUME NEW L, NEW M \in SUBSET L, NEW log \in Seq(0..MaxTime),
         NEW n \in Nat, NEW max \in Nat, Bounded(L, log, n, max)
  PROVE  Bounded(M, log, n, max)
<1>1. IsFiniteSet(L)
  BY DEF Bounded
<1>2. IsFiniteSet(M)
  BY <1>1, FS_Subset
<1>3. ASSUME NEW t \in Nat
      PROVE  /\ Cardinality(Since(M, t)) <= Cardinality(Since(L, t))
             /\ Cardinality(Since(M, t)) \in Nat
             /\ Cardinality(Since(L, t)) \in Nat
             /\ Cardinality(Within(M, t)) <= Cardinality(Within(L, t))
             /\ Cardinality(Within(M, t)) \in Nat
             /\ Cardinality(Within(L, t)) \in Nat
  <2>1. /\ Since(L, t) \in SUBSET L /\ Within(L, t) \in SUBSET L
        /\ Since(M, t) \in SUBSET Since(L, t)
        /\ Within(M, t) \in SUBSET Within(L, t)
    BY DEF Since, Within
  <2>2. IsFiniteSet(Since(L, t)) /\ IsFiniteSet(Within(L, t))
    BY <1>1, <2>1, FS_Subset
  <2>3. IsFiniteSet(Since(M, t)) /\ IsFiniteSet(Within(M, t))
    BY <2>1, <2>2, FS_Subset
  <2> QED
    BY <2>1, <2>2, <2>3, FS_Subset, FS_CardinalityType
<1>4. \A t \in Nat : Cardinality(Later(log, t)) \in Nat
  <2> SUFFICES ASSUME NEW t \in Nat
               PROVE  Cardinality(Later(log, t)) \in Nat
    OBVIOUS
  <2>1. Len(log) \in Nat /\ DOMAIN log = 1..Len(log)
    BY LenProperties
  <2>2. IsFiniteSet(1..Len(log))
    BY <2>1, FS_Interval
  <2>3. Later(log, t) \in SUBSET (1..Len(log))
    BY <2>1 DEF Later
  <2> QED
    BY <2>2, <2>3, FS_Subset, FS_CardinalityType
<1>5. /\ \A x \in M : x.created \in Nat /\ x.created <= n
      /\ InOrder(log, n)
  BY DEF Bounded
<1>6. ASSUME NEW t \in Nat, t + Window > n
      PROVE  Cardinality(Since(M, t)) <= Cardinality(Later(log, t))
  <2>1. Cardinality(Since(L, t)) <= Cardinality(Later(log, t))
    BY <1>6 DEF Bounded
  <2>2. Cardinality(Later(log, t)) \in Nat
    BY <1>4
  <2>3. /\ Cardinality(Since(M, t)) \in Nat /\ Cardinality(Since(L, t)) \in Nat
        /\ Cardinality(Since(M, t)) <= Cardinality(Since(L, t))
    BY <1>3
  <2> QED
    BY <2>1, <2>2, <2>3, AtMost
<1>7. ASSUME NEW t \in Nat PROVE Cardinality(Within(M, t)) <= max
  <2>1. Cardinality(Within(L, t)) <= max
    BY DEF Bounded
  <2> QED
    BY <1>3, <2>1, AtMost
<1> QED
  BY <1>2, <1>5, <1>6, <1>7 DEF Bounded

\* The clock goes on.
LEMMA LaterBounded ==
  ASSUME NEW L, NEW log \in Seq(0..MaxTime), NEW n \in Nat, NEW m \in Nat,
         n <= m, NEW max \in Nat, Bounded(L, log, n, max)
  PROVE  Bounded(L, log, m, max)
<1>1. Window \in Nat
  BY LoginAssumption
<1>2. \A x \in L : x.created \in Nat /\ x.created <= m
  BY DEF Bounded
<1>3. InOrder(log, m)
  <2>1. \A i \in DOMAIN log : log[i] \in 0..MaxTime
    BY LenProperties
  <2>2. \A i \in DOMAIN log : log[i] \in Nat
    BY <2>1, LoginAssumption
  <2> QED
    BY <2>2 DEF Bounded, InOrder
<1>4. \A t \in Nat : t + Window > m => t + Window > n
  BY <1>1
<1> QED
  BY <1>2, <1>3, <1>4 DEF Bounded

\* A link changes hands: from the worker to the row it has inserted.
LEMMA ReplacedCardinality ==
  ASSUME NEW L, IsFiniteSet(L), NEW x, NEW y, y \notin L \ {x},
         NEW C \in SUBSET L, NEW D, D = IF x \in C THEN (C \ {x}) \cup {y} ELSE C
  PROVE  Cardinality(D) = Cardinality(C)
<1>1. IsFiniteSet(C)
  BY FS_Subset
<1>2. CASE x \in C
  <2>1. IsFiniteSet(C \ {x}) /\ Cardinality(C \ {x}) = Cardinality(C) - 1
    BY <1>1, <1>2, FS_RemoveElement
  <2>2. Cardinality((C \ {x}) \cup {y}) = Cardinality(C \ {x}) + 1
    BY <2>1, FS_AddElement
  <2>3. Cardinality(C) \in Nat
    BY <1>1, FS_CardinalityType
  <2> QED
    BY <1>2, <2>1, <2>2, <2>3
<1> QED
  BY <1>2

LEMMA ReplacedBounded ==
  ASSUME NEW L, NEW x \in L, NEW y, y \notin L \ {x}, y.created = x.created,
         NEW M, M = (L \ {x}) \cup {y},
         NEW log, NEW n, NEW max, Bounded(L, log, n, max)
  PROVE  Bounded(M, log, n, max)
<1>1. IsFiniteSet(L) /\ IsFiniteSet(L \ {x})
  BY FS_RemoveElement DEF Bounded
<1>2. IsFiniteSet(M)
  BY <1>1, FS_AddElement
<1>3. ASSUME NEW t
      PROVE  /\ Cardinality(Since(M, t)) = Cardinality(Since(L, t))
             /\ Cardinality(Within(M, t)) = Cardinality(Within(L, t))
  <2>1. /\ Since(M, t) = IF x \in Since(L, t)
                         THEN (Since(L, t) \ {x}) \cup {y} ELSE Since(L, t)
        /\ Since(L, t) \in SUBSET L
    BY DEF Since
  <2>2. /\ Within(M, t) = IF x \in Within(L, t)
                          THEN (Within(L, t) \ {x}) \cup {y} ELSE Within(L, t)
        /\ Within(L, t) \in SUBSET L
    BY DEF Within
  <2>3. Cardinality(Since(M, t)) = Cardinality(Since(L, t))
    BY <1>1, <2>1, ReplacedCardinality
  <2>4. Cardinality(Within(M, t)) = Cardinality(Within(L, t))
    BY <1>1, <2>2, ReplacedCardinality
  <2> QED
    BY <2>3, <2>4
<1>4. \A z \in M : z.created \in Nat /\ z.created <= n
  BY DEF Bounded
<1> QED
  BY <1>2, <1>3, <1>4 DEF Bounded

LEMMA SegmentCardinality ==
  ASSUME NEW n \in Nat
  PROVE  IsFiniteSet(1..n) /\ Cardinality(1..n) = n
BY FS_Interval

LEMMA OneMore ==
  ASSUME NEW S, IsFiniteSet(S), NEW x
  PROVE  /\ IsFiniteSet(S \cup {x})
         /\ Cardinality(S \cup {x}) <= Cardinality(S) + 1
<1>1. Cardinality(S) \in Nat
  BY FS_CardinalityType
<1>2. /\ IsFiniteSet(S \cup {x})
      /\ Cardinality(S \cup {x}) =
           IF x \in S THEN Cardinality(S) ELSE Cardinality(S) + 1
  BY FS_AddElement
<1> QED
  BY <1>1, <1>2

\* A set of positions without a gap below any of them is an initial segment.
LEMMA InitialSegment ==
  ASSUME NEW n \in Nat, NEW G \in SUBSET (1..n),
         \A i \in G, j \in 1..n : j <= i => j \in G
  PROVE  /\ Cardinality(G) \in 0..n
         /\ G = 1..Cardinality(G)
<1> DEFINE k == Cardinality(G)
<1>1. IsFiniteSet(1..n) /\ Cardinality(1..n) = n
  BY FS_Interval
<1>2. IsFiniteSet(G) /\ k \in Nat /\ k <= n
  BY <1>1, FS_Subset, FS_CardinalityType
<1>3. IsFiniteSet(1..k) /\ Cardinality(1..k) = k
  BY <1>2, FS_Interval
<1>4. ASSUME NEW i \in G PROVE i \in 1..k
  <2>1. IsFiniteSet(1..i) /\ Cardinality(1..i) = i
    BY FS_Interval
  <2>2. (1..i) \in SUBSET G
    OBVIOUS
  <2>3. i <= k
    BY <1>2, <2>1, <2>2, FS_Subset
  <2> HIDE DEF k
  <2> QED
    BY <1>2, <2>3
<1>5. G \in SUBSET (1..k)
  BY <1>4
<1>6. Cardinality(G) = k
  OBVIOUS
<1> HIDE DEF k
<1>7. G = 1..k
  BY <1>3, <1>5, <1>6, FS_Subset
<1> QED
  BY <1>2, <1>6, <1>7

\* _recent drops the entries that have left the window and no other.
LEMMA RecentKeeps ==
  ASSUME NEW log \in Seq(0..MaxTime), now \in Nat, InOrder(log, now)
  PROVE  /\ Recent(log) \in Seq(0..MaxTime)
         /\ InOrder(Recent(log), now)
         /\ \A t \in Nat : t + Window > now =>
              Cardinality(Later(Recent(log), t)) = Cardinality(Later(log, t))
<1> DEFINE gone == {i \in DOMAIN log : log[i] + Window <= now}
           k == Cardinality(gone)
           r == SubSeq(log, k + 1, Len(log))
<1>1. /\ Len(log) \in Nat /\ DOMAIN log = 1..Len(log)
      /\ \A i \in 1..Len(log) : log[i] \in Nat
  BY LenProperties, LoginAssumption
<1>2. Window \in Nat
  BY LoginAssumption
<1>3. /\ gone \in SUBSET (1..Len(log))
      /\ \A i \in gone, j \in 1..Len(log) : j <= i => j \in gone
  BY <1>1, <1>2 DEF InOrder
<1>4. k \in 0..Len(log) /\ gone = 1..k
  BY <1>1, <1>3, InitialSegment
<1>5. Recent(log) = r
  BY DEF Recent
<1>6. r \in Seq(0..MaxTime)
  BY <1>5, RecentType
<1> HIDE DEF k, gone
<1>8. /\ Len(r) = Len(log) - k
      /\ \A i \in 1..(Len(log) - k) : r[i] = log[k + i]
  <2>1. \A i \in (k + 1)..Len(log) : log[i] \in Nat
    BY <1>1, <1>4
  <2>2. /\ Len(r) = IF k + 1 <= Len(log) THEN Len(log) - (k + 1) + 1 ELSE 0
        /\ \A i \in 1..(Len(log) - (k + 1) + 1) : r[i] = log[k + 1 + i - 1]
    BY <1>1, <1>4, <2>1, SubSeqProperties
  <2> HIDE DEF r
  <2>3. Len(r) = Len(log) - k
    <3>1. Len(r) = IF k + 1 <= Len(log) THEN Len(log) - (k + 1) + 1 ELSE 0
      BY <2>2
    <3>2. k \in Nat /\ Len(log) \in Nat /\ k <= Len(log)
      BY <1>1, <1>4
    <3> QED
      BY <3>1, <3>2
  <2>4. ASSUME NEW i \in 1..(Len(log) - k) PROVE r[i] = log[k + i]
    <3>1. i \in 1..(Len(log) - (k + 1) + 1) /\ k + 1 + i - 1 = k + i
      BY <1>1, <1>4
    <3> QED
      BY <2>2, <3>1
  <2> QED
    BY <2>3, <2>4
<1> HIDE DEF r
<1>9. DOMAIN r = 1..(Len(log) - k)
  BY <1>6, <1>8, LenProperties
<1>10. InOrder(r, now)
  <2> SUFFICES ASSUME NEW i \in DOMAIN r, NEW j \in DOMAIN r, i <= j
               PROVE  r[i] <= r[j] /\ r[j] <= now
    BY DEF InOrder
  <2>1. k + i \in DOMAIN log /\ k + j \in DOMAIN log /\ k + i <= k + j
    BY <1>1, <1>4, <1>9
  <2>2. log[k + i] <= log[k + j] /\ log[k + j] <= now
    BY <2>1 DEF InOrder
  <2> QED
    BY <1>8, <1>9, <2>2
<1>11. ASSUME NEW t \in Nat, t + Window > now
       PROVE  Cardinality(Later(r, t)) = Cardinality(Later(log, t))
  <2> DEFINE f == [i \in Later(r, t) |-> k + i]
  <2>1. ASSUME NEW i \in Later(r, t) PROVE k + i \in Later(log, t)
    BY <1>1, <1>4, <1>8, <1>9 DEF Later
  <2>2. ASSUME NEW j \in Later(log, t)
        PROVE  j - k \in Later(r, t) /\ k + (j - k) = j
    <3>1. j \in 1..Len(log) /\ log[j] >= t
      BY <1>1 DEF Later
    <3>2. j \notin gone
      BY <1>1, <1>2, <1>11, <3>1 DEF gone
    <3>3. j \in (k + 1)..Len(log)
      BY <1>1, <1>4, <3>1, <3>2
    <3> QED
      BY <1>1, <1>4, <1>8, <1>9, <3>1, <3>3 DEF Later
  <2>3. f \in [Later(r, t) -> Later(log, t)]
    BY <2>1
  <2>4. \A a, b \in Later(r, t) : f[a] = f[b] => a = b
    BY <1>4, <1>9 DEF Later
  <2>5. \A j \in Later(log, t) : \E i \in Later(r, t) : f[i] = j
    BY <2>2
  <2>6. f \in Bijection(Later(r, t), Later(log, t))
    BY <2>3, <2>4, <2>5, Fun_IsBij
  <2>7. ExistsBijection(Later(r, t), Later(log, t))
    BY <2>6 DEF ExistsBijection
  <2>8. IsFiniteSet(Later(r, t))
    <3>1. IsFiniteSet(1..(Len(log) - k))
      BY <1>1, <1>4, FS_Interval
    <3>2. Later(r, t) \in SUBSET (1..(Len(log) - k))
      BY <1>9 DEF Later
    <3> QED
      BY <3>1, <3>2, FS_Subset
  <2> QED
    BY <2>7, <2>8, FS_Bijection
<1> QED
  BY <1>5, <1>6, <1>10, <1>11

\* The limiter admits a link.
LEMMA AdmittedBounded ==
  ASSUME NEW L, NEW log \in Seq(0..MaxTime), now \in 0..MaxTime,
         NEW max \in Nat, Bounded(L, log, now, max),
         Len(Recent(log)) < max, NEW x, x \notin L, x.created = now
  PROVE  Bounded(L \cup {x}, Append(Recent(log), now), now, max)
<1> DEFINE r == Recent(log)
           a == Append(r, now)
           M == L \cup {x}
<1>1. now \in Nat /\ Window \in Nat
  BY LoginAssumption
<1>2. IsFiniteSet(L) /\ IsFiniteSet(M)
  BY FS_AddElement DEF Bounded
<1>3. \A z \in M : z.created \in Nat /\ z.created <= now
  BY <1>1 DEF Bounded
<1>4. /\ r \in Seq(0..MaxTime) /\ InOrder(r, now)
      /\ \A t \in Nat : t + Window > now =>
           Cardinality(Later(r, t)) = Cardinality(Later(log, t))
  BY <1>1, RecentKeeps DEF Bounded
<1>5. /\ Len(r) \in Nat /\ DOMAIN r = 1..Len(r)
      /\ DOMAIN a = 1..(Len(r) + 1)
      /\ \A i \in 1..Len(r) : a[i] = r[i]
      /\ a[Len(r) + 1] = now
  <2>1. /\ a \in Seq(0..MaxTime) /\ Len(a) = Len(r) + 1
        /\ \A i \in 1..Len(r) : a[i] = r[i]
        /\ a[Len(r) + 1] = now
    BY <1>4, AppendProperties
  <2>2. DOMAIN a = 1..Len(a) /\ DOMAIN r = 1..Len(r) /\ Len(r) \in Nat
    BY <1>4, <2>1, LenProperties
  <2> QED
    BY <2>1, <2>2
<1>6. Len(r) < max
  OBVIOUS
<1> HIDE DEF a, r
<1>7. InOrder(a, now)
  BY <1>1, <1>4, <1>5 DEF InOrder
<1>8. ASSUME NEW t \in Nat
      PROVE  /\ IsFiniteSet(Later(r, t)) /\ Cardinality(Later(r, t)) \in Nat
             /\ Cardinality(Later(r, t)) <= Len(r)
  <2>0. Len(r) \in Nat
    BY <1>5
  <2>1. IsFiniteSet(1..Len(r)) /\ Cardinality(1..Len(r)) = Len(r)
    BY <2>0, SegmentCardinality
  <2>2. Later(r, t) \in SUBSET (1..Len(r))
    BY <1>5 DEF Later
  <2> QED
    BY <2>1, <2>2, FS_Subset, FS_CardinalityType
<1>9. ASSUME NEW t \in Nat, t + Window > now
      PROVE  /\ IsFiniteSet(Since(L, t)) /\ Cardinality(Since(L, t)) \in Nat
             /\ Cardinality(Since(L, t)) <= Cardinality(Later(r, t))
  <2>1. Since(L, t) \in SUBSET L
    BY DEF Since
  <2>2. Cardinality(Since(L, t)) <= Cardinality(Later(log, t))
    BY <1>9 DEF Bounded
  <2> QED
    BY <1>2, <1>4, <1>9, <2>1, <2>2, FS_Subset, FS_CardinalityType
<1>10. ASSUME NEW t \in Nat, t + Window > now
       PROVE  Cardinality(Since(M, t)) <= Cardinality(Later(a, t))
  <2>1. CASE t <= now
    <3>1. Since(M, t) = Since(L, t) \cup {x} /\ x \notin Since(L, t)
      BY <1>1, <2>1 DEF Since
    <3>2. Later(a, t) = Later(r, t) \cup {Len(r) + 1}
            /\ Len(r) + 1 \notin Later(r, t)
      BY <1>1, <1>5, <2>1 DEF Later
    <3>3. Cardinality(Since(M, t)) = Cardinality(Since(L, t)) + 1
      BY <1>9, <1>10, <3>1, FS_AddElement
    <3>4. Cardinality(Later(a, t)) = Cardinality(Later(r, t)) + 1
      BY <1>8, <3>2, FS_AddElement
    <3>5. /\ Cardinality(Since(L, t)) \in Nat
          /\ Cardinality(Later(r, t)) \in Nat
          /\ Cardinality(Since(L, t)) <= Cardinality(Later(r, t))
      BY <1>8, <1>9, <1>10
    <3> QED
      BY <3>3, <3>4, <3>5
  <2>2. CASE t > now
    <3>1. Since(M, t) = {} /\ Later(a, t) = {}
      <4>1. \A i \in DOMAIN a : a[i] \in Nat /\ a[i] <= now
        <5>1. \A i \in 1..Len(r) : r[i] \in Nat /\ r[i] <= now
          <6>1. \A i \in 1..Len(r) : r[i] \in 0..MaxTime
            BY <1>4, LenProperties
          <6>2. \A i \in 1..Len(r) : r[i] \in Nat
            BY <6>1, LoginAssumption
          <6>3. InOrder(r, now) /\ DOMAIN r = 1..Len(r) /\ Len(r) \in Nat
            BY <1>4, <1>5
          <6>4. \A i \in 1..Len(r) : r[i] <= now
            BY <6>3 DEF InOrder
          <6> QED
            BY <6>2, <6>4
        <5> QED
          BY <1>1, <1>5, <5>1
      <4> QED
        BY <1>1, <1>3, <2>2, <4>1 DEF Since, Later
    <3>2. Cardinality({}) = 0
      BY FS_EmptySet
    <3>3. Cardinality(Since(M, t)) = 0 /\ Cardinality(Later(a, t)) = 0
      BY <3>1, <3>2, Zenon
    <3> QED
      BY <3>3
  <2> QED
    BY <1>1, <2>1, <2>2
<1>11. ASSUME NEW t \in Nat PROVE Cardinality(Within(M, t)) <= max
  <2>1. CASE now \in t..(t + Window - 1)
    <3>1. t + Window > now
      BY <1>1, <2>1
    <3>2. Within(M, t) \in SUBSET (Since(L, t) \cup {x})
      BY <1>1, <1>3 DEF Within, Since
    <3>3. /\ IsFiniteSet(Since(L, t) \cup {x})
          /\ Cardinality(Since(L, t) \cup {x}) <= Cardinality(Since(L, t)) + 1
      <4>1. IsFiniteSet(Since(L, t))
        BY <1>9, <3>1
      <4> QED
        BY <4>1, OneMore
    <3>4. /\ Cardinality(Within(M, t)) <= Cardinality(Since(L, t) \cup {x})
          /\ Cardinality(Within(M, t)) \in Nat
          /\ Cardinality(Since(L, t) \cup {x}) \in Nat
      BY <3>2, <3>3, FS_Subset, FS_CardinalityType
    <3>5. /\ Cardinality(Since(L, t)) \in Nat
          /\ Cardinality(Later(r, t)) \in Nat
          /\ Cardinality(Since(L, t)) <= Cardinality(Later(r, t))
          /\ Cardinality(Later(r, t)) <= Len(r)
      BY <1>8, <1>9, <3>1
    <3> QED
      BY <1>5, <1>6, <3>3, <3>4, <3>5
  <2>2. CASE now \notin t..(t + Window - 1)
    <3>1. Within(M, t) = Within(L, t)
      BY <2>2 DEF Within
    <3> QED
      BY <3>1 DEF Bounded
  <2> QED
    BY <2>1, <2>2
<1> HIDE DEF M
<1>12. Bounded(M, a, now, max)
  BY <1>2, <1>3, <1>7, <1>10, <1>11 DEF Bounded
<1> QED
  BY <1>12 DEF M, a, r

---------------------------------------------------------------------------
(* The links the limiter has admitted: rows, and those under way to one.   *)

Pending(w) == work[w].at \in {"update", "insert"}

RowLink(i) ==
  [kind |-> "row", id |-> i, created |-> attempts[i].created,
   email |-> attempts[i].email, source |-> attempts[i].source]
WorkLink(w) ==
  [kind |-> "work", id |-> w, created |-> work[w].created,
   email |-> work[w].email, source |-> work[w].source]
Links ==
  {RowLink(i) : i \in DOMAIN attempts}
    \cup {WorkLink(w) : w \in {v \in Workers : Pending(v)}}

EmailLinks(e)  == {x \in Links : x.email = e}
SourceLinks(s) == {x \in Links : x.source = s}

RateInv ==
  /\ \A e \in Emails : Bounded(EmailLinks(e), emailLog[e], now, MaxPerEmail)
  /\ \A s \in Sources :
       Bounded(SourceLinks(s), sourceLog[s], now, MaxPerSource)

\* Steps that admit nothing, with what they leave of the links.
LEMMA FewerLinks ==
  ASSUME TypeOK, RateInv, Links' \subseteq Links, UNCHANGED <<now, limiter>>
  PROVE  RateInv'
<1>1. ASSUME NEW e \in Emails
      PROVE  Bounded(EmailLinks(e)', emailLog'[e], now', MaxPerEmail)
  <2>1. EmailLinks(e)' \in SUBSET EmailLinks(e)
    BY DEF EmailLinks
  <2>2. emailLog[e] \in Seq(0..MaxTime) /\ now \in Nat /\ MaxPerEmail \in Nat
    BY LoginAssumption DEF TypeOK
  <2>3. Bounded(EmailLinks(e), emailLog[e], now, MaxPerEmail)
    BY DEF RateInv
  <2>4. Bounded(EmailLinks(e)', emailLog[e], now, MaxPerEmail)
    BY <2>1, <2>2, <2>3, FewerBounded
  <2> QED
    BY <2>4 DEF limiter
<1>2. ASSUME NEW s \in Sources
      PROVE  Bounded(SourceLinks(s)', sourceLog'[s], now', MaxPerSource)
  <2>1. SourceLinks(s)' \in SUBSET SourceLinks(s)
    BY DEF SourceLinks
  <2>2. sourceLog[s] \in Seq(0..MaxTime) /\ now \in Nat /\ MaxPerSource \in Nat
    BY LoginAssumption DEF TypeOK
  <2>3. Bounded(SourceLinks(s), sourceLog[s], now, MaxPerSource)
    BY DEF RateInv
  <2>4. Bounded(SourceLinks(s)', sourceLog[s], now, MaxPerSource)
    BY <2>1, <2>2, <2>3, FewerBounded
  <2> QED
    BY <2>4 DEF limiter
<1> QED
  BY <1>1, <1>2 DEF RateInv

LEMMA LinksShrink ==
  ASSUME TypeOK, UNCHANGED DOMAIN attempts,
         \A i \in DOMAIN attempts :
           /\ attempts'[i].email = attempts[i].email
           /\ attempts'[i].source = attempts[i].source
           /\ attempts'[i].created = attempts[i].created,
         \A w \in Workers : Pending(w)' =>
           /\ Pending(w)
           /\ work'[w].email = work[w].email
           /\ work'[w].source = work[w].source
           /\ work'[w].created = work[w].created
  PROVE  Links' \subseteq Links
<1>1. \A i \in DOMAIN attempts : RowLink(i)' = RowLink(i)
  BY DEF RowLink
<1>2. \A w \in Workers : Pending(w)' => Pending(w) /\ WorkLink(w)' = WorkLink(w)
  BY DEF WorkLink
<1> QED
  BY <1>1, <1>2 DEF Links

LEMMA RequestLinks ==
  ASSUME TypeOK, NEW w \in Workers, NEW e \in Emails, NEW s \in Callers,
         Request(w, e, s)
  PROVE  LET x == [kind |-> "work", id |-> w, created |-> now, email |-> e,
                   source |-> s]
         IN x \notin Links /\ Links' = Links \cup {x}
<1> DEFINE x == [kind |-> "work", id |-> w, created |-> now, email |-> e,
                 source |-> s]
<1>1. /\ work' = [work EXCEPT ![w] = [at |-> "update", email |-> e,
                                      source |-> s, created |-> now]]
      /\ attempts' = attempts /\ work[w] = Idle
  BY DEF Request, Become
<1>2. /\ Pending(w)' /\ ~Pending(w) /\ WorkLink(w)' = x
      /\ \A v \in Workers \ {w} :
           Pending(v)' = Pending(v) /\ WorkLink(v)' = WorkLink(v)
  BY <1>1 DEF TypeOK, Pending, WorkLink, Idle
<1>3. \A i \in DOMAIN attempts : RowLink(i)' = RowLink(i) /\ RowLink(i) # x
  BY <1>1 DEF RowLink
<1>4. \A v \in Workers \ {w} : WorkLink(v) # x
  BY DEF WorkLink
<1> HIDE DEF x
<1>5. x \notin Links
  BY <1>2, <1>3, <1>4 DEF Links
<1>6. Links' = Links \cup {x}
  BY <1>1, <1>2, <1>3 DEF Links
<1> QED
  BY <1>5, <1>6 DEF x

LEMMA SaveCommitLinks ==
  ASSUME TypeOK, NEW w \in Workers, SaveCommit(w)
  PROVE  LET x == WorkLink(w)
             y == [kind |-> "row", id |-> Len(attempts) + 1,
                   created |-> work[w].created, email |-> work[w].email,
                   source |-> work[w].source]
         IN /\ x \in Links /\ y \notin Links
            /\ Links' = (Links \ {x}) \cup {y}
<1>0. PICK n : n = Len(attempts) + 1
  OBVIOUS
<1> DEFINE x == WorkLink(w)
           y == [kind |-> "row", id |-> n, created |-> work[w].created,
                 email |-> work[w].email, source |-> work[w].source]
           row == [email |-> work[w].email, source |-> work[w].source,
                   created |-> work[w].created, consumed |-> FALSE,
                   invalidated |-> FALSE]
<1>1. /\ DOMAIN attempts' = DOMAIN attempts \cup {n}
      /\ n \notin DOMAIN attempts
      /\ attempts'[n] = row
  BY <1>0, SaveCommitWrites
<1>2. \A i \in DOMAIN attempts :
        attempts'[i] = attempts[i]
          \/ attempts'[i] = [attempts[i] EXCEPT !.invalidated = TRUE]
  BY SaveCommitWrites
<1>3. \A i \in DOMAIN attempts :
        RowLink(i)' = RowLink(i) /\ RowLink(i) # x /\ RowLink(i) # y
  BY <1>1, <1>2, RowTypes DEF RowLink, WorkLink, Attempts
<1>4. RowLink(n)' = y
  <2>1. /\ attempts'[n].created = work[w].created
        /\ attempts'[n].email = work[w].email
        /\ attempts'[n].source = work[w].source
    BY <1>1
  <2> QED
    BY <2>1 DEF RowLink
<1>5. /\ Pending(w) /\ ~Pending(w)'
      /\ \A v \in Workers \ {w} :
           /\ Pending(v)' = Pending(v) /\ WorkLink(v)' = WorkLink(v)
           /\ WorkLink(v) # x
      /\ \A v \in Workers : WorkLink(v) # y
  BY DEF SaveCommit, Become, TypeOK, Pending, WorkLink
<1> HIDE DEF x, y
<1>6. y \notin Links
  BY <1>3, <1>5 DEF Links
<1>7. x \in Links
  BY <1>5 DEF Links, x
<1>8. Links' = (Links \ {x}) \cup {y}
  <2>1. {RowLink(i) : i \in DOMAIN attempts}'
          = {RowLink(i) : i \in DOMAIN attempts} \cup {y}
    BY <1>1, <1>3, <1>4
  <2>2. {WorkLink(v) : v \in {u \in Workers : Pending(u)}}'
          = {WorkLink(v) : v \in {u \in Workers : Pending(u)}} \ {x}
    BY <1>5 DEF x
  <2>3. x \notin {RowLink(i) : i \in DOMAIN attempts}
    BY <1>3
  <2> QED
    BY <2>1, <2>2, <2>3 DEF Links
<1> QED
  BY <1>0, <1>6, <1>7, <1>8 DEF x, y

LEMMA RequestRate ==
  ASSUME TypeOK, RateInv, NEW w \in Workers, NEW e \in Emails,
         NEW s \in Callers, Request(w, e, s)
  PROVE  RateInv'
<1>0. PICK x : x = [kind |-> "work", id |-> w, created |-> now, email |-> e,
                    source |-> s]
  OBVIOUS
<1>1. x.created = now /\ x.email = e /\ x.source = s
  BY <1>0
<1>2. x \notin Links /\ Links' = Links \cup {x}
  BY <1>0, RequestLinks
<1>3. /\ now \in 0..MaxTime /\ now \in Nat /\ UNCHANGED now
      /\ MaxPerEmail \in Nat /\ MaxPerSource \in Nat
      /\ \A f \in Emails : emailLog[f] \in Seq(0..MaxTime)
      /\ \A t \in Sources : sourceLog[t] \in Seq(0..MaxTime)
  BY LoginAssumption DEF TypeOK, Request
<1>4. Len(Recent(emailLog[e])) < MaxPerEmail
        /\ Len(SourceLog(s)) < MaxPerSource
  BY DEF Request, Allow
<1>5. ASSUME NEW f \in Emails
      PROVE  Bounded(EmailLinks(f)', emailLog'[f], now', MaxPerEmail)
  <2>1. Bounded(EmailLinks(f), emailLog[f], now, MaxPerEmail)
    BY DEF RateInv
  <2>2. CASE f = e
    <3>1. EmailLinks(f)' = EmailLinks(f) \cup {x} /\ x \notin EmailLinks(f)
      BY <1>1, <1>2, <2>2 DEF EmailLinks
    <3>2. emailLog'[f] = Append(Recent(emailLog[f]), now)
      BY <2>2 DEF Request, TypeOK
    <3>3. Len(Recent(emailLog[f])) < MaxPerEmail
      BY <1>4, <2>2
    <3>4. Bounded(EmailLinks(f) \cup {x},
                  Append(Recent(emailLog[f]), now), now, MaxPerEmail)
      BY <1>1, <1>3, <2>1, <3>1, <3>3, AdmittedBounded
    <3> QED
      BY <1>3, <3>1, <3>2, <3>4
  <2>3. CASE f # e
    <3>1. EmailLinks(f)' = EmailLinks(f)
      BY <1>1, <1>2, <2>3 DEF EmailLinks
    <3>2. emailLog'[f] = emailLog[f]
      BY <2>3 DEF Request, TypeOK
    <3> QED
      BY <1>3, <2>1, <3>1, <3>2
  <2> QED
    BY <2>2, <2>3
<1>6. ASSUME NEW t \in Sources
      PROVE  Bounded(SourceLinks(t)', sourceLog'[t], now', MaxPerSource)
  <2>1. Bounded(SourceLinks(t), sourceLog[t], now, MaxPerSource)
    BY DEF RateInv
  <2>2. CASE t = s
    <3>1. SourceLinks(t)' = SourceLinks(t) \cup {x} /\ x \notin SourceLinks(t)
      BY <1>1, <1>2, <2>2 DEF SourceLinks
    <3>2. SourceLog(s) = Recent(sourceLog[t])
      BY <2>2, LoginAssumption DEF SourceLog
    <3>3. /\ sourceLog'[t] = Append(Recent(sourceLog[t]), now)
          /\ Len(Recent(sourceLog[t])) < MaxPerSource
      BY <1>4, <2>2, <3>2 DEF Request
    <3>4. Bounded(SourceLinks(t) \cup {x},
                  Append(Recent(sourceLog[t]), now), now, MaxPerSource)
      BY <1>1, <1>3, <2>1, <3>1, <3>3, AdmittedBounded
    <3> QED
      BY <1>3, <3>1, <3>3, <3>4
  <2>3. CASE t # s
    <3>1. SourceLinks(t)' = SourceLinks(t)
      BY <1>1, <1>2, <2>3 DEF SourceLinks
    <3>2. sourceLog'[t] = sourceLog[t]
      BY <2>3 DEF Request
    <3> QED
      BY <1>3, <2>1, <3>1, <3>2
  <2> QED
    BY <2>2, <2>3
<1> QED
  BY <1>5, <1>6 DEF RateInv

LEMMA SaveCommitRate ==
  ASSUME TypeOK, RateInv, NEW w \in Workers, SaveCommit(w)
  PROVE  RateInv'
<1>1. PICK x, y : /\ x \in Links /\ y \notin Links
                  /\ Links' = (Links \ {x}) \cup {y}
                  /\ y.created = x.created /\ y.email = x.email
                  /\ y.source = x.source
  <2> DEFINE x == WorkLink(w)
             y == [kind |-> "row", id |-> Len(attempts) + 1,
                   created |-> work[w].created, email |-> work[w].email,
                   source |-> work[w].source]
  <2>1. y.created = x.created /\ y.email = x.email /\ y.source = x.source
    BY DEF WorkLink
  <2>2. x \in Links /\ y \notin Links /\ Links' = (Links \ {x}) \cup {y}
    BY SaveCommitLinks
  <2> HIDE DEF x, y
  <2> QED
    BY <2>1, <2>2
<1>2. UNCHANGED <<now, emailLog, sourceLog>>
  BY DEF SaveCommit, limiter
<1>3. ASSUME NEW e \in Emails
      PROVE  Bounded(EmailLinks(e)', emailLog'[e], now', MaxPerEmail)
  <2>1. Bounded(EmailLinks(e), emailLog[e], now, MaxPerEmail)
    BY DEF RateInv
  <2>2. CASE x.email = e
    <3>1. /\ x \in EmailLinks(e) /\ y \notin EmailLinks(e) \ {x}
          /\ EmailLinks(e)' = (EmailLinks(e) \ {x}) \cup {y}
      BY <1>1, <2>2 DEF EmailLinks
    <3>2. Bounded(EmailLinks(e)', emailLog[e], now, MaxPerEmail)
      BY <1>1, <2>1, <3>1, ReplacedBounded
    <3> QED
      BY <1>2, <3>2
  <2>3. CASE x.email # e
    <3>1. EmailLinks(e)' = EmailLinks(e)
      BY <1>1, <2>3 DEF EmailLinks
    <3> QED
      BY <1>2, <2>1, <3>1
  <2> QED
    BY <2>2, <2>3
<1>4. ASSUME NEW s \in Sources
      PROVE  Bounded(SourceLinks(s)', sourceLog'[s], now', MaxPerSource)
  <2>1. Bounded(SourceLinks(s), sourceLog[s], now, MaxPerSource)
    BY DEF RateInv
  <2>2. CASE x.source = s
    <3>1. /\ x \in SourceLinks(s) /\ y \notin SourceLinks(s) \ {x}
          /\ SourceLinks(s)' = (SourceLinks(s) \ {x}) \cup {y}
      BY <1>1, <2>2 DEF SourceLinks
    <3>2. Bounded(SourceLinks(s)', sourceLog[s], now, MaxPerSource)
      BY <1>1, <2>1, <3>1, ReplacedBounded
    <3> QED
      BY <1>2, <3>2
  <2>3. CASE x.source # s
    <3>1. SourceLinks(s)' = SourceLinks(s)
      BY <1>1, <2>3 DEF SourceLinks
    <3> QED
      BY <1>2, <2>1, <3>1
  <2> QED
    BY <2>2, <2>3
<1> QED
  BY <1>3, <1>4 DEF RateInv

LEMMA RateInvInit == Init => RateInv
<1> SUFFICES ASSUME Init PROVE RateInv
  OBVIOUS
<1>1. Links = {}
  BY EmptySeq DEF Init, Links, Pending, Idle
<1>2. now \in Nat /\ MaxPerEmail \in Nat /\ MaxPerSource \in Nat
        /\ IsFiniteSet({}) /\ Cardinality({}) = 0
  BY LoginAssumption, FS_EmptySet DEF Init
<1>3. ASSUME NEW max \in Nat PROVE Bounded({}, <<>>, now, max)
  <2>1. DOMAIN <<>> = {}
    BY EmptySeq
  <2>2. InOrder(<<>>, now) /\ \A t : Later(<<>>, t) = {}
    BY <2>1 DEF InOrder, Later
  <2>3. \A t : Since({}, t) = {} /\ Within({}, t) = {}
    BY DEF Since, Within
  <2>4. \A t : Cardinality(Later(<<>>, t)) = 0
    BY <1>2, <2>2, Zenon
  <2>5. \A t : Cardinality(Since({}, t)) = 0 /\ Cardinality(Within({}, t)) = 0
    BY <1>2, <2>3, Zenon
  <2> QED
    BY <1>2, <2>2, <2>4, <2>5 DEF Bounded
<1>4. ASSUME NEW e \in Emails
      PROVE  Bounded(EmailLinks(e), emailLog[e], now, MaxPerEmail)
  <2>1. EmailLinks(e) = {} /\ emailLog[e] = <<>>
    BY <1>1 DEF EmailLinks, Init
  <2> QED
    BY <1>2, <1>3, <2>1
<1>5. ASSUME NEW s \in Sources
      PROVE  Bounded(SourceLinks(s), sourceLog[s], now, MaxPerSource)
  <2>1. SourceLinks(s) = {} /\ sourceLog[s] = <<>>
    BY <1>1 DEF SourceLinks, Init
  <2> QED
    BY <1>2, <1>3, <2>1
<1> QED
  BY <1>4, <1>5 DEF RateInv

LEMMA RateInvNext == TypeOK /\ RateInv /\ [Next]_vars => RateInv'
<1> SUFFICES ASSUME TypeOK, RateInv, [Next]_vars PROVE RateInv'
  OBVIOUS
<1>1. ASSUME NEW w \in Workers, NEW record, Become(w, record),
             Pending(w) => record.at \notin {"update", "insert"}
               \/ /\ record.email = work[w].email
                  /\ record.source = work[w].source
                  /\ record.created = work[w].created,
             ~Pending(w) => record.at \notin {"update", "insert"},
             UNCHANGED <<now, limiter>>, UNCHANGED DOMAIN attempts,
             \A i \in DOMAIN attempts :
               /\ attempts'[i].email = attempts[i].email
               /\ attempts'[i].source = attempts[i].source
               /\ attempts'[i].created = attempts[i].created
      PROVE  RateInv'
  <2>1. \A v \in Workers : Pending(v)' =>
          /\ Pending(v)
          /\ work'[v].email = work[v].email
          /\ work'[v].source = work[v].source
          /\ work'[v].created = work[v].created
    BY <1>1 DEF Become, TypeOK, Pending
  <2>2. Links' \subseteq Links
    BY <1>1, <2>1, LinksShrink
  <2> QED
    BY <1>1, <2>2, FewerLinks
<1>2. ASSUME NEW w \in Workers, Reading(w) PROVE RateInv'
  <2>1. PICK record \in Activities :
          /\ Become(w, record)
          /\ record.at \in {"idle", "insert", "csrf", "routed", "revoke"}
          /\ record.at = "insert" =>
               /\ work[w].at = "update"
               /\ record.email = work[w].email
               /\ record.source = work[w].source
               /\ record.created = work[w].created
    BY <1>2, ReadingReads
  <2>2. UNCHANGED <<now, limiter, attempts>>
    BY <1>2, ReadingReads
  <2>3. Pending(w) => record.at \notin {"update", "insert"}
          \/ /\ record.email = work[w].email
             /\ record.source = work[w].source
             /\ record.created = work[w].created
    BY <2>1
  <2>4. ~Pending(w) => record.at \notin {"update", "insert"}
    BY <2>1 DEF Pending
  <2> QED
    BY <1>1, <2>1, <2>2, <2>3, <2>4
<1>3. ASSUME NEW w \in Workers, Send(w) \/ Issue(w) \/ Revoke(w)
      PROVE  RateInv'
  <2>1. Become(w, Idle) /\ Idle.at = "idle"
          /\ UNCHANGED <<now, limiter, attempts>>
    BY <1>3 DEF Send, Issue, Revoke, Idle
  <2> QED
    BY <1>1, <2>1
<1>4. ASSUME NEW w \in Workers, Recover(w) PROVE RateInv'
  <2>1. PICK subject :
          Become(w, [at |-> "issue", token |-> work[w].token,
                     subject |-> subject])
    BY <1>4, RecoverWrites
  <2>2. UNCHANGED <<now, limiter, attempts>>
    BY <1>4 DEF Recover, Recovered
  <2> QED
    BY <1>1, <2>1, <2>2
<1>5. ASSUME NEW w \in Workers, NEW token \in mail, Consume(w, token)
      PROVE  RateInv'
  <2>1. /\ Become(w, [at |-> "recover", token |-> token])
        /\ UNCHANGED <<now, limiter>>
    BY <1>5 DEF Consume
  <2>2. DOMAIN attempts' = DOMAIN attempts
    BY <1>5, ConsumeWrites
  <2> QED
    BY <1>1, <2>1, <2>2, AttemptsKept
<1>6. CASE Tick
  <2>1. now \in Nat /\ now' \in Nat /\ now <= now'
    BY <1>6, LoginAssumption DEF Tick, TypeOK
  <2>2. UNCHANGED <<emailLog, sourceLog, attempts, work>>
    BY <1>6 DEF Tick, limiter
  <2>3. Links' = Links
    BY <2>2 DEF Links, RowLink, WorkLink, Pending
  <2>4. ASSUME NEW e \in Emails
        PROVE  Bounded(EmailLinks(e)', emailLog'[e], now', MaxPerEmail)
    <3>1. Bounded(EmailLinks(e), emailLog[e], now, MaxPerEmail)
      BY DEF RateInv
    <3>2. emailLog[e] \in Seq(0..MaxTime) /\ MaxPerEmail \in Nat
      BY LoginAssumption DEF TypeOK
    <3>3. Bounded(EmailLinks(e), emailLog[e], now', MaxPerEmail)
      BY <2>1, <3>1, <3>2, LaterBounded
    <3>4. EmailLinks(e)' = EmailLinks(e)
      BY <2>3 DEF EmailLinks
    <3> QED
      BY <2>2, <3>3, <3>4
  <2>5. ASSUME NEW s \in Sources
        PROVE  Bounded(SourceLinks(s)', sourceLog'[s], now', MaxPerSource)
    <3>1. Bounded(SourceLinks(s), sourceLog[s], now, MaxPerSource)
      BY DEF RateInv
    <3>2. sourceLog[s] \in Seq(0..MaxTime) /\ MaxPerSource \in Nat
      BY LoginAssumption DEF TypeOK
    <3>3. Bounded(SourceLinks(s), sourceLog[s], now', MaxPerSource)
      BY <2>1, <3>1, <3>2, LaterBounded
    <3>4. SourceLinks(s)' = SourceLinks(s)
      BY <2>3 DEF SourceLinks
    <3> QED
      BY <2>2, <3>3, <3>4
  <2> QED
    BY <2>4, <2>5 DEF RateInv
<1>7. CASE UNCHANGED vars
  <2>1. UNCHANGED <<now, limiter, attempts, work>>
    BY <1>7 DEF vars
  <2>2. Links' \subseteq Links
    BY <2>1 DEF Links, RowLink, WorkLink, Pending
  <2> QED
    BY <2>1, <2>2, FewerLinks
<1> QED
  BY <1>2, <1>3, <1>4, <1>5, <1>6, <1>7, StepKinds, RequestRate,
     SaveCommitRate

\* The rows among bounded links are bounded.
LEMMA RowsWithin ==
  ASSUME TypeOK, NEW t \in Nat, NEW L, NEW log, NEW max \in Nat,
         Bounded(L, log, now, max), NEW rows,
         rows \in SUBSET {i \in DOMAIN attempts :
                            attempts[i].created \in t..(t + Window - 1)},
         \A i \in rows : RowLink(i) \in L
  PROVE  Cardinality(rows) <= max
<1> DEFINE f == [i \in rows |-> RowLink(i)]
<1>1. \A i \in rows : RowLink(i) \in Within(L, t)
  BY DEF Within, RowLink
<1>2. f \in [rows -> Within(L, t)]
  BY <1>1
<1>3. \A i, j \in rows : f[i] = f[j] => i = j
  BY DEF RowLink
<1>4. f \in Injection(rows, Within(L, t))
  BY <1>2, <1>3, Fun_IsInj
<1>5. IsFiniteSet(L) /\ Cardinality(Within(L, t)) <= max
  BY DEF Bounded
<1>6. IsFiniteSet(Within(L, t))
  BY <1>5, FS_Subset DEF Within
<1>7. /\ IsFiniteSet(rows)
      /\ Cardinality(rows) <= Cardinality(Within(L, t))
  BY <1>4, <1>6, FS_Injection
<1>8. Cardinality(rows) \in Nat /\ Cardinality(Within(L, t)) \in Nat
  BY <1>6, <1>7, FS_CardinalityType
<1> QED
  BY <1>5, <1>7, <1>8

\* No address and no source is given more links in a window than its limit,
\* however requests overlap, and whichever of them are lost on the way.
THEOREM RatesAreBounded == Spec => []RateBounded
<1>1. TypeOK /\ RateInv => RateBounded
  <2> SUFFICES ASSUME TypeOK, RateInv, NEW t \in 0..MaxTime
               PROVE  LET within == {i \in DOMAIN attempts :
                            attempts[i].created \in t..(t + Window - 1)}
                      IN /\ \A e \in Emails :
                              Cardinality({i \in within :
                                attempts[i].email = e}) <= MaxPerEmail
                         /\ \A s \in Sources :
                              Cardinality({i \in within :
                                attempts[i].source = s}) <= MaxPerSource
    BY DEF RateBounded
  <2> DEFINE within == {i \in DOMAIN attempts :
                          attempts[i].created \in t..(t + Window - 1)}
  <2>1. t \in Nat /\ MaxPerEmail \in Nat /\ MaxPerSource \in Nat
    BY LoginAssumption
  <2>2. ASSUME NEW e \in Emails
        PROVE  Cardinality({i \in within : attempts[i].email = e})
                 <= MaxPerEmail
    <3> DEFINE rows == {i \in within : attempts[i].email = e}
    <3>1. \A i \in rows : RowLink(i) \in EmailLinks(e)
      BY DEF RowLink, EmailLinks, Links
    <3>2. Bounded(EmailLinks(e), emailLog[e], now, MaxPerEmail)
      BY DEF RateInv
    <3>3. rows \in SUBSET within
      OBVIOUS
    <3> HIDE DEF rows
    <3>4. Cardinality(rows) <= MaxPerEmail
      BY <2>1, <3>1, <3>2, <3>3, RowsWithin
    <3> QED
      BY <3>4 DEF rows
  <2>3. ASSUME NEW s \in Sources
        PROVE  Cardinality({i \in within : attempts[i].source = s})
                 <= MaxPerSource
    <3> DEFINE rows == {i \in within : attempts[i].source = s}
    <3>1. \A i \in rows : RowLink(i) \in SourceLinks(s)
      BY DEF RowLink, SourceLinks, Links
    <3>2. Bounded(SourceLinks(s), sourceLog[s], now, MaxPerSource)
      BY DEF RateInv
    <3>3. rows \in SUBSET within
      OBVIOUS
    <3> HIDE DEF rows
    <3>4. Cardinality(rows) <= MaxPerSource
      BY <2>1, <3>1, <3>2, <3>3, RowsWithin
    <3> QED
      BY <3>4 DEF rows
  <2> QED
    BY <2>2, <2>3
<1> QED
  BY <1>1, TypeInit, TypeNext, RateInvInit, RateInvNext, PTL DEF Spec

=============================================================================
