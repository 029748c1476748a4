---------------------------- MODULE BrowserLogin ----------------------------
(***************************************************************************)
(* Passwordless login over the durable stores: RegistrationService         *)
(* (gateway/auth/registration.py) with its rate limiter, the PostgreSQL    *)
(* repository of attempts and users (gateway/auth/postgres.py), the        *)
(* confirmation handler, and browser sessions from issue to logout         *)
(* (gateway/browser_sessions.py, browser_sessions_postgres.py).            *)
(*                                                                         *)
(* A worker is a gateway thread or process serving one call.  It takes one *)
(* step per database statement or transaction and may die between any two. *)
(* The limiter outlives a worker: its docstring asks production to inject  *)
(* one limiter that all processes share.                                   *)
(* A token, its digest and its attempt are one number, a session id, its   *)
(* cookie and its CSRF proof another: HMACs and signatures are assumed     *)
(* not to collide.                                                         *)
(***************************************************************************)
EXTENDS Integers, Sequences, FiniteSets

CONSTANTS
  Emails,        \* canonical addresses
  Sources,       \* network sources
  NoSource,      \* a call whose source is None
  Callers,       \* the sources calls come from, NoSource among them or not
  Workers,
  MaxPerEmail,   \* limiter: max_per_email
  MaxPerSource,  \* limiter: max_per_source
  Window,        \* limiter: window_seconds, in ticks
  TokenTTL,      \* token_ttl_seconds, in ticks
  SessionTTL,    \* BrowserSessionIssuer ttl_seconds, in ticks
  MaxTime        \* bound: the last tick of the clock

ASSUME LoginAssumption ==
  /\ NoSource \notin Sources
  /\ Callers \subseteq Sources \cup {NoSource}
  /\ {MaxPerEmail, MaxPerSource, Window, TokenTTL, SessionTTL}
       \subseteq Nat \ {0}
  /\ MaxTime \in Nat

VARIABLES
  now,       \* the clock
  emailLog,  \* _email_attempts of the limiter
  sourceLog, \* _source_attempts of the limiter
  attempts,  \* rows of auth_verification_attempts, with their source
  mail,      \* the tokens that reached the mailbox they were sent to
  contacts,  \* the subject of each verified contact, 0 when there is none
  accounts,  \* how many rows auth_user_accounts has; subjects number them
  sessions,  \* rows of auth_browser_sessions, with the attempt confirmed
  work       \* what each worker is doing

limiter == <<emailLog, sourceLog>>
users   == <<contacts, accounts>>
vars    == <<now, limiter, attempts, mail, users, sessions, work>>

---------------------------------------------------------------------------
Attempts ==
  [email : Emails, source : Callers, created : 0..MaxTime,
   consumed : BOOLEAN, invalidated : BOOLEAN]
Subjects == 1..accounts
Sessions ==
  [subject : Subjects, attempt : DOMAIN attempts, created : 0..MaxTime,
   revoked : BOOLEAN]

Idle == [at |-> "idle"]
Requests ==
  [at : {"update"}, email : Emails, source : Callers,
   created : 0..MaxTime]
Saves ==
  [at : {"insert"}, email : Emails, source : Callers,
   created : 0..MaxTime, outstanding : SUBSET DOMAIN attempts]
Sends    == [at : {"send"}, token : DOMAIN attempts]
Confirms == [at : {"recover"}, token : DOMAIN attempts]
Issues   == [at : {"issue"}, token : DOMAIN attempts, subject : Subjects]
Mutations ==
  [at : {"csrf", "routed"}, session : DOMAIN sessions,
   proof : DOMAIN sessions]
Logouts == [at : {"revoke"}, session : DOMAIN sessions]
Activities ==
  {Idle} \cup Requests \cup Saves \cup Sends \cup Confirms \cup Issues
    \cup Mutations \cup Logouts

Init ==
  /\ now = 0
  /\ emailLog = [e \in Emails |-> <<>>]
  /\ sourceLog = [s \in Sources |-> <<>>]
  /\ attempts = <<>>
  /\ mail = {}
  /\ contacts = [e \in Emails |-> 0]
  /\ accounts = 0
  /\ sessions = <<>>
  /\ work = [w \in Workers |-> Idle]

Become(w, record) == work' = [work EXCEPT ![w] = record]

---------------------------------------------------------------------------
(* request_registration                                                    *)

\* _recent: the calls still inside the limiter's window.  The log is in the
\* order of the clock, so those that have left it are its first ones.
Recent(log) ==
  LET left == Cardinality({i \in DOMAIN log : log[i] + Window <= now})
  IN SubSeq(log, left + 1, Len(log))

\* Mutant of Allow: the limits are passed by one.
AllowOneMore(byEmail, bySource) ==
  Len(byEmail) <= MaxPerEmail /\ Len(bySource) <= MaxPerSource

\* InMemoryRegistrationRateLimiter.allow
Allow(byEmail, bySource) ==
  Len(byEmail) < MaxPerEmail /\ Len(bySource) < MaxPerSource

SourceLog(s) == IF s = NoSource THEN <<>> ELSE Recent(sourceLog[s])

\* The limiter admits the call.
Request(w, e, s) ==
  LET byEmail  == Recent(emailLog[e])
      bySource == SourceLog(s)
  IN /\ work[w] = Idle
     /\ Allow(byEmail, bySource)
     /\ emailLog' = [emailLog EXCEPT ![e] = Append(byEmail, now)]
     /\ sourceLog' = [t \in Sources |->
          IF t = s THEN Append(bySource, now) ELSE sourceLog[t]]
     /\ Become(w, [at |-> "update", email |-> e, source |-> s,
                   created |-> now])
     /\ UNCHANGED <<now, attempts, mail, users, sessions>>

Outstanding(e) ==
  {i \in DOMAIN attempts : /\ attempts[i].email = e
                           /\ ~attempts[i].consumed
                           /\ ~attempts[i].invalidated}

\* save_new_attempt, the snapshot of its UPDATE (READ COMMITTED: rows that
\* another transaction commits from here on are not seen by it).
SaveUpdate(w) ==
  LET me == work[w]
  IN /\ me.at = "update"
     /\ Become(w, [at |-> "insert", email |-> me.email,
                   source |-> me.source, created |-> me.created,
                   outstanding |-> Outstanding(me.email)])
     /\ UNCHANGED <<now, limiter, attempts, mail, users, sessions>>

\* Mutant of Invalidated: the rows of the snapshot are not checked again.
InvalidatedUnchecked(rows) ==
  [i \in DOMAIN attempts |-> IF i \in rows
     THEN [attempts[i] EXCEPT !.invalidated = TRUE] ELSE attempts[i]]

\* The UPDATE checks its condition again on each row once it holds its lock.
Invalidated(rows) ==
  [i \in DOMAIN attempts |-> IF i \in rows /\ ~attempts[i].consumed
     THEN [attempts[i] EXCEPT !.invalidated = TRUE] ELSE attempts[i]]

\* save_new_attempt, INSERT and commit.
SaveCommit(w) ==
  LET me == work[w]
  IN /\ me.at = "insert"
     /\ attempts' = Append(Invalidated(me.outstanding),
          [email |-> me.email, source |-> me.source, created |-> me.created,
           consumed |-> FALSE, invalidated |-> FALSE])
     /\ Become(w, [at |-> "send", token |-> Len(attempts) + 1])
     /\ UNCHANGED <<now, limiter, mail, users, sessions>>

\* send_verification; a delivery that raises is swallowed.
Send(w) ==
  /\ work[w].at = "send"
  /\ mail' \in {mail, mail \cup {work[w].token}}
  /\ Become(w, Idle)
  /\ UNCHANGED <<now, limiter, attempts, users, sessions>>

---------------------------------------------------------------------------
(* LoginConfirmationHandler.confirm                                        *)

\* Mutant of IsActive: a consumed attempt is still good.
IsActiveOnceConsumed(a) == ~a.invalidated /\ now < a.created + TokenTTL

\* The condition of consume_email_by_digest and find_active_by_digest.
IsActive(a) ==
  ~a.consumed /\ ~a.invalidated /\ now < a.created + TokenTTL

\* consume_email_by_digest: one UPDATE in a transaction of its own.
Consume(w, token) ==
  /\ work[w] = Idle
  /\ IsActive(attempts[token])
  /\ attempts' = [attempts EXCEPT ![token] = [@ EXCEPT !.consumed = TRUE]]
  /\ Become(w, [at |-> "recover", token |-> token])
  /\ UNCHANGED <<now, limiter, mail, users, sessions>>

\* The user of an address, to be read after an update of `users`.
Recovered(w, subject) ==
  /\ Become(w, [at |-> "issue", token |-> work[w].token,
                subject |-> subject])
  /\ UNCHANGED <<now, limiter, attempts, mail, sessions>>

\* Mutants of Recover: every confirmation creates a user; a new address
\* gets none.
RecoverAnew(w) ==
  /\ work[w].at = "recover"
  /\ accounts' = accounts + 1
  /\ contacts' = [contacts EXCEPT ![attempts[work[w].token].email] =
                    accounts + 1]
  /\ Recovered(w, accounts + 1)

RecoverOnly(w) ==
  /\ work[w].at = "recover"
  /\ Recovered(w, contacts[attempts[work[w].token].email])
  /\ UNCHANGED users

\* create_or_recover_verified_user: a second transaction, serialised for an
\* address by its advisory lock.
Recover(w) ==
  LET email == attempts[work[w].token].email
  IN /\ work[w].at = "recover"
     /\ \/ /\ contacts[email] # 0
           /\ Recovered(w, contacts[email])
           /\ UNCHANGED users
        \/ /\ contacts[email] = 0
           /\ accounts' = accounts + 1
           /\ contacts' = [contacts EXCEPT ![email] = accounts + 1]
           /\ Recovered(w, accounts + 1)

\* BrowserSessionIssuer.issue: a third one; then the cookie is set.
Issue(w) ==
  /\ work[w].at = "issue"
  /\ sessions' = Append(sessions,
       [subject |-> work[w].subject, attempt |-> work[w].token,
        created |-> now, revoked |-> FALSE])
  /\ Become(w, Idle)
  /\ UNCHANGED <<now, limiter, attempts, mail, users>>

---------------------------------------------------------------------------
(* BrowserSessionAuthenticator                                             *)

\* Mutant of GetActive: revocation is not looked at.
GetActiveRevoked(s) == now < sessions[s].created + SessionTTL

\* get_active; the exp claim of the cookie is the expiry of its row.
GetActive(s) ==
  ~sessions[s].revoked /\ now < sessions[s].created + SessionTTL

\* authenticate_mutation up to the CSRF check.
BeginMutation(w, s, proof) ==
  /\ work[w] = Idle
  /\ GetActive(s)
  /\ Become(w, [at |-> "csrf", session |-> s, proof |-> proof])
  /\ UNCHANGED <<now, limiter, attempts, mail, users, sessions>>

\* Mutant of VerifyCsrf: the row read by authenticate is good enough.
VerifyCsrfUnread(w) ==
  LET me == work[w]
  IN /\ me.at = "csrf"
     /\ Become(w, IF me.proof = me.session
                  THEN [me EXCEPT !.at = "routed"] ELSE Idle)
     /\ UNCHANGED <<now, limiter, attempts, mail, users, sessions>>

\* verify_csrf reads the session again.
VerifyCsrf(w) ==
  LET me == work[w]
  IN /\ me.at = "csrf"
     /\ Become(w, IF GetActive(me.session) /\ me.proof = me.session
                  THEN [me EXCEPT !.at = "routed"] ELSE Idle)
     /\ UNCHANGED <<now, limiter, attempts, mail, users, sessions>>

\* The workflow the command was routed to returns.
Finish(w) ==
  /\ work[w].at = "routed"
  /\ Become(w, Idle)
  /\ UNCHANGED <<now, limiter, attempts, mail, users, sessions>>

\* logout authenticates, then revokes.
BeginLogout(w, s) ==
  /\ work[w] = Idle
  /\ GetActive(s)
  /\ Become(w, [at |-> "revoke", session |-> s])
  /\ UNCHANGED <<now, limiter, attempts, mail, users, sessions>>

Revoke(w) ==
  /\ work[w].at = "revoke"
  /\ sessions' = [sessions EXCEPT ![work[w].session] =
                    [@ EXCEPT !.revoked = TRUE]]
  /\ Become(w, Idle)
  /\ UNCHANGED <<now, limiter, attempts, mail, users>>

---------------------------------------------------------------------------
\* The limiter refuses a request; a token or a session is not active.
LimiterRefuses ==
  \E e \in Emails, s \in Callers : ~Allow(Recent(emailLog[e]), SourceLog(s))
TokenRefused   == \E token \in mail : ~IsActive(attempts[token])
SessionRefused == \E s \in DOMAIN sessions : ~GetActive(s)

\* The caller gets the generic answer and nothing changes.
Refuse(w) ==
  /\ work[w] = Idle
  /\ LimiterRefuses \/ TokenRefused \/ SessionRefused
  /\ UNCHANGED vars

\* A worker dies; an open transaction rolls back, the client hears nothing.
Crash(w) ==
  /\ work[w] # Idle
  /\ Become(w, Idle)
  /\ UNCHANGED <<now, limiter, attempts, mail, users, sessions>>

Tick ==
  /\ now < MaxTime
  /\ now' = now + 1
  /\ UNCHANGED <<limiter, attempts, mail, users, sessions, work>>

Registration(w) ==
  \/ \E e \in Emails, s \in Callers : Request(w, e, s)
  \/ SaveUpdate(w) \/ SaveCommit(w) \/ Send(w)

Confirmation(w) ==
  \/ \E token \in mail : Consume(w, token)
  \/ Recover(w) \/ Issue(w)

Browsing(w) ==
  \/ \E s, proof \in DOMAIN sessions : BeginMutation(w, s, proof)
  \/ \E s \in DOMAIN sessions : BeginLogout(w, s)
  \/ VerifyCsrf(w) \/ Finish(w) \/ Revoke(w)

Next ==
  \/ \E w \in Workers :
       Registration(w) \/ Confirmation(w) \/ Browsing(w) \/ Refuse(w)
         \/ Crash(w)
  \/ Tick

Spec == Init /\ [][Next]_vars

---------------------------------------------------------------------------
(* Properties *)

TypeOK ==
  /\ now \in 0..MaxTime
  /\ emailLog \in [Emails -> Seq(0..MaxTime)]
  /\ sourceLog \in [Sources -> Seq(0..MaxTime)]
  /\ attempts \in Seq(Attempts)
  /\ mail \subseteq DOMAIN attempts
  /\ accounts \in Nat
  /\ contacts \in [Emails -> Subjects \cup {0}]
  /\ sessions \in Seq(Sessions)
  /\ work \in [Workers -> Activities]

\* A link is good for one session: no second confirmation of it -- at the
\* same time, after a crash, after a logout -- gets another one, and none is
\* issued for a link nobody consumed (passwordless-user-registration spec,
\* "Valid verification link is consumed once").
OneSessionPerLink ==
  \A i, j \in DOMAIN sessions :
    /\ attempts[sessions[i].attempt].consumed
    /\ sessions[i].attempt = sessions[j].attempt => i = j

\* Whoever opens links sent to one address is always the same user, and two
\* addresses are never the same user: concurrent first confirmations do not
\* create a duplicate or an account without a contact.
OneUserPerMailbox ==
  /\ \A i \in DOMAIN sessions :
       sessions[i].subject = contacts[attempts[sessions[i].attempt].email]
  /\ \A e, f \in Emails : contacts[e] = contacts[f] /\ contacts[e] # 0
                            => e = f
  /\ \A s \in Subjects : \E e \in Emails : contacts[e] = s

\* An attempt ends once: a confirmation racing a new request for the same
\* address never leaves it both consumed and invalidated (the CHECK
\* auth_verification_attempts_one_terminal_state would raise).
AttemptEndsOnce ==
  \A i \in DOMAIN attempts : ~(attempts[i].consumed /\ attempts[i].invalidated)

\* In no stretch of one window does an address get more links than
\* max_per_email, or a source cause more than max_per_source.
RateBounded ==
  \A t \in 0..MaxTime :
    LET within == {i \in DOMAIN attempts :
                     attempts[i].created \in t..(t + Window - 1)}
    IN /\ \A e \in Emails :
            Cardinality({i \in within : attempts[i].email = e})
              <= MaxPerEmail
       /\ \A s \in Sources :
            Cardinality({i \in within : attempts[i].source = s})
              <= MaxPerSource

\* Logout is final: no mutation is routed to a workflow once its session is
\* revoked, neither one that comes later nor one whose session another worker
\* revokes after authenticate read it and before the CSRF check.
LogoutIsFinal ==
  [][\A w \in Workers : work[w].at # "routed" /\ work'[w].at = "routed"
       => ~sessions[work'[w].session].revoked]_vars

\* What openspec/changes/build-user-registration/design.md:106-107 says: a
\* new attempt for an address invalidates the outstanding unconsumed ones.
\* So an address never has two links that would both be accepted.
OneLinkPerMailbox ==
  \A e \in Emails : Cardinality(Outstanding(e)) <= 1

\* What openspec/changes/remediate-control-plane-review/specs/
\* control-plane-remediation/spec.md:14-15 says: a valid durable token
\* creates or recovers its user.  So a consumed token no worker is serving
\* any more has left a user behind.
ConsumedLinkHasUser ==
  \A i \in DOMAIN attempts : attempts[i].consumed =>
    \/ contacts[attempts[i].email] # 0
    \/ \E w \in Workers : work[w] = [at |-> "recover", token |-> i]
=============================================================================
