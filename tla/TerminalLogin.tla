--------------------------- MODULE TerminalLogin ---------------------------
(***************************************************************************)
(* Login from a terminal: the device-code exchange of                      *)
(* gateway/auth/cli.py and login.py, the claims and grants it ends in      *)
(* (claims.py, grants.py, sessions.py), the session file all logins of a   *)
(* machine account share, and what transports/cli.py prints of it.         *)
(*                                                                         *)
(* A login is one `platformops login` process.  The identity provider is   *)
(* external: people approve or deny a device code, codes expire on its own *)
(* clock, it rotates its keys, and it may ask any client to slow down.  A  *)
(* session is named by the login that made it.  Time is counted in units   *)
(* of five seconds, the increment of slow_down, as what is left of each    *)
(* wait.                                                                   *)
(***************************************************************************)
EXTENDS Integers, FiniteSets

CONSTANTS
  Logins,     \* login processes
  Users,      \* people who may approve a device code
  NoUser,
  Groups,     \* groups of the identity provider
  Mappings,   \* what the grant mapping file may say: sets of mapped groups
  Keys,       \* signing keys of the identity provider
  Lifetimes,  \* the values of expires_in
  Intervals,  \* the values of interval
  SessionTTL  \* ttl_seconds of build_actor_session

ASSUME TerminalAssumption ==
  /\ NoUser \notin Users
  /\ Mappings \subseteq SUBSET Groups
  /\ Lifetimes \subseteq Nat /\ Intervals \subseteq Nat
  /\ IsFiniteSet(Groups) /\ Keys # {}
  /\ SessionTTL \in Nat \ {0}

VARIABLES
  at,      \* where each login is
  mapping, \* the grant mapping it has loaded
  token,   \* the ID token it was given
  session, \* the session it has built
  life,    \* time until that session expires
  timer,   \* the waits of its polling loop, on both sides
  code,    \* identity provider: each login's device code and who decided
  jwks,    \* identity provider: the keys it publishes, one at a time
  file,    \* the session file
  private, \* does the file have mode 0600?
  alone    \* history: has a login at "write" had the file to itself?

built == <<session, life>>
disk  == <<file, private, alone>>
vars  == <<at, mapping, token, built, timer, code, jwks, disk>>

---------------------------------------------------------------------------
Ended  == {"done", "failed"}
Stages == {"idle", "request", "poll", "sleep", "keys", "truncate", "write",
           "chmod"} \cup Ended

\* Of the client, left until its deadline, the interval it has been told and
\* what is left of its sleep; of the provider, the least time it requires
\* between two polls and what is left of it.
Timers  == [left : Nat, interval : Nat, nap : Nat, required : Nat, due : Nat]
NoTimer ==
  [left |-> 0, interval |-> 0, nap |-> 0, required |-> 0, due |-> 0]

Codes  ==
  [state : {"none", "pending", "approved", "denied", "expired", "spent"},
   by : Users \cup {NoUser}]
NoCode == [state |-> "none", by |-> NoUser]

\* sound: signature, algorithm, issuer, audience, expiry and the email claim
\* are what parse_id_token asks for.
Tokens    == [user : Users, groups : SUBSET Groups, key : Keys,
              sound : BOOLEAN]
NoToken   == [user |-> NoUser]
Sessions  == [user : Users, groups : SUBSET Groups,
              approvals : SUBSET Groups]
NoSession == [user |-> NoUser]

\* The size of a file orders the files by length; an empty one has none.
Missing     == [is |-> "missing", size |-> 0]
Torn(n)     == [is |-> "torn", size |-> n]
Empty       == Torn(0)
Whole(p, n) == [is |-> "session", of |-> p, size |-> n]

Init ==
  /\ at = [p \in Logins |-> "idle"]
  /\ mapping = [p \in Logins |-> {}]
  /\ token = [p \in Logins |-> NoToken]
  /\ session = [p \in Logins |-> NoSession]
  /\ life = [p \in Logins |-> 0]
  /\ timer = [p \in Logins |-> NoTimer]
  /\ code = [p \in Logins |-> NoCode]
  /\ jwks = {CHOOSE k \in Keys : TRUE}
  /\ file = Missing /\ private = FALSE
  /\ alone = [p \in Logins |-> FALSE]

GoTo(p, from, to) == at[p] = from /\ at' = [at EXCEPT ![p] = to]

---------------------------------------------------------------------------
(* login_once, up to the token                                             *)

\* main, _handle_login: the mapping is loaded before anybody is asked.
Start(p, m) ==
  /\ GoTo(p, "idle", "request")
  /\ mapping' = [mapping EXCEPT ![p] = m]
  /\ UNCHANGED <<token, built, timer, code, jwks, disk>>

\* Mutant of PastDeadline: the loop never looks at the clock.
PastDeadlineNever(t) == FALSE

\* The head of the loop, with what is left then.
PastDeadline(t) == t.left = 0

\* When the loop is left, nobody waits for this code any more.
LeaveLoop(p) == timer' = [timer EXCEPT ![p] = NoTimer]

\* What a process that ends without a session leaves: nothing of its own,
\* and a device code nobody asks for.
Forget(p) ==
  /\ LeaveLoop(p)
  /\ mapping' = [mapping EXCEPT ![p] = {}]
  /\ token' = [token EXCEPT ![p] = NoToken]
  /\ code' = [code EXCEPT ![p] = NoCode]

\* discover_oidc_metadata and begin_device_authorization; the deadline
\* counts from the answer.
Authorize(p) ==
  \E lifetime \in Lifetimes, seconds \in Intervals :
    LET t == [left |-> lifetime, interval |-> seconds, nap |-> 0,
              required |-> seconds, due |-> 0]
    IN /\ \/ /\ PastDeadline(t)
             /\ GoTo(p, "request", "failed")
             /\ Forget(p)
          \/ /\ ~PastDeadline(t)
             /\ GoTo(p, "request", "poll")
             /\ timer' = [timer EXCEPT ![p] = t]
             /\ code' = [code EXCEPT ![p].state = "pending"]
             /\ UNCHANGED <<mapping, token>>
       /\ UNCHANGED <<built, jwks, disk>>

\* authorization_pending, also of a code that could expire any moment.
Pending(p) ==
  /\ code[p].state = "pending"
  /\ GoTo(p, "poll", "sleep")
  /\ timer' = [timer EXCEPT ![p].nap = timer[p].interval,
                            ![p].due = timer[p].required]
  /\ UNCHANGED <<mapping, token, built, code, jwks, disk>>

\* Mutant of SlowerBy: the longer interval is used from the next time on.
SlowerByLater(t) ==
  [t EXCEPT !.interval = @ + 1, !.nap = t.interval,
            !.required = @ + 1, !.due = t.required + 1]

\* The interval grows for this wait and all later ones, on both sides
\* (RFC 8628, section 3.5).
SlowerBy(t) ==
  [t EXCEPT !.interval = @ + 1, !.nap = t.interval + 1,
            !.required = @ + 1, !.due = t.required + 1]

\* slow_down
SlowDown(p) ==
  /\ code[p].state \in {"pending", "approved"}
  /\ GoTo(p, "poll", "sleep")
  /\ timer' = [timer EXCEPT ![p] = SlowerBy(@)]
  /\ UNCHANGED <<mapping, token, built, code, jwks, disk>>

\* access_denied, expired_token
Refused(p) ==
  /\ code[p].state \in {"denied", "expired"}
  /\ GoTo(p, "poll", "failed")
  /\ Forget(p)
  /\ UNCHANGED <<built, jwks, disk>>

\* The provider redeems the code; its token reaches the login or is lost.
Granted(p) ==
  /\ code[p].state = "approved"
  /\ \/ /\ GoTo(p, "poll", "keys")
        /\ \E groups \in SUBSET Groups, key \in jwks, sound \in BOOLEAN :
             token' = [token EXCEPT ![p] =
               [user |-> code[p].by, groups |-> groups, key |-> key,
                sound |-> sound]]
        /\ code' = [code EXCEPT ![p].state = "spent"]
        /\ LeaveLoop(p)
        /\ UNCHANGED mapping
     \/ GoTo(p, "poll", "failed") /\ Forget(p)
  /\ UNCHANGED <<built, jwks, disk>>

\* poll_device_token
Poll(p) == Pending(p) \/ SlowDown(p) \/ Refused(p) \/ Granted(p)

\* The sleep is over: back to the head of the loop.
Wake(p) ==
  /\ timer[p].nap = 0
  /\ \/ /\ PastDeadline(timer[p])
        /\ GoTo(p, "sleep", "failed")
        /\ Forget(p)
     \/ /\ ~PastDeadline(timer[p])
        /\ GoTo(p, "sleep", "poll")
        /\ UNCHANGED <<mapping, token, timer, code>>
  /\ UNCHANGED <<built, jwks, disk>>

---------------------------------------------------------------------------
(* login_once, from the token to the session file                          *)

\* Mutant of ResolveGroupGrants: every mapping grants.
ResolveGroupGrantsToAll(groups, mapped) == mapped

\* resolve_group_grants: exact names only, and approval grants only.
ResolveGroupGrants(groups, mapped) == groups \cap mapped

\* parse_id_token, with the keys fetched after the token was issued.
Acceptable(t) == t.key \in jwks /\ t.sound

\* fetch_json of the keys, then parse_device_id_token, resolve_group_grants
\* and build_actor_session on what has come back.
BuildSession(p) ==
  /\ GoTo(p, "keys", "truncate")
  /\ Acceptable(token[p])
  /\ session' = [session EXCEPT ![p] =
       [user |-> token[p].user, groups |-> token[p].groups,
        approvals |-> ResolveGroupGrants(token[p].groups, mapping[p])]]
  /\ life' = [life EXCEPT ![p] = SessionTTL]
  /\ UNCHANGED <<mapping, token, timer, code, jwks, disk>>

\* A token that is not sound, or signed with a key no longer published.
RejectToken(p) ==
  /\ GoTo(p, "keys", "failed")
  /\ ~Acceptable(token[p])
  /\ Forget(p)
  /\ UNCHANGED <<built, jwks, disk>>

HasItOpen(q) == at[q] = "write"

\* Mutant of OpenFile: what is in the file stays there.
OpenFileInPlace == IF file.is = "missing" THEN Empty ELSE file

\* path.write_text opens the file for writing, which empties it.
OpenFile == Empty

\* write_session: mkdir, and the open of write_text.
Truncate(p) ==
  /\ GoTo(p, "truncate", "write")
  /\ file' = OpenFile
  /\ alone' = [q \in Logins |-> q = p /\ \A o \in Logins : ~HasItOpen(o)]
  /\ UNCHANGED <<mapping, token, built, timer, code, jwks, private>>

\* The text of a session is longer with each group and grant in it.
Size(s) == 1 + Cardinality(s.groups) + Cardinality(s.approvals)

\* Mutant of Over: the end left behind is taken for a part of the session.
OverTakesTheEnd(p) ==
  Whole(p, IF Size(session[p]) >= file.size THEN Size(session[p])
                                            ELSE file.size)

\* Both writers of one file start at its beginning, so a longer text leaves
\* its end behind a shorter one.
Over(p) ==
  IF Size(session[p]) >= file.size THEN Whole(p, Size(session[p]))
                                   ELSE Torn(file.size)

\* write_session: the write and close of write_text.
Write(p) ==
  /\ GoTo(p, "write", "chmod")
  /\ file' = Over(p)
  /\ alone' = [alone EXCEPT ![p] = FALSE]
  /\ UNCHANGED <<mapping, token, built, timer, code, jwks, private>>

\* write_session: chmod.
Chmod(p) ==
  /\ GoTo(p, "chmod", "done")
  /\ private' = TRUE
  /\ UNCHANGED <<mapping, token, built, timer, code, jwks, file, alone>>

\* An exception leaves login_once (the network, the disk, an answer that is
\* not what it should be), or the process is killed.
Abort(p) ==
  /\ at[p] \notin {"idle"} \cup Ended
  /\ GoTo(p, at[p], "failed")
  /\ alone' = [alone EXCEPT ![p] = FALSE]
  /\ \/ session[p] = NoSession /\ Forget(p)
     \/ session[p] # NoSession /\ UNCHANGED <<mapping, token, timer, code>>
  /\ UNCHANGED <<built, jwks, file, private>>

\* _print_session and read_session: what whoami and session show tell of the
\* file at this moment (nothing removes it between exists and read_text).
Printed ==
  CASE file.is = "missing" -> [is |-> "no session"]
    [] file.is = "torn"    -> [is |-> "invalid"]
    [] file.is = "session" -> [is |-> "session", of |-> file.of,
                               active |-> life[file.of] > 0]

---------------------------------------------------------------------------
(* The identity provider, and time                                         *)

\* Whoever has the user code decides, while some login still asks for it;
\* until then, or unused, the code expires.
Decide(p) ==
  /\ at[p] \in {"poll", "sleep"}
  /\ code[p].state = "pending"
  /\ \/ \E u \in Users :
          code' = [code EXCEPT ![p] = [state |-> "approved", by |-> u]]
     \/ code' = [code EXCEPT ![p].state = "denied"]
  /\ UNCHANGED <<at, mapping, token, built, timer, jwks, disk>>

Expire(p) ==
  /\ at[p] \in {"poll", "sleep"}
  /\ code[p].state \in {"pending", "approved"}
  /\ code' = [code EXCEPT ![p].state = "expired"]
  /\ UNCHANGED <<at, mapping, token, built, timer, jwks, disk>>

\* The provider signs with another key and stops publishing the last one.
Rotate ==
  /\ \E k \in Keys \ jwks : jwks' = {k}
  /\ UNCHANGED <<at, mapping, token, built, timer, code, disk>>

Less(n) == IF n = 0 THEN 0 ELSE n - 1

Tick ==
  /\ \E p \in Logins : life[p] + timer[p].left + timer[p].nap > 0
  /\ life' = [p \in Logins |-> Less(life[p])]
  /\ timer' = [p \in Logins |->
       [timer[p] EXCEPT !.left = Less(@), !.nap = Less(@), !.due = Less(@)]]
  /\ UNCHANGED <<at, mapping, token, session, code, jwks, disk>>

\* What a login does when it is not waiting for anybody's decision.
Step(p) ==
  \/ Authorize(p) \/ Poll(p) \/ Wake(p) \/ BuildSession(p) \/ RejectToken(p)
  \/ Truncate(p) \/ Write(p) \/ Chmod(p)

Next ==
  \/ \E p \in Logins, m \in Mappings : Start(p, m)
  \/ \E p \in Logins : Step(p) \/ Abort(p) \/ Decide(p) \/ Expire(p)
  \/ Rotate \/ Tick

Spec == Init /\ [][Next]_vars

\* A process that can run runs, requests end (they have a timeout of ten
\* seconds), and time passes.  Nobody has to decide and no code to expire.
FairSpec == Spec /\ WF_vars(Tick) /\ \A p \in Logins : WF_vars(Step(p))

---------------------------------------------------------------------------
(* Properties *)

TypeOK ==
  /\ at \in [Logins -> Stages] /\ mapping \in [Logins -> Mappings \cup {{}}]
  /\ token \in [Logins -> Tokens \cup {NoToken}]
  /\ session \in [Logins -> Sessions \cup {NoSession}]
  /\ life \in [Logins -> Nat]
  /\ \A p \in Logins : timer[p] \in Timers /\ code[p] \in Codes
  /\ \E k \in Keys : jwks = {k}
  /\ private \in BOOLEAN /\ alone \in [Logins -> BOOLEAN]
  /\ \/ file = Missing
     \/ file.is = "torn" /\ file.size \in Nat
     \/ file.is = "session" /\ file = Whole(file.of, Size(session[file.of]))

\* Every login comes to an end, whether or not anybody decides on its code
\* and however often the provider answers pending or slow_down: the deadline
\* is what stops the loop of login_once.
LoginEnds == \A p \in Logins : at[p] # "idle" ~> at[p] \in Ended

\* No poll reaches the provider before the interval it has last asked for is
\* over; after slow_down that is the longer one, for this wait already.
NeverTooFast == \A p \in Logins : at[p] = "poll" => timer[p].due = 0

\* A session that whoami prints is one whose device code somebody approved
\* and whose login redeemed it, that person's, with approval grants for
\* groups of the token alone -- though the file is emptied, written by two
\* logins at once, or left behind by one that died.
ShownIsApproved ==
  Printed.is = "session" =>
    LET p == Printed.of
    IN /\ code[p] = [state |-> "spent", by |-> session[p].user]
       /\ token[p].sound /\ token[p].user = session[p].user
       /\ session[p].approvals = token[p].groups \cap mapping[p]

\* A login that had the file to itself leaves its own session in it, however
\* long the text or the ruins it found there.
LoginReplacesFile ==
  [][\A p \in Logins :
       at[p] = "write" /\ at'[p] = "chmod" /\ alone[p] =>
         file' = Whole(p, Size(session[p]))]_vars
=============================================================================
