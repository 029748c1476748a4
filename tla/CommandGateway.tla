-------------------------- MODULE CommandGateway --------------------------
(***************************************************************************)
(* The HTTP gateway in front of the workflows: POST /commands and POST     *)
(* /runs (transports/http.py, transports/browser_auth.py), browser session *)
(* tokens under rotating signing keys (gateway/browser_sessions.py), the   *)
(* command router (gateway/command_router.py), the actor lookup            *)
(* (gateway/browser_runtime_actor.py) and what each workflow's handler     *)
(* accepts as its payload.                                                 *)
(*                                                                         *)
(* A worker serves one request at a time and takes one step per database   *)
(* read; it holds the signing keys it was started with.  A token and the   *)
(* session row it names are one session id; so are a session and its CSRF  *)
(* proof.  Signatures and digests are assumed not to collide.  A payload   *)
(* is the set of the key names in it, at any depth: the values do not      *)
(* matter here.  What may be absent (a cookie, a proof, a principal) is a  *)
(* set of at most one element.                                             *)
(***************************************************************************)
EXTENDS Integers, FiniteSets

CONSTANTS
  Workers,
  Users,
  Sessions,  \* session ids
  Rings,     \* signing key sets that get deployed: [current, keys]
  Payloads,  \* sets of key names a client may send
  Enabled    \* the workflows a handler was injected for

VARIABLES
  sessions, \* rows of auth_browser_sessions, with the key of the token
  ring,     \* the signing keys of each worker
  actors,   \* the users BrowserRuntimeActorStore has an active actor for
  work      \* what each worker is doing

vars == <<sessions, ring, actors, work>>

---------------------------------------------------------------------------
\* ControlPlaneCommand, _ROUTES: the workflow of each command.
Login == "/login"
Route ==
  [c \in {Login, "/onboard-org", "/review-onboard-org",
          "/onboarding-review", "/join-org", "/provision"} |->
     CASE c = Login                 -> "login_registration"
       [] c = "/onboard-org"        -> "organization_onboarding"
       [] c = "/review-onboard-org" -> "organization_onboarding_review"
       [] c = "/onboarding-review"  -> "onboarding_administrator_read"
       [] c = "/join-org"           -> "organization_member_onboarding"
       [] c = "/provision"          -> "provision"]
Runs     == "POST /runs"
Commands == DOMAIN Route \cup {"/unknown", Runs}

\* What the handlers' models require and, as they forbid extra fields, allow.
Contract ==
  [c \in DOMAIN Route |->
     CASE c = Login        -> {"email"}
       [] c = "/onboard-org" ->
            {"organization_name", "identity_boundary", "kind", "reference"}
       [] c = "/join-org"  -> {"invitation_token"}
       [] c = "/provision" -> {"scope_id"}
       [] OTHER            -> {"request_id"}]

\* _AUTHORITY_KEY_FRAGMENTS: the names of this model with a fragment in them.
AuthorityKeys ==
  {"provider", "subject", "reviewer_id", "execution_grants",
   "invitation_token"}

\* _find_authority_key
FindsAuthorityKey(payload) == payload \cap AuthorityKeys # {}

AtMostOne(S) == {{}} \cup {{x} : x \in S}

\* A row's age: 0, then 1 when the token is over (its exp is cut down to the
\* second), then 2 when the row is over too.
NoRow == [state |-> "none", subject |-> {}, key |-> {}, age |-> 0]
Rows  ==
  [state : {"live", "revoked"}, subject : {{u} : u \in Users},
   key : {{r.current} : r \in Rings}, age : 0..2]

RequestSet ==
  [command : Commands, payload : Payloads, cookie : AtMostOne(Sessions),
   proof : AtMostOne(Sessions), origin : BOOLEAN]

Idle == [at |-> "idle"]

Init ==
  /\ sessions = [s \in Sessions |-> NoRow]
  /\ ring \in [Workers -> Rings]
  /\ actors \in SUBSET Users
  /\ work = [w \in Workers |-> Idle]

Become(w, record) == work' = [work EXCEPT ![w] = record]

\* late: history, the session was over or revoked when the request came.
At(stage, request, late, principal) ==
  [at |-> stage, request |-> request, late |-> late,
   principal |-> principal]

Answer(w, request, late, principal, outcome) ==
  Become(w, [at |-> "answered", request |-> request, late |-> late,
             principal |-> principal, outcome |-> outcome])

Free(w) == work[w].at \in {"idle", "answered"}

Issued == {s \in Sessions : sessions[s] # NoRow}

---------------------------------------------------------------------------
(* Sessions *)

\* get_active: the row of this session, neither revoked nor over.
GetActive(s) == sessions[s].state = "live" /\ sessions[s].age < 2

\* BrowserSessionIssuer.issue, after a login was confirmed.
Issue(w, s, u) ==
  /\ Free(w)
  /\ sessions[s] = NoRow
  /\ sessions' = [sessions EXCEPT ![s] =
       [state |-> "live", subject |-> {u}, key |-> {ring[w].current},
        age |-> 0]]
  /\ Become(w, Idle)
  /\ UNCHANGED <<ring, actors>>

\* _authenticate_identity: the key named by the token is one of the
\* worker's, the token is not over, and the row is active.
Authenticates(w, s) ==
  /\ sessions[s].key \subseteq ring[w].keys /\ sessions[s].key # {}
  /\ sessions[s].age = 0
  /\ GetActive(s)

\* BrowserSessionLogoutHandler.logout: the identity is read first, the row
\* is revoked in a transaction of its own.
BeginLogout(w, s) ==
  /\ Free(w)
  /\ Authenticates(w, s)
  /\ Become(w, [at |-> "revoke", session |-> s])
  /\ UNCHANGED <<sessions, ring, actors>>

Revoke(w) ==
  /\ work[w].at = "revoke"
  /\ sessions' = [sessions EXCEPT ![work[w].session].state = "revoked"]
  /\ Become(w, Idle)
  /\ UNCHANGED <<ring, actors>>

\* Time passes for a session.
Age(s) ==
  /\ sessions[s] # NoRow /\ sessions[s].age < 2
  /\ sessions' = [sessions EXCEPT ![s].age = @ + 1]
  /\ UNCHANGED <<ring, actors, work>>

\* A worker is restarted, possibly with other keys.
Restart(w, r) ==
  /\ ring' = [ring EXCEPT ![w] = r]
  /\ Become(w, Idle)
  /\ UNCHANGED <<sessions, actors>>

\* The store of actors is changed from outside.
ChangeActors(users) ==
  /\ actors' = users
  /\ UNCHANGED <<sessions, ring, work>>

---------------------------------------------------------------------------
(* Requests *)

\* commands, up to the principal: the body, the authority keys, and the
\* branch of the public /login.  The routes of runs have no payload, and
\* their principal is a dependency that comes before the body.  A browser
\* has no cookie or proof but those that were issued.
Receive(w, request) ==
  LET late == \A s \in request.cookie : ~GetActive(s)
  IN /\ Free(w)
     /\ request.cookie \cup request.proof \subseteq Issued
     /\ \/ /\ request.command # Runs
           /\ FindsAuthorityKey(request.payload)
           /\ Answer(w, request, late, {}, "bad body")
        \/ /\ request.command = Login
           /\ ~FindsAuthorityKey(request.payload)
           /\ IF ~request.origin THEN Answer(w, request, late, {}, "forbidden")
              ELSE IF request.payload # Contract[Login]
              THEN Answer(w, request, late, {}, "bad payload")
              ELSE Become(w, At("dispatch", request, late, {}))
        \/ /\ \/ request.command = Runs
              \/ request.command # Login /\ ~FindsAuthorityKey(request.payload)
           /\ Become(w, At("authenticate", request, late, {}))
     /\ UNCHANGED <<sessions, ring, actors>>

\* authenticate_mutation, its first read.
Authenticate(w) ==
  LET request == work[w].request
  IN /\ work[w].at = "authenticate"
     /\ \/ \E s \in request.cookie :
             /\ Authenticates(w, s)
             /\ Become(w, At("csrf", request, work[w].late,
                             sessions[s].subject))
        \/ /\ \A s \in request.cookie : ~Authenticates(w, s)
           /\ Answer(w, request, work[w].late, {}, "unauthorized")
     /\ UNCHANGED <<sessions, ring, actors>>

\* authenticate_mutation, the origin, and verify_csrf, which reads the row
\* again.
ProofHolds(request) ==
  /\ request.origin
  /\ \E s \in request.cookie : request.proof = {s} /\ GetActive(s)

VerifyCsrf(w) ==
  LET request == work[w].request
  IN /\ work[w].at = "csrf"
     /\ IF ProofHolds(request)
        THEN Become(w, At("dispatch", request, work[w].late,
                          work[w].principal))
        ELSE Answer(w, request, work[w].late, {}, "unauthorized")
     /\ UNCHANGED <<sessions, ring, actors>>

\* ControlPlaneCommandRouter.dispatch and the handler's check of its
\* payload; for a run, the lookup of the actor.
Outcome(request, principal) ==
  IF request.command = Runs
  THEN IF principal \subseteq actors THEN "started" ELSE "forbidden"
  ELSE IF request.command \notin DOMAIN Route THEN "unavailable"
  ELSE IF request.command # Login /\ principal = {} THEN "forbidden"
  ELSE IF Route[request.command] \notin Enabled THEN "unavailable"
  ELSE IF request.payload # Contract[request.command] THEN "bad payload"
  ELSE "started"

Dispatch(w) ==
  LET request == work[w].request
  IN /\ work[w].at = "dispatch"
     /\ Answer(w, request, work[w].late, work[w].principal,
               Outcome(request, work[w].principal))
     /\ UNCHANGED <<sessions, ring, actors>>

Next ==
  \/ \E w \in Workers :
       \/ \E s \in Sessions, u \in Users : Issue(w, s, u)
       \/ \E s \in Sessions : BeginLogout(w, s)
       \/ Revoke(w)
       \/ \E request \in RequestSet : Receive(w, request)
       \/ Authenticate(w) \/ VerifyCsrf(w) \/ Dispatch(w)
       \/ \E r \in Rings : Restart(w, r)
  \/ \E s \in Sessions : Age(s)
  \/ \E users \in SUBSET Users : ChangeActors(users)

Spec == Init /\ [][Next]_vars

---------------------------------------------------------------------------
(* Properties *)

Works ==
  {Idle}
    \cup [at : {"revoke"}, session : Sessions]
    \cup [at : {"authenticate", "csrf", "dispatch"}, request : RequestSet,
          late : BOOLEAN, principal : AtMostOne(Users)]
    \cup [at : {"answered"}, request : RequestSet, late : BOOLEAN,
          principal : AtMostOne(Users),
          outcome : {"bad body", "bad payload", "unauthorized", "forbidden",
                     "unavailable", "started"}]

TypeOK ==
  /\ sessions \in [Sessions -> Rows \cup {NoRow}]
  /\ ring \in [Workers -> Rings]
  /\ actors \in SUBSET Users
  /\ work \in [Workers -> Works]

\* Of the requests a session is needed for, only those are told whether the
\* command exists, is enabled and was well formed, and only those start a
\* workflow or a run, that came with the cookie of a session of their
\* principal, with that session's own proof and from the expected origin,
\* while the session was neither over nor revoked, and signed with a key the
\* worker holds -- whatever was revoked, rotated or changed since.
VettedBySession ==
  \A w \in Workers :
    LET request == work[w].request
    IN /\ work[w].at = "answered"
       /\ request.command # Login
       /\ work[w].outcome \notin {"bad body", "unauthorized"}
       => /\ request.origin /\ ~work[w].late
          /\ \E s \in Sessions :
               /\ request.cookie = {s} /\ request.proof = {s}
               /\ work[w].principal = sessions[s].subject
               /\ work[w].principal # {}
               /\ sessions[s].key \subseteq ring[w].keys

\* A valid session, its own proof, the expected origin, an enabled command
\* and the payload its workflow asks for: the workflow starts.
\* openspec/changes/build-browser-session-auth/specs/browser-session-auth/
\* spec.md:41-44 says so of /onboard-org, /join-org and /provision.
ValidCommandStarts ==
  \A w \in Workers :
    LET request == work[w].request
    IN /\ work[w].at = "answered"
       /\ request.command \in DOMAIN Route \ {Login}
       /\ Route[request.command] \in Enabled
       /\ request.payload = Contract[request.command]
       /\ request.origin /\ ~work[w].late
       /\ \E s \in request.cookie :
            request.proof = {s} /\ Authenticates(w, s)
       => work[w].outcome = "started"
=============================================================================
