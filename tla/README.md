# PlatformOps control plane: TLA+ models, runs and proofs

This directory models the part of PlatformOps that decides *who may cause what*:
the harness that turns a chat message into a routed request, the review chain
that turns a request into an executor call, login from a browser and from a
terminal, the gateway in front of the workflows, the onboarding of organizations
and members, the browser's threads in front of the harness, and the attachment of
cloud containers. Every definition is translated from the Python and TypeScript
source of the repository; `PROJECT.json` names the lines each one stands for. Paths below are relative to the repository root.

## 1. Inventory

| Component | State it keeps | Operations | Talks to | What is hard about it |
|---|---|---|---|---|
| Harness (`harness/core.py`) | `_pending_intake`: one pending clarification per thread | `start_run`, `resume_clarification` | transports call it; it awaits the two workflow graphs | coroutines interleave at each await; answers arrive twice, late, from another actor or after a restart; a round cap across two workflows |
| Intake workflow (`workflows/intake`) | graph state of one call | `classify_workflow`, `resolve_route` | the language model | the model answers anything, or raises |
| Provision preparation (`workflows/provision/graph.py`, `nodes.py`) | graph state of one call | `resolve_scope`, `select_profile`, `extract_profile_request` | scope policy, the model | gates must be passed again on every resume, with the grants of the session that resumes |
| Scope, tenant and capability policy (`gateway/scope.py`, `dispatcher.py`, `policy/ceiling.py`) | none | pure decisions | harness | most-specific match with ties |
| Resource scope and binding registries (`gateway/resource_scope_registry*.py`, `resource_scope_bindings*.py`) | scopes, provider bindings, versions | reviewed registration, state changes, active reads | preflight, execution gate | one transaction per read: a preflight sees a moving target; scopes share the rows of their hierarchy, and administrators register at once |
| Scope authorization and governance (`gateway/resource_scope_access.py`, `resource_scope_governance.py`) | role bindings, guardrails | `authorize`, `evaluate` | preflight, review, gate | inheritance along the hierarchy |
| Preflight, approval graph, execution gate (`workflows/provision/preflight.py`, `approval_graph.py`, `gateway/provision_plan.py`, `resolved_resource_scope.py`, `provision_execution.py`) | sealed plans, receipts | `evaluate`, review node, `execute` | registries, executor | sealed contents go stale; digests identify plans, not requesters |
| Passwordless login (`gateway/auth/registration.py`, `postgres.py`, `gateway/login_confirmation_handler.py`) | attempts, users, contacts, limiter | request, confirm | mail delivery, PostgreSQL | three transactions per confirmation; overlapping requests for one address |
| Browser sessions (`gateway/browser_sessions*.py`, `browser_runtime_actor.py`, `transports/browser_auth.py`) | sessions, signing keys per worker | issue, `get_active`, `verify_csrf`, revoke, resolve the actor | command router, `POST /runs` | logout racing a mutation; keys that differ between workers while they rotate |
| Organization onboarding and review (`gateway/organization_onboarding*.py`, `workflows/organization_onboarding`) | organizations, requests, proofs, approvals, administrators | the onboarding graph, the review graph | identity verifier, authorizer | concurrent reviewers; a request is read in one transaction and activated in another |
| Membership and invitations (`gateway/organization_membership*.py`, `workflows/organization_member_onboarding`) | invitations, memberships | create, inspect, accept, revoke | organizations, contacts | inspect and accept are separate transactions |
| HTTP transport and browser threads (`transports/http.py`, `frontend/src/lib/agui.ts`, `threadManager.ts`) | per thread: in-flight flag, pending interrupt, card on screen | create, close, send, click; `POST /runs`, `POST /commands` | harness, command router | a response lost after the server acted; answers sent twice; a restart; one in-flight flag for two input paths |
| Provider connections (`gateway/provider_connections.py`) | none; records are copied by callers | inquire, request and approve attachment, request, approve and create container | provider adapters, authorizers | connections change between request and approval; old copies are passed again |
| Command router and chat routing (`gateway/command_router.py`, `chat_workflow_context.py`, `guest_chat_router.py`) | none | parse, check authority, dispatch | workflows | refusal of client-sent authority fields, in a file other than the contracts it has to leave intact; a guest must not leave the public contexts |
| Provision topology (`workflows/provision/topology.py`) | none | validate | nothing yet | a cycle check by counting |
| Terminal login (`gateway/auth/cli.py`, `login.py`, `claims.py`, `grants.py`, `sessions.py`, `transports/cli.py`) | a session file shared by all processes of a machine account | device-code exchange, `whoami`, `session show` | identity provider | clocks of two sides; people, keys and mappings that change during the wait; two writers of one file |
| Presentation (`interaction/`, `frontend/src/*.tsx`), profiles and MCP server (`skills/`, `mcp_server/`), deployment (`deploy/`, `infra/`, migrations) | - | - | - | no logic beyond rendering, lookup or configuration |

What makes each component correct is stated as properties in section 3; the
hazards they answer are listed, each at its source line, in `PROJECT.json`.

## 2. Modules

| Module | Stands for | Notes |
|---|---|---|
| `AccessPolicy` | pure decisions of `gateway/scope.py`, `dispatcher.py`, `policy/ceiling.py` | a capability is its rank; org and business unit travel together and are one field |
| `Clarification` | the abstract promise of the harness: one open question per request, answered once, by the actor asked | knows nothing of runs or workflows |
| `Harness` | `harness/core.py` with both workflows | EXTENDS `AccessPolicy`; `RefinesClarification` maps it to `Clarification` |
| `HarnessProofs` | theorems about `Harness` and `AccessPolicy` | checked by TLAPS |
| `CommandGateway` | `POST /commands`, `POST /runs` up to the workflow or harness, session tokens under rotating keys, the command table and the handlers' payload contracts | one step per database read |
| `TerminalLogin` | the device-code login, its session file and what is printed of it | one step per request, sleep or file operation |
| `TerminalLoginProofs` | theorems about `TerminalLogin` | checked by TLAPS |
| `ChatRouting` | chat commands, offered contexts and the guest router | pure operators |
| `Topology` | `validate_topology` | one step per turn of its loop |
| `ResourceScopes` | pure decisions on resource scopes | used by `Provision` |
| `Provision` | preflight, approval, execution over the registries | EXTENDS `ResourceScopes` |
| `ProvisionProofs` | theorems about `Provision` and `Topology` | checked by TLAPS |
| `ScopeRegistry` | the scope registry's tables, a registration in one step, and sealed contexts | also the abstract specification of `ScopeTransactions` |
| `ScopeTransactions` | `register_reviewed` statement by statement | INSTANCE of `ScopeRegistry`, which it implements |
| `ScopeTransactionsProofs` | theorems about both | checked by TLAPS |
| `BrowserLogin` | registration, confirmation, browser sessions | one step per database statement |
| `BrowserLoginProofs` | theorems about `BrowserLogin` | checked by TLAPS |
| `Onboarding` | organization onboarding, review, membership | one step per transaction |
| `OnboardingProofs` | theorems about `Onboarding` | checked by TLAPS |
| `ThreadClient` | the browser's threads, the two endpoints and the connections between | INSTANCE of `Clarification` for the server's slots |
| `ThreadClientProofs` | theorems about `ThreadClient`, and about `CommandGateway` and `ChatRouting` behind it | checked by TLAPS |
| `ProviderConnections` | inquiry, attachment, bootstrap | one step per call |
| `ProviderConnectionsProofs` | theorems about `ProviderConnections` | checked by TLAPS |
| `MC...` | small instances of each for TLC | definitions of constants and symmetry sets only |

**Harness.** `pending` is `_pending_intake`; `call[c]` is the coroutine behind a
transport call, with its locals and the await it is suspended at; `reply` is what
the last step returned. `runs` and `questions` are histories. One step runs from
one await to the next, because the process is a single asyncio event loop and
nothing else can run in between. `StartRun` and `Resume` go from the call to the
first await; `Classify`, `ResolveScopeNode`, `SelectProfile` and `ExtractRequest`
are what follows each await. What the model answers is a choice; `ModelFails` is
its exception, which leaves the harness. `Restart` forgets the slots and the
coroutines. `Reject` is every `ValueError`.

**Provision.** `op[o]` is one operation with everything it has read so far: each
registry read is a step (an authorization is three: scope, membership, role bindings),
and `Change` (a reviewed registration, a suspension, a membership, grant or guardrail
that starts or ends) may fall between any two. A registration overwrites the whole
record under whatever version the reviewer gives, a used one included: the code asks for
nothing else. A digest is modelled by the contents it seals, which name role bindings and
guardrails by id and target. The executor is handed the plan alone, so `Execute` records
no more than that; what it finds under the plan's ids and versions are the registries at
that moment. `registered` is history: every container a binding id and version ever stood
for. The receipt repository and the loader
in front of `ProvisionExecutionGate.execute` are protocols without an
implementation in the repository: `RecordReceipt`, `LoadScope` and `LoadBindings`
model how the gate uses them.

**ScopeRegistry and ScopeTransactions.** `tables` holds the rows of the four hierarchy tables and
of `resource_scopes` by primary key. `Upsert` is what `ON CONFLICT ... DO UPDATE` leaves, which
is not what was asked for where the update names no such column: a level keeps its parent,
a scope its place and `organization_slug`. `UniqueKeys` are the UNIQUE constraints.
`ResolveActive` is the one SELECT, with the path pydantic derives from the slugs it finds;
the path column only guards against duplicates. In `ScopeRegistry` a registration is one
step; in `ScopeTransactions` each upsert is one, which waits for the row locks and unique keys of
other open transactions (PostgreSQL at READ COMMITTED), fails on committed ones, or may be cut
off anywhere. `Provision` sees of all this a scope that is active or not, and a number for
version and path together.

**BrowserLogin.** A worker takes one step per database statement or transaction.
PostgreSQL runs at READ COMMITTED: the UPDATE of `save_new_attempt` chooses its
rows on a snapshot (`SaveUpdate`) and checks each again under its lock
(`Invalidated`). `Recover` is one step because an advisory lock serialises it per
address. The rate limiter is shared by all workers, as its docstring asks of
production; its log of a key is in clock order, so what is in the window is the end of it
(`Recent`). Tokens, digests, session ids and CSRF proofs are numbers: HMACs are
assumed not to collide. The clock is read immediately before the statement that
uses it. An attempt keeps its source, and a session its attempt, as history.

**Onboarding.** Transactions that lock the rows they read (`FOR UPDATE`) are one
step: `Activate`, `PersistProof`, `Accept`. Reads without a lock
(`BeginReview`, `LoadProof`, `BeginInvite`, `BeginJoin`) are steps of their own, so
what they saw may be stale when it is used. Unique indexes are guards
(`CreatePending`, `Unaffiliated`). The verifier, the review authorizer and the
suspension of organizations are external: they answer and change freely.

**ThreadClient.** Each request is a record of `runs` that goes from "sent" over
"running" and "replied" to "over". `Disconnect` breaks its connection at any point:
the client sees an error and is free again, the server goes on with what has reached
it. The harness is reduced to the abstract slots of `Clarification`, which
`HarnessProofs` shows it to implement; the round cap and session checks are part of
`Refuse`. `HttpAgent` is a library: that it takes over the interrupt of an interrupted
run, drops it after a successful one and keeps it after an error is what the header of
`agui.ts` states and relies on. Typed commands share the in-flight flag with runs, but
no thread state. `card` is the question whose surface `App.tsx` shows, that of the
last turn.

**CommandGateway.** `work[w]` is the request a worker serves: `Receive` is everything
before the first database read (body, authority keys, the public `/login`),
`Authenticate` the read of the session, `VerifyCsrf` the second read of the same row, and
`Dispatch` the router with the handler's check of its payload, or for a run the actor
lookup. A payload is the set of the key names in it, which is all the gateway and the
contracts look at here. A row ages in two steps because the token's `exp` is cut down to
the second: the token is over before its row is. `Restart` gives a worker other keys;
`BrowserLogin` models what comes before a session exists and the statements of its life,
this module what a request needs to get past the gateway.

**TerminalLogin.** `at[p]` is where a login process is between its requests, sleeps and
file operations; `timer[p]` holds what is left of its deadline and sleep, and the
provider's own count of when it may be polled again. Time is in units of five seconds,
the increment of `slow_down`. The provider is external: it decides, expires and rotates as
it likes. `write_text` is two steps (`Truncate`, `Write`) and the file's contents are told
apart as missing, torn or one login's session, with lengths, because a longer text leaves
its end behind a shorter one. A login that is over leaves its session, or nothing: `Forget`
drops its timers and its code, which nobody asks for any more. `Printed` is what `whoami` would say at this moment.

**Topology.** `Check` is every test before the loop, `Take` one turn of it, `Finish` the
comparison of the two lengths. The queue is a set, so every order of its entries is
covered.

**ProviderConnections.** The services are stateless functions over records, so the
model keeps every copy there ever was, of requests and of connections (`copies`), and any
caller may pass any of them: no service loads a record again. What is asked at the call are
the authorizers, about the organization of the copy passed, and the policy. These, the
adapters and the changes of a connection are external (`Change`).

## 3. Runs

| Run | Instance | What it shows |
|---|---|---|
| `harness` | one thread, two actors, two calls in flight, a session with and one without grants, hints that are missing, incomplete and exact, two runs | `SlotHoldsItsQuestion`, `RunInOnePlace`, `ReplayIsFaithful`, `ReadyIsAuthorized`, `QuestionsBounded` and the refinement of `Clarification`, under every interleaving; `Quiesces`: every call returns |
| `harness_cap` (violation) | as above, one actor | finding 1 |
| `provision` | one scope, two operations, two users (a group grant inherited from the project, a direct approver grant), one guardrail, two providers, two containers, two changes | `ReviewedPlanIsExecuted`: the executor receives what was reviewed; `PlanDescribesRegistry`: it finds under the plan what the preflight sealed, under two premises (below) |
| `provision_approver` (violation) | as above with one change | finding 2 |
| `login` | two addresses, one source, two workers, limits of one, a window of two, tokens for three and sessions for one of the clock's four ticks | `OneSessionPerLink`, `OneUserPerMailbox`, `AttemptEndsOnce`, `RateBounded`, `LogoutIsFinal` |
| `login_race`, `login_crash` (violations) | one address, two workers | findings 3 and 4 |
| `onboarding` | two users, two boundaries, two workers, one request, two invitations, two external changes | `ActivatedOnce`, `AdminIsEarned`, `InvitationSpentOnce`, `MembershipIsInvited`, `JoinIsAtomic` |
| `threads` | one thread, four requests, any number of restarts | `AnswersAreDeliberate`, `InSync`, `CardIsPending`: what the client believes to be open against what the server holds open; `SubmissionsEnd`: no thread stays submitting |
| `terminal` | two logins, two people, one mapped group, two provider keys that replace each other, a lifetime of none or two units, an interval of none or one, a session of one unit | `NeverTooFast`: no poll before the provider allows it; `ShownIsApproved`: what `whoami` prints was approved by its user, with no more than its groups grant; `LoginReplacesFile`: a login that had the file to itself leaves its session there; `LoginEnds` |
| `commands_join` (violation) | one worker, one user, one session, two key sets, every command with every contract's payload | finding 5 |
| `providers` | two users, two organizations, two connections, two boundaries (one with an adapter), two attachments, one bootstrap, one change outside | `ApprovedForItsConnection`: who approves has a say over the request's own connection; `BindingTakesTwo`, `CreationTakesTwo` |

**What two of these properties do not say.** `PlanDescribesRegistry` has two premises, and
TLC finds it violated without either. Nothing may change from the load to the executor call:
`ProvisionExecutionGate.execute` compares the plan with the records its caller loaded, and
nobody looks again. And the container is the sealed one only if the registry never held
another under the same binding id and version (`Unambiguous`): `register_reviewed` of the
binding registry (`gateway/resource_scope_bindings_postgres.py:43-57`) accepts a changed
container under a version already used, and the plan holds ids and versions only. The scope,
its version, the binding and its version need no such premise.
`ApprovedForItsConnection` is about the copies passed: the request's connection *had* that
organization, boundary and the active state. An old active copy of a connection that is
suspended or moved since still yields a binding, and an old copy of a request a second one;
keeping copies current is up to a store the repository does not have. `LogoutIsFinal` speaks
of the moment of the CSRF check; a logout after that check does not stop the workflow.

**Why the bounds are enough.** Each property relates at most two actors and at
most two of the things that compete (two runs of one thread, two operations with
one plan, two links of one address, two reviewers of one request, two invitations
of one user), and each instance has two of them. `MaxRuns = 2` lets a second run
displace the question of the first; the round cap of two is the code's own.
`MaxVersion = 2` and `MaxChanges = 2` let a record change and change back between
two reads, or one change fall before the review and one before the load. `MaxTime` passes the expiry
of a token, of a session and the end of a window. A window shorter than a token's life
lets two links of one address coexist at the least limit there is, one. Four requests are
a question, the answer whose response is lost, its repetition and the next message; one
outside change of connections is a suspension or a move between request and approval, which
leaves the old copy in use; with two organizations a user may have a say in one and not in the
other; two changes
around an organization take a reviewer's permission and give it back. Coroutines of
different threads share no slot, and neither do the clients of different threads, so
`harness` and `threads` have one thread; `HarnessProofs` and `ThreadClientProofs` cover
any number of them. One onboarding request leaves the competition of two applicants for
one boundary to `OnboardingProofs`, which knows no bound. In `terminal` lifetimes of none and of two
units and intervals of up to one let a login poll, wait, be slowed down and run into its
deadline, at once or later; a token with and one without the mapped group give sessions of
different length, which is what a torn file needs; three logins would add no kind of
overlap to the file. Bounds appear only in guards
(`MaxRuns`, `MaxVersion`, `MaxChanges`, `MaxExecutions`, `MaxTime`, `MaxInvitations`,
`MaxRequests`, `MaxAttachments`, `MaxBootstraps`), each declared with the word "bound";
`terminal` needs none, its lifetimes are the data.
Symmetry is used for sets of interchangeable workers, calls, actors or addresses
in runs without liveness only.

**Fairness.** `harness` assumes weak fairness of `Advance(c)` for each
call. The event loop runs every coroutine that is ready and a model call returns or
raises, so an enabled `Advance(c)` is not postponed for ever. No transport has to
call, nobody has to answer, nothing has to restart. `threads` assumes weak fairness
of `Serve(n)`, `Finish(n)` and `Deliver(n)` for each request: the server takes up what
reached it, a call of the harness returns (what `harness` shows), and a response
arrives or its connection breaks. No user has to type and no connection has to hold. `terminal` assumes weak fairness of
`Step(p)` for each login and of `Tick`: a process that is not asleep runs, its requests
return or fail within their timeout of ten seconds, and time passes. Nobody has to decide
on a code and no code has to expire: the login's own deadline ends it.

**Deadlock** is checked in every run but `terminal`, where all login processes end. A system at rest still answers: the refusals
(`Reject`, `Refuse`) are steps that change nothing but the reply.

**Mutants.** For each property of a passing run one mapped definition has a mutant
beside it (`...Any`, `...Again`, `...Unchecked`, ...): the same operator with a guard
dropped, a comparison shifted or a step reordered. Using the mutant in its place
makes TLC report the property violated.

## 4. Findings

1. **The last question cannot be answered** (`harness_cap`,
   `EveryQuestionCanBeAnswered`). `docs/INTAKE_HITL_ROUTING.md:297-299` ends the loop
   with an outcome at the cap; the code stores and sends one more question and then
   refuses every answer to it (`harness/core.py:111`, `131`).
2. **One approval for two requesters** (`provision_approver`, `DistinctApprover`).
   The control-plane-remediation specification asks for an approver distinct from the
   requester. Plan digests do not cover the requester, so identical plans share a
   receipt and a user's approval of a colleague's plan passes the gate for the user's
   own (`gateway/provision_execution.py:69`).
3. **Two live links** (`login_race`, `OneLinkPerMailbox`). Overlapping requests for
   one address do not invalidate each other's attempt
   (`gateway/auth/postgres.py:111`), contrary to
   `openspec/changes/build-user-registration/design.md:106-107`.
4. **A spent link without a user** (`login_crash`, `ConsumedLinkHasUser`). The token is
   consumed in one transaction and the user created in another
   (`gateway/auth/registration.py:406`, `414`).
5. **`/join-org` cannot be called** (`commands_join`, `ValidCommandStarts`).
   `openspec/changes/build-browser-session-auth/specs/browser-session-auth/spec.md:41-44`
   has the gateway hand `/join-org` of a valid session to its workflow. The gateway refuses
   every payload with a key that contains "token" (`transports/http.py:156-175`, `296`), and
   the workflow accepts nothing but `{"invitation_token": ...}`
   (`gateway/organization_member_onboarding_handler.py:12-17`). Every other command starts:
   the same invariant without `/join-org` holds.
Observed on the way, and not findings of a run, all three in the upserts of
`gateway/resource_scope_registry_postgres.py`. Two active scopes may resolve to one path: the
UNIQUE constraint is on the path stored at registration, while `resolve_active` builds it from
shared rows that registrations of other scopes rename (line 51;
`openspec/changes/build-resource-scope-bootstrap/tasks.md:8` promises canonical-path
uniqueness). The upsert of a scope that exists writes the new `canonical_path` but not
`organization_slug` or the ids of the hierarchy (line 81), so a rename of the organization's
slug does not show in what `resolve_active` returns
(`docs/RESOURCE_SCOPE_TRANSITION.md:35-36` has the path derived from the hierarchy). And the
hierarchy tables keep the first parent of a business unit, team or project, so a record that
names another parent is accepted, and its scope resolves with a parent the tables do not have.

For a guest, `/context provision` shows help where
the chat-workflow-context specification (`spec.md:31-33`) speaks of a login prompt
(`gateway/guest_chat_router.py:90-97`), and `/join-org` is not among the protected commands
of that file. `validate_topology` does not ask for an edge behind a unit's output reference;
`docs/PROVISION_IMPLEMENTATION_PLAN.md:171` plans that check for a later slice. Workers
compare a token's `iat` with their own clock, which the model takes to be equal.

## 5. Proofs

`HarnessProofs` proves, for every value of the constants that satisfies
`HarnessAssumption` (actors, threads, calls and workspaces unbounded), with TLAPS:

| Theorem | Statement | Argument |
|---|---|---|
| `TypeCorrect` | `Spec => []TypeOK` | inductive as it stands; one lemma per shared way of ending a step (`AskQuestionType`, `ReportRouteType`, `GoToType`) |
| `SlotsHoldTheirQuestions` | `Spec => []SlotHoldsItsQuestion` | inductive with `TypeOK`; `StepKinds` reduces every step to "asks", "answers", "forgets" or "leaves both alone" |
| `Refinement` | `Spec => RefinesClarification` | the same four kinds map to `Ask`, `Answer`, `Forget` and a stutter; `SlotHoldsItsQuestion` gives the guard of `Answer` |
| `Authorized` | `Spec => []ReadyIsAuthorized` | not inductive alone: a resume enters `resolve_scope` without passing the tenant gate again, so the proof adds `SlotsAreAllowed`, that every stored provision question has a hint the gate has allowed |
| `Faithful` | `Spec => []ReplayIsFaithful` | histories only grow in the parts a text refers to (`HistoryKept`, `DescentIsKept`), and answering a question extends the descent by one (`AnswerDescends`) |
| `OnePlacePerRun` | `Spec => []RunInOnePlace` | adds `RunsStarted`: the run of every coroutine and slot is in `runs`, so that a new run is in no other place |
| `QuestionsAreBounded` | `Spec => []QuestionsBounded` | a count over a history is not inductive; `TurnsGrow` gives every question of a run a *turn* of its own in `1..3` instead, and every coroutine or slot of the run a turn no earlier than those; an answered question has a turn in `1..2`. It uses the invariants of the other theorems; an injection into a finite set bounds the count at the end |

Assumptions used: `NoActor` is no actor, `NoHint` no hint, prefixes are intents or
none, `MaxRuns` is a natural number. Nothing is assumed of the workspaces, the
tenant table or the grants.

The module also proves what the policy operators of `AccessPolicy` promise for all arguments:

| Theorem | Statement | Argument |
|---|---|---|
| `EffectiveAccessIsBounded` | the effective access is a capability no higher than any of the best matching grants and the best matching ceiling, and none without a match on either side | specificities lie in `0..2` and capabilities in `0..6`, so the best match and the lowest of a tie exist |
| `BroaderGrantAddsNothing` | a grant broader than one that matches changes nothing, whatever it carries | the sets of most specific grants are equal |

`ProvisionProofs`, for any operations, users, scopes, bindings, policies and bounds
(`ProvisionAssumption`: the profile's providers are providers, the bounds are naturals;
`HierarchyAssumption`: every scope has every level, every user a set of groups):

| Theorem | Statement | Argument |
|---|---|---|
| `ProvisionTypeCorrect` | `Spec => []TypeOK` | inductive as it stands; what a step does to an operation is said once, by `PreflightMoves`, `ApprovalMoves`, `ExecutionMoves` and `ChangeMoves`, and `StepKinds` splits every step into these |
| `ReviewedPlansAreExecuted` | `Spec => []ReviewedPlanIsExecuted` | adds `AnswersAreThePlan`: in a review, and in a receipt, the digest answered is that of the plan under review |
| `PlansDescribeTheRegistry` | `Spec => PlanDescribesRegistry` | adds `ReadsInv`: the container an operation has routed to is registered under the binding's id and version, as is that of every current record; and what a load has read is what the registries hold as long as `changes` has not moved since. `PassedPlanIsCurrent` draws the conclusion from the checks of the gate. Nothing is assumed of the versions reviewers choose |
| `AcceptanceIsAcyclicity` | `validate_topology` accepts exactly the well-formed topologies without a cycle | no set in which each unit has a predecessor is ever entered; when the queue is empty, what is left is such a set. The counts are tied to the sets by `FS_RemoveElement` |
| `UnitsAreTakenInOrder` | a unit is taken once and after all its predecessors | a count of zero means that none is left (`QueueIsReady`) |

`ProviderConnectionsProofs` does the same for any users, connections, scopes and
candidates, and any bounds that are naturals (`ProviderAssumption`, its only
assumption):

| Theorem | Statement | Argument |
|---|---|---|
| `TypeCorrect` | `Spec => []TypeOK` | inductive as it stands, one step per action |
| `BindingsTakeTwo` | `Spec => []BindingTakesTwo` | inductive with `TypeOK`: a caller may pass any copy of a request, but copies are never forgotten, so the pending copy and its approved successor remain as evidence |
| `CreationsTakeTwo` | `Spec => []CreationTakesTwo` | adds `ApprovalsAreReal`: an approved bootstrap copy was made from a pending one by another user, which `create_container` cannot see from the copy it is given |
| `ApprovalsAreForTheirConnection` | `Spec => ApprovedForItsConnection` | only `approve_attachment`, `approve_bootstrap` and `create_container` add an approved or created copy, and each compares the id of the copy of the connection it was given with that of the request before it asks about it |

`ScopeTransactionsProofs`, for any records, organizations and connections, about both modules:

| Theorem | Statement | Argument |
|---|---|---|
| `EveryScopeKeepsItsRows` | `Spec => []EveryScopeHasItsRows` | a registration adds its rows at every level before its scope, an upsert leaves a scope at its place, and no row is ever taken away |
| `FreshContextDescribesScope` | `Spec => []SealDescribesScope` | adds `Placed`: the scope of a context still has a row, at the place the context names; path and version then determine the rest |
| `RegistrationIsOneStep` | `Spec => RegistrationsAreAtomic` | the invariant says that what an open transaction has written is what it would write now and would still violate nothing (`Current`), and that open transactions hold disjoint locks (`Disjoint`); a commit is then a step of `ScopeRegistry`, everything else a stutter |
| `ConcurrentRegistrationsKeepBoth` | `Spec => []` of the first two, on the committed tables of `ScopeTransactions` | from the refinement and the two theorems about the one-step registry, without a second invariant |

They need no assumption on the constants.

`BrowserLoginProofs`, for any addresses, sources and workers, any limits, window and
lifetimes (`LoginAssumption`: naturals, and a window and limits that are not zero):

| Theorem | Statement | Argument |
|---|---|---|
| `LoginTypeCorrect` | `Spec => []TypeOK` | inductive as it stands |
| `LinksAreSpentOnce` | `Spec => []OneSessionPerLink` | adds `HoldersAreSole`: of the workers between the consumption of a token and its session at most one holds a given attempt, that attempt is consumed, and no session is of it yet |
| `MailboxesAreUsers` | `Spec => []OneUserPerMailbox` | adds `IssuesAreOfTheMailbox`: the user a worker is about to issue a session for is the one the contacts name for the address of its attempt |
| `AttemptsEndOnce` | `Spec => []AttemptEndsOnce` | inductive with the types: what `SaveUpdate` chose on its snapshot, `SaveCommit` checks again under the lock, and `Consume` takes no invalidated attempt |
| `LogoutsAreFinal` | `Spec => LogoutIsFinal` | from the types and `ReadingReads`, what each reading step leaves with its worker: the check reads the row again, so no history is needed |
| `RatesAreBounded` | `Spec => []RateBounded` | the property counts attempts, the limiter its own log: the invariant has for every attempt in its window an entry in the log, and no log over its limit. The lemmas on counting (`AdmittedBounded`, `LaterBounded`, `RecentKeeps`) say that an admitted entry, a passing tick and the pruning of the log keep it |

`OnboardingProofs`, for any users, boundaries, proofs and workers, without bounds on
requests, invitations or changes:

| Theorem | Statement | Argument |
|---|---|---|
| `OnboardingTypeCorrect` | `Spec => []TypeOK` | adds `FirstVersion`, that an active membership has the version 1: the code counts on without a bound, the type does not |
| `RequestsAreActivatedOnce` | `Spec => []ActivatedOnce` | part of `DecisionInv`: an activated request is never pending again (`ActivatedIsDecided`), and `Activate` looks at the state under its lock |
| `AdminsAreEarned` | `Spec => []AdminIsEarned` | adds what a review has established at each stage: the proof it loaded is still that of the row (`ReviewsKeepTheProof`), past the authorizer its reviewer was permitted (`ReviewersArePermitted`); and that a boundary is requested once (`OneRequestPerBoundary`) |
| `InvitationsAreSpentOnce` | `Spec => []InvitationSpentOnce` | adds `ConsumedIsSpent`: an invitation is consumed exactly if a membership was made with it |
| `MembershipsAreInvited` | `Spec => []MembershipIsInvited` | inductive with `ConsumedIsSpent`: `Accept` looks again, under the lock, at whom the invitation is for and whether the user is unaffiliated; what was seen before is not relied on |
| `JoinsAreAtomic` | `Spec => JoinIsAtomic` | from the invariant in both states and what `Accept` writes |

`ThreadClientProofs`, for any threads and any number of requests, without an assumption
on the constants:

| Theorem | Statement | Argument |
|---|---|---|
| `ThreadTypeCorrect` | `Spec => []TypeOK` | adds that a request has asked a question the server has; one lemma per kind of step says which row it moves and how (`InputSends`, `DeliverMoves`, `DisconnectMoves`, `ServerStep`, `RestartMoves`) |
| `AnswersNameWhatWasTold` | `Spec => []AnswersAreDeliberate` | not inductive alone: adds `WaitInv`, that a client waits for one request at most and that it is the last of its thread, so no delivery comes between; `HeldInv`, that what it holds is what it was last told; `OpenInv`, that an answered question is never open again |
| `CardsAreNeverDead` | `Spec => []CardIsPending` | a delivery sets card and interrupt together: a reply with a question is neither a command's nor an error (`ShapeInv`) |
| `ClientAndServerAgree` | `Spec => []InSync` | `SyncInv` says for each stage of the request that is waited for what the server then holds open: what the client holds while it is sent, nothing while it runs, what the client will hold once it is replied |

Behind the client, in the same module: the gateway, for any workers, users, sessions, key
sets, payloads and enabled workflows, and the guest router, for any text.

| Theorem | Statement | Argument |
|---|---|---|
| `GatewayTypeCorrect` | `CommandGateway`'s `Spec => []TypeOK` | proved from the invariant of the next theorem: a logout must find the row it revokes |
| `OnlyVettedRequestsStart` | `CommandGateway`'s `Spec => []VettedBySession` | not inductive alone: adds, for each stage of a request, what its worker has established by then, and that a row, once there, keeps its subject and key whatever is revoked or ages; a worker that gets other keys drops its request |
| `GuestStaysPublic` | whatever a guest types and whatever intent a model proposes, only a context offered to guests opens | case split on the command |
| `ProtectedCommandNeedsLogin` | a protected command, with or without arguments, asks for a login | it parses as unknown |

`TerminalLoginProofs`, for any logins, people, groups, mapping files, keys, lifetimes and
intervals (`TerminalAssumption`: `NoUser` is nobody, a mapping file names groups, times are
naturals, there is a key, and there are finitely many groups, since a session that lists
them has a length):

| Theorem | Statement | Argument |
|---|---|---|
| `TerminalTypeCorrect` | `Spec => []TypeOK` | `TypeOK` says that a file which reads as a session reads as one; that takes `FileInv`, the file is missing, torn, or the text of a session some login has built, and `StageInv` |
| `PrintedIsApproved` | `Spec => []ShownIsApproved` | `StageInv`: once a token has come, the code is spent by the person the token names; a session is built of a sound token only, and from then on code and token stay; `FileInv` carries it to the file, over every overlap of two writers |
| `PollsAreNeverTooFast` | `Spec => []NeverTooFast` | `TimeInv`: the client's interval is no shorter than the provider's, a sleep lasts no less than the provider still asks for, and both run on one tick |
| `LoneLoginsReplaceTheFile` | `Spec => LoginReplacesFile` | `AloneInv`: before its write a login that nobody joined has an empty file and is the only writer |

`VettedBySession`, the statements on `AccessPolicy`, `ChatRouting` and `Topology` and those on
the scope registry are proved and joined to no run. The gateway's one run is about finding 5; the
others are pure operators, a loop nobody calls yet, and transactions whose interleavings the
proof covers without a bound.

Only model-checked: `SubmissionsEnd`, `LoginEnds` and `Quiesces`. They are liveness, which with
`ENABLED` and induction over data is beyond the prover and stays with TLC. Every invariant and
action property of a passing run has a theorem.

## 6. Not modelled

Presentation, profiles, the compliance check of finished plans and deployment (table of
section 1). The remote terminal client (`transports/remote_tui.py`), stateless helpers that
nothing calls yet. Records of chat workflow runs, which `chat_workflow_context.py` declares
and nothing uses. Service principals of the scope authorizer. The in-memory stores, which
tests use in place of PostgreSQL. Read-only projections (domain discovery, administrator
projection, browser identity). Wording, logging and the contents of prompts.

A thread whose interrupt the server no longer holds (after a
model failure, a lost response or a restart) stays refused until the user opens another
one; this is how the code behaves, noted in `transports/http.py`, and `InSync` says what
holds until then.

## 7. Plan

Order: what decides authority first, what only carries it after. Done: harness,
provisioning, login, onboarding, threads, provider connections, the command gateway, the
terminal login, the scope registry and the pure decisions.

Every safety property of a passing run is proved. Next theorems:

1. `ScopeTransactions`: an open transaction that waits is not waited for in a circle, for
   registrations that lock the hierarchy from the top.
2. `Provision`: an approver had the approver role at the review's read, as a property of its own.

Next in the models: service principals, in `Provision`.
