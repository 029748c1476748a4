------------------------------ MODULE Harness ------------------------------
(***************************************************************************)
(* PlatformOpsHarness (harness/core.py): the runtime object every          *)
(* transport calls, with the two workflows it awaits -- intake             *)
(* (classify_workflow, resolve_route) and provision (resolve_scope,        *)
(* select_profile, extract_profile_request).                               *)
(*                                                                         *)
(* Every transport call is a coroutine of one process.  Coroutines         *)
(* interleave only where the code awaits a workflow, so a step of this     *)
(* module runs from one await to the next; what the model answers is a     *)
(* choice, and a model call may raise.                                     *)
(***************************************************************************)
EXTENDS AccessPolicy, Sequences

CONSTANTS
  Requests,  \* request ids (AG-UI thread ids)
  Actors,    \* user ids
  NoActor,
  Calls,     \* coroutines a transport has in flight at the same time
  GrantSets, \* the execution grants a session may carry when a call is made
  Hints,     \* the scope hints a transport may send
  NoHint,    \* start_run without a scope hint
  Prefixes,  \* the tier-2 prefix of a message: an intent or NoIntent
  MaxRuns    \* bound: start_run calls accepted

MaxClarificationRounds == 2  \* _MAX_CLARIFICATION_ROUNDS

ASSUME HarnessAssumption ==
  /\ NoActor \notin Actors
  /\ NoHint \notin Hints
  /\ Prefixes \subseteq Intents \cup {NoIntent}
  /\ MaxRuns \in Nat

VARIABLES
  pending,   \* _pending_intake: the _PendingClarification of each request
  call,      \* the coroutine behind each call: where it awaits, its locals
  reply,     \* output: what the step returns to a transport, or NoReply
  runs,      \* history: what each accepted start_run was called with
  questions  \* history: every question asked and who answered it

vars == <<pending, call, reply, runs, questions>>

---------------------------------------------------------------------------
\* ActorSession: who calls, whether is_expired, with which grants.
Session == [user : Actors, expired : BOOLEAN, grants : GrantSets]

\* raw_text: the message of a run, of which only the tier-2 prefix matters,
\* with "\n\nClarification: <answer>" appended for each question answered.
Text == [run : Nat, prefix : Prefixes, answers : Seq(Nat)]

Kinds == {"intake", "provision"}

\* _PendingClarification.  intake_request and provision_invocation hold the
\* same text and hint; clarification_round and provision_round are `round`.
Clarifications ==
  [kind : Kinds, interrupt : Nat, actor : Actors, hint : Hints \cup {NoHint},
   text : Text, round : Nat]
NoClarification == [interrupt |-> 0]

\* Where a coroutine awaits: the intake graph, or a provision graph node.
ProvisionNodes == {"resolve_scope", "select_profile", "extract_request"}
Idle == [at |-> "idle"]
Coroutines ==
  [at : {"intake_graph"} \cup ProvisionNodes,
   session : Session, request : Requests, text : Text,
   hint : Hints \cup {NoHint}, round : Nat]

NoReply    == [event |-> "none"]
Rejected   == [event |-> "value_error"]
Failed     == [event |-> "failed"]
HITLEvents == [event : {"clarification_required"}, interrupt : Nat]
RouteEvents ==
  [event : {"route_resolved"}, ready_to_route : BOOLEAN,
   route : {"compliance_check", "provision", NoRoute},
   scope : Hints \cup {NoHint}]

Runs == [actor : Actors, request : Requests, prefix : Prefixes,
         hint : Hints \cup {NoHint}]
Fields == {"intent", "scope", "profile_id", "application_request"}
Questions ==
  [kind : Kinds, actor : Actors, request : Requests, text : Text,
   hint : Hints \cup {NoHint}, round : Nat, field : Fields,
   answeredBy : Actors \cup {NoActor}]

Running(c) == call[c] # Idle

Init ==
  /\ pending = [r \in Requests |-> NoClarification]
  /\ call = [c \in Calls |-> Idle]
  /\ reply = NoReply
  /\ runs = <<>>
  /\ questions = <<>>

---------------------------------------------------------------------------
\* A coroutine returns event e to its transport.
Return(c, e) ==
  /\ call' = [call EXCEPT ![c] = Idle]
  /\ reply' = e

\* A HITLEvent is created and its question stored, whatever was stored for
\* the request before.
AskQuestion(c, kind, field) ==
  LET me == call[c]
      id == Len(questions) + 1
  IN /\ questions' = Append(questions,
          [kind |-> kind, actor |-> me.session.user, request |-> me.request,
           text |-> me.text, hint |-> me.hint, round |-> me.round,
           field |-> field, answeredBy |-> NoActor])
     /\ pending' = [pending EXCEPT ![me.request] =
          [kind |-> kind, interrupt |-> id, actor |-> me.session.user,
           hint |-> me.hint, text |-> me.text, round |-> me.round]]
     /\ Return(c, [event |-> "clarification_required", interrupt |-> id])
     /\ UNCHANGED runs

\* _route_resolved_event, or the two events of _dispatch_provision; scope
\* is that of a ready provision draft.
ReportRoute(c, route, ready, scope) ==
  /\ Return(c, [event |-> "route_resolved", ready_to_route |-> ready,
                route |-> route, scope |-> scope])
  /\ UNCHANGED <<pending, runs, questions>>

GoTo(c, node) ==
  /\ call' = [call EXCEPT ![c].at = node]
  /\ reply' = NoReply
  /\ UNCHANGED <<pending, runs, questions>>

---------------------------------------------------------------------------
\* start_run, up to the await of the intake graph.
StartRun(c, s, r, p, h) ==
  /\ ~Running(c)
  /\ ~s.expired
  /\ Len(runs) < MaxRuns
  /\ runs' = Append(runs, [actor |-> s.user, request |-> r, prefix |-> p,
                           hint |-> h])
  /\ call' = [call EXCEPT ![c] =
       [at |-> "intake_graph", session |-> s, request |-> r,
        text |-> [run |-> Len(runs) + 1, prefix |-> p, answers |-> <<>>],
        hint |-> h, round |-> 0]]
  /\ reply' = NoReply
  /\ UNCHANGED <<pending, questions>>

\* Mutants of MayResume, which the runs must tell from it: any actor may
\* answer, any interrupt id answers the open question, one round too many.
MayResumeAnyActor(s, r, interrupt, answered) ==
  /\ ~s.expired
  /\ pending[r] # NoClarification
  /\ pending[r].interrupt = interrupt
  /\ answered
  /\ pending[r].round + 1 < MaxClarificationRounds

MayResumeAnyInterrupt(s, r, interrupt, answered) ==
  /\ ~s.expired
  /\ pending[r] # NoClarification
  /\ pending[r].actor = s.user
  /\ answered
  /\ pending[r].round + 1 < MaxClarificationRounds

MayResumeOnceMore(s, r, interrupt, answered) ==
  /\ ~s.expired
  /\ pending[r] # NoClarification
  /\ pending[r].interrupt = interrupt
  /\ pending[r].actor = s.user
  /\ answered
  /\ pending[r].round < MaxClarificationRounds

\* The checks of resume_clarification, all made before anything is popped.
MayResume(s, r, interrupt, answered) ==
  /\ ~s.expired
  /\ pending[r] # NoClarification
  /\ pending[r].interrupt = interrupt
  /\ pending[r].actor = s.user
  /\ answered
  /\ pending[r].round + 1 < MaxClarificationRounds

\* Mutant of PopQuestion: the question is popped only when the run is over.
PopQuestionLate(r) == UNCHANGED pending

\* The question leaves its slot before the workflow is awaited.
PopQuestion(r) == pending' = [pending EXCEPT ![r] = NoClarification]

\* resume_clarification: the question is popped, the answer appended to its
\* text, and the workflow that asked it runs again with the next round.
Resume(c, s, r, interrupt) ==
  LET p == pending[r]
  IN /\ ~Running(c)
     /\ MayResume(s, r, interrupt, TRUE)
     /\ PopQuestion(r)
     /\ questions' = [questions EXCEPT ![interrupt].answeredBy = s.user]
     /\ call' = [call EXCEPT ![c] =
          [at |-> IF p.kind = "provision" THEN "resolve_scope"
                  ELSE "intake_graph",
           session |-> s, request |-> r,
           text |-> [p.text EXCEPT !.answers = Append(@, interrupt)],
           hint |-> p.hint, round |-> p.round + 1]]
     /\ reply' = NoReply
     /\ UNCHANGED runs

\* The ValueErrors of start_run and resume_clarification, which some call
\* always meets.
Reject(c) ==
  /\ ~Running(c)
  /\ ~\A s \in Session :
        /\ ~s.expired
        /\ \A r \in Requests, i \in 0..Len(questions), answered \in BOOLEAN :
             MayResume(s, r, i, answered)
  /\ reply' = Rejected
  /\ UNCHANGED <<pending, call, runs, questions>>

---------------------------------------------------------------------------
\* What classify_workflow and resolve_route decide: a tier-2 prefix skips
\* the model, which otherwise names an intent or none.
IntakeDecisions(text) ==
  IF text.prefix # NoIntent THEN {text.prefix} ELSE Intents \cup {NoIntent}

\* The tenant route gate of _classify.
TenantAllowed(hint, intent) ==
  hint # NoHint /\ CheckTenantPolicy(hint.tenant, intent)

\* The rest of _classify once the intake graph has returned.
Classify(c) ==
  LET me == call[c]
  IN /\ me.at = "intake_graph"
     /\ \E intent \in IntakeDecisions(me.text) :
          LET route == ResolveRouteId(intent)
          IN IF intent = NoIntent THEN AskQuestion(c, "intake", "intent")
             ELSE IF route \notin RouteRegistry
             THEN ReportRoute(c, route, route # NoRoute, NoHint)
             ELSE IF ~TenantAllowed(me.hint, intent)
             THEN ReportRoute(c, route, FALSE, NoHint)
             ELSE /\ call' = [call EXCEPT ![c].at = "resolve_scope",
                                          ![c].round = 0]
                  /\ reply' = NoReply
                  /\ UNCHANGED <<pending, runs, questions>>

\* Mutant of ResolveScopeNode: an incomplete hint is resolved again instead
\* of asked about.
ResolveScopeNodeRetrying(c) ==
  /\ call[c].at = "resolve_scope"
  /\ LET status == ResolveScope(call[c].hint, call[c].session.grants)
     IN \/ /\ status = "clarification_required"
           /\ GoTo(c, "resolve_scope")
        \/ /\ status = "unavailable"
           /\ ReportRoute(c, "provision", FALSE, NoHint)
        \/ /\ status = "resolved"
           /\ GoTo(c, "select_profile")

\* resolve_scope_node, without a model call.
ResolveScopeNode(c) ==
  /\ call[c].at = "resolve_scope"
  /\ LET status == ResolveScope(call[c].hint, call[c].session.grants)
     IN \/ /\ status = "clarification_required"
           /\ AskQuestion(c, "provision", "scope")
        \/ /\ status = "unavailable"
           /\ ReportRoute(c, "provision", FALSE, NoHint)
        \/ /\ status = "resolved"
           /\ GoTo(c, "select_profile")

\* select_profile: the model names the one profile, or a question is asked.
SelectProfile(c) ==
  /\ call[c].at = "select_profile"
  /\ GoTo(c, "extract_request") \/ AskQuestion(c, "provision", "profile_id")

\* extract_profile_request: a complete request ends the graph ready.
ExtractRequest(c) ==
  /\ call[c].at = "extract_request"
  /\ \/ ReportRoute(c, "provision", TRUE, call[c].hint)
     \/ AskQuestion(c, "provision", "application_request")

\* A model call raises; the exception leaves the harness.
ModelFails(c) ==
  /\ \/ call[c].at = "intake_graph" /\ call[c].text.prefix = NoIntent
     \/ call[c].at \in {"select_profile", "extract_request"}
  /\ Return(c, Failed)
  /\ UNCHANGED <<pending, runs, questions>>

\* The process restarts: _pending_intake and every coroutine are lost.
Restart ==
  /\ pending' = [r \in Requests |-> NoClarification]
  /\ call' = [c \in Calls |-> Idle]
  /\ reply' = NoReply
  /\ UNCHANGED <<runs, questions>>

---------------------------------------------------------------------------
\* The event loop resumes coroutine c.
Advance(c) ==
  \/ Classify(c)
  \/ ResolveScopeNode(c)
  \/ SelectProfile(c)
  \/ ExtractRequest(c)
  \/ ModelFails(c)

\* A transport calls the harness: with any session, and for a resume any
\* interrupt id it has ever seen.
Invoke(c) ==
  \/ Reject(c)
  \/ \E s \in Session, r \in Requests :
       \/ \E p \in Prefixes, h \in Hints \cup {NoHint} :
            StartRun(c, s, r, p, h)
       \/ \E i \in DOMAIN questions : Resume(c, s, r, i)

Next ==
  \/ \E c \in Calls : Invoke(c) \/ Advance(c)
  \/ Restart

\* The event loop runs every ready coroutine and a model call returns or
\* raises; no transport has to call and nothing has to restart.
Fairness == \A c \in Calls : WF_vars(Advance(c))

Spec == Init /\ [][Next]_vars

FairSpec == Spec /\ Fairness

---------------------------------------------------------------------------
(* Properties *)

TypeOK ==
  /\ pending \in [Requests -> Clarifications \cup {NoClarification}]
  /\ call \in [Calls -> Coroutines \cup {Idle}]
  /\ reply \in {NoReply, Rejected, Failed} \cup HITLEvents \cup RouteEvents
  /\ runs \in Seq(Runs)
  /\ questions \in Seq(Questions)

\* The slot of a request replays the question it names: what
\* resume_clarification will reinvoke is what was asked, to whom it was
\* asked, under the same hint and round, and nobody has answered it yet.
SlotHoldsItsQuestion ==
  \A r \in Requests : pending[r] # NoClarification =>
    LET p == pending[r]
    IN /\ p.interrupt \in DOMAIN questions
       /\ LET q == questions[p.interrupt]
          IN /\ q.request = r
             /\ q.answeredBy = NoActor
             /\ q.kind = p.kind /\ q.actor = p.actor /\ q.hint = p.hint
             /\ q.text = p.text /\ q.round = p.round

\* A run is in one place: in one coroutine or behind one stored question,
\* never both and never twice.  Popping the question before the await
\* (core.py:115, 135) is what keeps a doubled resume from forking a run.
RunInOnePlace ==
  /\ \A c, d \in Calls :
       Running(c) /\ Running(d) /\ call[c].text.run = call[d].text.run
         => c = d
  /\ \A r \in Requests : pending[r] # NoClarification =>
       /\ \A c \in Calls :
            Running(c) => call[c].text.run # pending[r].text.run
       /\ \A t \in Requests :
            pending[t] # NoClarification
              /\ pending[t].text.run = pending[r].text.run => t = r

\* Given the runs rs and the questions qs so far, work done by a user on a
\* text belongs to the run the text names -- same actor, request, hint and
\* message -- and every clarification appended to the message answers, by
\* that actor, a question asked about exactly the text that precedes it.
Descends(rs, qs, user, request, hint, text) ==
  LET run == rs[text.run]
  IN /\ text.run \in DOMAIN rs
     /\ user = run.actor /\ request = run.request /\ hint = run.hint
     /\ text.prefix = run.prefix
     /\ \A n \in DOMAIN text.answers :
          LET q == qs[text.answers[n]]
          IN /\ text.answers[n] \in DOMAIN qs
             /\ q.answeredBy = run.actor
             /\ q.text = [text EXCEPT !.answers = SubSeq(@, 1, n - 1)]

\* Whatever a coroutine works on and whatever a question is about descends
\* from one start_run: a resume never carries an answer, an actor or a hint
\* into another run, however the calls interleave.
ReplayIsFaithful ==
  /\ \A c \in Calls : Running(c) =>
       Descends(runs, questions, call[c].session.user, call[c].request,
                call[c].hint, call[c].text)
  /\ \A i \in DOMAIN questions :
       LET q == questions[i]
       IN Descends(runs, questions, q.actor, q.request, q.hint, q.text)

\* A request is prepared only for a target the tenant route gate allows,
\* that is a known workspace, and that the grants of the session making
\* this very call cover; and it is reported ready for no other.  The two
\* gates hold across any number of clarifications and whatever the session
\* carried when the question was asked.
ReadyIsAuthorized ==
  /\ \A c \in Calls :
       LET me == call[c]
       IN /\ me.at \in ProvisionNodes => TenantAllowed(me.hint, "provision")
          /\ me.at \in {"select_profile", "extract_request"} =>
               /\ me.hint \in KnownWorkspaces
               /\ ResolveExecutionCapability(me.hint, me.session.grants)
                    # CapNone
  /\ reply.event = "route_resolved" =>
       (reply.route = "provision" /\ reply.ready_to_route =>
          /\ reply.scope \in KnownWorkspaces
          /\ TenantAllowed(reply.scope, "provision"))

\* The cap of core.py:43 and 127-130 across both workflows: a run asks at
\* most one question more than the cap, and at most cap of them are
\* answered (one intake and one provision clarification).
QuestionsBounded ==
  \A k \in DOMAIN runs :
    LET asked == {i \in DOMAIN questions : questions[i].text.run = k}
    IN /\ Cardinality(asked) <= MaxClarificationRounds + 1
       /\ Cardinality({i \in asked : questions[i].answeredBy # NoActor})
            <= MaxClarificationRounds

\* The slots behave as Clarification.tla promises.
Slots == INSTANCE Clarification WITH
  questions <- [i \in DOMAIN questions |->
                  [request |-> questions[i].request,
                   actor |-> questions[i].actor,
                   answeredBy |-> questions[i].answeredBy]],
  open <- [r \in Requests |-> pending[r].interrupt]

RefinesClarification == Slots!Spec

\* Clients that answer every question cannot keep the harness busy: with a
\* bounded number of start_run calls every coroutine returns in the end.
Quiesces == <>[](\A c \in Calls : ~Running(c))

\* What docs/INTAKE_HITL_ROUTING.md:297-299 says of the cap: at the last
\* round the outcome is inquiry or unsupported, not one more question.  So
\* every stored question can be answered by the actor it was put to.
EveryQuestionCanBeAnswered ==
  \A r \in Requests : pending[r] # NoClarification =>
    \E s \in Session : MayResume(s, r, pending[r].interrupt, TRUE)
=============================================================================
