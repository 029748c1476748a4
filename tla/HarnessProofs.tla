--------------------------- MODULE HarnessProofs ---------------------------
(***************************************************************************)
(* Theorems about Harness for every set of requests, actors, calls, hints, *)
(* grant sets and workspaces, and any number of runs.                      *)
(***************************************************************************)
EXTENDS Harness, FiniteSetTheorems, TLAPS

\* A coroutine that is somewhere is a well-typed coroutine.
LEMMA AtIsCoroutine ==
  ASSUME TypeOK, NEW c \in Calls, call[c].at # "idle"
  PROVE  call[c] \in Coroutines
  BY DEF TypeOK, Idle

\* Asking a question keeps the types.
LEMMA AskQuestionType ==
  ASSUME TypeOK, NEW c \in Calls, call[c] \in Coroutines,
         NEW kind \in Kinds, NEW field \in Fields,
         AskQuestion(c, kind, field)
  PROVE  TypeOK'
<1> DEFINE me == call[c]
           id == Len(questions) + 1
<1>1. /\ me.session.user \in Actors /\ me.request \in Requests
      /\ me.text \in Text /\ me.hint \in Hints \cup {NoHint}
      /\ me.round \in Nat /\ id \in Nat
  BY DEF TypeOK, Coroutines, Session
<1>2. [kind |-> kind, actor |-> me.session.user, request |-> me.request,
       text |-> me.text, hint |-> me.hint, round |-> me.round,
       field |-> field, answeredBy |-> NoActor] \in Questions
  BY <1>1 DEF Questions
<1>3. questions' \in Seq(Questions)
  BY <1>2 DEF AskQuestion, TypeOK
<1>4. [kind |-> kind, interrupt |-> id, actor |-> me.session.user,
       hint |-> me.hint, text |-> me.text, round |-> me.round]
        \in Clarifications
  BY <1>1 DEF Clarifications
<1>5. pending' \in [Requests -> Clarifications \cup {NoClarification}]
  BY <1>1, <1>4 DEF AskQuestion, TypeOK
<1>6. /\ call' \in [Calls -> Coroutines \cup {Idle}]
      /\ reply' \in HITLEvents
  BY <1>1 DEF AskQuestion, Return, TypeOK, HITLEvents
<1>7. runs' \in Seq(Runs)
  BY DEF AskQuestion, TypeOK
<1> QED
  BY <1>3, <1>5, <1>6, <1>7 DEF TypeOK

\* Reporting a route keeps the types.
LEMMA ReportRouteType ==
  ASSUME TypeOK, NEW c \in Calls,
         NEW route \in {"compliance_check", "provision", NoRoute},
         NEW ready \in BOOLEAN, NEW scope \in Hints \cup {NoHint},
         ReportRoute(c, route, ready, scope)
  PROVE  TypeOK'
<1>1. reply' \in RouteEvents
  BY DEF ReportRoute, Return, RouteEvents
<1> QED
  BY <1>1 DEF ReportRoute, Return, TypeOK

\* Moving to a provision graph node keeps the types.
LEMMA GoToType ==
  ASSUME TypeOK, NEW c \in Calls, call[c] \in Coroutines,
         NEW node \in ProvisionNodes, GoTo(c, node)
  PROVE  TypeOK'
<1>1. [call[c] EXCEPT !.at = node] \in Coroutines
  BY DEF Coroutines
<1> QED
  BY <1>1 DEF GoTo, TypeOK

\* The type invariant of the harness: what the code keeps in
\* _pending_intake and in its coroutines is always well formed.
THEOREM TypeCorrect == Spec => []TypeOK
<1>1. Init => TypeOK
  BY DEF Init, TypeOK
<1>2. TypeOK /\ [Next]_vars => TypeOK'
  <2> SUFFICES ASSUME TypeOK, [Next]_vars PROVE TypeOK'
    OBVIOUS
  <2>1. ASSUME NEW c \in Calls, NEW s \in Session, NEW r \in Requests,
               NEW p \in Prefixes, NEW h \in Hints \cup {NoHint},
               StartRun(c, s, r, p, h)
        PROVE  TypeOK'
    <3>1. [run |-> Len(runs) + 1, prefix |-> p, answers |-> <<>>] \in Text
      BY DEF TypeOK, Text
    <3>2. call' \in [Calls -> Coroutines \cup {Idle}]
      BY <2>1, <3>1 DEF StartRun, TypeOK, Coroutines
    <3>3. [actor |-> s.user, request |-> r, prefix |-> p, hint |-> h] \in Runs
      BY DEF Runs, Session
    <3>4. runs' \in Seq(Runs)
      BY <2>1, <3>3 DEF StartRun, TypeOK
    <3> QED
      BY <2>1, <3>2, <3>4 DEF StartRun, TypeOK
  <2>2. ASSUME NEW c \in Calls, NEW s \in Session, NEW r \in Requests,
               NEW i \in DOMAIN questions, Resume(c, s, r, i)
        PROVE  TypeOK'
    <3>1. pending[r] \in Clarifications
      BY <2>2 DEF Resume, PopQuestion, MayResume, TypeOK
    <3>2. i \in Nat
      BY DEF TypeOK
    <3>3. [pending[r].text EXCEPT !.answers = Append(@, i)] \in Text
      <4>1. pending[r].text \in Text
        BY <3>1 DEF Clarifications
      <4>2. Append(pending[r].text.answers, i) \in Seq(Nat)
        BY <3>2, <4>1 DEF Text
      <4> QED
        BY <4>1, <4>2 DEF Text
    <3>4. call' \in [Calls -> Coroutines \cup {Idle}]
      BY <2>2, <3>1, <3>3
         DEF Resume, PopQuestion, TypeOK, Coroutines, Clarifications, ProvisionNodes
    <3>5. [questions[i] EXCEPT !.answeredBy = s.user] \in Questions
      <4>1. questions[i] \in Questions /\ s.user \in Actors
        BY DEF TypeOK, Session
      <4> QED
        BY <4>1 DEF Questions
    <3>6. questions' \in Seq(Questions)
      BY <2>2, <3>5 DEF Resume, PopQuestion, TypeOK
    <3> QED
      BY <2>2, <3>4, <3>6 DEF Resume, PopQuestion, TypeOK
  <2>3. ASSUME NEW c \in Calls, Reject(c) PROVE TypeOK'
    BY <2>3 DEF Reject, TypeOK
  <2>4. ASSUME NEW c \in Calls, Classify(c) PROVE TypeOK'
    <3>1. call[c] \in Coroutines
      BY <2>4, AtIsCoroutine DEF Classify
    <3>2. PICK intent \in IntakeDecisions(call[c].text) :
            LET route == ResolveRouteId(intent)
            IN IF intent = NoIntent THEN AskQuestion(c, "intake", "intent")
               ELSE IF route \notin RouteRegistry
               THEN ReportRoute(c, route, route # NoRoute, NoHint)
               ELSE IF ~TenantAllowed(call[c].hint, intent)
               THEN ReportRoute(c, route, FALSE, NoHint)
               ELSE /\ call' = [call EXCEPT ![c].at = "resolve_scope",
                                            ![c].round = 0]
                    /\ reply' = NoReply
                    /\ UNCHANGED <<pending, runs, questions>>
      BY <2>4 DEF Classify
    <3>3. ResolveRouteId(intent) \in {"compliance_check", "provision", NoRoute}
      BY DEF ResolveRouteId
    <3>4. CASE AskQuestion(c, "intake", "intent")
      BY <3>1, <3>4, AskQuestionType DEF Kinds, Fields
    <3>5. CASE \E ready \in BOOLEAN :
                 ReportRoute(c, ResolveRouteId(intent), ready, NoHint)
      BY <3>3, <3>5, ReportRouteType
    <3>6. CASE /\ call' = [call EXCEPT ![c].at = "resolve_scope",
                                       ![c].round = 0]
               /\ reply' = NoReply
               /\ UNCHANGED <<pending, runs, questions>>
      <4>1. [call[c] EXCEPT !.at = "resolve_scope", !.round = 0]
              \in Coroutines
        BY <3>1 DEF Coroutines, ProvisionNodes
      <4> QED
        BY <3>6, <4>1 DEF TypeOK
    <3> QED
      BY <3>2, <3>4, <3>5, <3>6
  <2>5. ASSUME NEW c \in Calls, ResolveScopeNode(c) PROVE TypeOK'
    <3>1. call[c] \in Coroutines
      BY <2>5, AtIsCoroutine DEF ResolveScopeNode
    <3> QED
      BY <2>5, <3>1, AskQuestionType, ReportRouteType, GoToType
         DEF ResolveScopeNode, Kinds, Fields, ProvisionNodes
  <2>6. ASSUME NEW c \in Calls, SelectProfile(c) PROVE TypeOK'
    <3>1. call[c] \in Coroutines
      BY <2>6, AtIsCoroutine DEF SelectProfile
    <3> QED
      BY <2>6, <3>1, AskQuestionType, GoToType
         DEF SelectProfile, Kinds, Fields, ProvisionNodes
  <2>7. ASSUME NEW c \in Calls, ExtractRequest(c) PROVE TypeOK'
    <3>1. call[c] \in Coroutines
      BY <2>7, AtIsCoroutine DEF ExtractRequest
    <3>2. call[c].hint \in Hints \cup {NoHint}
      BY <3>1 DEF Coroutines
    <3> QED
      BY <2>7, <3>1, <3>2, AskQuestionType, ReportRouteType
         DEF ExtractRequest, Kinds, Fields
  <2>8. ASSUME NEW c \in Calls, ModelFails(c) PROVE TypeOK'
    BY <2>8 DEF ModelFails, Return, TypeOK
  <2>9. CASE Restart
    BY <2>9 DEF Restart, TypeOK
  <2>10. CASE UNCHANGED vars
    BY <2>10 DEF vars, TypeOK
  <2> QED
    BY <2>1, <2>2, <2>3, <2>4, <2>5, <2>6, <2>7, <2>8, <2>9, <2>10
       DEF Next, Invoke, Advance
<1> QED
  BY <1>1, <1>2, PTL DEF Spec

---------------------------------------------------------------------------
Untouched == UNCHANGED <<pending, questions>>

\* As far as slots and questions go every step asks, answers, forgets or
\* touches neither.
LEMMA StepKinds ==
  ASSUME TypeOK, [Next]_vars
  PROVE  \/ \E c \in Calls, kind \in Kinds, field \in Fields :
              call[c] \in Coroutines /\ AskQuestion(c, kind, field)
         \/ \E c \in Calls, s \in Session, r \in Requests,
                i \in DOMAIN questions : Resume(c, s, r, i)
         \/ Restart
         \/ Untouched
<1> SUFFICES ASSUME Next
             PROVE  \/ \E c \in Calls, kind \in Kinds, field \in Fields :
                         call[c] \in Coroutines /\ AskQuestion(c, kind, field)
                    \/ \E c \in Calls, s \in Session, r \in Requests,
                           i \in DOMAIN questions : Resume(c, s, r, i)
                    \/ Restart
                    \/ Untouched
  BY DEF vars, Untouched
<1>1. ASSUME NEW c \in Calls, Advance(c)
      PROVE  \/ \E kind \in Kinds, field \in Fields :
                  call[c] \in Coroutines /\ AskQuestion(c, kind, field)
             \/ Untouched
  <2>1. call[c] \in Coroutines
    BY <1>1, AtIsCoroutine
       DEF Advance, Classify, ResolveScopeNode, SelectProfile,
           ExtractRequest, ModelFails, ProvisionNodes
  <2>2. CASE Classify(c)
    BY <2>1, <2>2 DEF Classify, ReportRoute, Untouched, Kinds, Fields
  <2>3. CASE ResolveScopeNode(c)
    BY <2>1, <2>3
       DEF ResolveScopeNode, ReportRoute, GoTo, Untouched, Kinds, Fields
  <2>4. CASE SelectProfile(c)
    BY <2>1, <2>4 DEF SelectProfile, GoTo, Untouched, Kinds, Fields
  <2>5. CASE ExtractRequest(c)
    BY <2>1, <2>5 DEF ExtractRequest, ReportRoute, Untouched, Kinds, Fields
  <2>6. CASE ModelFails(c)
    BY <2>6 DEF ModelFails, Untouched
  <2> QED
    BY <1>1, <2>2, <2>3, <2>4, <2>5, <2>6 DEF Advance
<1>2. ASSUME NEW c \in Calls, Invoke(c)
      PROVE  \/ \E s \in Session, r \in Requests, i \in DOMAIN questions :
                  Resume(c, s, r, i)
             \/ Untouched
  BY <1>2 DEF Invoke, Reject, StartRun, Untouched
<1> QED
  BY <1>1, <1>2 DEF Next

\* A slot always replays the very question it names (core.py:97-99: what a
\* rejected resume leaves behind is what was asked).
THEOREM SlotsHoldTheirQuestions == Spec => []SlotHoldsItsQuestion
<1>1. Init => SlotHoldsItsQuestion
  BY DEF Init, SlotHoldsItsQuestion
<1>2. TypeOK /\ SlotHoldsItsQuestion /\ [Next]_vars => SlotHoldsItsQuestion'
  <2> SUFFICES ASSUME TypeOK, SlotHoldsItsQuestion, [Next]_vars
               PROVE  SlotHoldsItsQuestion'
    OBVIOUS
  <2>1. ASSUME NEW c \in Calls, NEW kind \in Kinds, NEW field \in Fields,
               call[c] \in Coroutines, AskQuestion(c, kind, field)
        PROVE  SlotHoldsItsQuestion'
    <3> DEFINE me == call[c]
               id == Len(questions) + 1
               q  == [kind |-> kind, actor |-> me.session.user,
                      request |-> me.request, text |-> me.text,
                      hint |-> me.hint, round |-> me.round,
                      field |-> field, answeredBy |-> NoActor]
    <3>1. /\ questions' = Append(questions, q)
          /\ pending' = [pending EXCEPT ![me.request] =
               [kind |-> kind, interrupt |-> id, actor |-> me.session.user,
                hint |-> me.hint, text |-> me.text, round |-> me.round]]
      BY <2>1 DEF AskQuestion
    <3>2. /\ id \in DOMAIN questions' /\ questions'[id] = q
          /\ \A i \in DOMAIN questions :
               i \in DOMAIN questions' /\ questions'[i] = questions[i]
      BY <3>1 DEF TypeOK
    <3>3. me.request \in Requests
      BY <2>1 DEF Coroutines
    <3> SUFFICES ASSUME NEW r \in Requests, pending'[r] # NoClarification
                 PROVE  /\ pending'[r].interrupt \in DOMAIN questions'
                        /\ LET p == pending'[r]
                               u == questions'[p.interrupt]
                           IN /\ u.request = r /\ u.answeredBy = NoActor
                              /\ u.kind = p.kind /\ u.actor = p.actor
                              /\ u.hint = p.hint /\ u.text = p.text
                              /\ u.round = p.round
      BY DEF SlotHoldsItsQuestion
    <3>4. CASE r = me.request
      BY <3>1, <3>2, <3>3, <3>4 DEF TypeOK
    <3>5. CASE r # me.request
      <4>1. pending'[r] = pending[r]
        BY <3>1, <3>5 DEF TypeOK
      <4> QED
        BY <4>1, <3>2 DEF SlotHoldsItsQuestion
    <3> QED
      BY <3>4, <3>5
  <2>2. ASSUME NEW c \in Calls, NEW s \in Session, NEW r \in Requests,
               NEW i \in DOMAIN questions, Resume(c, s, r, i)
        PROVE  SlotHoldsItsQuestion'
    <3>1. /\ pending' = [pending EXCEPT ![r] = NoClarification]
          /\ questions' = [questions EXCEPT ![i].answeredBy = s.user]
          /\ pending[r] # NoClarification /\ pending[r].interrupt = i
      BY <2>2 DEF Resume, PopQuestion, MayResume
    <3>2. /\ DOMAIN questions' = DOMAIN questions
          /\ \A j \in DOMAIN questions : j # i => questions'[j] = questions[j]
      BY <3>1 DEF TypeOK
    <3>3. \A t \in Requests : pending'[t] # NoClarification =>
            t # r /\ pending'[t] = pending[t]
      BY <3>1 DEF TypeOK
    <3>4. \A t \in Requests : pending'[t] # NoClarification =>
            pending[t].interrupt # i
      BY <3>1, <3>3 DEF SlotHoldsItsQuestion
    <3> QED
      BY <3>2, <3>3, <3>4 DEF SlotHoldsItsQuestion
  <2>3. CASE Restart
    BY <2>3 DEF Restart, SlotHoldsItsQuestion
  <2>4. CASE Untouched
    BY <2>4 DEF Untouched, SlotHoldsItsQuestion
  <2> QED
    BY <2>1, <2>2, <2>3, <2>4, StepKinds
<1> QED
  BY <1>1, <1>2, TypeCorrect, PTL DEF Spec

---------------------------------------------------------------------------
\* The slots of the harness implement Clarification.tla: an accepted resume
\* is an answer by the actor who was asked, to the question that is open.
THEOREM Refinement == Spec => RefinesClarification
<1> DEFINE View(qs) == [i \in DOMAIN qs |->
                          [request |-> qs[i].request, actor |-> qs[i].actor,
                           answeredBy |-> qs[i].answeredBy]]
           Open(ps) == [r \in Requests |-> ps[r].interrupt]
<1>1. Init => Slots!Init
  BY DEF Init, Slots!Init, NoClarification
<1>2. TypeOK /\ SlotHoldsItsQuestion /\ [Next]_vars => [Slots!Next]_(Slots!vars)
  <2> SUFFICES ASSUME TypeOK, SlotHoldsItsQuestion, [Next]_vars
               PROVE  [Slots!Next]_(Slots!vars)
    OBVIOUS
  <2>1. ASSUME NEW c \in Calls, NEW kind \in Kinds, NEW field \in Fields,
               call[c] \in Coroutines, AskQuestion(c, kind, field)
        PROVE  Slots!Next
    <3> DEFINE me == call[c]
               q  == [kind |-> kind, actor |-> me.session.user,
                      request |-> me.request, text |-> me.text,
                      hint |-> me.hint, round |-> me.round,
                      field |-> field, answeredBy |-> NoActor]
    <3>1. me.request \in Requests /\ me.session.user \in Actors
      BY <2>1 DEF Coroutines, Session
    <3>2. questions' = Append(questions, q)
      BY <2>1 DEF AskQuestion
    <3>3. View(questions') =
            Append(View(questions), [request |-> me.request,
                     actor |-> me.session.user, answeredBy |-> NoActor])
      <4>1. Len(questions') = Len(questions) + 1
            /\ DOMAIN questions' = 1..(Len(questions) + 1)
            /\ questions'[Len(questions) + 1] = q
            /\ \A i \in DOMAIN questions : questions'[i] = questions[i]
        BY <3>2 DEF TypeOK
      <4>2. DOMAIN questions = 1..Len(questions) /\ Len(questions) \in Nat
        BY DEF TypeOK
      <4>3. View(questions) \in Seq([request : Requests, actor : Actors,
                                     answeredBy : Actors \cup {NoActor}])
            /\ Len(View(questions)) = Len(questions)
        <5>1. \A i \in 1..Len(questions) : questions[i] \in Questions
          BY DEF TypeOK
        <5>2. View(questions) \in [1..Len(questions) ->
                 [request : Requests, actor : Actors,
                  answeredBy : Actors \cup {NoActor}]]
          BY <4>2, <5>1 DEF Questions
        <5> QED
          BY <4>2, <5>2
      <4> QED
        BY <4>1, <4>2, <4>3
    <3>4. Len(View(questions)) = Len(questions)
      <4>1. DOMAIN View(questions) = 1..Len(questions) /\ Len(questions) \in Nat
        BY DEF TypeOK
      <4> QED
        BY <4>1
    <3>5. Open(pending') = [Open(pending) EXCEPT ![me.request] =
                              Len(questions) + 1]
      BY <2>1, <3>1 DEF AskQuestion, TypeOK
    <3> QED
      BY <3>1, <3>3, <3>4, <3>5 DEF Slots!Next, Slots!Ask
  <2>2. ASSUME NEW c \in Calls, NEW s \in Session, NEW r \in Requests,
               NEW i \in DOMAIN questions, Resume(c, s, r, i)
        PROVE  Slots!Next
    <3>1. /\ pending' = [pending EXCEPT ![r] = NoClarification]
          /\ questions' = [questions EXCEPT ![i].answeredBy = s.user]
          /\ pending[r] # NoClarification /\ pending[r].interrupt = i
          /\ pending[r].actor = s.user
      BY <2>2 DEF Resume, PopQuestion, MayResume
    <3>2. questions[i].actor = s.user /\ i # 0 /\ s.user \in Actors
      BY <3>1 DEF SlotHoldsItsQuestion, TypeOK, Session
    <3>3. Open(pending) [r] = i
      BY <3>1
    <3>4. Open(pending') = [Open(pending) EXCEPT ![r] = 0]
      BY <3>1 DEF TypeOK, NoClarification
    <3>5. View(questions') = [View(questions) EXCEPT ![i].answeredBy = s.user]
      <4>1. questions[i] \in Questions
        BY DEF TypeOK
      <4>2. /\ questions'[i].request = questions[i].request
            /\ questions'[i].actor = questions[i].actor
            /\ questions'[i].answeredBy = s.user
        BY <3>1, <4>1 DEF Questions
      <4>3. DOMAIN questions' = DOMAIN questions
            /\ \A j \in DOMAIN questions : j # i =>
                 questions'[j] = questions[j]
        BY <3>1
      <4> QED
        BY <4>2, <4>3
    <3> QED
      BY <3>2, <3>3, <3>4, <3>5 DEF Slots!Next, Slots!Answer
  <2>3. CASE Restart
    BY <2>3 DEF Restart, Slots!Next, Slots!Forget, NoClarification
  <2>4. CASE Untouched
    BY <2>4 DEF Untouched, Slots!vars
  <2> QED
    BY <2>1, <2>2, <2>3, <2>4, StepKinds
<1> QED
  BY <1>1, <1>2, TypeCorrect, SlotsHoldTheirQuestions, PTL
     DEF Spec, RefinesClarification, Slots!Spec

---------------------------------------------------------------------------
\* ReadyIsAuthorized is not inductive alone: a question asked while
\* preparing carries its hint into the slot, from where a resume goes
\* straight to resolve_scope, so slots must hold an allowed hint too.
SlotsAreAllowed ==
  \A r \in Requests :
    pending[r] # NoClarification /\ pending[r].kind = "provision"
      => TenantAllowed(pending[r].hint, "provision")

\* The two access gates, for every table of workspaces and tenants and
\* every set of grants: a call prepares a request, and reports it ready,
\* only for a known workspace the tenant gate allows and its own grants
\* cover.
THEOREM Authorized == Spec => []ReadyIsAuthorized
<1> DEFINE Inv == ReadyIsAuthorized /\ SlotsAreAllowed
<1>1. Init => Inv
  BY DEF Init, ReadyIsAuthorized, SlotsAreAllowed, Idle, NoReply,
         ProvisionNodes
<1>2. TypeOK /\ Inv /\ [Next]_vars => Inv'
  <2> SUFFICES ASSUME TypeOK, Inv, [Next]_vars PROVE Inv'
    OBVIOUS
  <2> USE DEF ReadyIsAuthorized, SlotsAreAllowed
  \* Returning and asking keep every other coroutine's authorization.
  <2>1. ASSUME NEW c \in Calls, NEW kind \in Kinds, NEW field \in Fields,
               call[c] \in Coroutines, AskQuestion(c, kind, field),
               kind = "provision" => TenantAllowed(call[c].hint, "provision")
        PROVE  Inv'
    BY <2>1 DEF AskQuestion, Return, TypeOK, Idle, ProvisionNodes, Coroutines
  <2>2. ASSUME NEW c \in Calls, NEW route, NEW ready, NEW scope,
               ReportRoute(c, route, ready, scope),
               route = "provision" /\ ready =>
                 scope \in KnownWorkspaces /\ TenantAllowed(scope, "provision")
        PROVE  Inv'
    BY <2>2 DEF ReportRoute, Return, TypeOK, Idle, ProvisionNodes
  <2>3. ASSUME NEW c \in Calls, NEW s \in Session, NEW r \in Requests,
               NEW p \in Prefixes, NEW h \in Hints \cup {NoHint},
               StartRun(c, s, r, p, h)
        PROVE  Inv'
    BY <2>3 DEF StartRun, TypeOK, NoReply, ProvisionNodes
  <2>4. ASSUME NEW c \in Calls, NEW s \in Session, NEW r \in Requests,
               NEW i \in DOMAIN questions, Resume(c, s, r, i)
        PROVE  Inv'
    <3>1. pending[r] \in Clarifications
      BY <2>4 DEF Resume, PopQuestion, MayResume, TypeOK
    <3>2. /\ call'[c].at = IF pending[r].kind = "provision"
                           THEN "resolve_scope" ELSE "intake_graph"
          /\ call'[c].hint = pending[r].hint
          /\ \A d \in Calls : d # c => call'[d] = call[d]
      BY <2>4 DEF Resume, PopQuestion, TypeOK
    <3>3. pending[r] # NoClarification
      BY <2>4 DEF Resume, PopQuestion, MayResume
    <3>4. call'[c].at \in ProvisionNodes =>
            TenantAllowed(call'[c].hint, "provision")
      BY <3>1, <3>2, <3>3 DEF ProvisionNodes
    <3>5. call'[c].at \notin {"select_profile", "extract_request"}
      BY <3>2
    <3>6. /\ pending' = [pending EXCEPT ![r] = NoClarification]
          /\ reply' = NoReply
      BY <2>4 DEF Resume, PopQuestion
    <3>7. SlotsAreAllowed'
      BY <3>6 DEF TypeOK
    <3> QED
      BY <3>2, <3>4, <3>5, <3>6, <3>7 DEF NoReply
  <2>5. ASSUME NEW c \in Calls, Reject(c) PROVE Inv'
    BY <2>5 DEF Reject, Rejected
  <2>6. ASSUME NEW c \in Calls, Classify(c) PROVE Inv'
    <3>1. call[c] \in Coroutines
      BY <2>6, AtIsCoroutine DEF Classify
    <3>2. PICK intent \in IntakeDecisions(call[c].text) :
            LET route == ResolveRouteId(intent)
            IN IF intent = NoIntent THEN AskQuestion(c, "intake", "intent")
               ELSE IF route \notin RouteRegistry
               THEN ReportRoute(c, route, route # NoRoute, NoHint)
               ELSE IF ~TenantAllowed(call[c].hint, intent)
               THEN ReportRoute(c, route, FALSE, NoHint)
               ELSE /\ call' = [call EXCEPT ![c].at = "resolve_scope",
                                            ![c].round = 0]
                    /\ reply' = NoReply
                    /\ UNCHANGED <<pending, runs, questions>>
      BY <2>6 DEF Classify
    <3>3. CASE AskQuestion(c, "intake", "intent")
      BY <3>1, <3>3, <2>1 DEF Kinds, Fields
    <3>4. CASE ResolveRouteId(intent) \notin RouteRegistry
               /\ ReportRoute(c, ResolveRouteId(intent),
                              ResolveRouteId(intent) # NoRoute, NoHint)
      BY <3>4, <2>2 DEF RouteRegistry
    <3>5. CASE ReportRoute(c, ResolveRouteId(intent), FALSE, NoHint)
      BY <3>5, <2>2
    <3>6. CASE /\ ResolveRouteId(intent) \in RouteRegistry
               /\ TenantAllowed(call[c].hint, intent)
               /\ call' = [call EXCEPT ![c].at = "resolve_scope",
                                       ![c].round = 0]
               /\ reply' = NoReply
               /\ UNCHANGED <<pending, runs, questions>>
      <4>1. intent = "provision"
        BY <3>6 DEF ResolveRouteId, RouteRegistry, NoRoute
      <4>2. /\ call'[c].at = "resolve_scope" /\ call'[c].hint = call[c].hint
            /\ \A d \in Calls : d # c => call'[d] = call[d]
        BY <3>1, <3>6 DEF TypeOK, Coroutines
      <4> QED
        BY <3>6, <4>1, <4>2 DEF NoReply
    <3> QED
      BY <3>2, <3>3, <3>4, <3>5, <3>6
  <2>7. ASSUME NEW c \in Calls, NEW node \in {"select_profile", "extract_request"},
               call[c] \in Coroutines, call[c].at \in ProvisionNodes,
               call[c].hint \in KnownWorkspaces,
               ResolveExecutionCapability(call[c].hint, call[c].session.grants)
                 # CapNone,
               GoTo(c, node)
        PROVE  Inv'
    <3>1. /\ call'[c].at = node /\ call'[c].hint = call[c].hint
          /\ call'[c].session = call[c].session
          /\ \A d \in Calls : d # c => call'[d] = call[d]
      BY <2>7 DEF GoTo, TypeOK, Coroutines
    <3>2. pending' = pending /\ reply' = NoReply
      BY <2>7 DEF GoTo
    <3> QED
      BY <2>7, <3>1, <3>2 DEF NoReply
  <2>8. ASSUME NEW c \in Calls, ResolveScopeNode(c) PROVE Inv'
    <3>1. call[c] \in Coroutines /\ call[c].at \in ProvisionNodes
          /\ TenantAllowed(call[c].hint, "provision")
      BY <2>8, AtIsCoroutine DEF ResolveScopeNode, ProvisionNodes
    <3>2. ResolveScope(call[c].hint, call[c].session.grants) = "resolved" =>
            /\ call[c].hint \in KnownWorkspaces
            /\ ResolveExecutionCapability(call[c].hint,
                 call[c].session.grants) # CapNone
      BY DEF ResolveScope
    <3> QED
      BY <2>8, <3>1, <3>2, <2>1, <2>2, <2>7
         DEF ResolveScopeNode, Kinds, Fields
  <2>9. ASSUME NEW c \in Calls, SelectProfile(c) PROVE Inv'
    <3>1. call[c] \in Coroutines /\ call[c].at \in ProvisionNodes
      BY <2>9, AtIsCoroutine DEF SelectProfile, ProvisionNodes
    <3> QED
      BY <2>9, <3>1, <2>1, <2>7 DEF SelectProfile, Kinds, Fields
  <2>10. ASSUME NEW c \in Calls, ExtractRequest(c) PROVE Inv'
    <3>1. call[c] \in Coroutines /\ call[c].at \in ProvisionNodes
      BY <2>10, AtIsCoroutine DEF ExtractRequest, ProvisionNodes
    <3> QED
      BY <2>10, <3>1, <2>1, <2>2 DEF ExtractRequest, Kinds, Fields
  <2>11. ASSUME NEW c \in Calls, ModelFails(c) PROVE Inv'
    BY <2>11 DEF ModelFails, Return, TypeOK, Idle, Failed, ProvisionNodes
  <2>12. CASE Restart
    BY <2>12 DEF Restart, Idle, NoReply, ProvisionNodes
  <2>13. CASE UNCHANGED vars
    BY <2>13 DEF vars
  <2> QED
    BY <2>3, <2>4, <2>5, <2>6, <2>8, <2>9, <2>10, <2>11, <2>12, <2>13
       DEF Next, Invoke, Advance
<1> QED
  BY <1>1, <1>2, TypeCorrect, PTL DEF Spec

---------------------------------------------------------------------------
\* The work of a coroutine: for whom, on which request, message and hint.
SameWork(d) ==
  /\ Running(d)
  /\ call'[d].session = call[d].session /\ call'[d].request = call[d].request
  /\ call'[d].hint = call[d].hint /\ call'[d].text = call[d].text

WorkKept == runs' = runs /\ \A d \in Calls : Running(d)' => SameWork(d)

\* As far as coroutines go a step starts a run, resumes one, or leaves every
\* coroutine that is still running with the work it had.
LEMMA CallSteps ==
  ASSUME TypeOK, [Next]_vars
  PROVE  \/ \E c \in Calls, s \in Session, r \in Requests, p \in Prefixes,
                h \in Hints \cup {NoHint} : StartRun(c, s, r, p, h)
         \/ \E c \in Calls, s \in Session, r \in Requests,
                i \in DOMAIN questions : Resume(c, s, r, i)
         \/ WorkKept
<1>1. ASSUME NEW c \in Calls, NEW e, Return(c, e), runs' = runs PROVE WorkKept
  <2>1. \A d \in Calls : call'[d] = IF d = c THEN Idle ELSE call[d]
    BY <1>1 DEF Return, TypeOK
  <2> QED
    BY <1>1, <2>1 DEF WorkKept, SameWork, Running
<1>2. ASSUME NEW c \in Calls, Advance(c) PROVE WorkKept
  <2>1. call[c] \in Coroutines /\ call[c] # Idle
    <3>1. call[c].at # "idle"
      BY <1>2 DEF Advance, Classify, ResolveScopeNode, SelectProfile,
                  ExtractRequest, ModelFails
    <3> QED
      BY <3>1, AtIsCoroutine DEF Idle
  <2>2. ASSUME NEW node, GoTo(c, node) PROVE WorkKept
    BY <2>1, <2>2 DEF GoTo, WorkKept, SameWork, Running, TypeOK, Coroutines
  <2>3. ASSUME call' = [call EXCEPT ![c].at = "resolve_scope", ![c].round = 0],
               runs' = runs
        PROVE  WorkKept
    BY <2>1, <2>3 DEF WorkKept, SameWork, Running, TypeOK, Coroutines
  <2>4. CASE Classify(c)
    BY <2>4, <2>3, <1>1 DEF Classify, AskQuestion, ReportRoute
  <2>5. CASE ResolveScopeNode(c)
    BY <2>5, <2>2, <1>1 DEF ResolveScopeNode, AskQuestion, ReportRoute
  <2>6. CASE SelectProfile(c)
    BY <2>6, <2>2, <1>1 DEF SelectProfile, AskQuestion
  <2>7. CASE ExtractRequest(c)
    BY <2>7, <1>1 DEF ExtractRequest, AskQuestion, ReportRoute
  <2>8. CASE ModelFails(c)
    BY <2>8, <1>1 DEF ModelFails
  <2> QED
    BY <1>2, <2>4, <2>5, <2>6, <2>7, <2>8 DEF Advance
<1>3. ASSUME NEW c \in Calls, Reject(c) PROVE WorkKept
  BY <1>3 DEF Reject, WorkKept, SameWork, Running
<1>4. CASE Restart
  BY <1>4 DEF Restart, WorkKept, Running
<1>5. CASE UNCHANGED vars
  BY <1>5 DEF vars, WorkKept, SameWork, Running
<1> QED
  BY <1>2, <1>3, <1>4, <1>5 DEF Next, Invoke

\* Runs are never rewritten, and a question keeps its text and, once it is
\* answered, its answerer.
HistoryKept ==
  /\ \A k \in DOMAIN runs : k \in DOMAIN runs' /\ runs'[k] = runs[k]
  /\ \A i \in DOMAIN questions :
       /\ i \in DOMAIN questions'
       /\ questions'[i].text = questions[i].text
       /\ questions'[i].actor = questions[i].actor
       /\ questions'[i].request = questions[i].request
       /\ questions'[i].hint = questions[i].hint
       /\ questions[i].answeredBy # NoActor =>
            questions'[i].answeredBy = questions[i].answeredBy

\* No step of the harness rewrites its history.
LEMMA HistoryIsKept ==
  ASSUME TypeOK, SlotHoldsItsQuestion, [Next]_vars
  PROVE  HistoryKept
<1>1. \A k \in DOMAIN runs : k \in DOMAIN runs' /\ runs'[k] = runs[k]
  <2>1. CASE \E c \in Calls, s \in Session, r \in Requests, p \in Prefixes,
                h \in Hints \cup {NoHint} : StartRun(c, s, r, p, h)
    BY <2>1 DEF StartRun, TypeOK
  <2>2. CASE \E c \in Calls, s \in Session, r \in Requests,
                i \in DOMAIN questions : Resume(c, s, r, i)
    BY <2>2 DEF Resume, PopQuestion
  <2>3. CASE WorkKept
    BY <2>3 DEF WorkKept
  <2> QED
    BY <2>1, <2>2, <2>3, CallSteps
<1>2. CASE \E c \in Calls, kind \in Kinds, field \in Fields :
             call[c] \in Coroutines /\ AskQuestion(c, kind, field)
  BY <1>1, <1>2 DEF AskQuestion, HistoryKept, TypeOK
<1>3. CASE \E c \in Calls, s \in Session, r \in Requests,
             i \in DOMAIN questions : Resume(c, s, r, i)
  <2>1. PICK c \in Calls, s \in Session, r \in Requests,
             i \in DOMAIN questions : Resume(c, s, r, i)
    BY <1>3
  <2>2. /\ questions' = [questions EXCEPT ![i].answeredBy = s.user]
        /\ pending[r] # NoClarification /\ pending[r].interrupt = i
    BY <2>1 DEF Resume, PopQuestion, MayResume
  <2>3. questions[i].answeredBy = NoActor /\ questions[i] \in Questions
    BY <2>2 DEF SlotHoldsItsQuestion, TypeOK
  <2>4. ASSUME NEW j \in DOMAIN questions
        PROVE  /\ j \in DOMAIN questions'
               /\ questions'[j].text = questions[j].text
               /\ questions'[j].actor = questions[j].actor
               /\ questions'[j].request = questions[j].request
               /\ questions'[j].hint = questions[j].hint
               /\ questions[j].answeredBy # NoActor =>
                    questions'[j].answeredBy = questions[j].answeredBy
    BY <2>2, <2>3 DEF Questions
  <2> QED
    BY <1>1, <2>4 DEF HistoryKept
<1>4. CASE Restart \/ Untouched
  BY <1>1, <1>4 DEF HistoryKept, Restart, Untouched
<1> QED
  BY <1>2, <1>3, <1>4, StepKinds

\* What descended from a run keeps descending from it as the history grows.
LEMMA DescentIsKept ==
  ASSUME TypeOK, HistoryKept, NEW u, NEW r, NEW h, NEW t,
         Descends(runs, questions, u, r, h, t)
  PROVE  Descends(runs', questions', u, r, h, t)
<1>1. t.run \in DOMAIN runs
  BY DEF Descends
<1>2. runs[t.run] \in Runs
  BY <1>1 DEF TypeOK
<1>3. runs[t.run].actor # NoActor
  BY <1>2, HarnessAssumption DEF Runs
<1> QED
  BY <1>3 DEF Descends, HistoryKept

\* Appending the answer to a question about a text gives a text that
\* descends from the same run.
LEMMA AnswerDescends ==
  ASSUME NEW rs, NEW qs, NEW u, NEW r, NEW h, NEW t \in Text, NEW i \in Nat,
         Descends(rs, qs, u, r, h, t), i \in DOMAIN qs,
         qs[i].text = t, qs[i].answeredBy = u
  PROVE  Descends(rs, qs, u, r, h, [t EXCEPT !.answers = Append(@, i)])
<1> DEFINE new == [t EXCEPT !.answers = Append(@, i)]
<1>1. t.answers \in Seq(Nat)
  BY DEF Text
<1>2. /\ new.run = t.run /\ new.prefix = t.prefix
      /\ new.answers = Append(t.answers, i) /\ new \in Text
  <2>1. Append(t.answers, i) \in Seq(Nat)
    BY <1>1
  <2> QED
    BY <2>1 DEF Text
<1>3. ASSUME NEW n \in DOMAIN t.answers
      PROVE  /\ t.answers[n] \in DOMAIN qs
             /\ qs[t.answers[n]].answeredBy = rs[t.run].actor
             /\ qs[t.answers[n]].text
                  = [t EXCEPT !.answers = SubSeq(@, 1, n - 1)]
  BY <1>3 DEF Descends
<1>4. /\ t.run \in DOMAIN rs /\ rs[t.run].actor = u
      /\ rs[t.run].request = r /\ rs[t.run].hint = h
      /\ rs[t.run].prefix = t.prefix
  BY DEF Descends
<1>5. \A s : [new EXCEPT !.answers = s] = [t EXCEPT !.answers = s]
  OBVIOUS
<1>6. [t EXCEPT !.answers = t.answers] = t
  BY DEF Text
<1> SUFFICES Descends(rs, qs, u, r, h, new)
  OBVIOUS
<1> HIDE DEF new
<1>7. ASSUME NEW n \in DOMAIN new.answers
      PROVE  /\ new.answers[n] \in DOMAIN qs
             /\ qs[new.answers[n]].answeredBy = rs[new.run].actor
             /\ qs[new.answers[n]].text
                  = [new EXCEPT !.answers = SubSeq(new.answers, 1, n - 1)]
  <2>1. CASE n = Len(t.answers) + 1
    <3>1. new.answers[n] = i
      BY <1>1, <1>2, <2>1
    <3>2. SubSeq(new.answers, 1, n - 1) = t.answers
      BY <1>1, <1>2, <2>1
    <3>3. [new EXCEPT !.answers = SubSeq(new.answers, 1, n - 1)] = t
      BY <1>5, <1>6, <3>2
    <3> QED
      BY <1>2, <1>4, <3>1, <3>3
  <2>2. CASE n \in DOMAIN t.answers
    <3>1. new.answers[n] = t.answers[n]
      BY <1>1, <1>2, <2>2
    <3>2. SubSeq(new.answers, 1, n - 1) = SubSeq(t.answers, 1, n - 1)
      BY <1>1, <1>2, <2>2
    <3>3. [new EXCEPT !.answers = SubSeq(new.answers, 1, n - 1)]
            = [t EXCEPT !.answers = SubSeq(t.answers, 1, n - 1)]
      BY <1>5, <3>2
    <3>4. /\ t.answers[n] \in DOMAIN qs
          /\ qs[t.answers[n]].answeredBy = rs[t.run].actor
          /\ qs[t.answers[n]].text
               = [t EXCEPT !.answers = SubSeq(t.answers, 1, n - 1)]
      BY <1>3, <2>2
    <3> QED
      BY <1>2, <3>1, <3>3, <3>4
  <2> QED
    BY <1>1, <1>2, <2>1, <2>2
<1> QED
  BY <1>2, <1>4, <1>7 DEF Descends

\* A resume never carries an answer, an actor, a request or a hint from one
\* run into another, however calls, displaced questions and restarts
\* interleave.
THEOREM Faithful == Spec => []ReplayIsFaithful
<1>1. Init => ReplayIsFaithful
  BY DEF Init, ReplayIsFaithful, Running
<1>2. TypeOK /\ SlotHoldsItsQuestion /\ ReplayIsFaithful /\ [Next]_vars
        => ReplayIsFaithful'
  <2> SUFFICES ASSUME TypeOK, SlotHoldsItsQuestion, ReplayIsFaithful,
                      [Next]_vars
               PROVE  ReplayIsFaithful'
    OBVIOUS
  <2>0. HistoryKept
    BY HistoryIsKept
  <2>1. ASSUME NEW d \in Calls, Running(d)'
        PROVE  Descends(runs', questions', call'[d].session.user,
                        call'[d].request, call'[d].hint, call'[d].text)
    <3>1. CASE SameWork(d)
      <4>1. PICK u, r, h, t :
              /\ u = call[d].session.user /\ r = call[d].request
              /\ h = call[d].hint /\ t = call[d].text
        OBVIOUS
      <4>2. Descends(runs, questions, u, r, h, t)
        BY <3>1, <4>1 DEF SameWork, ReplayIsFaithful
      <4>3. Descends(runs', questions', u, r, h, t)
        BY <2>0, <4>2, DescentIsKept
      <4> QED
        BY <3>1, <4>1, <4>3 DEF SameWork
    <3>2. CASE \E s \in Session, r \in Requests, p \in Prefixes,
                 h \in Hints \cup {NoHint} : StartRun(d, s, r, p, h)
      BY <3>2 DEF StartRun, Descends, TypeOK
    <3>3. CASE \E s \in Session, r \in Requests, i \in DOMAIN questions :
                 Resume(d, s, r, i)
      <4>1. PICK s \in Session, r \in Requests, i \in DOMAIN questions :
              Resume(d, s, r, i)
        BY <3>3
      <4>2. PICK h, t : h = pending[r].hint /\ t = pending[r].text
        OBVIOUS
      <4>3. /\ pending[r] # NoClarification /\ pending[r].interrupt = i
            /\ pending[r].actor = s.user
            /\ questions' = [questions EXCEPT ![i].answeredBy = s.user]
            /\ call'[d].session = s /\ call'[d].request = r
            /\ call'[d].hint = h
            /\ call'[d].text = [t EXCEPT !.answers = Append(@, i)]
        BY <4>1, <4>2 DEF Resume, PopQuestion, MayResume, TypeOK
      <4>4. /\ questions[i].request = r /\ questions[i].actor = s.user
            /\ questions[i].hint = h /\ questions[i].text = t
        BY <4>2, <4>3 DEF SlotHoldsItsQuestion
      <4>5. Descends(runs, questions, s.user, r, h, t)
        BY <4>4 DEF ReplayIsFaithful
      <4>6. t \in Text /\ i \in Nat /\ questions[i] \in Questions
        <5>1. questions[i] \in Questions /\ i \in Nat
          BY DEF TypeOK
        <5> QED
          BY <4>4, <5>1 DEF Questions
      <4>7. /\ i \in DOMAIN questions' /\ questions'[i].text = t
            /\ questions'[i].answeredBy = s.user
        BY <4>3, <4>4, <4>6 DEF Questions
      <4>8. Descends(runs', questions', s.user, r, h, t)
        BY <2>0, <4>5, DescentIsKept
      <4>9. Descends(runs', questions', s.user, r, h, [t EXCEPT !.answers = Append(@, i)])
        BY <4>6, <4>7, <4>8, AnswerDescends
      <4> QED
        BY <4>3, <4>9
    <3> QED
      <4>1. CASE WorkKept
        BY <2>1, <3>1, <4>1 DEF WorkKept
      <4>2. CASE \E c \in Calls, s \in Session, r \in Requests,
                   p \in Prefixes, h \in Hints \cup {NoHint} :
                   StartRun(c, s, r, p, h)
        <5>1. PICK c \in Calls, s \in Session, r \in Requests,
                   p \in Prefixes, h \in Hints \cup {NoHint} :
                   StartRun(c, s, r, p, h)
          BY <4>2
        <5>2. d # c => SameWork(d)
          BY <2>1, <5>1 DEF StartRun, SameWork, Running, TypeOK
        <5> QED
          BY <3>1, <3>2, <5>1, <5>2
      <4>3. CASE \E c \in Calls, s \in Session, r \in Requests,
                   i \in DOMAIN questions : Resume(c, s, r, i)
        <5>1. PICK c \in Calls, s \in Session, r \in Requests,
                   i \in DOMAIN questions : Resume(c, s, r, i)
          BY <4>3
        <5>2. d # c => SameWork(d)
          BY <2>1, <5>1 DEF Resume, PopQuestion, SameWork, Running, TypeOK
        <5> QED
          BY <3>1, <3>3, <5>1, <5>2
      <4> QED
        BY <4>1, <4>2, <4>3, CallSteps
  <2>2. ASSUME NEW i \in DOMAIN questions'
        PROVE  Descends(runs', questions', questions'[i].actor,
                        questions'[i].request, questions'[i].hint,
                        questions'[i].text)
    <3>1. CASE i \in DOMAIN questions
      <4>1. PICK u, r, h, t :
              /\ u = questions[i].actor /\ r = questions[i].request
              /\ h = questions[i].hint /\ t = questions[i].text
        OBVIOUS
      <4>2. Descends(runs, questions, u, r, h, t)
        BY <3>1, <4>1 DEF ReplayIsFaithful
      <4>3. Descends(runs', questions', u, r, h, t)
        BY <2>0, <4>2, DescentIsKept
      <4> QED
        BY <2>0, <3>1, <4>1, <4>3 DEF HistoryKept
    <3>2. CASE i \notin DOMAIN questions
      <4>1. PICK c \in Calls, kind \in Kinds, field \in Fields :
              call[c] \in Coroutines /\ AskQuestion(c, kind, field)
        <5>1. DOMAIN questions' # DOMAIN questions
          BY <3>2
        <5>2. ASSUME NEW c \in Calls, NEW s \in Session, NEW r \in Requests,
                     NEW j \in DOMAIN questions, Resume(c, s, r, j)
              PROVE  FALSE
          BY <5>1, <5>2 DEF Resume, PopQuestion, TypeOK
        <5> QED
          BY <5>1, <5>2, StepKinds DEF Restart, Untouched
      <4>2. PICK u, r, h, t :
              /\ u = call[c].session.user /\ r = call[c].request
              /\ h = call[c].hint /\ t = call[c].text
        OBVIOUS
      <4>3. Running(c)
        BY <4>1 DEF Running, Coroutines, Idle
      <4>4. Descends(runs, questions, u, r, h, t)
        BY <4>2, <4>3 DEF ReplayIsFaithful
      <4>5. Descends(runs', questions', u, r, h, t)
        BY <2>0, <4>4, DescentIsKept
      <4>6. /\ questions'[i].actor = u /\ questions'[i].request = r
            /\ questions'[i].hint = h /\ questions'[i].text = t
        BY <3>2, <4>1, <4>2 DEF AskQuestion, TypeOK
      <4> QED
        BY <4>5, <4>6
    <3> QED
      BY <3>1, <3>2
  <2> QED
    BY <2>1, <2>2 DEF ReplayIsFaithful
<1> QED
  BY <1>1, <1>2, TypeCorrect, SlotsHoldTheirQuestions, PTL DEF Spec

---------------------------------------------------------------------------
\* The runs that are under way or behind a question have been started.
RunsStarted ==
  /\ \A c \in Calls : Running(c) => call[c].text.run \in DOMAIN runs
  /\ \A r \in Requests : pending[r] # NoClarification =>
       pending[r].text.run \in DOMAIN runs

\* A coroutine that asks a question hands its run over to the slot.
LEMMA AskMovesRun ==
  ASSUME TypeOK, RunInOnePlace, NEW c \in Calls, NEW kind \in Kinds,
         NEW field \in Fields, call[c] \in Coroutines,
         AskQuestion(c, kind, field)
  PROVE  RunInOnePlace'
<1>1. \A d \in Calls : Running(d)' => d # c /\ Running(d) /\ call'[d] = call[d]
  BY DEF AskQuestion, Return, Running, TypeOK
<1>2. Running(c) /\ call[c].request \in Requests
  BY DEF Running, Coroutines, Idle
<1>3. /\ pending'[call[c].request].text = call[c].text
      /\ \A r \in Requests :
           r # call[c].request => pending'[r] = pending[r]
  BY <1>2 DEF AskQuestion, TypeOK
<1> QED
  BY <1>1, <1>2, <1>3 DEF RunInOnePlace, Running

\* A resumed coroutine takes its run out of the slot it was behind.
LEMMA ResumeMovesRun ==
  ASSUME TypeOK, RunInOnePlace, NEW c \in Calls, NEW s \in Session,
         NEW r \in Requests, NEW i \in DOMAIN questions, Resume(c, s, r, i)
  PROVE  RunInOnePlace'
<1>1. pending[r] # NoClarification /\ pending[r].text \in Text
  BY DEF Resume, MayResume, TypeOK, Clarifications
<1>2. /\ \A d \in Calls : d # c => call'[d] = call[d]
      /\ call'[c].text.run = pending[r].text.run
      /\ ~Running(c)
  BY <1>1 DEF Resume, TypeOK, Text
<1>3. /\ pending'[r] = NoClarification
      /\ \A t \in Requests : t # r => pending'[t] = pending[t]
  BY DEF Resume, PopQuestion, TypeOK
<1> QED
  BY <1>1, <1>2, <1>3 DEF RunInOnePlace, Running

\* A doubled resume, a displaced question, a failed model call or a restart
\* never leaves a run both under way and behind a question, nor twice in
\* either (core.py:115 and 135 pop before they await).
THEOREM OnePlacePerRun == Spec => []RunInOnePlace
<1>1. TypeOK /\ SlotHoldsItsQuestion /\ ReplayIsFaithful => RunsStarted
  <2> SUFFICES ASSUME TypeOK, SlotHoldsItsQuestion, ReplayIsFaithful
               PROVE  RunsStarted
    OBVIOUS
  <2>1. \A c \in Calls : Running(c) => call[c].text.run \in DOMAIN runs
    BY DEF ReplayIsFaithful, Descends
  <2>2. \A i \in DOMAIN questions : questions[i].text.run \in DOMAIN runs
    BY DEF ReplayIsFaithful, Descends
  <2>3. ASSUME NEW r \in Requests, pending[r] # NoClarification
        PROVE  pending[r].text = questions[pending[r].interrupt].text
               /\ pending[r].interrupt \in DOMAIN questions
    BY <2>3 DEF SlotHoldsItsQuestion
  <2> QED
    BY <2>1, <2>2, <2>3 DEF RunsStarted
<1>2. Init => RunInOnePlace
  BY DEF Init, RunInOnePlace, Running
<1>3. TypeOK /\ RunsStarted /\ RunInOnePlace /\ [Next]_vars => RunInOnePlace'
  <2> SUFFICES ASSUME TypeOK, RunsStarted, RunInOnePlace, [Next]_vars
               PROVE  RunInOnePlace'
    OBVIOUS
  <2>1. CASE \E c \in Calls, kind \in Kinds, field \in Fields :
               call[c] \in Coroutines /\ AskQuestion(c, kind, field)
    BY <2>1, AskMovesRun
  <2>2. CASE \E c \in Calls, s \in Session, r \in Requests,
               i \in DOMAIN questions : Resume(c, s, r, i)
    BY <2>2, ResumeMovesRun
  <2>3. CASE Restart
    BY <2>3 DEF Restart, RunInOnePlace, Running
  <2>4. CASE Untouched /\ WorkKept
    BY <2>4 DEF Untouched, WorkKept, SameWork, RunInOnePlace
  <2>5. CASE \E c \in Calls, s \in Session, r \in Requests, p \in Prefixes,
               h \in Hints \cup {NoHint} : StartRun(c, s, r, p, h)
    <3>1. PICK c \in Calls, s \in Session, r \in Requests, p \in Prefixes,
               h \in Hints \cup {NoHint} : StartRun(c, s, r, p, h)
      BY <2>5
    <3>2. /\ \A d \in Calls : d # c => call'[d] = call[d]
          /\ call'[c].text.run = Len(runs) + 1
          /\ ~Running(c) /\ pending' = pending
      BY <3>1 DEF StartRun, TypeOK
    <3>3. Len(runs) + 1 \notin DOMAIN runs
      BY DEF TypeOK
    <3> QED
      BY <3>2, <3>3 DEF RunInOnePlace, RunsStarted, Running
  <2> QED
    BY <2>1, <2>2, <2>3, <2>4, <2>5, StepKinds, CallSteps
<1> QED
  BY <1>1, <1>2, <1>3, TypeCorrect, SlotsHoldTheirQuestions, Faithful, PTL
     DEF Spec

---------------------------------------------------------------------------
(* How many questions a run asks.  Rounds alone do not tell: the provision *)
(* workflow starts at round 0 again.  What grows with every question of a  *)
(* run is its turn, over both workflows.                                   *)

\* The turn of a question asked in this round of this workflow: an intake
\* clarified once comes as late as the first provision question, and no run
\* asks both.
Turn(kind, round) == IF kind = "intake" THEN 1 + round ELSE 2 + round

\* The workflow a coroutine awaits, and the turn of the question it may ask.
KindOf(c) == IF call[c].at = "intake_graph" THEN "intake" ELSE "provision"
TurnOf(c) == Turn(KindOf(c), call[c].round)

Rounds == 0..(MaxClarificationRounds - 1)

\* Of the questions qs, those of a run, but for S, came before this turn.
Earlier(qs, run, turn, S) ==
  \A i \in DOMAIN qs \ S :
    qs[i].text.run = run => Turn(qs[i].kind, qs[i].round) < turn

\* Wherever a run is, its turn is later than those of its questions; no two
\* of them have the same turn, and the last round is never answered.
TurnsGrow ==
  /\ \A c \in Calls : Running(c) =>
       /\ call[c].round \in Rounds
       /\ Earlier(questions, call[c].text.run, TurnOf(c), {})
  /\ \A r \in Requests : pending[r] # NoClarification =>
       LET p == pending[r]
       IN p.round \in Rounds
            /\ Earlier(questions, p.text.run, Turn(p.kind, p.round), {p.interrupt})
  /\ \A i \in DOMAIN questions :
       LET q == questions[i]
       IN q.round \in Rounds /\ (q.answeredBy # NoActor => q.round = 0)
  /\ \A i, j \in DOMAIN questions :
       /\ questions[i].text.run = questions[j].text.run
       /\ Turn(questions[i].kind, questions[i].round)
            = Turn(questions[j].kind, questions[j].round)
       => i = j

\* A coroutine that goes on keeps its work, and its turn does not fall.
TurnKept(d) ==
  /\ SameWork(d)
  /\ call[d].round \in Rounds => call'[d].round \in Rounds
  /\ call[d].round \in Rounds => TurnOf(d)' >= TurnOf(d)

TurnsKept ==
  /\ UNCHANGED <<pending, questions>>
  /\ \A d \in Calls : Running(d)' => TurnKept(d)

\* A coroutine in a workflow moves to a later node of it, asks its question
\* or returns.
LEMMA AdvanceTurns ==
  ASSUME TypeOK, NEW c \in Calls, Advance(c)
  PROVE  \/ \E field \in Fields : AskQuestion(c, KindOf(c), field)
         \/ TurnsKept
<1>1. call[c] \in Coroutines /\ Running(c) /\ call[c].round \in Nat
  <2>1. call[c].at # "idle"
    BY DEF Advance, Classify, ResolveScopeNode, SelectProfile,
           ExtractRequest, ModelFails
  <2> QED
    BY <2>1, AtIsCoroutine DEF Idle, Running, Coroutines
<1>2. ASSUME NEW e, Return(c, e), UNCHANGED <<pending, questions>>
      PROVE  TurnsKept
  <2>1. \A d \in Calls : call'[d] = IF d = c THEN Idle ELSE call[d]
    BY <1>2 DEF Return, TypeOK
  <2>2. ASSUME NEW d \in Calls, Running(d)'
        PROVE  call'[d] = call[d] /\ Running(d)
    BY <2>1, <2>2 DEF Running
  <2>3. ASSUME NEW d \in Calls, Running(d)'
        PROVE  TurnKept(d)
    <3>1. call'[d] = call[d] /\ Running(d)
      BY <2>2, <2>3
    <3>2. SameWork(d) /\ TurnOf(d)' = TurnOf(d)
      BY <3>1 DEF SameWork, TurnOf, KindOf
    <3>3. call[d].round \in Rounds => TurnOf(d) \in Nat
      BY DEF TurnOf, Turn, Rounds, MaxClarificationRounds
    <3> QED
      BY <3>1, <3>2, <3>3 DEF TurnKept
  <2> QED
    BY <1>2, <2>3 DEF TurnsKept
\* What going on means, to a node at with a round.
<1>3. ASSUME NEW at, NEW round,
             call' = [call EXCEPT ![c].at = at, ![c].round = round],
             UNCHANGED <<pending, questions>>,
             call[c].round \in Rounds => round \in Rounds,
             call[c].round \in Rounds =>
               Turn(IF at = "intake_graph" THEN "intake" ELSE "provision",
                    round) >= TurnOf(c),
             at # "idle"
      PROVE  TurnsKept
  <2>1. \A d \in Calls : d # c => call'[d] = call[d]
    BY <1>1, <1>3 DEF TypeOK, Coroutines
  <2>2. /\ call'[c].at = at /\ call'[c].round = round
        /\ SameWork(c)
    BY <1>1, <1>3 DEF TypeOK, SameWork, Coroutines
  <2>3. TurnKept(c)
    <3>1. TurnOf(c)' = Turn(IF at = "intake_graph" THEN "intake"
                                                   ELSE "provision", round)
      BY <2>2 DEF TurnOf, KindOf
    <3> QED
      BY <1>3, <2>2, <3>1 DEF TurnKept
  <2>4. ASSUME NEW d \in Calls, d # c, Running(d)'
        PROVE  TurnKept(d)
    <3>1. call'[d] = call[d] /\ Running(d)
      BY <2>1, <2>4 DEF Running
    <3>2. SameWork(d) /\ TurnOf(d)' = TurnOf(d)
      BY <3>1 DEF SameWork, TurnOf, KindOf
    <3>3. call[d].round \in Rounds => TurnOf(d) \in Nat
      BY DEF TurnOf, Turn, Rounds, MaxClarificationRounds
    <3> QED
      BY <3>1, <3>2, <3>3 DEF TurnKept
  <2> QED
    BY <1>3, <2>3, <2>4 DEF TurnsKept
<1>4. ASSUME NEW node \in ProvisionNodes, GoTo(c, node),
             call[c].at \in ProvisionNodes
      PROVE  TurnsKept
  <2>1. call' = [call EXCEPT ![c].at = node, ![c].round = call[c].round]
    BY <1>1, <1>4 DEF GoTo, TypeOK, Coroutines
  <2>2. KindOf(c) = "provision" /\ node \notin {"intake_graph", "idle"}
    BY <1>4 DEF KindOf, ProvisionNodes
  <2>3. Turn("provision", call[c].round) >= TurnOf(c)
    BY <1>1, <2>2 DEF TurnOf, Turn
  <2> QED
    BY <1>3, <1>4, <2>1, <2>2, <2>3 DEF GoTo
<1>5. ASSUME Classify(c)
      PROVE  \/ AskQuestion(c, "intake", "intent")
             \/ TurnsKept
  <2>1. ASSUME call' = [call EXCEPT ![c].at = "resolve_scope",
                                    ![c].round = 0],
               UNCHANGED <<pending, questions>>
        PROVE  TurnsKept
    <3>1. KindOf(c) = "intake"
      BY <1>5 DEF Classify, KindOf
    <3>2. call[c].round \in Rounds => Turn("provision", 0) >= TurnOf(c)
      BY <3>1 DEF TurnOf, Turn, Rounds, MaxClarificationRounds
    <3>3. 0 \in Rounds
      BY DEF Rounds, MaxClarificationRounds
    <3> QED
      BY <1>3, <2>1, <3>2, <3>3
  <2> QED
    BY <1>2, <1>5, <2>1 DEF Classify, ReportRoute
<1>6. CASE Classify(c)
  <2>1. KindOf(c) = "intake"
    BY <1>6 DEF Classify, KindOf
  <2> QED
    BY <1>5, <1>6, <2>1 DEF Fields
<1>7. CASE ResolveScopeNode(c)
  <2>1. KindOf(c) = "provision" /\ call[c].at \in ProvisionNodes
    BY <1>7 DEF ResolveScopeNode, KindOf, ProvisionNodes
  <2> QED
    BY <1>2, <1>4, <1>7, <2>1
       DEF ResolveScopeNode, ReportRoute, ProvisionNodes, Fields
<1>8. CASE SelectProfile(c)
  <2>1. KindOf(c) = "provision" /\ call[c].at \in ProvisionNodes
    BY <1>8 DEF SelectProfile, KindOf, ProvisionNodes
  <2> QED
    BY <1>4, <1>8, <2>1 DEF SelectProfile, ProvisionNodes, Fields
<1>9. CASE ExtractRequest(c)
  <2>1. KindOf(c) = "provision"
    BY <1>9 DEF ExtractRequest, KindOf
  <2> QED
    BY <1>2, <1>9, <2>1 DEF ExtractRequest, ReportRoute, Fields
<1>10. CASE ModelFails(c)
  BY <1>2, <1>10 DEF ModelFails
<1> QED
  BY <1>6, <1>7, <1>8, <1>9, <1>10 DEF Advance

\* As far as turns go a step starts a run, resumes one, asks the question of
\* a coroutine, forgets everything or lets coroutines go on.
LEMMA TurnSteps ==
  ASSUME TypeOK, [Next]_vars
  PROVE  \/ \E c \in Calls, s \in Session, r \in Requests, p \in Prefixes,
                h \in Hints \cup {NoHint} : StartRun(c, s, r, p, h)
         \/ \E c \in Calls, s \in Session, r \in Requests,
                i \in DOMAIN questions : Resume(c, s, r, i)
         \/ \E c \in Calls, field \in Fields :
                call[c] \in Coroutines /\ AskQuestion(c, KindOf(c), field)
         \/ Restart
         \/ TurnsKept
<1>1. ASSUME call' = call, UNCHANGED <<pending, questions>>
      PROVE  TurnsKept
  <2>1. ASSUME NEW d \in Calls, Running(d)'
        PROVE  TurnKept(d)
    <3>1. call'[d] = call[d] /\ Running(d)
      BY <1>1, <2>1 DEF Running
    <3>2. SameWork(d) /\ TurnOf(d)' = TurnOf(d)
      BY <3>1 DEF SameWork, TurnOf, KindOf
    <3>3. call[d].round \in Rounds => TurnOf(d) \in Nat
      BY DEF TurnOf, Turn, Rounds, MaxClarificationRounds
    <3> QED
      BY <3>1, <3>2, <3>3 DEF TurnKept
  <2> QED
    BY <1>1, <2>1 DEF TurnsKept
<1>2. ASSUME NEW c \in Calls, Reject(c) PROVE TurnsKept
  BY <1>1, <1>2 DEF Reject
<1>3. CASE UNCHANGED vars
  BY <1>1, <1>3 DEF vars
<1>4. ASSUME NEW c \in Calls, Advance(c)
      PROVE  \/ TurnsKept
             \/ \E field \in Fields :
                  call[c] \in Coroutines /\ AskQuestion(c, KindOf(c), field)
  <2>1. call[c].at # "idle"
    BY <1>4 DEF Advance, Classify, ResolveScopeNode, SelectProfile,
                ExtractRequest, ModelFails
  <2> QED
    BY <1>4, <2>1, AdvanceTurns, AtIsCoroutine
<1> QED
  BY <1>2, <1>3, <1>4 DEF Next, Invoke

\* The types behind a turn.
LEMMA TurnTypes ==
  /\ \A kind \in Kinds, round \in Rounds : Turn(kind, round) \in 1..3
  /\ \A kind \in Kinds : Turn(kind, 0) \in 1..2
  /\ \A kind \in Kinds, round \in Nat :
       Turn(kind, round + 1) = Turn(kind, round) + 1
  BY DEF Turn, Kinds, Rounds, MaxClarificationRounds

LEMMA QuestionTurn ==
  ASSUME TypeOK, TurnsGrow, NEW i \in DOMAIN questions
  PROVE  /\ questions[i].kind \in Kinds /\ questions[i].round \in Rounds
         /\ Turn(questions[i].kind, questions[i].round) \in 1..3
<1>1. questions[i] \in Questions
  BY DEF TypeOK
<1>2. questions[i].kind \in Kinds
  BY <1>1 DEF Questions
<1>3. questions[i].round \in Rounds
  BY DEF TurnsGrow
<1> QED
  BY <1>2, <1>3, TurnTypes

\* When coroutines go on, questions and slots are what they were.
LEMMA GoingOnKeepsTurns ==
  ASSUME TypeOK, TurnsGrow, TurnsKept
  PROVE  TurnsGrow'
<1>1. ASSUME NEW d \in Calls, Running(d)'
      PROVE  /\ call'[d].round \in Rounds
             /\ Earlier(questions', call'[d].text.run, TurnOf(d)', {})
  <2>1. /\ Running(d) /\ call'[d].text = call[d].text
        /\ call[d].round \in Rounds => call'[d].round \in Rounds
        /\ call[d].round \in Rounds => TurnOf(d)' >= TurnOf(d)
    BY <1>1 DEF TurnsKept, TurnKept, SameWork
  <2>2. /\ call[d].round \in Rounds
        /\ Earlier(questions, call[d].text.run, TurnOf(d), {})
    BY <2>1 DEF TurnsGrow
  <2>3. TurnOf(d) \in Nat /\ TurnOf(d)' \in Nat
    BY <2>1, <2>2 DEF TurnOf, Turn, Rounds, MaxClarificationRounds
  <2>4. questions' = questions
    BY DEF TurnsKept
  <2>5. ASSUME NEW i \in DOMAIN questions,
               questions[i].text.run = call[d].text.run
        PROVE  Turn(questions[i].kind, questions[i].round) < TurnOf(d)'
    <3>1. Turn(questions[i].kind, questions[i].round) < TurnOf(d)
      BY <2>2, <2>5 DEF Earlier
    <3>2. Turn(questions[i].kind, questions[i].round) \in 1..3
      BY QuestionTurn
    <3> QED
      BY <2>1, <2>2, <2>3, <3>1, <3>2
  <2> QED
    BY <2>1, <2>2, <2>4, <2>5 DEF Earlier
<1> QED
  BY <1>1 DEF TurnsGrow, TurnsKept, Earlier

\* A question is asked: it is the last of its run, and the run waits behind
\* it.
LEMMA AskingKeepsTurns ==
  ASSUME TypeOK, RunInOnePlace, TurnsGrow, NEW c \in Calls,
         NEW field \in Fields, call[c] \in Coroutines,
         AskQuestion(c, KindOf(c), field)
  PROVE  TurnsGrow'
<1> DEFINE me == call[c]
           id == Len(questions) + 1
           kind == KindOf(c)
<1>1. /\ Running(c) /\ me.request \in Requests /\ me.round \in Rounds
      /\ kind \in Kinds
      /\ Earlier(questions, me.text.run, Turn(kind, me.round), {})
  BY DEF Running, Coroutines, Idle, TurnsGrow, TurnOf, KindOf, Kinds
<1>2. /\ DOMAIN questions' = DOMAIN questions \cup {id}
      /\ id \notin DOMAIN questions
      /\ \A i \in DOMAIN questions : questions'[i] = questions[i]
      /\ questions'[id].text = me.text /\ questions'[id].round = me.round
      /\ questions'[id].kind = kind /\ questions'[id].answeredBy = NoActor
  BY DEF AskQuestion, TypeOK
<1>3. /\ pending'[me.request].text = me.text
      /\ pending'[me.request].kind = kind
      /\ pending'[me.request].round = me.round
      /\ pending'[me.request].interrupt = id
      /\ \A r \in Requests : r # me.request => pending'[r] = pending[r]
  BY <1>1 DEF AskQuestion, TypeOK
<1>4. ASSUME NEW d \in Calls, Running(d)'
      PROVE  d # c /\ Running(d) /\ call'[d] = call[d]
  BY <1>4 DEF AskQuestion, Return, Running, TypeOK
<1> HIDE DEF me, id, kind
\* What was earlier in another run still is: the new question is not in it.
<1>5. ASSUME NEW run, NEW turn, NEW S, Earlier(questions, run, turn, S),
             run # me.text.run
      PROVE  Earlier(questions', run, turn, S)
  BY <1>2, <1>5 DEF Earlier
<1>6. ASSUME NEW d \in Calls, Running(d)'
      PROVE  /\ call'[d].round \in Rounds
             /\ Earlier(questions', call'[d].text.run, TurnOf(d)', {})
  <2>1. d # c /\ Running(d) /\ call'[d] = call[d]
    BY <1>4, <1>6
  <2>2. call[d].text.run # me.text.run
    BY <1>1, <2>1 DEF RunInOnePlace, me
  <2>3. PICK run, turn : run = call[d].text.run /\ turn = TurnOf(d)
    OBVIOUS
  <2>4. call[d].round \in Rounds /\ Earlier(questions, run, turn, {})
    BY <2>1, <2>3 DEF TurnsGrow
  <2>5. Earlier(questions', run, turn, {})
    BY <1>5, <2>2, <2>3, <2>4
  <2>6. call'[d].text.run = run /\ TurnOf(d)' = turn
    BY <2>1, <2>3 DEF TurnOf, KindOf
  <2> QED
    BY <2>1, <2>4, <2>5, <2>6 DEF Earlier
<1>7. ASSUME NEW r \in Requests, pending'[r] # NoClarification
      PROVE  LET p == pending'[r]
             IN p.round \in Rounds
                  /\ Earlier(questions', p.text.run, Turn(p.kind, p.round),
                             {p.interrupt})
  <2>1. CASE r = me.request
    <3>1. Earlier(questions', me.text.run, Turn(kind, me.round), {id})
      BY <1>1, <1>2 DEF Earlier, me
    <3> QED
      BY <1>1, <1>3, <2>1, <3>1 DEF Earlier, me
  <2>2. CASE r # me.request
    <3>1. pending'[r] = pending[r] /\ pending[r] # NoClarification
      BY <1>3, <1>7, <2>2
    <3>2. pending[r].text.run # me.text.run
      BY <1>1, <3>1 DEF RunInOnePlace, me
    <3>3. PICK run, turn, S :
            /\ run = pending[r].text.run
            /\ turn = Turn(pending[r].kind, pending[r].round)
            /\ S = {pending[r].interrupt}
      OBVIOUS
    <3>4. pending[r].round \in Rounds /\ Earlier(questions, run, turn, S)
      BY <3>1, <3>3 DEF TurnsGrow
    <3>5. Earlier(questions', run, turn, S)
      BY <1>5, <3>2, <3>3, <3>4
    <3> QED
      BY <3>1, <3>3, <3>4, <3>5 DEF Earlier
  <2> QED
    BY <2>1, <2>2
<1>8. ASSUME NEW i \in DOMAIN questions'
      PROVE  /\ questions'[i].round \in Rounds
             /\ questions'[i].answeredBy # NoActor => questions'[i].round = 0
  BY <1>1, <1>2 DEF TurnsGrow, me
<1>9. ASSUME NEW i \in DOMAIN questions', NEW j \in DOMAIN questions',
             questions'[i].text.run = questions'[j].text.run,
             Turn(questions'[i].kind, questions'[i].round)
               = Turn(questions'[j].kind, questions'[j].round)
      PROVE  i = j
  \* The turns of the earlier questions of the run differ from the new one.
  <2>1. ASSUME NEW k \in DOMAIN questions,
               questions[k].text.run = me.text.run
        PROVE  Turn(questions[k].kind, questions[k].round)
                 # Turn(kind, me.round)
    <3>1. /\ Turn(questions[k].kind, questions[k].round) < Turn(kind, me.round)
          /\ Turn(questions[k].kind, questions[k].round) \in 1..3
          /\ Turn(kind, me.round) \in 1..3
      BY <1>1, <2>1, QuestionTurn, TurnTypes DEF Earlier
    <3> QED
      BY <3>1
  <2>2. CASE i = id /\ j # id
    BY <1>2, <1>9, <2>1, <2>2
  <2>3. CASE i # id /\ j = id
    BY <1>2, <1>9, <2>1, <2>3
  <2>4. CASE i # id /\ j # id
    BY <1>2, <1>9, <2>4 DEF TurnsGrow
  <2> QED
    BY <2>2, <2>3, <2>4
<1> QED
  BY <1>6, <1>7, <1>8, <1>9 DEF TurnsGrow, Earlier

\* A question is answered: its run goes on with the next turn.
LEMMA ResumingKeepsTurns ==
  ASSUME TypeOK, SlotHoldsItsQuestion, RunInOnePlace, TurnsGrow,
         NEW c \in Calls, NEW s \in Session, NEW r \in Requests,
         NEW id \in DOMAIN questions, Resume(c, s, r, id)
  PROVE  TurnsGrow'
<1> DEFINE p == pending[r]
<1>1. /\ p # NoClarification /\ p.interrupt = id
      /\ p.round + 1 < MaxClarificationRounds
      /\ ~Running(c)
  BY DEF Resume, PopQuestion, MayResume
<1>2. /\ p.kind \in Kinds /\ p.text \in Text
      /\ p.round = 0 /\ p.round + 1 \in Rounds
      /\ Earlier(questions, p.text.run, Turn(p.kind, 0), {id})
  <2>1. p \in Clarifications
    BY <1>1 DEF TypeOK
  <2>2. p.round \in Rounds
        /\ Earlier(questions, p.text.run, Turn(p.kind, p.round), {id})
    BY <1>1 DEF TurnsGrow
  <2>3. p.round = 0 /\ p.round + 1 \in Rounds
    BY <1>1, <2>2 DEF Rounds, MaxClarificationRounds
  <2> QED
    BY <2>1, <2>2, <2>3 DEF Clarifications
<1>3. /\ questions[id].kind = p.kind /\ questions[id].round = p.round
      /\ questions[id].text = p.text
  BY <1>1 DEF SlotHoldsItsQuestion
<1>4. /\ DOMAIN questions' = DOMAIN questions
      /\ \A i \in DOMAIN questions :
           /\ questions'[i].text = questions[i].text
           /\ questions'[i].kind = questions[i].kind
           /\ questions'[i].round = questions[i].round
           /\ i # id => questions'[i] = questions[i]
  <2>1. questions' = [questions EXCEPT ![id].answeredBy = s.user]
    BY DEF Resume, PopQuestion
  <2>2. \A i \in DOMAIN questions : questions[i] \in Questions
    BY DEF TypeOK
  <2> QED
    BY <2>1, <2>2 DEF Questions
<1>5. /\ call'[c].round = p.round + 1
      /\ call'[c].text.run = p.text.run
      /\ KindOf(c)' = p.kind
      /\ \A d \in Calls : d # c => call'[d] = call[d]
  BY <1>2 DEF Resume, TypeOK, KindOf, Text, Kinds
<1>6. /\ pending'[r] = NoClarification
      /\ \A t \in Requests : t # r => pending'[t] = pending[t]
  BY DEF Resume, PopQuestion, TypeOK
<1> HIDE DEF p
\* Answering moves no question of any run.
<1>7. ASSUME NEW run, NEW turn, NEW S, Earlier(questions, run, turn, S)
      PROVE  Earlier(questions', run, turn, S)
  BY <1>4, <1>7 DEF Earlier
<1>8. ASSUME NEW d \in Calls, Running(d)'
      PROVE  /\ call'[d].round \in Rounds
             /\ Earlier(questions', call'[d].text.run, TurnOf(d)', {})
  <2>1. CASE d = c
    <3>1. TurnOf(c)' = Turn(p.kind, 0) + 1
      BY <1>2, <1>5, TurnTypes DEF TurnOf
    <3>2. Turn(p.kind, 0) \in Nat
      BY <1>2, TurnTypes
    <3>3. ASSUME NEW i \in DOMAIN questions,
                 questions[i].text.run = p.text.run
          PROVE  Turn(questions[i].kind, questions[i].round)
                   < Turn(p.kind, 0) + 1
      <4>1. CASE i = id
        BY <1>2, <1>3, <3>2, <4>1
      <4>2. CASE i # id
        <5>1. Turn(questions[i].kind, questions[i].round) < Turn(p.kind, 0)
          BY <1>2, <3>3, <4>2 DEF Earlier
        <5>2. Turn(questions[i].kind, questions[i].round) \in 1..3
          BY QuestionTurn
        <5> QED
          BY <3>2, <5>1, <5>2
      <4> QED
        BY <4>1, <4>2
    <3> QED
      BY <1>2, <1>4, <1>5, <2>1, <3>1, <3>3 DEF Earlier
  <2>2. CASE d # c
    <3>1. call'[d] = call[d] /\ Running(d)
      BY <1>5, <1>8, <2>2 DEF Running
    <3>2. PICK run, turn : run = call[d].text.run /\ turn = TurnOf(d)
      OBVIOUS
    <3>3. call[d].round \in Rounds /\ Earlier(questions, run, turn, {})
      BY <3>1, <3>2 DEF TurnsGrow
    <3>4. Earlier(questions', run, turn, {})
      BY <1>7, <3>3
    <3>5. call'[d].text.run = run /\ TurnOf(d)' = turn
      BY <3>1, <3>2 DEF TurnOf, KindOf
    <3> QED
      BY <3>1, <3>3, <3>4, <3>5 DEF Earlier
  <2> QED
    BY <2>1, <2>2
<1>9. ASSUME NEW t \in Requests, pending'[t] # NoClarification
      PROVE  LET q == pending'[t]
             IN q.round \in Rounds
                  /\ Earlier(questions', q.text.run, Turn(q.kind, q.round),
                             {q.interrupt})
  <2>1. pending'[t] = pending[t] /\ pending[t] # NoClarification
    BY <1>6, <1>9
  <2>2. PICK run, turn, S :
          /\ run = pending[t].text.run
          /\ turn = Turn(pending[t].kind, pending[t].round)
          /\ S = {pending[t].interrupt}
    OBVIOUS
  <2>3. pending[t].round \in Rounds /\ Earlier(questions, run, turn, S)
    BY <2>1, <2>2 DEF TurnsGrow
  <2>4. Earlier(questions', run, turn, S)
    BY <1>7, <2>3
  <2> QED
    BY <2>1, <2>2, <2>3, <2>4 DEF Earlier
<1>10. ASSUME NEW i \in DOMAIN questions'
       PROVE  /\ questions'[i].round \in Rounds
              /\ questions'[i].answeredBy # NoActor => questions'[i].round = 0
  BY <1>2, <1>3, <1>4 DEF TurnsGrow
<1>11. ASSUME NEW i \in DOMAIN questions', NEW j \in DOMAIN questions',
              questions'[i].text.run = questions'[j].text.run,
              Turn(questions'[i].kind, questions'[i].round)
                = Turn(questions'[j].kind, questions'[j].round)
       PROVE  i = j
  BY <1>4, <1>11 DEF TurnsGrow
<1> QED
  BY <1>8, <1>9, <1>10, <1>11 DEF TurnsGrow, Earlier

\* Turns tell the questions of a run apart, and there are only so many.
LEMMA TurnsBound ==
  ASSUME TypeOK, TurnsGrow
  PROVE  QuestionsBounded
<1> SUFFICES ASSUME NEW k \in DOMAIN runs
             PROVE  LET asked == {i \in DOMAIN questions :
                                    questions[i].text.run = k}
                    IN /\ Cardinality(asked) <= MaxClarificationRounds + 1
                       /\ Cardinality({i \in asked :
                                         questions[i].answeredBy # NoActor})
                            <= MaxClarificationRounds
  BY DEF QuestionsBounded
<1> DEFINE asked == {i \in DOMAIN questions : questions[i].text.run = k}
           answered == {i \in asked : questions[i].answeredBy # NoActor}
           turn(i) == Turn(questions[i].kind, questions[i].round)
<1>1. ASSUME NEW S \in SUBSET asked, NEW n \in Nat,
             \A i \in S : turn(i) \in 1..n
      PROVE  Cardinality(S) <= n
  <2> DEFINE f == [i \in S |-> turn(i)]
  <2>1. \A i, j \in S : turn(i) = turn(j) => i = j
    BY DEF TurnsGrow
  <2>2. f \in Injection(S, 1..n)
    <3>1. f \in [S -> 1..n] /\ \A i, j \in S : f[i] = f[j] => i = j
      BY <1>1, <2>1
    <3> HIDE DEF f
    <3> QED
      BY <3>1 DEF Injection, IsInjective
  <2>3. IsFiniteSet(1..n) /\ Cardinality(1..n) = n
    BY FS_Interval
  <2>4. Cardinality(S) <= Cardinality(1..n)
    BY <2>2, <2>3, FS_Injection
  <2> QED
    BY <2>3, <2>4
<1>2. \A i \in asked : turn(i) \in 1..3
  BY QuestionTurn
<1>3. \A i \in answered : turn(i) \in 1..2
  <2>1. ASSUME NEW i \in answered PROVE turn(i) \in 1..2
    <3>1. questions[i].kind \in Kinds
      BY <2>1, QuestionTurn
    <3>2. questions[i].round = 0
      BY <2>1 DEF TurnsGrow
    <3> QED
      BY <3>1, <3>2, TurnTypes
  <2> QED
    BY <2>1
<1>4. asked \in SUBSET asked /\ answered \in SUBSET asked
  OBVIOUS
<1>5. Cardinality(asked) <= 3 /\ Cardinality(answered) <= 2
  <2> HIDE DEF asked, answered, turn
  <2> QED
    BY <1>1, <1>2, <1>3, <1>4
<1> QED
  BY <1>5 DEF MaxClarificationRounds

\* A run asks at most three questions and has at most two of them answered,
\* over its two workflows and any number of resumes, failed calls and
\* restarts: each workflow counts its rounds from 0, and the cap of
\* core.py:43 still holds for both together.
THEOREM QuestionsAreBounded == Spec => []QuestionsBounded
<1>1. Init => TurnsGrow
  BY DEF Init, TurnsGrow, Running
<1>2. TypeOK /\ SlotHoldsItsQuestion /\ ReplayIsFaithful /\ RunInOnePlace
        /\ TurnsGrow /\ [Next]_vars => TurnsGrow'
  <2> SUFFICES ASSUME TypeOK, SlotHoldsItsQuestion, ReplayIsFaithful,
                      RunInOnePlace, TurnsGrow, [Next]_vars
               PROVE  TurnsGrow'
    OBVIOUS
  \* A run that starts has asked nothing yet.
  <2>1. ASSUME NEW c \in Calls, NEW s \in Session, NEW r \in Requests,
               NEW p \in Prefixes, NEW h \in Hints \cup {NoHint},
               StartRun(c, s, r, p, h)
        PROVE  TurnsGrow'
    <3>1. /\ call'[c].text.run = Len(runs) + 1 /\ call'[c].round = 0
          /\ \A d \in Calls : d # c => call'[d] = call[d]
          /\ UNCHANGED <<pending, questions>>
      BY <2>1 DEF StartRun, TypeOK
    <3>2. \A i \in DOMAIN questions : questions[i].text.run # Len(runs) + 1
      <4>1. \A i \in DOMAIN questions : questions[i].text.run \in DOMAIN runs
        BY DEF ReplayIsFaithful, Descends
      <4> QED
        BY <4>1 DEF TypeOK
    <3>3. 0 \in Rounds
      BY DEF Rounds, MaxClarificationRounds
    <3>4. ASSUME NEW d \in Calls, Running(d)'
          PROVE  /\ call'[d].round \in Rounds
                 /\ Earlier(questions', call'[d].text.run, TurnOf(d)', {})
      <4>1. CASE d = c
        BY <3>1, <3>2, <3>3, <4>1 DEF Earlier
      <4>2. CASE d # c
        <5>1. call'[d] = call[d] /\ Running(d)
          BY <3>1, <3>4, <4>2 DEF Running
        <5>2. TurnOf(d)' = TurnOf(d)
          BY <5>1 DEF TurnOf, KindOf
        <5> QED
          BY <3>1, <5>1, <5>2 DEF TurnsGrow
      <4> QED
        BY <4>1, <4>2
    <3> QED
      BY <3>1, <3>4 DEF TurnsGrow
  <2>2. CASE \E c \in Calls, s \in Session, r \in Requests,
               i \in DOMAIN questions : Resume(c, s, r, i)
    BY <2>2, ResumingKeepsTurns
  <2>3. CASE \E c \in Calls, field \in Fields :
               call[c] \in Coroutines /\ AskQuestion(c, KindOf(c), field)
    BY <2>3, AskingKeepsTurns
  <2>4. CASE Restart
    BY <2>4 DEF Restart, TurnsGrow, Running
  <2>5. CASE TurnsKept
    BY <2>5, GoingOnKeepsTurns
  <2> QED
    BY <2>1, <2>2, <2>3, <2>4, <2>5, TurnSteps
<1> QED
  BY <1>1, <1>2, TurnsBound, TypeCorrect, SlotsHoldTheirQuestions, Faithful,
     OnePlacePerRun, PTL DEF Spec

---------------------------------------------------------------------------
(* The policy Harness extends: AccessPolicy, for every set of grants,     *)
(* policy entries and every scope.                                         *)

\* How specific an entry is, is a small number.
LEMMA SpecificityType ==
  ASSUME NEW s
  PROVE  Specificity(s) \in 0..2
<1> DEFINE parts == {"project", "workspace"}
           named == {part \in parts : s[part] # Wildcard}
<1>1. IsFiniteSet(parts) /\ Cardinality(parts) = 2
  <2>1. IsFiniteSet({"project"}) /\ Cardinality({"project"}) = 1
    BY FS_Singleton
  <2>2. parts = {"project"} \cup {"workspace"} /\ "workspace" \notin {"project"}
    OBVIOUS
  <2> QED
    BY <2>1, <2>2, FS_AddElement
<1>2. IsFiniteSet(named) /\ Cardinality(named) <= Cardinality(parts)
  BY <1>1, FS_Subset
<1>3. Cardinality(named) \in Nat
  BY <1>2, FS_CardinalityType
<1> QED
  BY <1>1, <1>2, <1>3 DEF Specificity

\* A set of capabilities has a lowest member.
LEMMA LowestExists ==
  ASSUME NEW S \in SUBSET (0..6), S # {}
  PROVE  \E k \in S : \A j \in S : k <= j
<1> SUFFICES ASSUME \A k \in S : \E j \in S : ~(k <= j) PROVE FALSE
  OBVIOUS
<1>0. \A k \in S : k \in 0..6 /\ \E j \in S : j \in 0..6 /\ j < k
  OBVIOUS
<1>1. 0 \notin S
  BY <1>0
<1>2. 1 \notin S
  BY <1>0, <1>1
<1>3. 2 \notin S
  BY <1>0, <1>1, <1>2
<1>4. 3 \notin S
  BY <1>0, <1>1, <1>2, <1>3
<1>5. 4 \notin S /\ 5 \notin S /\ 6 \notin S
  <2>1. 4 \notin S
    BY <1>0, <1>1, <1>2, <1>3, <1>4
  <2>2. 5 \notin S
    BY <1>0, <1>1, <1>2, <1>3, <1>4, <2>1
  <2>3. 6 \notin S
    BY <1>0, <1>1, <1>2, <1>3, <1>4, <2>1, <2>2
  <2> QED
    BY <2>1, <2>2, <2>3
<1>6. PICK k \in S : k \in 0..6
  OBVIOUS
<1> QED
  BY <1>1, <1>2, <1>3, <1>4, <1>5, <1>6

\* A set of degrees of specificity has a highest member.
LEMMA HighestExists ==
  ASSUME NEW S \in SUBSET (0..2), S # {}
  PROVE  \E k \in S : \A j \in S : j <= k
<1>1. CASE 2 \in S
  BY <1>1
<1>2. CASE 2 \notin S /\ 1 \in S
  BY <1>2
<1>3. CASE 2 \notin S /\ 1 \notin S
  <2>1. \A j \in S : j = 0
    BY <1>3
  <2>2. PICK k \in S : TRUE
    OBVIOUS
  <2> QED
    BY <2>1, <2>2
<1> QED
  BY <1>1, <1>2, <1>3

\* Some of the entries that match are the most specific ones.
LEMMA MostSpecificExists ==
  ASSUME NEW scope, NEW entries, NEW e \in entries,
         ScopeMatches(e.scope, scope)
  PROVE  MostSpecific(scope, entries) # {}
<1> DEFINE matches == {f \in entries : ScopeMatches(f.scope, scope)}
           degrees == {Specificity(f.scope) : f \in matches}
<1>1. degrees \in SUBSET (0..2) /\ degrees # {}
  BY SpecificityType
<1> HIDE DEF degrees
<1>2. PICK k \in degrees : \A j \in degrees : j <= k
  BY <1>1, HighestExists
<1>3. PICK f \in matches : k = Specificity(f.scope)
  BY <1>2 DEF degrees
<1>4. \A g \in matches : Specificity(g.scope) <= Specificity(f.scope)
  BY <1>2, <1>3 DEF degrees
<1> QED
  BY <1>3, <1>4 DEF MostSpecific

\* The capability of an actor is the lowest of the tied grants.
LEMMA ExecutionCapability ==
  ASSUME NEW scope, NEW grants, \A g \in grants : g.capability \in Capabilities
  PROVE  LET k == ResolveExecutionCapability(scope, grants)
         IN /\ k \in Capabilities
            /\ \A g \in MostSpecific(scope, grants) : k <= g.capability
            /\ MostSpecific(scope, grants) = {} => k = CapNone
<1> DEFINE tied == MostSpecific(scope, grants)
           held == {g.capability : g \in tied}
<1>1. tied \subseteq grants
  BY DEF MostSpecific
<1>2. CASE tied = {}
  BY <1>2 DEF ResolveExecutionCapability, LowestCapability, Capabilities, CapNone
<1>3. CASE tied # {}
  <2>1. held \in SUBSET (0..6) /\ held # {}
    BY <1>1, <1>3 DEF Capabilities
  <2>2. \E k \in held : \A g \in tied : k <= g.capability
    <3>1. PICK k \in held : \A j \in held : k <= j
      BY <2>1, LowestExists
    <3> QED
      BY <3>1
  <2>3. ResolveExecutionCapability(scope, grants) =
          CHOOSE k \in held : \A g \in tied : k <= g.capability
    BY <1>3 DEF ResolveExecutionCapability, LowestCapability
  <2> QED
    BY <1>3, <2>1, <2>2, <2>3 DEF Capabilities
<1> QED
  BY <1>2, <1>3

\* A ceiling, unless its entries disagree, is the one all tied entries have.
LEMMA CeilingResolved ==
  ASSUME NEW scope, NEW intent, NEW entries,
         \A e \in entries : e.ceiling \in Capabilities,
         ResolveCeiling(scope, intent, entries) # Ambiguous
  PROVE  LET k == ResolveCeiling(scope, intent, entries)
         IN /\ k \in Capabilities
            /\ \A e \in CeilingsOf(scope, intent, entries) : k = e.ceiling
            /\ CeilingsOf(scope, intent, entries) = {} => k = CapNone
<1> DEFINE tied == CeilingsOf(scope, intent, entries)
           ceilings == {e.ceiling : e \in tied}
<1>1. tied \subseteq entries
  BY DEF CeilingsOf, MostSpecific
<1>2. CASE tied = {}
  BY <1>2 DEF ResolveCeiling, Capabilities, CapNone
<1>3. CASE tied # {}
  <2>1. ceilings \subseteq Capabilities /\ ceilings # {}
    BY <1>1, <1>3
  <2> HIDE DEF tied
  <2>2. /\ ~\E k, l \in ceilings : k # l
        /\ ResolveCeiling(scope, intent, entries) =
             CHOOSE k \in ceilings : TRUE
    BY <2>1 DEF ResolveCeiling, tied
  <2>3. (CHOOSE k \in ceilings : TRUE) \in ceilings
    BY <2>1
  <2> QED
    BY <1>3, <2>1, <2>2, <2>3 DEF tied
<1> QED
  BY <1>2, <1>3

\* effective_access never exceeds what any of the best matching grants gives
\* nor the ceiling of the best matching policy entries, and is nothing when
\* either side has no match: deny by default in both halves.
THEOREM EffectiveAccessIsBounded ==
  ASSUME NEW scope, NEW intent, NEW grants, NEW entries,
         \A g \in grants : g.capability \in Capabilities,
         \A e \in entries : e.ceiling \in Capabilities,
         EffectiveAccess(scope, intent, grants, entries) # Ambiguous
  PROVE  LET k == EffectiveAccess(scope, intent, grants, entries)
         IN /\ k \in Capabilities
            /\ \A g \in MostSpecific(scope, grants) : k <= g.capability
            /\ \A e \in CeilingsOf(scope, intent, entries) : k <= e.ceiling
            /\ \/ MostSpecific(scope, grants) = {}
               \/ CeilingsOf(scope, intent, entries) = {}
               => k = CapNone
<1> DEFINE grant   == ResolveExecutionCapability(scope, grants)
           ceiling == ResolveCeiling(scope, intent, entries)
<1>1. /\ grant \in Capabilities
      /\ \A g \in MostSpecific(scope, grants) : grant <= g.capability
      /\ MostSpecific(scope, grants) = {} => grant = CapNone
  BY ExecutionCapability
<1>2. ceiling # Ambiguous
  BY DEF EffectiveAccess
<1>3. /\ ceiling \in Capabilities
      /\ \A e \in CeilingsOf(scope, intent, entries) : ceiling = e.ceiling
      /\ CeilingsOf(scope, intent, entries) = {} => ceiling = CapNone
  BY <1>2, CeilingResolved
<1>4. EffectiveAccess(scope, intent, grants, entries) =
        IF grant <= ceiling THEN grant ELSE ceiling
  BY <1>2 DEF EffectiveAccess
<1>5. /\ MostSpecific(scope, grants) \subseteq grants
      /\ CeilingsOf(scope, intent, entries) \subseteq entries
  BY DEF MostSpecific, CeilingsOf
<1> HIDE DEF grant, ceiling
<1> QED
  BY <1>1, <1>3, <1>4, <1>5 DEF Capabilities, CapNone

\* A broader grant never leaks into a scope for which there is a more
\* specific one, whatever capability it carries (the module docstring of
\* gateway/policy/ceiling.py).
THEOREM BroaderGrantAddsNothing ==
  ASSUME NEW scope, NEW grants, NEW broad, NEW g \in grants,
         ScopeMatches(g.scope, scope),
         Specificity(broad.scope) < Specificity(g.scope)
  PROVE  ResolveExecutionCapability(scope, grants \cup {broad})
           = ResolveExecutionCapability(scope, grants)
<1>1. \A f : Specificity(f) \in 0..2
  BY SpecificityType
<1>2. MostSpecific(scope, grants \cup {broad}) \subseteq
        MostSpecific(scope, grants)
  BY <1>1 DEF MostSpecific
<1>3. MostSpecific(scope, grants) \subseteq
        MostSpecific(scope, grants \cup {broad})
  <2> SUFFICES ASSUME NEW e \in MostSpecific(scope, grants)
               PROVE  e \in MostSpecific(scope, grants \cup {broad})
    OBVIOUS
  <2>1. Specificity(g.scope) <= Specificity(e.scope)
    BY DEF MostSpecific
  <2>2. Specificity(broad.scope) <= Specificity(e.scope)
    BY <1>1, <2>1
  <2> QED
    BY <2>2 DEF MostSpecific
<1>4. MostSpecific(scope, grants \cup {broad}) = MostSpecific(scope, grants)
  BY <1>2, <1>3
<1> QED
  BY <1>4 DEF ResolveExecutionCapability
=============================================================================
