---------------------------- MODULE ThreadClient ----------------------------
(***************************************************************************)
(* The browser's threads (frontend/src/lib/agui.ts, threadManager.ts) in   *)
(* front of POST /runs and POST /commands (transports/http.py).  Each      *)
(* thread keeps the interrupt it believes to be open; the server keeps the *)
(* one that is.  The two agree through responses that may be lost while    *)
(* the server goes on working, and across restarts of the server.          *)
(*                                                                         *)
(* The harness behind the endpoint is reduced to what Clarification says   *)
(* of it, which Harness implements.  One browser holds one session.        *)
(***************************************************************************)
EXTENDS Naturals, Sequences

CONSTANTS
  Threads,  \* thread ids a browser may create
  User,     \* the actor behind the browser session
  NoActor,
  MaxRuns   \* bound: requests the browser sends

VARIABLES
  tab,              \* ThreadManager: which clients exist
  isSubmitting,     \* the in-flight flag of each client
  pendingInterrupt, \* HttpAgent.pendingInterrupts, of at most one entry
  card,             \* the question whose card is on screen, 0 for none
  runs,             \* the requests sent, in order, and how far each one is
  questions, open,  \* the server: see Clarification
  disturbed         \* history: the thread lost a response or the server
                    \* a question

client == <<isSubmitting, pendingInterrupt, card>>
server == <<questions, open>>
vars == <<tab, client, runs, server, disturbed>>

Server == INSTANCE Clarification WITH Requests <- Threads, Actors <- {User}

Kinds == {"start", "resume", "command"}
Outcomes == {"none", "interrupt", "success", "error"}

\* A request: where it is, whether its client still waits for it, the
\* interrupt a resume names, the question it has answered and the one it
\* has asked.
Run ==
  [thread : Threads, kind : Kinds, interrupt : Nat,
   at : {"sent", "running", "replied", "over"}, connected : BOOLEAN,
   outcome : Outcomes, answered : Nat, asked : Nat]

Init ==
  /\ tab = [t \in Threads |-> "absent"]
  /\ isSubmitting = [t \in Threads |-> FALSE]
  /\ pendingInterrupt = [t \in Threads |-> 0]
  /\ card = [t \in Threads |-> 0]
  /\ runs = <<>>
  /\ disturbed = [t \in Threads |-> FALSE]
  /\ Server!Init

---------------------------------------------------------------------------
(* The browser *)

CreateThread(t) ==
  /\ tab[t] = "absent"
  /\ tab' = [tab EXCEPT ![t] = "open"]
  /\ UNCHANGED <<client, runs, server, disturbed>>

\* The client leaves the registry; a request of its own goes on.
CloseThread(t) ==
  /\ tab[t] = "open"
  /\ tab' = [tab EXCEPT ![t] = "closed"]
  /\ UNCHANGED <<client, runs, server, disturbed>>

\* Mutant of MaySubmit: without the in-flight flag both paths check.
MaySubmitAlways(t) == tab[t] = "open" /\ Len(runs) < MaxRuns

\* An input is ignored while another of its thread is in flight.
MaySubmit(t) == tab[t] = "open" /\ ~isSubmitting[t] /\ Len(runs) < MaxRuns

\* runAndLog: the flag is set before the request leaves.
Submit(t, kind, interrupt) ==
  /\ isSubmitting' = [isSubmitting EXCEPT ![t] = TRUE]
  /\ runs' = Append(runs,
       [thread |-> t, kind |-> kind, interrupt |-> interrupt, at |-> "sent",
        connected |-> TRUE, outcome |-> "none", answered |-> 0, asked |-> 0])
  /\ UNCHANGED <<tab, pendingInterrupt, server, disturbed>>

\* sendMessage: a text answers the pending interrupt, or starts a run.  Its
\* turn takes the place of the card.
SendMessage(t) ==
  /\ MaySubmit(t)
  /\ card' = [card EXCEPT ![t] = 0]
  /\ IF pendingInterrupt[t] # 0
     THEN Submit(t, "resume", pendingInterrupt[t])
     ELSE Submit(t, "start", 0)

\* handleAction on a question: a card that is no longer pending is ignored.
ClickChoice(t) ==
  /\ MaySubmit(t)
  /\ card[t] # 0
  /\ card[t] = pendingInterrupt[t]
  /\ Submit(t, "resume", card[t])
  /\ UNCHANGED card

\* handleAction on a typed control-plane action.
ClickCommand(t) ==
  /\ MaySubmit(t)
  /\ Submit(t, "command", 0)
  /\ UNCHANGED card

\* Mutant of Deliver: the flag is cleared on the path without an error only.
DeliverWithoutFinally(n) ==
  LET run == runs[n]
      t == run.thread
  IN /\ run.at = "replied" /\ run.connected
     /\ runs' = [runs EXCEPT ![n] = [@ EXCEPT !.at = "over"]]
     /\ isSubmitting' = [isSubmitting EXCEPT ![t] = run.outcome = "error"]
     /\ card' = [card EXCEPT ![t] = run.asked]
     /\ pendingInterrupt' =
          IF run.kind = "command" \/ run.outcome = "error"
          THEN pendingInterrupt
          ELSE [pendingInterrupt EXCEPT ![t] = run.asked]
     /\ UNCHANGED <<tab, server, disturbed>>

\* Mutant of Deliver: the card on screen is that of the last turn with one.
DeliverKeepingCard(n) ==
  LET run == runs[n]
      t == run.thread
  IN /\ run.at = "replied" /\ run.connected
     /\ runs' = [runs EXCEPT ![n] = [@ EXCEPT !.at = "over"]]
     /\ isSubmitting' = [isSubmitting EXCEPT ![t] = FALSE]
     /\ card' = [card EXCEPT ![t] = IF run.asked = 0 THEN @ ELSE run.asked]
     /\ pendingInterrupt' =
          IF run.kind = "command" \/ run.outcome = "error"
          THEN pendingInterrupt
          ELSE [pendingInterrupt EXCEPT ![t] = run.asked]
     /\ UNCHANGED <<tab, server, disturbed>>

\* The response arrives: HttpAgent takes its interrupt, or clears the one
\* it held when a run succeeded; the turn of the outcome is appended; the
\* flag is cleared, whatever the outcome.
Deliver(n) ==
  LET run == runs[n]
      t == run.thread
  IN /\ run.at = "replied" /\ run.connected
     /\ runs' = [runs EXCEPT ![n] = [@ EXCEPT !.at = "over"]]
     /\ isSubmitting' = [isSubmitting EXCEPT ![t] = FALSE]
     /\ card' = [card EXCEPT ![t] = run.asked]
     /\ pendingInterrupt' =
          IF run.kind = "command" \/ run.outcome = "error"
          THEN pendingInterrupt
          ELSE [pendingInterrupt EXCEPT ![t] = run.asked]
     /\ UNCHANGED <<tab, server, disturbed>>

---------------------------------------------------------------------------
(* The network *)

\* The client sees its connection break.  A request that has not reached
\* the server may be lost; one that has is worked on as before.
Disconnect(n) ==
  LET t == runs[n].thread
  IN /\ runs[n].connected /\ runs[n].at # "over"
     /\ \E at \in {runs[n].at} \cup
                  IF runs[n].at \in {"sent", "replied"} THEN {"over"} ELSE {} :
          runs' = [runs EXCEPT ![n] =
                     [@ EXCEPT !.connected = FALSE, !.at = at]]
     /\ isSubmitting' = [isSubmitting EXCEPT ![t] = FALSE]
     /\ card' = [card EXCEPT ![t] = 0]
     /\ disturbed' = [disturbed EXCEPT ![t] = TRUE]
     /\ UNCHANGED <<tab, pendingInterrupt, server>>

---------------------------------------------------------------------------
(* The server *)

Reply(n, outcome) ==
  runs' = [runs EXCEPT ![n] =
             [@ EXCEPT !.at = "replied", !.outcome = outcome]]

\* runs, without a resume entry: start_run, whatever question is open.
ServeStart(n) ==
  /\ runs[n].at = "sent" /\ runs[n].kind = "start"
  /\ runs' = [runs EXCEPT ![n] = [@ EXCEPT !.at = "running"]]
  /\ UNCHANGED <<tab, client, server, disturbed>>

\* Mutant of ServeResume: any interrupt id answers the open question.
ServeResumeAnyInterrupt(n) ==
  LET t == runs[n].thread
  IN /\ runs[n].at = "sent" /\ runs[n].kind = "resume"
     /\ Server!Answer(t, User)
     /\ runs' = [runs EXCEPT ![n] =
                    [@ EXCEPT !.at = "running", !.answered = open[t]]]
     /\ UNCHANGED <<tab, client, disturbed>>

\* runs, with a resume entry that names the open question.
ServeResume(n) ==
  LET t == runs[n].thread
  IN /\ runs[n].at = "sent" /\ runs[n].kind = "resume"
     /\ runs[n].interrupt = open[t]
     /\ Server!Answer(t, User)
     /\ runs' = [runs EXCEPT ![n] =
                    [@ EXCEPT !.at = "running", !.answered = open[t]]]
     /\ UNCHANGED <<tab, client, disturbed>>

\* Mutant of ServeCommand: an unknown command has an outcome of its own.
ServeCommandUnrouted(n) ==
  /\ runs[n].at = "sent" /\ runs[n].kind = "command"
  /\ Reply(n, "success") \/ Reply(n, "unrouted")
  /\ UNCHANGED <<tab, client, server, disturbed>>

\* commands: the outcome of the router, which no thread state depends on.
ServeCommand(n) ==
  /\ runs[n].at = "sent" /\ runs[n].kind = "command"
  /\ Reply(n, "success")
  /\ UNCHANGED <<tab, client, server, disturbed>>

\* A 4xx before the stream opens: an invalid session, a refused command, an
\* interrupt that is not open, a question at the round cap.
Refuse(n) ==
  /\ runs[n].at = "sent"
  /\ Reply(n, "error")
  /\ UNCHANGED <<tab, client, server, disturbed>>

\* The harness returns a HITLEvent.
AskUser(n) ==
  LET t == runs[n].thread
  IN /\ runs[n].at = "running"
     /\ Server!Ask(t, User)
     /\ runs' = [runs EXCEPT ![n] =
                    [@ EXCEPT !.at = "replied", !.outcome = "interrupt",
                              !.asked = Len(questions) + 1]]
     /\ UNCHANGED <<tab, client, disturbed>>

\* The harness returns a PlatformOpsEvent.
ResolveRoute(n) ==
  /\ runs[n].at = "running"
  /\ Reply(n, "success")
  /\ UNCHANGED <<tab, client, server, disturbed>>

\* A workflow raises.  The question a resume has answered is gone.
RunFails(n) ==
  /\ runs[n].at = "running"
  /\ Reply(n, "error")
  /\ disturbed' = [disturbed EXCEPT ![runs[n].thread] = TRUE]
  /\ UNCHANGED <<tab, client, server>>

\* The process restarts: open questions and running requests are lost.
Restart ==
  /\ Server!Forget
  /\ runs' = [n \in DOMAIN runs |->
       IF runs[n].at = "running"
       THEN [runs[n] EXCEPT !.at = "replied", !.outcome = "error"]
       ELSE runs[n]]
  /\ disturbed' = [t \in Threads |-> TRUE]
  /\ UNCHANGED <<tab, client>>

Serve(n) == ServeStart(n) \/ ServeResume(n) \/ ServeCommand(n) \/ Refuse(n)

Finish(n) == AskUser(n) \/ ResolveRoute(n) \/ RunFails(n)

---------------------------------------------------------------------------
Input(t) ==
  \/ CreateThread(t)
  \/ CloseThread(t)
  \/ SendMessage(t)
  \/ ClickChoice(t)
  \/ ClickCommand(t)

Next ==
  \/ \E t \in Threads : Input(t)
  \/ \E n \in DOMAIN runs :
       Serve(n) \/ Finish(n) \/ Deliver(n) \/ Disconnect(n)
  \/ Restart

Spec == Init /\ [][Next]_vars

\* The server takes up what reaches it, a model call returns or raises, and
\* a response arrives unless its connection breaks.
Fairness ==
  \A n \in 1..MaxRuns :
    /\ WF_vars(n \in DOMAIN runs /\ Serve(n))
    /\ WF_vars(n \in DOMAIN runs /\ Finish(n))
    /\ WF_vars(n \in DOMAIN runs /\ Deliver(n))

FairSpec == Spec /\ Fairness

---------------------------------------------------------------------------
(* Properties *)

TypeOK ==
  /\ tab \in [Threads -> {"absent", "open", "closed"}]
  /\ isSubmitting \in [Threads -> BOOLEAN]
  /\ pendingInterrupt \in [Threads -> 0..Len(questions)]
  /\ card \in [Threads -> 0..Len(questions)]
  /\ runs \in Seq(Run)
  /\ disturbed \in [Threads -> BOOLEAN]

\* The client has been told the outcome of run n.
Delivered(n) == runs[n].at = "over" /\ runs[n].connected

\* An answer is accepted only for the question its author last received: it
\* was delivered to the thread before the answer was sent and no later run
\* of the thread told it otherwise.  And no question takes two answers,
\* though the client repeats one whose response was lost.
AnswersAreDeliberate ==
  \A n \in DOMAIN runs : runs[n].answered # 0 =>
    /\ \E m \in 1..(n - 1) :
         /\ runs[m].asked = runs[n].answered
         /\ runs[m].thread = runs[n].thread
         /\ Delivered(m)
         /\ \A k \in (m + 1)..(n - 1) :
              ~ /\ Delivered(k)
                /\ runs[k].thread = runs[n].thread
                /\ runs[k].asked # 0
    /\ \A k \in DOMAIN runs :
         runs[k].answered = runs[n].answered => k = n

\* As long as a thread has lost nothing, it knows at rest which question
\* the server holds open for it: what sendMessage decides from its own
\* list (agui.ts:294) is what the server would decide.
InSync ==
  \A t \in Threads :
    ~disturbed[t] /\ ~isSubmitting[t] => pendingInterrupt[t] = open[t]

\* The card on screen is never dead: a click on it is not the stale click
\* that handleAction ignores (agui.ts:193), however the thread got here.
CardIsPending ==
  \A t \in Threads : card[t] # 0 => card[t] = pendingInterrupt[t]

\* Every submission ends, whatever becomes of its request: the input is
\* never disabled for good (the finally of agui.ts:286).
SubmissionsEnd ==
  \A t \in Threads : isSubmitting[t] ~> ~isSubmitting[t]
=============================================================================
