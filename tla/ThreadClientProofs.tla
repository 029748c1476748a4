------------------------- MODULE ThreadClientProofs -------------------------
(***************************************************************************)
(* Theorems about ThreadClient, for any threads and any number of          *)
(* requests.  A client waits for one request at most, the last it sent;    *)
(* what it believes follows from where that request is.  At the end, the   *)
(* gateway such a request goes through (CommandGateway) and the chat it    *)
(* comes from (ChatRouting).                                               *)
(***************************************************************************)
EXTENDS ThreadClient, ChatRouting, SequenceTheorems, TLAPS

---------------------------------------------------------------------------
(* Types                                                                   *)

Questions ==
  [request : Threads, actor : {User}, answeredBy : {User, NoActor}]

\* The server's questions, and requests that have asked one of them.
TypeInv ==
  /\ TypeOK
  /\ questions \in Seq(Questions)
  /\ open \in [Threads -> 0..Len(questions)]
  /\ \A n \in DOMAIN runs : runs[n].asked <= Len(questions)

LEMMA RowTypes ==
  ASSUME TypeInv
  PROVE  /\ Len(runs) \in Nat /\ DOMAIN runs = 1..Len(runs)
         /\ \A n \in DOMAIN runs : runs[n] \in Run
         /\ Len(questions) \in Nat
         /\ \A t \in Threads :
              /\ open[t] \in Nat /\ open[t] <= Len(questions)
              /\ pendingInterrupt[t] \in Nat
              /\ pendingInterrupt[t] <= Len(questions)
<1>1. Len(runs) \in Nat /\ DOMAIN runs = 1..Len(runs) /\ Len(questions) \in Nat
  BY LenProperties DEF TypeInv, TypeOK
<1>2. \A n \in DOMAIN runs : runs[n] \in Run
  BY LenProperties DEF TypeInv, TypeOK
<1> QED
  BY <1>1, <1>2 DEF TypeInv, TypeOK

\* A request is sent: one row more.
Sent(row) ==
  /\ runs' \in Seq(Run)
  /\ Len(runs') = Len(runs) + 1
  /\ DOMAIN runs' = DOMAIN runs \cup {Len(runs) + 1}
  /\ Len(runs) + 1 \notin DOMAIN runs
  /\ runs'[Len(runs) + 1] = row
  /\ \A m \in DOMAIN runs : runs'[m] = runs[m]

\* A request moves on: its row changes and no other.
Moved(n, row) ==
  /\ runs' \in Seq(Run)
  /\ Len(runs') = Len(runs)
  /\ DOMAIN runs' = DOMAIN runs
  /\ runs'[n] = row
  /\ \A m \in DOMAIN runs \ {n} : runs'[m] = runs[m]

LEMMA RowSent ==
  ASSUME TypeInv, NEW row \in Run, runs' = Append(runs, row)
  PROVE  Sent(row)
<1>1. /\ runs' \in Seq(Run) /\ Len(runs') = Len(runs) + 1
      /\ runs'[Len(runs) + 1] = row
      /\ \A m \in 1..Len(runs) : runs'[m] = runs[m]
  BY AppendProperties DEF TypeInv, TypeOK
<1>2. DOMAIN runs' = 1..(Len(runs) + 1)
  BY <1>1, LenProperties
<1> QED
  BY <1>1, <1>2, RowTypes DEF Sent

LEMMA RowMoved ==
  ASSUME TypeInv, NEW n \in DOMAIN runs, NEW row \in Run,
         runs' = [runs EXCEPT ![n] = row]
  PROVE  Moved(n, row)
<1>1. runs' \in Seq(Run) /\ Len(runs') = Len(runs)
  BY RowTypes, ExceptSeq DEF TypeInv, TypeOK
<1> QED
  BY <1>1 DEF Moved

---------------------------------------------------------------------------
(* What the steps do                                                       *)

\* An input of the user: a text answers what is pending or starts a run.
LEMMA InputSends ==
  ASSUME TypeInv, NEW t \in Threads,
         SendMessage(t) \/ ClickChoice(t) \/ ClickCommand(t)
  PROVE  /\ ~isSubmitting[t]
         /\ isSubmitting' = [isSubmitting EXCEPT ![t] = TRUE]
         /\ card' = card \/ card' = [card EXCEPT ![t] = 0]
         /\ UNCHANGED <<tab, pendingInterrupt, server, disturbed>>
         /\ \E row \in Run :
              /\ Sent(row)
              /\ row.thread = t /\ row.at = "sent" /\ row.connected
              /\ row.answered = 0 /\ row.asked = 0
              /\ \/ /\ row.kind = "resume" /\ pendingInterrupt[t] # 0
                    /\ row.interrupt = pendingInterrupt[t]
                 \/ row.kind = "start" /\ pendingInterrupt[t] = 0
                 \/ row.kind = "command"
<1> DEFINE Row(kind, interrupt) ==
      [thread |-> t, kind |-> kind, interrupt |-> interrupt, at |-> "sent",
       connected |-> TRUE, outcome |-> "none", answered |-> 0, asked |-> 0]
<1>1. PICK kind \in Kinds, interrupt \in Nat :
        /\ Submit(t, kind, interrupt)
        /\ \/ /\ kind = "resume" /\ pendingInterrupt[t] # 0
              /\ interrupt = pendingInterrupt[t]
           \/ kind = "start" /\ pendingInterrupt[t] = 0
           \/ kind = "command"
  <2>1. pendingInterrupt[t] \in Nat
    BY RowTypes
  <2>2. CASE SendMessage(t)
    BY <2>1, <2>2 DEF SendMessage, Kinds
  <2>3. CASE ClickChoice(t)
    BY <2>1, <2>3 DEF ClickChoice, Kinds
  <2>4. CASE ClickCommand(t)
    BY <2>4 DEF ClickCommand, Kinds
  <2> QED
    BY <2>2, <2>3, <2>4
<1>2. Row(kind, interrupt) \in Run
  BY DEF Run, Outcomes
<1>3. runs' = Append(runs, Row(kind, interrupt))
  BY <1>1 DEF Submit
<1>4. PICK row \in Run : row = Row(kind, interrupt)
  BY <1>2
<1>5. /\ row.thread = t /\ row.kind = kind /\ row.interrupt = interrupt
      /\ row.at = "sent" /\ row.connected /\ row.answered = 0
      /\ row.asked = 0
  BY <1>4
<1>6. Sent(row)
  BY <1>3, <1>4, RowSent
<1>7. ~isSubmitting[t] /\ (card' = card \/ card' = [card EXCEPT ![t] = 0])
  BY DEF SendMessage, ClickChoice, ClickCommand, MaySubmit
<1>8. /\ isSubmitting' = [isSubmitting EXCEPT ![t] = TRUE]
      /\ UNCHANGED <<tab, pendingInterrupt, server, disturbed>>
  BY <1>1 DEF Submit
<1> HIDE DEF Row
<1> QED
  BY <1>1, <1>5, <1>6, <1>7, <1>8

LEMMA DeliverMoves ==
  ASSUME TypeInv, NEW n \in DOMAIN runs, Deliver(n)
  PROVE  LET t == runs[n].thread
         IN /\ runs[n].at = "replied" /\ runs[n].connected
            /\ \E row \in Run :
                 /\ Moved(n, row)
                 /\ row.at = "over" /\ row.connected
                 /\ row.thread = t /\ row.kind = runs[n].kind
                 /\ row.interrupt = runs[n].interrupt
                 /\ row.outcome = runs[n].outcome
                 /\ row.answered = runs[n].answered
                 /\ row.asked = runs[n].asked
            /\ isSubmitting' = [isSubmitting EXCEPT ![t] = FALSE]
            /\ card' = [card EXCEPT ![t] = runs[n].asked]
            /\ pendingInterrupt' =
                 IF runs[n].kind = "command" \/ runs[n].outcome = "error"
                 THEN pendingInterrupt
                 ELSE [pendingInterrupt EXCEPT ![t] = runs[n].asked]
            /\ UNCHANGED <<tab, server, disturbed>>
<1>1. PICK row : row = [runs[n] EXCEPT !.at = "over"]
  OBVIOUS
<1>2. /\ row \in Run /\ row.at = "over"
      /\ row.connected = runs[n].connected
      /\ row.thread = runs[n].thread /\ row.kind = runs[n].kind
      /\ row.interrupt = runs[n].interrupt
      /\ row.outcome = runs[n].outcome
      /\ row.answered = runs[n].answered /\ row.asked = runs[n].asked
  BY <1>1, RowTypes DEF Run
<1>3. Moved(n, row)
  BY <1>1, <1>2, RowMoved DEF Deliver
<1> QED
  BY <1>2, <1>3 DEF Deliver

LEMMA DisconnectMoves ==
  ASSUME TypeInv, NEW n \in DOMAIN runs, Disconnect(n)
  PROVE  LET t == runs[n].thread
         IN /\ runs[n].at # "over" /\ runs[n].connected
            /\ \E row \in Run :
                 /\ Moved(n, row)
                 /\ \/ row.at = runs[n].at
                    \/ row.at = "over" /\ runs[n].at \in {"sent", "replied"}
                 /\ ~row.connected
                 /\ row.thread = t /\ row.kind = runs[n].kind
                 /\ row.interrupt = runs[n].interrupt
                 /\ row.outcome = runs[n].outcome
                 /\ row.answered = runs[n].answered
                 /\ row.asked = runs[n].asked
            /\ isSubmitting' = [isSubmitting EXCEPT ![t] = FALSE]
            /\ card' = [card EXCEPT ![t] = 0]
            /\ disturbed' = [disturbed EXCEPT ![t] = TRUE]
            /\ UNCHANGED <<tab, pendingInterrupt, server>>
<1>1. PICK at \in {runs[n].at} \cup
             IF runs[n].at \in {"sent", "replied"} THEN {"over"} ELSE {} :
        runs' = [runs EXCEPT ![n] =
                  [@ EXCEPT !.connected = FALSE, !.at = at]]
  BY DEF Disconnect
<1>2. PICK row : row = [runs[n] EXCEPT !.connected = FALSE, !.at = at]
  OBVIOUS
<1>3. /\ row \in Run /\ row.at = at /\ ~row.connected
      /\ row.thread = runs[n].thread /\ row.kind = runs[n].kind
      /\ row.interrupt = runs[n].interrupt
      /\ row.outcome = runs[n].outcome
      /\ row.answered = runs[n].answered /\ row.asked = runs[n].asked
  BY <1>1, <1>2, RowTypes DEF Run
<1>4. Moved(n, row)
  BY <1>1, <1>2, <1>3, RowMoved
<1>5. \/ at = runs[n].at
      \/ at = "over" /\ runs[n].at \in {"sent", "replied"}
  BY <1>1
<1> QED
  BY <1>3, <1>4, <1>5 DEF Disconnect

\* What the server does to a request.
Kept(n, row) ==
  /\ row.thread = runs[n].thread /\ row.kind = runs[n].kind
  /\ row.interrupt = runs[n].interrupt
  /\ row.connected = runs[n].connected

Started(n, row) ==
  /\ runs[n].at = "sent" /\ runs[n].kind = "start" /\ row.at = "running"
  /\ row.outcome = runs[n].outcome
  /\ row.answered = runs[n].answered /\ row.asked = runs[n].asked
  /\ UNCHANGED <<questions, open, disturbed>>

Resumed(n, row) ==
  LET t == runs[n].thread
  IN /\ runs[n].at = "sent" /\ runs[n].kind = "resume" /\ row.at = "running"
     /\ open[t] # 0 /\ runs[n].interrupt = open[t]
     /\ row.outcome = runs[n].outcome
     /\ row.answered = open[t] /\ row.asked = runs[n].asked
     /\ open' = [open EXCEPT ![t] = 0]
     /\ questions' \in Seq(Questions)
     /\ Len(questions') = Len(questions)
     /\ UNCHANGED disturbed

Replied(n, row) ==
  /\ runs[n].at = "sent" /\ row.at = "replied"
  /\ \/ row.outcome = "error"
     \/ row.outcome = "success" /\ runs[n].kind = "command"
  /\ row.answered = runs[n].answered /\ row.asked = runs[n].asked
  /\ UNCHANGED <<questions, open, disturbed>>

Asked(n, row) ==
  LET t == runs[n].thread
  IN /\ runs[n].at = "running" /\ row.at = "replied"
     /\ row.outcome = "interrupt"
     /\ row.answered = runs[n].answered
     /\ row.asked = Len(questions) + 1
     /\ open' = [open EXCEPT ![t] = Len(questions) + 1]
     /\ questions' \in Seq(Questions)
     /\ Len(questions') = Len(questions) + 1
     /\ UNCHANGED disturbed

Ended(n, row) ==
  /\ runs[n].at = "running" /\ row.at = "replied"
  /\ \/ row.outcome = "success" /\ UNCHANGED disturbed
     \/ /\ row.outcome = "error"
        /\ disturbed' = [disturbed EXCEPT ![runs[n].thread] = TRUE]
  /\ row.answered = runs[n].answered /\ row.asked = runs[n].asked
  /\ UNCHANGED <<questions, open>>

ServerMoves(n, row) ==
  \/ Started(n, row) \/ Resumed(n, row) \/ Replied(n, row) \/ Asked(n, row)
  \/ Ended(n, row)

LEMMA ServerStep ==
  ASSUME TypeInv, NEW n \in DOMAIN runs, Serve(n) \/ Finish(n)
  PROVE  /\ UNCHANGED <<tab, client>>
         /\ \E row \in Run :
              Moved(n, row) /\ Kept(n, row) /\ ServerMoves(n, row)
<1> DEFINE t == runs[n].thread
<1>1. runs[n] \in Run /\ t \in Threads /\ Len(questions) \in Nat
  BY RowTypes DEF Run
<1>2. CASE ServeStart(n)
  <2>1. PICK row : row = [runs[n] EXCEPT !.at = "running"]
    OBVIOUS
  <2>2. row \in Run /\ Kept(n, row) /\ Started(n, row)
    BY <1>1, <1>2, <2>1 DEF Run, Kept, ServeStart, Started, server
  <2>3. Moved(n, row)
    BY <1>2, <2>1, <2>2, RowMoved DEF ServeStart
  <2> QED
    BY <1>2, <2>2, <2>3 DEF ServerMoves, ServeStart
<1>3. CASE ServeResume(n)
  <2>1. PICK row :
          row = [runs[n] EXCEPT !.at = "running", !.answered = open[t]]
    OBVIOUS
  <2>2. open[t] # 0 /\ open[t] \in 1..Len(questions)
    BY <1>1, <1>3, RowTypes DEF ServeResume, Server!Answer
  <2>3. /\ questions' \in Seq(Questions)
        /\ Len(questions') = Len(questions)
    <3>1. PICK q : q = [questions[open[t]] EXCEPT !.answeredBy = User]
      OBVIOUS
    <3>2. questions[open[t]] \in Questions
      BY <2>2, ElementOfSeq DEF TypeInv
    <3>3. q \in Questions
      BY <3>1, <3>2 DEF Questions
    <3>4. questions' = [questions EXCEPT ![open[t]] = q]
      BY <1>3, <3>1 DEF ServeResume, Server!Answer
    <3> QED
      BY <2>2, <3>3, <3>4, ExceptSeq DEF TypeInv
  <2>4. row \in Run /\ Kept(n, row) /\ Resumed(n, row)
    BY <1>1, <1>3, <2>1, <2>2, <2>3
       DEF Run, Kept, ServeResume, Resumed, Server!Answer
  <2>5. Moved(n, row)
    BY <1>3, <2>1, <2>4, RowMoved DEF ServeResume
  <2> QED
    BY <1>3, <2>4, <2>5 DEF ServerMoves, ServeResume
<1>4. ASSUME NEW outcome \in {"success", "error"}, Reply(n, outcome),
             UNCHANGED <<tab, client, server>>,
             \/ /\ runs[n].at = "sent" /\ UNCHANGED disturbed
                /\ outcome = "error" \/ runs[n].kind = "command"
             \/ /\ runs[n].at = "running"
                /\ \/ outcome = "success" /\ UNCHANGED disturbed
                   \/ /\ outcome = "error"
                      /\ disturbed' = [disturbed EXCEPT ![t] = TRUE]
      PROVE  /\ UNCHANGED <<tab, client>>
             /\ \E row \in Run :
                  Moved(n, row) /\ Kept(n, row) /\ ServerMoves(n, row)
  <2>1. PICK row :
          row = [runs[n] EXCEPT !.at = "replied", !.outcome = outcome]
    OBVIOUS
  <2>2. /\ row \in Run /\ Kept(n, row)
        /\ row.at = "replied" /\ row.outcome = outcome
        /\ row.answered = runs[n].answered /\ row.asked = runs[n].asked
    BY <1>1, <2>1 DEF Run, Kept, Outcomes
  <2>3. Replied(n, row) \/ Ended(n, row)
    BY <1>4, <2>2 DEF Replied, Ended, server
  <2>4. Moved(n, row)
    BY <1>4, <2>1, <2>2, RowMoved DEF Reply
  <2> QED
    BY <1>4, <2>2, <2>3, <2>4 DEF ServerMoves
<1>5. CASE AskUser(n)
  <2>1. PICK row :
          row = [runs[n] EXCEPT !.at = "replied", !.outcome = "interrupt",
                                !.asked = Len(questions) + 1]
    OBVIOUS
  <2>2. /\ questions' \in Seq(Questions)
        /\ Len(questions') = Len(questions) + 1
    <3>1. PICK q : q = [request |-> t, actor |-> User, answeredBy |-> NoActor]
      OBVIOUS
    <3>2. q \in Questions
      BY <1>1, <3>1 DEF Questions
    <3>3. questions' = Append(questions, q)
      BY <1>5, <3>1 DEF AskUser, Server!Ask
    <3> QED
      BY <3>2, <3>3, AppendProperties DEF TypeInv
  <2>3. row \in Run /\ Kept(n, row) /\ Asked(n, row)
    <3>1. Len(questions) + 1 \in Nat
      BY <1>1
    <3>2. /\ row \in Run /\ Kept(n, row)
          /\ row.at = "replied" /\ row.outcome = "interrupt"
          /\ row.answered = runs[n].answered
          /\ row.asked = Len(questions) + 1
      BY <1>1, <2>1, <3>1 DEF Run, Outcomes, Kept
    <3> QED
      BY <1>5, <2>2, <3>2 DEF AskUser, Asked, Server!Ask
  <2>4. Moved(n, row)
    BY <1>5, <2>1, <2>3, RowMoved DEF AskUser
  <2> QED
    BY <1>5, <2>3, <2>4 DEF ServerMoves, AskUser
<1>6. CASE ServeCommand(n) \/ Refuse(n)
  BY <1>4, <1>6 DEF ServeCommand, Refuse
<1>7. CASE ResolveRoute(n) \/ RunFails(n)
  BY <1>4, <1>7 DEF ResolveRoute, RunFails
<1> QED
  BY <1>2, <1>3, <1>5, <1>6, <1>7 DEF Serve, Finish

\* A restart: what runs is answered with an error, every question is gone.
LEMMA RestartMoves ==
  ASSUME TypeInv, Restart
  PROVE  /\ runs' \in Seq(Run) /\ Len(runs') = Len(runs)
         /\ DOMAIN runs' = DOMAIN runs
         /\ \A n \in DOMAIN runs :
              /\ Kept(n, runs'[n])
              /\ runs'[n].answered = runs[n].answered
              /\ runs'[n].asked = runs[n].asked
              /\ \/ /\ runs[n].at # "running"
                    /\ runs'[n] = runs[n]
                 \/ /\ runs[n].at = "running" /\ runs'[n].at = "replied"
                    /\ runs'[n].outcome = "error"
         /\ open' = [t \in Threads |-> 0]
         /\ disturbed' = [t \in Threads |-> TRUE]
         /\ UNCHANGED <<tab, client, questions>>
<1>1. \A n \in DOMAIN runs :
        /\ runs'[n] \in Run
        /\ Kept(n, runs'[n])
        /\ runs'[n].answered = runs[n].answered
        /\ runs'[n].asked = runs[n].asked
        /\ \/ runs[n].at # "running" /\ runs'[n] = runs[n]
           \/ /\ runs[n].at = "running" /\ runs'[n].at = "replied"
              /\ runs'[n].outcome = "error"
  BY RowTypes DEF Restart, Run, Outcomes, Kept
<1>2. runs' \in [1..Len(runs) -> Run]
  BY <1>1, RowTypes DEF Restart
<1>3. runs' \in Seq(Run)
  BY <1>2, RowTypes, SeqDef
<1>4. Len(runs') = Len(runs) /\ DOMAIN runs' = DOMAIN runs
  BY <1>2, <1>3, RowTypes, LenProperties
<1> QED
  BY <1>1, <1>3, <1>4 DEF Restart, Server!Forget

LEMMA StepKinds ==
  ASSUME [Next]_vars
  PROVE  \/ \E t \in Threads : CreateThread(t) \/ CloseThread(t)
         \/ \E t \in Threads :
              SendMessage(t) \/ ClickChoice(t) \/ ClickCommand(t)
         \/ \E n \in DOMAIN runs : Serve(n) \/ Finish(n)
         \/ \E n \in DOMAIN runs : Deliver(n)
         \/ \E n \in DOMAIN runs : Disconnect(n)
         \/ Restart
         \/ UNCHANGED vars
BY DEF Next, Input

LEMMA TypeInvInit == Init => TypeInv
<1> SUFFICES ASSUME Init PROVE TypeInv
  OBVIOUS
<1>1. questions = <<>> /\ open = [t \in Threads |-> 0] /\ runs = <<>>
  BY DEF Init, Server!Init
<1>2. /\ questions \in Seq(Questions) /\ Len(questions) = 0
      /\ runs \in Seq(Run) /\ DOMAIN runs = {}
  BY <1>1, EmptySeq
<1> QED
  BY <1>1, <1>2 DEF Init, TypeInv, TypeOK

LEMMA TypeInvNext == TypeInv /\ [Next]_vars => TypeInv'
<1> SUFFICES ASSUME TypeInv, [Next]_vars PROVE TypeInv'
  OBVIOUS
<1>1. ASSUME NEW t \in Threads, CreateThread(t) \/ CloseThread(t)
      PROVE  TypeInv'
  BY <1>1 DEF CreateThread, CloseThread, TypeInv, TypeOK, client, server
<1>2. ASSUME NEW t \in Threads,
             SendMessage(t) \/ ClickChoice(t) \/ ClickCommand(t)
      PROVE  TypeInv'
  <2>1. PICK row \in Run : Sent(row) /\ row.asked = 0
    BY <1>2, InputSends
  <2>2. /\ isSubmitting' \in [Threads -> BOOLEAN]
        /\ card' \in [Threads -> 0..Len(questions)]
    <3>1. /\ isSubmitting' = [isSubmitting EXCEPT ![t] = TRUE]
          /\ card' = card \/ card' = [card EXCEPT ![t] = 0]
      BY <1>2, InputSends
    <3>2. 0 \in 0..Len(questions)
      BY RowTypes
    <3> QED
      BY <3>1, <3>2 DEF TypeInv, TypeOK
  <2>3. UNCHANGED <<tab, pendingInterrupt, questions, open, disturbed>>
    BY <1>2, InputSends DEF server
  <2>4. \A m \in DOMAIN runs' : runs'[m].asked <= Len(questions)
    BY <2>1, RowTypes DEF TypeInv, Sent
  <2>5. runs' \in Seq(Run)
    BY <2>1 DEF Sent
  <2> QED
    BY <2>2, <2>3, <2>4, <2>5 DEF TypeInv, TypeOK
<1>3. ASSUME NEW n \in DOMAIN runs, Serve(n) \/ Finish(n) PROVE TypeInv'
  <2>1. PICK row \in Run : Moved(n, row) /\ Kept(n, row) /\ ServerMoves(n, row)
    BY <1>3, ServerStep
  <2>2. UNCHANGED <<tab, isSubmitting, pendingInterrupt, card>>
    BY <1>3, ServerStep DEF client
  <2>3. Len(questions) \in Nat /\ Len(questions') \in Nat
          /\ Len(questions) <= Len(questions')
          /\ questions' \in Seq(Questions)
    BY <2>1, RowTypes
       DEF ServerMoves, Started, Resumed, Replied, Asked, Ended, TypeInv
  <2>4. row.asked <= Len(questions')
    BY <2>1, <2>3, RowTypes
       DEF ServerMoves, Started, Resumed, Replied, Asked, Ended, TypeInv, Run
  <2>5. \A m \in DOMAIN runs' : runs'[m].asked <= Len(questions')
    <3>1. TAKE m \in DOMAIN runs'
    <3>2. m \in DOMAIN runs /\ (m = n \/ runs'[m] = runs[m])
      BY <2>1 DEF Moved
    <3>3. runs[m].asked \in Nat /\ runs[m].asked <= Len(questions)
      BY <3>2, RowTypes DEF TypeInv, Run
    <3>4. runs'[n] = row
      BY <2>1 DEF Moved
    <3> QED
      BY <2>3, <2>4, <3>2, <3>3, <3>4
  <2>6. runs[n].thread \in Threads
    BY RowTypes DEF Run
  <2>7. open' \in [Threads -> 0..Len(questions')]
    BY <2>1, <2>3, <2>6
       DEF ServerMoves, Started, Resumed, Replied, Asked, Ended, TypeInv
  <2>8. disturbed' \in [Threads -> BOOLEAN]
    BY <2>1, <2>6
       DEF ServerMoves, Started, Resumed, Replied, Asked, Ended, TypeInv,
           TypeOK
  <2>9. runs' \in Seq(Run)
    BY <2>1 DEF Moved
  <2>10. (0..Len(questions)) \subseteq 0..Len(questions')
    BY <2>3
  <2> QED
    BY <2>2, <2>3, <2>5, <2>7, <2>8, <2>9, <2>10 DEF TypeInv, TypeOK
<1>4. ASSUME NEW n \in DOMAIN runs, Deliver(n) PROVE TypeInv'
  <2> DEFINE t == runs[n].thread
  <2>1. PICK row \in Run : Moved(n, row) /\ row.asked = runs[n].asked
    BY <1>4, DeliverMoves
  <2>2. t \in Threads /\ runs[n].asked \in 0..Len(questions)
    BY RowTypes DEF Run, TypeInv
  <2>3. /\ isSubmitting' = [isSubmitting EXCEPT ![t] = FALSE]
        /\ card' = [card EXCEPT ![t] = runs[n].asked]
        /\ \/ pendingInterrupt' = pendingInterrupt
           \/ pendingInterrupt' = [pendingInterrupt EXCEPT ![t] = runs[n].asked]
        /\ UNCHANGED <<tab, questions, open, disturbed>>
    BY <1>4, DeliverMoves DEF server
  <2> HIDE DEF t
  <2>4. \A m \in DOMAIN runs' : runs'[m].asked <= Len(questions)
    BY <2>1 DEF Moved, TypeInv
  <2>5. /\ isSubmitting' \in [Threads -> BOOLEAN]
        /\ card' \in [Threads -> 0..Len(questions)]
        /\ pendingInterrupt' \in [Threads -> 0..Len(questions)]
    BY <2>2, <2>3 DEF TypeInv, TypeOK
  <2>6. runs' \in Seq(Run)
    BY <2>1 DEF Moved
  <2> QED
    BY <2>3, <2>4, <2>5, <2>6 DEF TypeInv, TypeOK
<1>5. ASSUME NEW n \in DOMAIN runs, Disconnect(n) PROVE TypeInv'
  <2> DEFINE t == runs[n].thread
  <2>1. PICK row \in Run : Moved(n, row) /\ row.asked = runs[n].asked
    BY <1>5, DisconnectMoves
  <2>2. t \in Threads
    BY RowTypes DEF Run
  <2>3. /\ isSubmitting' = [isSubmitting EXCEPT ![t] = FALSE]
        /\ card' = [card EXCEPT ![t] = 0]
        /\ disturbed' = [disturbed EXCEPT ![t] = TRUE]
        /\ UNCHANGED <<tab, pendingInterrupt, questions, open>>
    BY <1>5, DisconnectMoves DEF server
  <2> HIDE DEF t
  <2>4. \A m \in DOMAIN runs' : runs'[m].asked <= Len(questions)
    BY <2>1 DEF Moved, TypeInv
  <2>5. /\ isSubmitting' \in [Threads -> BOOLEAN]
        /\ card' \in [Threads -> 0..Len(questions)]
        /\ disturbed' \in [Threads -> BOOLEAN]
    BY <2>2, <2>3, RowTypes DEF TypeInv, TypeOK
  <2>6. runs' \in Seq(Run)
    BY <2>1 DEF Moved
  <2> QED
    BY <2>3, <2>4, <2>5, <2>6 DEF TypeInv, TypeOK
<1>6. CASE Restart
  <2>1. /\ runs' \in Seq(Run) /\ DOMAIN runs' = DOMAIN runs
        /\ \A n \in DOMAIN runs : runs'[n].asked = runs[n].asked
        /\ open' = [t \in Threads |-> 0]
        /\ disturbed' = [t \in Threads |-> TRUE]
        /\ UNCHANGED <<tab, client, questions>>
    BY <1>6, RestartMoves
  <2>2. /\ open' \in [Threads -> 0..Len(questions)]
        /\ disturbed' \in [Threads -> BOOLEAN]
    <3>1. 0 \in 0..Len(questions)
      BY RowTypes
    <3> QED
      BY <2>1, <3>1
  <2>3. \A n \in DOMAIN runs' : runs'[n].asked <= Len(questions)
    BY <2>1 DEF TypeInv
  <2>4. UNCHANGED <<tab, isSubmitting, pendingInterrupt, card, questions>>
    BY <2>1 DEF client
  <2> QED
    BY <2>1, <2>2, <2>3, <2>4 DEF TypeInv, TypeOK
<1>7. CASE UNCHANGED vars
  BY <1>7 DEF vars, client, server, TypeInv, TypeOK
<1> QED
  BY <1>1, <1>2, <1>3, <1>4, <1>5, <1>6, <1>7, StepKinds

\* Every request, client and slot keeps its shape, whatever is lost; an
\* interrupt a client holds is one the server has given.
THEOREM ThreadTypeCorrect == Spec => []TypeOK
<1>1. TypeInv => TypeOK
  BY DEF TypeInv
<1> QED
  BY <1>1, TypeInvInit, TypeInvNext, PTL DEF Spec

---------------------------------------------------------------------------
(* Requests                                                                *)

\* Only a run asks, and its reply says so; an answer is to the interrupt
\* that the resume named.
ShapeInv ==
  \A n \in DOMAIN runs :
    /\ runs[n].asked # 0 =>
         /\ runs[n].outcome = "interrupt"
         /\ runs[n].kind # "command"
         /\ runs[n].at \in {"replied", "over"}
    /\ runs[n].at = "running" => runs[n].kind # "command"
    /\ runs[n].answered # 0 =>
         runs[n].kind = "resume" /\ runs[n].answered = runs[n].interrupt

LEMMA ShapeInvNext == TypeInv /\ ShapeInv /\ [Next]_vars => ShapeInv'
<1> SUFFICES ASSUME TypeInv, ShapeInv, [Next]_vars PROVE ShapeInv'
  OBVIOUS
<1>1. ASSUME NEW t \in Threads,
             SendMessage(t) \/ ClickChoice(t) \/ ClickCommand(t)
      PROVE  ShapeInv'
  <2>1. PICK row \in Run : /\ Sent(row) /\ row.asked = 0 /\ row.answered = 0
                           /\ row.at = "sent"
    BY <1>1, InputSends
  <2> QED
    BY <2>1 DEF Sent, ShapeInv
<1>2. ASSUME NEW n \in DOMAIN runs, Serve(n) \/ Finish(n) PROVE ShapeInv'
  <2>1. PICK row \in Run : Moved(n, row) /\ Kept(n, row) /\ ServerMoves(n, row)
    BY <1>2, ServerStep
  <2>2. /\ row.asked # 0 => /\ row.outcome = "interrupt"
                            /\ row.kind # "command"
                            /\ row.at \in {"replied", "over"}
        /\ row.at = "running" => row.kind # "command"
        /\ row.answered # 0 =>
             row.kind = "resume" /\ row.answered = row.interrupt
    BY <2>1 DEF ServerMoves, Started, Resumed, Replied, Asked, Ended, Kept,
                ShapeInv
  <2> QED
    BY <2>1, <2>2 DEF Moved, ShapeInv
<1>3. ASSUME NEW n \in DOMAIN runs, Deliver(n) PROVE ShapeInv'
  <2>1. PICK row \in Run :
          /\ Moved(n, row) /\ row.at = "over" /\ row.kind = runs[n].kind
          /\ row.interrupt = runs[n].interrupt
          /\ row.outcome = runs[n].outcome
          /\ row.answered = runs[n].answered /\ row.asked = runs[n].asked
    BY <1>3, DeliverMoves
  <2> QED
    BY <2>1 DEF Moved, ShapeInv
<1>4. ASSUME NEW n \in DOMAIN runs, Disconnect(n) PROVE ShapeInv'
  <2>1. PICK row \in Run :
          /\ Moved(n, row)
          /\ \/ row.at = runs[n].at
             \/ row.at = "over" /\ runs[n].at \in {"sent", "replied"}
          /\ row.kind = runs[n].kind
          /\ row.interrupt = runs[n].interrupt
          /\ row.outcome = runs[n].outcome
          /\ row.answered = runs[n].answered /\ row.asked = runs[n].asked
    BY <1>4, DisconnectMoves
  <2> QED
    BY <2>1 DEF Moved, ShapeInv
<1>5. CASE Restart
  BY <1>5, RestartMoves DEF Kept, ShapeInv
<1>6. CASE UNCHANGED runs
  BY <1>6 DEF ShapeInv
<1> QED
  BY <1>1, <1>2, <1>3, <1>4, <1>5, <1>6, StepKinds
     DEF CreateThread, CloseThread, vars

---------------------------------------------------------------------------
(* Questions                                                               *)

\* A question is open for one thread, and never open once answered.
OpenInv ==
  /\ \A n \in DOMAIN runs : runs[n].answered <= Len(questions)
  /\ \A t, u \in Threads : open[t] = open[u] /\ open[t] # 0 => t = u
  /\ \A t \in Threads, n \in DOMAIN runs :
       open[t] # 0 => runs[n].answered # open[t]
  /\ \A m, n \in DOMAIN runs :
       runs[m].answered = runs[n].answered /\ runs[m].answered # 0 => m = n

\* Steps that neither answer nor ask.
LEMMA OpenKept ==
  ASSUME TypeInv, OpenInv, questions' = questions, DOMAIN runs' = DOMAIN runs,
         \A n \in DOMAIN runs : runs'[n].answered = runs[n].answered,
         \A t \in Threads : open'[t] \in {open[t], 0}
  PROVE  OpenInv'
BY DEF OpenInv

LEMMA OpenInvNext == TypeInv /\ OpenInv /\ [Next]_vars => OpenInv'
<1> SUFFICES ASSUME TypeInv, OpenInv, [Next]_vars PROVE OpenInv'
  OBVIOUS
<1>1. ASSUME NEW t \in Threads,
             SendMessage(t) \/ ClickChoice(t) \/ ClickCommand(t)
      PROVE  OpenInv'
  <2>1. PICK row \in Run : Sent(row) /\ row.answered = 0
    BY <1>1, InputSends
  <2>2. UNCHANGED <<questions, open>>
    BY <1>1, InputSends DEF server
  <2> QED
    BY <2>1, <2>2, RowTypes DEF Sent, OpenInv
<1>2. ASSUME NEW n \in DOMAIN runs, Serve(n) \/ Finish(n) PROVE OpenInv'
  <2> DEFINE t == runs[n].thread
  <2>1. PICK row \in Run : Moved(n, row) /\ Kept(n, row) /\ ServerMoves(n, row)
    BY <1>2, ServerStep
  <2>2. t \in Threads
    BY RowTypes DEF Run
  <2>3. CASE Started(n, row) \/ Replied(n, row) \/ Ended(n, row)
    <3>1. /\ row.answered = runs[n].answered
          /\ UNCHANGED <<questions, open>>
      BY <2>3 DEF Started, Replied, Ended
    <3> QED
      BY <2>1, <3>1, OpenKept DEF Moved
  <2>4. CASE Resumed(n, row)
    <3>0. PICK u \in Threads : u = t
      BY <2>2
    <3>1. PICK q \in Nat : q = open[u]
      BY RowTypes
    <3>2. /\ q # 0 /\ row.answered = q /\ q <= Len(questions)
          /\ open' = [open EXCEPT ![u] = 0]
          /\ Len(questions') = Len(questions)
      BY <2>4, <3>0, <3>1, RowTypes DEF Resumed
    <3>3. \A v \in Threads : open'[v] = IF v = u THEN 0 ELSE open[v]
      BY <3>2 DEF TypeInv
    <3>4. /\ DOMAIN runs' = DOMAIN runs
          /\ \A m \in DOMAIN runs :
               runs'[m].answered = IF m = n THEN q ELSE runs[m].answered
      BY <2>1, <3>2 DEF Moved
    <3>5. \A m \in DOMAIN runs : runs[m].answered # q
      BY <3>1, <3>2 DEF OpenInv
    <3>6. \A v \in Threads \ {u} : open[v] # q
      BY <3>1, <3>2 DEF OpenInv
    <3>7. /\ \A m \in DOMAIN runs' : runs'[m].answered <= Len(questions')
          /\ \A m, k \in DOMAIN runs' :
               runs'[m].answered = runs'[k].answered /\ runs'[m].answered # 0
                 => m = k
      BY <3>2, <3>4, <3>5 DEF OpenInv
    <3>8. /\ \A v, w \in Threads : open'[v] = open'[w] /\ open'[v] # 0 => v = w
          /\ \A v \in Threads, m \in DOMAIN runs' :
               open'[v] # 0 => runs'[m].answered # open'[v]
      BY <3>3, <3>4, <3>6 DEF OpenInv
    <3> QED
      BY <3>7, <3>8 DEF OpenInv
  <2>5. CASE Asked(n, row)
    <3>0. PICK u \in Threads : u = t
      BY <2>2
    <3>1. PICK q \in Nat : q = Len(questions) + 1
      BY RowTypes
    <3>2. /\ row.answered = runs[n].answered
          /\ open' = [open EXCEPT ![u] = q]
          /\ Len(questions') = q
      BY <2>5, <3>0, <3>1 DEF Asked
    <3>3. \A v \in Threads : open'[v] = IF v = u THEN q ELSE open[v]
      BY <3>2 DEF TypeInv
    <3>4. /\ DOMAIN runs' = DOMAIN runs
          /\ \A m \in DOMAIN runs : runs'[m].answered = runs[m].answered
      BY <2>1, <3>2 DEF Moved
    <3>5. \A v \in Threads : open[v] # q
      BY <3>1, RowTypes
    <3>6. \A m \in DOMAIN runs : runs[m].answered # q /\ runs[m].answered <= q
      BY <3>1, RowTypes DEF OpenInv, Run
    <3>7. /\ \A m \in DOMAIN runs' : runs'[m].answered <= Len(questions')
          /\ \A m, k \in DOMAIN runs' :
               runs'[m].answered = runs'[k].answered /\ runs'[m].answered # 0
                 => m = k
      BY <3>2, <3>4, <3>6 DEF OpenInv
    <3>8. /\ \A v, w \in Threads : open'[v] = open'[w] /\ open'[v] # 0 => v = w
          /\ \A v \in Threads, m \in DOMAIN runs' :
               open'[v] # 0 => runs'[m].answered # open'[v]
      BY <3>3, <3>4, <3>5, <3>6 DEF OpenInv
    <3> QED
      BY <3>7, <3>8 DEF OpenInv
  <2> QED
    BY <2>1, <2>3, <2>4, <2>5 DEF ServerMoves
<1>3. ASSUME NEW n \in DOMAIN runs, Deliver(n) PROVE OpenInv'
  <2>1. PICK row \in Run : Moved(n, row) /\ row.answered = runs[n].answered
    BY <1>3, DeliverMoves
  <2>2. UNCHANGED <<questions, open>>
    BY <1>3, DeliverMoves DEF server
  <2> QED
    BY <2>1, <2>2, OpenKept DEF Moved
<1>4. ASSUME NEW n \in DOMAIN runs, Disconnect(n) PROVE OpenInv'
  <2>1. PICK row \in Run : Moved(n, row) /\ row.answered = runs[n].answered
    BY <1>4, DisconnectMoves
  <2>2. UNCHANGED <<questions, open>>
    BY <1>4, DisconnectMoves DEF server
  <2> QED
    BY <2>1, <2>2, OpenKept DEF Moved
<1>5. CASE Restart
  BY <1>5, RestartMoves, OpenKept
<1>6. CASE UNCHANGED <<runs, server>>
  BY <1>6 DEF OpenInv, server
<1> QED
  BY <1>1, <1>2, <1>3, <1>4, <1>5, <1>6, StepKinds
     DEF CreateThread, CloseThread, vars

---------------------------------------------------------------------------
(* Waiting                                                                 *)

\* The client of request n still waits for its response.
Waiting(n) == runs[n].connected /\ runs[n].at # "over"

\* The in-flight flag says that a request is waited for; the request is the
\* last of its thread.
WaitInv ==
  /\ \A t \in Threads :
       isSubmitting[t] <=>
         \E n \in DOMAIN runs : Waiting(n) /\ runs[n].thread = t
  /\ \A n \in DOMAIN runs : Waiting(n) =>
       \A m \in DOMAIN runs : m > n => runs[m].thread # runs[n].thread

LEMMA OneWaits ==
  ASSUME TypeInv, WaitInv, NEW m \in DOMAIN runs, NEW n \in DOMAIN runs,
         Waiting(m), Waiting(n), runs[m].thread = runs[n].thread
  PROVE  m = n
<1>1. ~(m > n) /\ ~(n > m)
  BY DEF WaitInv
<1> QED
  BY <1>1, RowTypes

\* Steps that no client sees.
LEMMA WaitKept ==
  ASSUME WaitInv, DOMAIN runs' = DOMAIN runs, isSubmitting' = isSubmitting,
         \A n \in DOMAIN runs : /\ runs'[n].thread = runs[n].thread
                                /\ Waiting(n)' <=> Waiting(n)
  PROVE  WaitInv'
BY DEF WaitInv

\* Steps that end the wait for one request.
LEMMA WaitEnded ==
  ASSUME TypeInv, WaitInv, NEW n \in DOMAIN runs, Waiting(n),
         NEW row \in Run, Moved(n, row), row.thread = runs[n].thread,
         row.at = "over" \/ ~row.connected,
         isSubmitting' = [isSubmitting EXCEPT ![runs[n].thread] = FALSE]
  PROVE  WaitInv'
<1>0. PICK t \in Threads : t = runs[n].thread
  BY RowTypes DEF Run
<1>1. /\ DOMAIN runs' = DOMAIN runs
      /\ \A m \in DOMAIN runs : runs'[m].thread = runs[m].thread
      /\ \A m \in DOMAIN runs : Waiting(m)' <=> Waiting(m) /\ m # n
  BY DEF Moved, Waiting
<1>2. \A m \in DOMAIN runs : Waiting(m) /\ runs[m].thread = t => m = n
  BY <1>0, OneWaits
<1>3. \A u \in Threads :
        isSubmitting'[u] = IF u = t THEN FALSE ELSE isSubmitting[u]
  BY <1>0 DEF TypeInv, TypeOK
<1>4. ASSUME NEW u \in Threads
      PROVE  isSubmitting'[u] <=>
               \E m \in DOMAIN runs' : Waiting(m)' /\ runs'[m].thread = u
  <2>1. CASE u = t
    BY <1>1, <1>2, <1>3, <2>1
  <2>2. CASE u # t
    BY <1>0, <1>1, <1>3, <2>2 DEF WaitInv
  <2> QED
    BY <2>1, <2>2
<1>5. \A k \in DOMAIN runs' : Waiting(k)' =>
        \A m \in DOMAIN runs' : m > k => runs'[m].thread # runs'[k].thread
  BY <1>1 DEF WaitInv
<1> QED
  BY <1>4, <1>5 DEF WaitInv

LEMMA WaitInvNext == TypeInv /\ WaitInv /\ [Next]_vars => WaitInv'
<1> SUFFICES ASSUME TypeInv, WaitInv, [Next]_vars PROVE WaitInv'
  OBVIOUS
<1>1. ASSUME NEW t \in Threads,
             SendMessage(t) \/ ClickChoice(t) \/ ClickCommand(t)
      PROVE  WaitInv'
  <2>1. PICK row \in Run :
          Sent(row) /\ row.thread = t /\ row.at = "sent" /\ row.connected
    BY <1>1, InputSends
  <2>2. ~isSubmitting[t] /\ isSubmitting' = [isSubmitting EXCEPT ![t] = TRUE]
    BY <1>1, InputSends
  <2>3. PICK l \in Nat : l = Len(runs) + 1
    BY RowTypes
  <2>4. /\ DOMAIN runs' = DOMAIN runs \cup {l} /\ l \notin DOMAIN runs
        /\ runs'[l].thread = t /\ Waiting(l)'
        /\ \A m \in DOMAIN runs : /\ runs'[m].thread = runs[m].thread
                                  /\ Waiting(m)' <=> Waiting(m)
    BY <2>1, <2>3 DEF Sent, Waiting
  <2>5. \A m \in DOMAIN runs : m \in Nat /\ ~(m > l)
    BY <2>3, RowTypes
  <2>6. \A u \in Threads :
          isSubmitting'[u] = IF u = t THEN TRUE ELSE isSubmitting[u]
    BY <2>2 DEF TypeInv, TypeOK
  <2>7. ASSUME NEW u \in Threads
        PROVE  isSubmitting'[u] <=>
                 \E m \in DOMAIN runs' : Waiting(m)' /\ runs'[m].thread = u
    <3>1. CASE u = t
      BY <2>4, <2>6, <3>1
    <3>2. CASE u # t
      <4>1. isSubmitting[u] <=>
              \E m \in DOMAIN runs : Waiting(m) /\ runs[m].thread = u
        BY DEF WaitInv
      <4>2. isSubmitting'[u] = isSubmitting[u]
        BY <2>6, <3>2
      <4> QED
        BY <2>4, <3>2, <4>1, <4>2
    <3> QED
      BY <3>1, <3>2
  <2>8. ASSUME NEW k \in DOMAIN runs', Waiting(k)', NEW m \in DOMAIN runs',
               m > k
        PROVE  runs'[m].thread # runs'[k].thread
    <3>1. k \in DOMAIN runs
      BY <2>3, <2>4, <2>5, <2>8
    <3>2. CASE m = l
      <4>1. Waiting(k)
        BY <2>4, <2>8, <3>1
      <4>2. runs[k].thread # t
        BY <2>2, <3>1, <4>1 DEF WaitInv
      <4> QED
        BY <2>4, <3>1, <3>2, <4>2
    <3>3. CASE m \in DOMAIN runs
      BY <2>4, <2>8, <3>1, <3>3 DEF WaitInv
    <3> QED
      BY <2>4, <3>2, <3>3
  <2> QED
    BY <2>7, <2>8 DEF WaitInv
<1>2. ASSUME NEW n \in DOMAIN runs, Serve(n) \/ Finish(n) PROVE WaitInv'
  <2>1. PICK row \in Run : Moved(n, row) /\ Kept(n, row) /\ ServerMoves(n, row)
    BY <1>2, ServerStep
  <2>2. isSubmitting' = isSubmitting
    BY <1>2, ServerStep DEF client
  <2>3. runs[n].at # "over" /\ row.at # "over"
    BY <2>1 DEF ServerMoves, Started, Resumed, Replied, Asked, Ended
  <2>4. \A m \in DOMAIN runs : /\ runs'[m].thread = runs[m].thread
                               /\ Waiting(m)' <=> Waiting(m)
    BY <2>1, <2>3 DEF Moved, Kept, Waiting
  <2> QED
    BY <2>1, <2>2, <2>4, WaitKept DEF Moved
<1>3. ASSUME NEW n \in DOMAIN runs, Deliver(n) PROVE WaitInv'
  <2>1. PICK row \in Run : Moved(n, row) /\ row.at = "over"
                             /\ row.thread = runs[n].thread
    BY <1>3, DeliverMoves
  <2>2. /\ Waiting(n)
        /\ isSubmitting' = [isSubmitting EXCEPT ![runs[n].thread] = FALSE]
    BY <1>3, DeliverMoves DEF Waiting
  <2> QED
    BY <2>1, <2>2, WaitEnded
<1>4. ASSUME NEW n \in DOMAIN runs, Disconnect(n) PROVE WaitInv'
  <2>1. PICK row \in Run : Moved(n, row) /\ ~row.connected
                             /\ row.thread = runs[n].thread
    BY <1>4, DisconnectMoves
  <2>2. /\ Waiting(n)
        /\ isSubmitting' = [isSubmitting EXCEPT ![runs[n].thread] = FALSE]
    BY <1>4, DisconnectMoves DEF Waiting
  <2> QED
    BY <2>1, <2>2, WaitEnded
<1>5. CASE Restart
  <2>1. /\ DOMAIN runs' = DOMAIN runs /\ isSubmitting' = isSubmitting
        /\ \A n \in DOMAIN runs :
             /\ Kept(n, runs'[n])
             /\ runs'[n].at = "over" <=> runs[n].at = "over"
    BY <1>5, RestartMoves DEF client
  <2> QED
    BY <2>1, WaitKept DEF Kept, Waiting
<1>6. CASE UNCHANGED <<runs, client>>
  BY <1>6, WaitKept DEF Waiting, client
<1> QED
  BY <1>1, <1>2, <1>3, <1>4, <1>5, <1>6, StepKinds
     DEF CreateThread, CloseThread, vars

---------------------------------------------------------------------------
(* What a client holds                                                     *)

\* In the requests rs, the client of request n has been told its outcome.
Received(rs, n) == rs[n].at = "over" /\ rs[n].connected

\* Before request n, run m was the last to tell thread t of a question.
Told(rs, m, t, n) ==
  /\ rs[m].thread = t
  /\ Received(rs, m)
  /\ \A k \in (m + 1)..(n - 1) :
       ~ (Received(rs, k) /\ rs[k].thread = t /\ rs[k].asked # 0)

\* A client holds the question it was last told of, and a resume names the
\* one it held when it was sent.
HeldInv ==
  /\ \A t \in Threads : pendingInterrupt[t] # 0 =>
       \E m \in DOMAIN runs :
         /\ runs[m].asked = pendingInterrupt[t]
         /\ Told(runs, m, t, Len(runs) + 1)
  /\ \A n \in DOMAIN runs : runs[n].kind = "resume" =>
       \E m \in 1..(n - 1) :
         /\ runs[m].asked = runs[n].interrupt
         /\ Told(runs, m, runs[n].thread, n)

\* Steps after which everyone has been told what it had been told before.
LEMMA HeldKept ==
  ASSUME TypeInv, HeldInv, pendingInterrupt' = pendingInterrupt,
         Len(runs') = Len(runs), DOMAIN runs' = DOMAIN runs,
         \A n \in DOMAIN runs :
           /\ runs'[n].thread = runs[n].thread /\ runs'[n].kind = runs[n].kind
           /\ runs'[n].interrupt = runs[n].interrupt
           /\ Received(runs', n) <=> Received(runs, n)
           /\ Received(runs, n) => runs'[n].asked = runs[n].asked
  PROVE  HeldInv'
<1>1. ASSUME NEW m \in DOMAIN runs, NEW t, NEW n \in Nat,
             n <= Len(runs) + 1, Told(runs, m, t, n)
      PROVE  Told(runs', m, t, n) /\ runs'[m].asked = runs[m].asked
  <2>1. /\ runs[m].thread = t /\ Received(runs, m)
        /\ \A k \in (m + 1)..(n - 1) :
             ~ (Received(runs, k) /\ runs[k].thread = t /\ runs[k].asked # 0)
    BY <1>1 DEF Told
  <2>2. \A k \in (m + 1)..(n - 1) : k \in DOMAIN runs
    BY <1>1, RowTypes
  <2>3. \A k \in (m + 1)..(n - 1) :
          ~ (Received(runs', k) /\ runs'[k].thread = t /\ runs'[k].asked # 0)
    BY <2>1, <2>2
  <2> QED
    BY <2>1, <2>3 DEF Told
<1>2. ASSUME NEW t \in Threads, pendingInterrupt'[t] # 0
      PROVE  \E m \in DOMAIN runs' :
               /\ runs'[m].asked = pendingInterrupt'[t]
               /\ Told(runs', m, t, Len(runs') + 1)
  <2>1. PICK m \in DOMAIN runs :
          runs[m].asked = pendingInterrupt[t] /\ Told(runs, m, t, Len(runs) + 1)
    BY <1>2 DEF HeldInv
  <2>2. PICK l \in Nat : l = Len(runs) + 1
    BY RowTypes
  <2>3. Told(runs', m, t, l) /\ runs'[m].asked = runs[m].asked
    BY <1>1, <2>1, <2>2, RowTypes
  <2> QED
    BY <2>1, <2>2, <2>3 DEF Told
<1>3. ASSUME NEW n \in DOMAIN runs', runs'[n].kind = "resume"
      PROVE  \E m \in 1..(n - 1) :
               /\ runs'[m].asked = runs'[n].interrupt
               /\ Told(runs', m, runs'[n].thread, n)
  <2>1. PICK m \in 1..(n - 1) :
          runs[m].asked = runs[n].interrupt /\ Told(runs, m, runs[n].thread, n)
    BY <1>3 DEF HeldInv
  <2>2. m \in DOMAIN runs /\ n \in Nat /\ n <= Len(runs) + 1
    BY RowTypes
  <2>3. PICK t : t = runs[n].thread
    OBVIOUS
  <2>4. Told(runs', m, t, n) /\ runs'[m].asked = runs[m].asked
    BY <1>1, <2>1, <2>2, <2>3
  <2> QED
    BY <2>1, <2>3, <2>4 DEF Told
<1> QED
  BY <1>2, <1>3 DEF HeldInv

LEMMA HeldInvNext ==
  TypeInv /\ ShapeInv /\ WaitInv /\ HeldInv /\ [Next]_vars => HeldInv'
<1> SUFFICES ASSUME TypeInv, ShapeInv, WaitInv, HeldInv, [Next]_vars
             PROVE  HeldInv'
  OBVIOUS
<1>1. ASSUME NEW t \in Threads,
             SendMessage(t) \/ ClickChoice(t) \/ ClickCommand(t)
      PROVE  HeldInv'
  <2>1. PICK row \in Run :
          /\ Sent(row) /\ row.thread = t /\ row.at = "sent" /\ row.asked = 0
          /\ row.kind = "resume" =>
               pendingInterrupt[t] # 0 /\ row.interrupt = pendingInterrupt[t]
    BY <1>1, InputSends
  <2>2. pendingInterrupt' = pendingInterrupt
    BY <1>1, InputSends
  <2>3. PICK l \in Nat : l = Len(runs) + 1
    BY RowTypes
  <2>4. /\ DOMAIN runs' = DOMAIN runs \cup {l} /\ l \notin DOMAIN runs
        /\ Len(runs') = l /\ runs'[l] = row
        /\ ~Received(runs', l)
        /\ \A m \in DOMAIN runs : /\ runs'[m] = runs[m]
                                  /\ Received(runs', m) <=> Received(runs, m)
    BY <2>1, <2>3 DEF Sent, Received
  <2>5. ASSUME NEW m \in DOMAIN runs, NEW u, NEW n \in Nat,
               n <= l, Told(runs, m, u, n)
        PROVE  Told(runs', m, u, n) /\ m < l
    <3>1. \A k \in (m + 1)..(n - 1) : k \in DOMAIN runs
      BY <2>3, <2>5, RowTypes
    <3>2. m < l
      BY <2>3, RowTypes
    <3> QED
      BY <2>4, <2>5, <3>1, <3>2 DEF Told
  <2>6. ASSUME NEW u \in Threads, pendingInterrupt'[u] # 0
        PROVE  \E m \in DOMAIN runs' :
                 /\ runs'[m].asked = pendingInterrupt'[u]
                 /\ Told(runs', m, u, Len(runs') + 1)
    <3>1. PICK m \in DOMAIN runs :
            runs[m].asked = pendingInterrupt[u] /\ Told(runs, m, u, l)
      BY <2>2, <2>3, <2>6 DEF HeldInv
    <3>2. Told(runs', m, u, l)
      BY <2>5, <3>1
    <3>3. Told(runs', m, u, l + 1)
      <4>1. \A k \in (m + 1)..l : k = l \/ k \in (m + 1)..(l - 1)
        OBVIOUS
      <4> QED
        BY <2>4, <3>2, <4>1 DEF Told
    <3> QED
      BY <2>2, <2>4, <3>1, <3>3 DEF Told
  <2>7. ASSUME NEW n \in DOMAIN runs', runs'[n].kind = "resume"
        PROVE  \E m \in 1..(n - 1) :
                 /\ runs'[m].asked = runs'[n].interrupt
                 /\ Told(runs', m, runs'[n].thread, n)
    <3>1. CASE n = l
      <4>1. PICK m \in DOMAIN runs :
              runs[m].asked = pendingInterrupt[t] /\ Told(runs, m, t, l)
        BY <2>1, <2>3, <2>4, <2>7, <3>1 DEF HeldInv
      <4>2. Told(runs', m, t, l) /\ m \in 1..(l - 1)
        BY <2>3, <2>5, <4>1, RowTypes
      <4>3. /\ runs'[m].asked = pendingInterrupt[t]
            /\ row.interrupt = pendingInterrupt[t]
        BY <2>1, <2>4, <2>7, <3>1, <4>1
      <4> QED
        BY <2>1, <2>4, <3>1, <4>2, <4>3 DEF Told
    <3>2. CASE n \in DOMAIN runs
      <4>1. PICK m \in 1..(n - 1) :
              /\ runs[m].asked = runs[n].interrupt
              /\ Told(runs, m, runs[n].thread, n)
        BY <2>4, <2>7, <3>2 DEF HeldInv
      <4>2. m \in DOMAIN runs /\ n \in Nat /\ n <= l
        BY <2>3, <3>2, RowTypes
      <4>3. PICK u : u = runs[n].thread
        OBVIOUS
      <4>4. Told(runs', m, u, n)
        BY <2>5, <4>1, <4>2, <4>3
      <4> QED
        BY <2>4, <3>2, <4>1, <4>2, <4>3, <4>4 DEF Told
    <3> QED
      BY <2>4, <3>1, <3>2
  <2> QED
    BY <2>6, <2>7 DEF HeldInv
<1>2. ASSUME NEW n \in DOMAIN runs, Serve(n) \/ Finish(n) PROVE HeldInv'
  <2>1. PICK row \in Run : Moved(n, row) /\ Kept(n, row) /\ ServerMoves(n, row)
    BY <1>2, ServerStep
  <2>2. pendingInterrupt' = pendingInterrupt
    BY <1>2, ServerStep DEF client
  <2>3. runs[n].at # "over" /\ row.at # "over"
    BY <2>1 DEF ServerMoves, Started, Resumed, Replied, Asked, Ended
  <2>4. \A m \in DOMAIN runs :
          /\ runs'[m].thread = runs[m].thread /\ runs'[m].kind = runs[m].kind
          /\ runs'[m].interrupt = runs[m].interrupt
          /\ Received(runs', m) <=> Received(runs, m)
          /\ Received(runs, m) => runs'[m].asked = runs[m].asked
    BY <2>1, <2>3 DEF Moved, Kept, Received
  <2> QED
    BY <2>1, <2>2, <2>4, HeldKept DEF Moved
<1>3. ASSUME NEW n \in DOMAIN runs, Deliver(n) PROVE HeldInv'
  <2>0. PICK t \in Threads : t = runs[n].thread
    BY RowTypes DEF Run
  <2>1. PICK row \in Run :
          /\ Moved(n, row) /\ row.at = "over" /\ row.connected
          /\ row.thread = t /\ row.kind = runs[n].kind
          /\ row.interrupt = runs[n].interrupt /\ row.asked = runs[n].asked
    BY <1>3, <2>0, DeliverMoves
  <2>2. Waiting(n) /\ ~Received(runs, n)
    BY <1>3, DeliverMoves DEF Waiting, Received
  <2>3. /\ DOMAIN runs' = DOMAIN runs /\ Len(runs') = Len(runs)
        /\ Received(runs', n)
        /\ \A m \in DOMAIN runs :
             /\ runs'[m].thread = runs[m].thread
             /\ runs'[m].kind = runs[m].kind
             /\ runs'[m].interrupt = runs[m].interrupt
             /\ runs'[m].asked = runs[m].asked
             /\ m # n => (Received(runs', m) <=> Received(runs, m))
    BY <2>0, <2>1 DEF Moved, Received
  <2>4. ASSUME NEW m \in DOMAIN runs, NEW u, NEW l \in Nat, Told(runs, m, u, l),
               l <= Len(runs) + 1,
               u # t \/ l <= n \/ runs[n].asked = 0
        PROVE  Told(runs', m, u, l)
    <3>1. /\ m # n /\ runs[m].thread = u /\ Received(runs, m)
          /\ \A k \in (m + 1)..(l - 1) :
               ~ (Received(runs, k) /\ runs[k].thread = u /\ runs[k].asked # 0)
      BY <2>2, <2>4 DEF Told
    <3>2. \A k \in (m + 1)..(l - 1) : k \in DOMAIN runs
      BY <2>4, RowTypes
    <3>3. n \in (m + 1)..(l - 1) =>
            ~ (runs[n].thread = u /\ runs[n].asked # 0)
      BY <2>0, <2>4, RowTypes
    <3>4. \A k \in (m + 1)..(l - 1) :
            ~ (Received(runs', k) /\ runs'[k].thread = u /\ runs'[k].asked # 0)
      BY <2>3, <3>1, <3>2, <3>3
    <3> QED
      BY <2>3, <3>1, <3>4 DEF Told
  <2>5. PICK l \in Nat : l = Len(runs) + 1
    BY RowTypes
  <2>6. ASSUME NEW u \in Threads, pendingInterrupt'[u] # 0
        PROVE  \E m \in DOMAIN runs' :
                 /\ runs'[m].asked = pendingInterrupt'[u]
                 /\ Told(runs', m, u, Len(runs') + 1)
    <3>1. CASE u = t /\ runs[n].asked # 0
      <4>1. runs[n].kind # "command" /\ runs[n].outcome = "interrupt"
        BY <3>1 DEF ShapeInv
      <4>2. pendingInterrupt'[u] = runs[n].asked
        <5>1. pendingInterrupt' =
                [pendingInterrupt EXCEPT ![t] = runs[n].asked]
          BY <1>3, <2>0, <4>1, DeliverMoves
        <5> QED
          BY <3>1, <5>1 DEF TypeInv, TypeOK
      <4>3. \A k \in (n + 1)..(l + 1 - 1) :
              k \in DOMAIN runs => runs[k].thread # t
        BY <2>0, <2>2, RowTypes DEF WaitInv
      <4>4. \A k \in (n + 1)..(l - 1) : k \in DOMAIN runs
        BY <2>5, RowTypes
      <4>5. Told(runs', n, t, l)
        BY <2>0, <2>3, <4>3, <4>4, RowTypes DEF Told
      <4> QED
        BY <2>3, <2>5, <3>1, <4>2, <4>5 DEF Told
    <3>2. CASE u # t \/ runs[n].asked = 0
      <4>1. pendingInterrupt'[u] = pendingInterrupt[u]
        <5>1. \/ pendingInterrupt' = pendingInterrupt
              \/ pendingInterrupt' =
                   [pendingInterrupt EXCEPT ![t] = runs[n].asked]
          BY <1>3, <2>0, DeliverMoves
        <5> QED
          BY <2>6, <3>2, <5>1 DEF TypeInv, TypeOK
      <4>2. PICK m \in DOMAIN runs :
              runs[m].asked = pendingInterrupt[u] /\ Told(runs, m, u, l)
        BY <2>5, <2>6, <4>1 DEF HeldInv
      <4>3. Told(runs', m, u, l)
        BY <2>4, <2>5, <3>2, <4>2, RowTypes
      <4> QED
        BY <2>3, <2>5, <4>1, <4>2, <4>3 DEF Told
    <3> QED
      BY <3>1, <3>2
  <2>7. ASSUME NEW k \in DOMAIN runs', runs'[k].kind = "resume"
        PROVE  \E m \in 1..(k - 1) :
                 /\ runs'[m].asked = runs'[k].interrupt
                 /\ Told(runs', m, runs'[k].thread, k)
    <3>1. k \in DOMAIN runs /\ k \in Nat /\ k <= Len(runs) + 1
      BY <2>3, RowTypes
    <3>2. PICK m \in 1..(k - 1) :
            /\ runs[m].asked = runs[k].interrupt
            /\ Told(runs, m, runs[k].thread, k)
      BY <2>3, <2>7, <3>1 DEF HeldInv
    <3>3. m \in DOMAIN runs
      BY <3>1, RowTypes
    <3>4. PICK u : u = runs[k].thread
      OBVIOUS
    <3>5. u # t \/ k <= n
      BY <2>0, <2>2, <3>1, <3>4, RowTypes DEF WaitInv
    <3>6. Told(runs', m, u, k)
      BY <2>4, <3>1, <3>2, <3>3, <3>4, <3>5
    <3> QED
      BY <2>3, <3>1, <3>2, <3>3, <3>4, <3>6 DEF Told
  <2> QED
    BY <2>6, <2>7 DEF HeldInv
<1>4. ASSUME NEW n \in DOMAIN runs, Disconnect(n) PROVE HeldInv'
  <2>1. PICK row \in Run :
          /\ Moved(n, row) /\ ~row.connected
          /\ row.thread = runs[n].thread /\ row.kind = runs[n].kind
          /\ row.interrupt = runs[n].interrupt /\ row.asked = runs[n].asked
    BY <1>4, DisconnectMoves
  <2>2. pendingInterrupt' = pendingInterrupt /\ runs[n].at # "over"
    BY <1>4, DisconnectMoves
  <2>3. \A m \in DOMAIN runs :
          /\ runs'[m].thread = runs[m].thread /\ runs'[m].kind = runs[m].kind
          /\ runs'[m].interrupt = runs[m].interrupt
          /\ Received(runs', m) <=> Received(runs, m)
          /\ runs'[m].asked = runs[m].asked
    BY <2>1, <2>2 DEF Moved, Received
  <2> QED
    BY <2>1, <2>2, <2>3, HeldKept DEF Moved
<1>5. CASE Restart
  <2>1. /\ DOMAIN runs' = DOMAIN runs /\ Len(runs') = Len(runs)
        /\ pendingInterrupt' = pendingInterrupt
        /\ \A n \in DOMAIN runs :
             /\ Kept(n, runs'[n]) /\ runs'[n].asked = runs[n].asked
             /\ runs'[n].at = "over" <=> runs[n].at = "over"
    BY <1>5, RestartMoves DEF client
  <2> QED
    BY <2>1, HeldKept DEF Kept, Received
<1>6. CASE UNCHANGED <<runs, client>>
  BY <1>6, HeldKept DEF Received, client
<1> QED
  BY <1>1, <1>2, <1>3, <1>4, <1>5, <1>6, StepKinds
     DEF CreateThread, CloseThread, vars

LEMMA ClientInvs ==
  Spec => [](TypeInv /\ ShapeInv /\ OpenInv /\ WaitInv /\ HeldInv)
<1>1. Init => TypeInv /\ ShapeInv /\ OpenInv /\ WaitInv /\ HeldInv
  <2> SUFFICES ASSUME Init
               PROVE  TypeInv /\ ShapeInv /\ OpenInv /\ WaitInv /\ HeldInv
    OBVIOUS
  <2>1. TypeInv
    BY TypeInvInit
  <2>2. DOMAIN runs = {}
    BY EmptySeq DEF Init
  <2>3. /\ isSubmitting = [t \in Threads |-> FALSE]
        /\ pendingInterrupt = [t \in Threads |-> 0]
        /\ open = [t \in Threads |-> 0]
    BY DEF Init, Server!Init
  <2> QED
    BY <2>1, <2>2, <2>3 DEF ShapeInv, OpenInv, WaitInv, HeldInv
<1> QED
  BY <1>1, TypeInvNext, ShapeInvNext, OpenInvNext, WaitInvNext, HeldInvNext,
     PTL DEF Spec

\* An answer is taken only for the question its thread was last told of
\* before the answer was sent, and only once.
THEOREM AnswersNameWhatWasTold == Spec => []AnswersAreDeliberate
<1>1. TypeInv /\ ShapeInv /\ OpenInv /\ HeldInv => AnswersAreDeliberate
  <2> SUFFICES ASSUME TypeInv, ShapeInv, OpenInv, HeldInv,
                      NEW n \in DOMAIN runs, runs[n].answered # 0
               PROVE  /\ \E m \in 1..(n - 1) :
                           /\ runs[m].asked = runs[n].answered
                           /\ runs[m].thread = runs[n].thread
                           /\ Delivered(m)
                           /\ \A k \in (m + 1)..(n - 1) :
                                ~ /\ Delivered(k)
                                  /\ runs[k].thread = runs[n].thread
                                  /\ runs[k].asked # 0
                      /\ \A k \in DOMAIN runs :
                           runs[k].answered = runs[n].answered => k = n
    BY DEF AnswersAreDeliberate
  <2>1. runs[n].kind = "resume" /\ runs[n].answered = runs[n].interrupt
    BY DEF ShapeInv
  <2>2. PICK m \in 1..(n - 1) :
          runs[m].asked = runs[n].interrupt /\ Told(runs, m, runs[n].thread, n)
    BY <2>1 DEF HeldInv
  <2>3. \A k \in DOMAIN runs : runs[k].answered = runs[n].answered => k = n
    BY DEF OpenInv
  <2> QED
    BY <2>1, <2>2, <2>3 DEF Told, Received, Delivered
<1> QED
  BY <1>1, ClientInvs, PTL

---------------------------------------------------------------------------
(* The card on screen                                                      *)

\* The card is that of the interrupt a click on it answers.
THEOREM CardsAreNeverDead == Spec => []CardIsPending
<1>1. Init => CardIsPending
  BY DEF Init, CardIsPending
<1>2. TypeInv /\ ShapeInv /\ CardIsPending /\ [Next]_vars => CardIsPending'
  <2> SUFFICES ASSUME TypeInv, ShapeInv, CardIsPending, [Next]_vars
               PROVE  CardIsPending'
    OBVIOUS
  <2>1. ASSUME NEW t \in Threads,
               card' = card \/ card' = [card EXCEPT ![t] = 0],
               pendingInterrupt' = pendingInterrupt
        PROVE  CardIsPending'
    BY <2>1 DEF CardIsPending, TypeInv, TypeOK
  <2>2. ASSUME NEW t \in Threads,
               SendMessage(t) \/ ClickChoice(t) \/ ClickCommand(t)
        PROVE  CardIsPending'
    BY <2>1, <2>2, InputSends
  <2>3. ASSUME NEW n \in DOMAIN runs, Deliver(n) PROVE CardIsPending'
    <3>1. PICK t \in Threads : t = runs[n].thread
      BY RowTypes DEF Run
    <3>2. card' = [card EXCEPT ![t] = runs[n].asked]
      BY <2>3, <3>1, DeliverMoves
    <3>3. \/ pendingInterrupt' = [pendingInterrupt EXCEPT ![t] = runs[n].asked]
          \/ pendingInterrupt' = pendingInterrupt /\ runs[n].asked = 0
      BY <2>3, <3>1, DeliverMoves DEF ShapeInv
    <3> QED
      BY <3>2, <3>3 DEF CardIsPending, TypeInv, TypeOK
  <2>4. ASSUME NEW n \in DOMAIN runs, Disconnect(n) PROVE CardIsPending'
    <3>1. runs[n].thread \in Threads
      BY RowTypes DEF Run
    <3> QED
      BY <2>1, <2>4, <3>1, DisconnectMoves
  <2>5. CASE UNCHANGED <<card, pendingInterrupt>>
    BY <2>5 DEF CardIsPending
  <2> QED
    BY <2>2, <2>3, <2>4, <2>5, ServerStep, RestartMoves, StepKinds
       DEF CreateThread, CloseThread, vars, client
<1> QED
  BY <1>1, <1>2, ClientInvs, PTL DEF Spec

---------------------------------------------------------------------------
(* What client and server agree on                                         *)

\* What the wait for request n of a thread that has lost nothing means: the
\* server holds the question that the client will hold when it is told.
Awaits(n) ==
  LET t == runs[n].thread
  IN /\ runs[n].kind = "start" => pendingInterrupt[t] = 0
     /\ runs[n].at = "sent" => pendingInterrupt[t] = open[t]
     /\ runs[n].at = "running" => open[t] = 0
     /\ runs[n].at = "replied" =>
          open[t] = IF runs[n].kind = "command" \/ runs[n].outcome = "error"
                    THEN pendingInterrupt[t]
                    ELSE runs[n].asked

SyncInv ==
  /\ \A n \in DOMAIN runs : ~runs[n].connected => disturbed[runs[n].thread]
  /\ \A n \in DOMAIN runs :
       Waiting(n) /\ ~disturbed[runs[n].thread] => Awaits(n)
  /\ InSync

LEMMA SyncInvNext ==
  TypeInv /\ ShapeInv /\ WaitInv /\ SyncInv /\ [Next]_vars => SyncInv'
<1> SUFFICES ASSUME TypeInv, ShapeInv, WaitInv, SyncInv, [Next]_vars
             PROVE  SyncInv'
  OBVIOUS
\* A step about request n of thread t: only t's slots change.
<1>1. ASSUME NEW n \in DOMAIN runs, NEW t \in Threads, t = runs[n].thread,
             NEW row \in Run, Moved(n, row), row.thread = t,
             \A u \in Threads \ {t} :
               /\ isSubmitting'[u] = isSubmitting[u]
               /\ pendingInterrupt'[u] = pendingInterrupt[u]
               /\ open'[u] = open[u]
               /\ disturbed'[u] = disturbed[u],
             disturbed[t] => disturbed'[t],
             ~row.connected => disturbed'[t],
             Waiting(n) \/ disturbed[t],
             Waiting(n)' /\ ~disturbed'[t] => Awaits(n)',
             ~disturbed'[t] /\ ~isSubmitting'[t] =>
               pendingInterrupt'[t] = open'[t]
      PROVE  SyncInv'
  <2>1. /\ DOMAIN runs' = DOMAIN runs
        /\ runs'[n] = row
        /\ \A m \in DOMAIN runs : runs'[m].thread = runs[m].thread
        /\ \A m \in DOMAIN runs \ {n} : runs'[m] = runs[m]
    BY <1>1 DEF Moved
  <2>2. \A m \in DOMAIN runs : runs[m].thread \in Threads
    BY RowTypes DEF Run
  <2>3. ASSUME NEW m \in DOMAIN runs', ~runs'[m].connected
        PROVE  disturbed'[runs'[m].thread]
    <3>1. CASE m = n
      BY <1>1, <2>1, <2>3, <3>1
    <3>2. CASE m # n
      <4>1. disturbed[runs[m].thread] /\ runs'[m].thread = runs[m].thread
        BY <2>1, <2>3, <3>2 DEF SyncInv
      <4> QED
        BY <1>1, <2>1, <2>2, <4>1
    <3> QED
      BY <3>1, <3>2
  <2>4. ASSUME NEW m \in DOMAIN runs', Waiting(m)', ~disturbed'[runs'[m].thread]
        PROVE  Awaits(m)'
    <3>1. CASE m = n
      BY <1>1, <2>1, <2>4, <3>1
    <3>2. CASE m # n
      <4>1. runs'[m] = runs[m] /\ Waiting(m)
        BY <2>1, <2>4, <3>2 DEF Waiting
      <4>2. runs[m].thread # t
        BY <1>1, <2>1, <2>4, <3>2, <4>1, OneWaits
      <4>3. PICK u \in Threads : u = runs[m].thread
        BY <2>1, <2>2
      <4>4. /\ pendingInterrupt'[u] = pendingInterrupt[u]
            /\ open'[u] = open[u] /\ disturbed'[u] = disturbed[u]
        BY <1>1, <4>2, <4>3
      <4>5. Awaits(m)
        BY <2>1, <2>4, <4>1, <4>3, <4>4 DEF SyncInv
      <4> QED
        BY <4>1, <4>3, <4>4, <4>5 DEF Awaits
    <3> QED
      BY <3>1, <3>2
  <2>5. InSync'
    <3>1. \A u \in Threads \ {t} :
            ~disturbed'[u] /\ ~isSubmitting'[u] =>
              pendingInterrupt'[u] = open'[u]
      BY <1>1 DEF SyncInv, InSync
    <3> QED
      BY <1>1, <3>1 DEF InSync
  <2> QED
    BY <2>3, <2>4, <2>5 DEF SyncInv
<1>2. ASSUME NEW t \in Threads,
             SendMessage(t) \/ ClickChoice(t) \/ ClickCommand(t)
      PROVE  SyncInv'
  <2>1. PICK row \in Run :
          /\ Sent(row) /\ row.thread = t /\ row.at = "sent" /\ row.connected
          /\ row.kind = "start" => pendingInterrupt[t] = 0
    BY <1>2, InputSends
  <2>2. /\ ~isSubmitting[t]
        /\ isSubmitting' = [isSubmitting EXCEPT ![t] = TRUE]
        /\ UNCHANGED <<pendingInterrupt, open, disturbed>>
    BY <1>2, InputSends DEF server
  <2>3. PICK l \in Nat : l = Len(runs) + 1
    BY RowTypes
  <2>4. /\ DOMAIN runs' = DOMAIN runs \cup {l}
        /\ runs'[l] = row /\ \A m \in DOMAIN runs : runs'[m] = runs[m]
    BY <2>1, <2>3 DEF Sent
  <2>5. ~disturbed[t] => Awaits(l)'
    BY <2>1, <2>2, <2>4 DEF SyncInv, InSync, Awaits
  <2>6. \A m \in DOMAIN runs' :
          Waiting(m)' /\ ~disturbed'[runs'[m].thread] => Awaits(m)'
    <3>1. \A m \in DOMAIN runs :
            (Waiting(m)' <=> Waiting(m)) /\ (Awaits(m)' <=> Awaits(m))
      BY <2>2, <2>4 DEF Waiting, Awaits
    <3> QED
      BY <2>1, <2>2, <2>4, <2>5, <3>1 DEF SyncInv
  <2>7. \A m \in DOMAIN runs' :
          ~runs'[m].connected => disturbed'[runs'[m].thread]
    BY <2>1, <2>2, <2>4 DEF SyncInv
  <2>8. InSync'
    BY <2>2 DEF SyncInv, InSync, TypeInv, TypeOK
  <2> QED
    BY <2>6, <2>7, <2>8 DEF SyncInv
<1>3. ASSUME NEW n \in DOMAIN runs, Serve(n) \/ Finish(n) PROVE SyncInv'
  <2>1. PICK row \in Run : Moved(n, row) /\ Kept(n, row) /\ ServerMoves(n, row)
    BY <1>3, ServerStep
  <2>2. UNCHANGED <<isSubmitting, pendingInterrupt>>
    BY <1>3, ServerStep DEF client
  <2>3. PICK t \in Threads : t = runs[n].thread
    BY RowTypes DEF Run
  <2>4. /\ row.thread = t /\ row.connected = runs[n].connected
        /\ row.kind = runs[n].kind /\ runs'[n] = row
    BY <2>1, <2>3 DEF Kept, Moved
  <2>5. runs[n].at # "over" /\ row.at # "over"
    BY <2>1 DEF ServerMoves, Started, Resumed, Replied, Asked, Ended
  <2>6. /\ Waiting(n) \/ disturbed[t]
        /\ ~row.connected => disturbed[t]
    BY <2>3, <2>4, <2>5 DEF Waiting, SyncInv
  <2>7. /\ \A u \in Threads \ {t} :
             open'[u] = open[u] /\ disturbed'[u] = disturbed[u]
        /\ disturbed[t] => disturbed'[t]
    BY <2>1, <2>3
       DEF ServerMoves, Started, Resumed, Replied, Asked, Ended, TypeInv,
           TypeOK
  <2>8. ASSUME ~disturbed'[t]
        PROVE  Awaits(n)' /\ isSubmitting[t]
    <3>1. ~disturbed[t] /\ Waiting(n)
      BY <2>6, <2>7, <2>8
    <3>2. Awaits(n)
      BY <2>3, <3>1 DEF SyncInv
    <3>3. isSubmitting[t]
      BY <2>3, <3>1 DEF WaitInv
    <3>4. /\ runs[n].kind = "start" => pendingInterrupt[t] = 0
          /\ runs[n].at = "sent" => pendingInterrupt[t] = open[t]
          /\ runs[n].at = "running" =>
               open[t] = 0 /\ runs[n].asked = 0 /\ runs[n].kind # "command"
      BY <2>3, <3>2 DEF Awaits, ShapeInv
    <3>5. /\ row.at = "running" => open'[t] = 0
          /\ row.at = "replied" =>
               open'[t] = IF row.kind = "command" \/ row.outcome = "error"
                          THEN pendingInterrupt[t] ELSE row.asked
          /\ row.at # "sent"
      <4>1. CASE Started(n, row)
        BY <2>3, <3>4, <4>1 DEF Started
      <4>2. CASE Resumed(n, row)
        BY <2>3, <4>2 DEF Resumed, TypeInv
      <4>3. CASE Replied(n, row)
        BY <2>4, <3>4, <4>3 DEF Replied
      <4>4. CASE Asked(n, row)
        BY <2>3, <2>4, <3>4, <4>4 DEF Asked, TypeInv
      <4>5. CASE Ended(n, row)
        BY <2>3, <2>4, <2>8, <3>4, <4>5 DEF Ended, TypeInv, TypeOK
      <4> QED
        BY <2>1, <4>1, <4>2, <4>3, <4>4, <4>5 DEF ServerMoves
    <3> QED
      BY <2>2, <2>4, <3>3, <3>4, <3>5 DEF Awaits
  <2> QED
    BY <1>1, <2>1, <2>2, <2>3, <2>4, <2>6, <2>7, <2>8
<1>4. ASSUME NEW n \in DOMAIN runs, Deliver(n) PROVE SyncInv'
  <2>1. PICK t \in Threads : t = runs[n].thread
    BY RowTypes DEF Run
  <2>2. PICK row \in Run :
          /\ Moved(n, row) /\ row.thread = t
          /\ row.at = "over" /\ row.connected
    BY <1>4, <2>1, DeliverMoves
  <2>3. /\ runs[n].at = "replied" /\ runs[n].connected
        /\ isSubmitting' = [isSubmitting EXCEPT ![t] = FALSE]
        /\ pendingInterrupt' =
             IF runs[n].kind = "command" \/ runs[n].outcome = "error"
             THEN pendingInterrupt
             ELSE [pendingInterrupt EXCEPT ![t] = runs[n].asked]
        /\ UNCHANGED <<open, disturbed>>
    BY <1>4, <2>1, DeliverMoves DEF server
  <2>4. Waiting(n) /\ ~Waiting(n)'
    BY <2>2, <2>3 DEF Moved, Waiting
  <2>5. \A u \in Threads \ {t} :
          /\ isSubmitting'[u] = isSubmitting[u]
          /\ pendingInterrupt'[u] = pendingInterrupt[u]
          /\ open'[u] = open[u]
          /\ disturbed'[u] = disturbed[u]
    BY <2>3 DEF TypeInv, TypeOK
  <2>6. ~disturbed[t] => pendingInterrupt'[t] = open[t]
    <3>1. ~disturbed[t] => Awaits(n)
      BY <2>1, <2>4 DEF SyncInv
    <3> QED
      BY <2>1, <2>3, <3>1 DEF Awaits, TypeInv, TypeOK
  <2>7. disturbed'[t] = disturbed[t] /\ open'[t] = open[t]
    BY <2>3
  <2> QED
    BY <1>1, <2>1, <2>2, <2>4, <2>5, <2>6, <2>7
<1>5. ASSUME NEW n \in DOMAIN runs, Disconnect(n) PROVE SyncInv'
  <2>1. PICK t \in Threads : t = runs[n].thread
    BY RowTypes DEF Run
  <2>2. PICK row \in Run : Moved(n, row) /\ row.thread = t
    BY <1>5, <2>1, DisconnectMoves
  <2>3. /\ Waiting(n)
        /\ isSubmitting' = [isSubmitting EXCEPT ![t] = FALSE]
        /\ disturbed' = [disturbed EXCEPT ![t] = TRUE]
        /\ UNCHANGED <<pendingInterrupt, open>>
    BY <1>5, <2>1, DisconnectMoves DEF server, Waiting
  <2>4. /\ disturbed'[t]
        /\ \A u \in Threads \ {t} : /\ isSubmitting'[u] = isSubmitting[u]
                                    /\ disturbed'[u] = disturbed[u]
    BY <2>3 DEF TypeInv, TypeOK
  <2> QED
    BY <1>1, <2>1, <2>2, <2>3, <2>4
<1>6. CASE Restart
  <2>1. /\ DOMAIN runs' = DOMAIN runs
        /\ \A n \in DOMAIN runs : runs'[n].thread = runs[n].thread
        /\ disturbed' = [t \in Threads |-> TRUE]
    BY <1>6, RestartMoves DEF Kept
  <2>2. \A n \in DOMAIN runs : runs[n].thread \in Threads
    BY RowTypes DEF Run
  <2> QED
    BY <2>1, <2>2 DEF SyncInv, InSync
<1>7. CASE UNCHANGED <<client, runs, server, disturbed>>
  BY <1>7 DEF SyncInv, InSync, Waiting, Awaits, client, server
<1> QED
  BY <1>2, <1>3, <1>4, <1>5, <1>6, <1>7, StepKinds
     DEF CreateThread, CloseThread, vars

\* As long as a thread has lost no response and the server no question of
\* it, client and server agree at rest on the question that is open.
THEOREM ClientAndServerAgree == Spec => []InSync
<1>1. Init => SyncInv
  <2> SUFFICES ASSUME Init PROVE SyncInv
    OBVIOUS
  <2>1. DOMAIN runs = {}
    BY EmptySeq DEF Init
  <2> QED
    BY <2>1 DEF Init, Server!Init, SyncInv, InSync
<1>2. SyncInv => InSync
  BY DEF SyncInv
<1> QED
  BY <1>1, <1>2, SyncInvNext, ClientInvs, PTL DEF Spec

---------------------------------------------------------------------------
(* The gateway a request of the client goes through: CommandGateway, for   *)
(* any workers, users, sessions, deployed key sets, payloads and enabled   *)
(* workflows.                                                              *)

CONSTANTS Workers, Users, Sessions, Rings, Payloads, Enabled
VARIABLES sessions, ring, actors, work

GW == INSTANCE CommandGateway


GatewayOutcomes == {"bad body", "bad payload", "unauthorized", "forbidden",
             "unavailable", "started"}

\* Answering keeps the type of a worker.
LEMMA AnswerType ==
  ASSUME NEW w \in Workers, NEW request \in GW!RequestSet,
         NEW late \in BOOLEAN,
         NEW principal \in GW!AtMostOne(Users),
         NEW outcome \in GatewayOutcomes,
         work \in [Workers -> GW!Works],
         GW!Answer(w, request, late, principal, outcome)
  PROVE  work' \in [Workers -> GW!Works]
<1>1. [at |-> "answered", request |-> request, late |-> late,
       principal |-> principal, outcome |-> outcome] \in GW!Works
  BY DEF GW!Works, GatewayOutcomes
<1> QED
  BY <1>1 DEF GW!Answer, GW!Become

\* Moving to the next stage keeps the type of a worker.
LEMMA AtType ==
  ASSUME NEW w \in Workers, NEW request \in GW!RequestSet,
         NEW late \in BOOLEAN,
         NEW principal \in GW!AtMostOne(Users),
         NEW stage \in {"authenticate", "csrf", "dispatch"},
         work \in [Workers -> GW!Works],
         GW!Become(w, GW!At(stage, request, late, principal))
  PROVE  work' \in [Workers -> GW!Works]
<1>1. GW!At(stage, request, late, principal) \in GW!Works
  BY DEF GW!Works, GW!At
<1> QED
  BY <1>1 DEF GW!Become

\* Nobody: the principal of a request before its session is read.
LEMMA NobodyType == {} \in GW!AtMostOne(Users)
  BY DEF GW!AtMostOne

\* A worker that serves a request has one.
LEMMA ServingType ==
  ASSUME GW!TypeOK, NEW w \in Workers,
         work[w].at \in {"authenticate", "csrf", "dispatch"}
  PROVE  /\ work[w].request \in GW!RequestSet /\ work[w].late \in BOOLEAN
         /\ work[w].principal \in GW!AtMostOne(Users)
<1>1. work[w] \in GW!Works
  BY DEF GW!TypeOK
<1>2. work[w] # GW!Idle
  BY DEF GW!Idle
<1>3. work[w].at \notin {"revoke", "answered"}
  OBVIOUS
<1> QED
  BY <1>1, <1>2, <1>3 DEF GW!Works

\* A worker that is logging a session out has one.
LEMMA RevokingType ==
  ASSUME GW!TypeOK, NEW w \in Workers, work[w].at = "revoke"
  PROVE  work[w].session \in Sessions
<1>1. work[w] \in GW!Works
  BY DEF GW!TypeOK
<1>2. work[w] # GW!Idle
  BY DEF GW!Idle
<1>3. work[w].at \notin {"authenticate", "csrf", "dispatch", "answered"}
  OBVIOUS
<1> QED
  BY <1>1, <1>2, <1>3 DEF GW!Works

\* A row that exists has one user as its subject.
LEMMA RowType ==
  ASSUME GW!TypeOK, NEW s \in Sessions, sessions[s] # GW!NoRow
  PROVE  /\ sessions[s] \in GW!Rows
         /\ sessions[s].subject \in GW!AtMostOne(Users)
         /\ sessions[s].subject # {}
<1>1. sessions[s] \in GW!Rows
  BY DEF GW!TypeOK
<1> QED
  BY <1>1 DEF GW!Rows, GW!AtMostOne

\* The session of an authenticated request exists.
LEMMA AuthenticatedExists ==
  ASSUME NEW w, NEW s, GW!Authenticates(w, s)
  PROVE  sessions[s] # GW!NoRow
  BY DEF GW!Authenticates, GW!NoRow

---------------------------------------------------------------------------
(* The inductive invariant: what a worker has found out about the session  *)
(* of its request by each stage.                                           *)

\* The session was vetted for the request, but for its proof.
Vetted(w, s) ==
  /\ work[w].request.cookie = {s} /\ ~work[w].late
  /\ work[w].principal = sessions[s].subject /\ work[w].principal # {}
  /\ sessions[s].key \subseteq ring[w].keys

Proved(w) ==
  /\ work[w].request.origin
  /\ \E s \in Sessions : work[w].request.proof = {s} /\ Vetted(w, s)

Protected(w) == work[w].request.command # GW!Login

WorkInv(w) ==
  /\ work[w].at = "revoke" => sessions[work[w].session] # GW!NoRow
  /\ work[w].at = "authenticate" =>
       /\ Protected(w)
       /\ \A s \in work[w].request.cookie :
            sessions[s] # GW!NoRow /\ (work[w].late => ~GW!GetActive(s))
  /\ work[w].at = "csrf" =>
       Protected(w) /\ \E s \in Sessions : Vetted(w, s)
  /\ work[w].at = "dispatch" /\ Protected(w) => Proved(w)
  /\ /\ work[w].at = "answered" /\ Protected(w)
     /\ work[w].outcome \notin {"bad body", "unauthorized"}
     => Proved(w)

GatewayInv == GW!TypeOK /\ \A w \in Workers : WorkInv(w)

\* What no step takes back: a row that exists keeps its subject and its key,
\* and once it is over or revoked it stays so.
RowsGrow ==
  \A s \in Sessions : sessions[s] # GW!NoRow =>
    /\ sessions'[s] # GW!NoRow
    /\ sessions'[s].subject = sessions[s].subject
    /\ sessions'[s].key = sessions[s].key
    /\ GW!GetActive(s)' => GW!GetActive(s)

\* A worker that does nothing keeps what it has found out, however the rows
\* grow.
LEMMA OthersKeep ==
  ASSUME GatewayInv, RowsGrow, NEW w \in Workers,
         work'[w] = work[w], ring'[w] = ring[w]
  PROVE  WorkInv(w)'
<1>1. work[w] \in GW!Works /\ WorkInv(w)
  BY DEF GatewayInv, GW!TypeOK
<1>2. \A s \in Sessions : Vetted(w, s) => Vetted(w, s)'
  BY DEF Vetted, RowsGrow, GW!NoRow
<1>3. Proved(w) => Proved(w)'
  BY <1>2 DEF Proved
<1>4. Protected(w)' <=> Protected(w)
  BY DEF Protected
<1>5. work[w].at = "revoke" => sessions'[work[w].session] # GW!NoRow
  <2> SUFFICES ASSUME work[w].at = "revoke"
               PROVE  sessions'[work[w].session] # GW!NoRow
    OBVIOUS
  <2>1. work[w].session \in Sessions
    BY RevokingType DEF GatewayInv
  <2> QED
    BY <1>1, <2>1 DEF WorkInv, RowsGrow
<1>6. work[w].at = "authenticate" =>
        \A s \in work[w].request.cookie :
          sessions'[s] # GW!NoRow /\ (work[w].late => ~GW!GetActive(s)')
  <2> SUFFICES ASSUME work[w].at = "authenticate",
                      NEW s \in work[w].request.cookie
               PROVE  /\ sessions'[s] # GW!NoRow
                      /\ work[w].late => ~GW!GetActive(s)'
    OBVIOUS
  <2>1. work[w].request \in GW!RequestSet
    BY ServingType DEF GatewayInv
  <2>2. s \in Sessions
    BY <2>1 DEF GW!RequestSet, GW!AtMostOne
  <2> QED
    BY <1>1, <2>2 DEF WorkInv, RowsGrow
<1> QED
  BY <1>1, <1>2, <1>3, <1>4, <1>5, <1>6 DEF WorkInv

\* A step that leaves the rows and the keys alone and moves one worker only.
LEMMA OneWorkerMoves ==
  ASSUME GatewayInv, NEW w \in Workers, NEW record,
         GW!Become(w, record), UNCHANGED <<sessions, ring, actors>>,
         record \in GW!Works, WorkInv(w)'
  PROVE  GatewayInv'
<1>1. GW!TypeOK'
  BY DEF GatewayInv, GW!TypeOK, GW!Become
<1>2. RowsGrow
  <2>1. sessions' = sessions
    OBVIOUS
  <2> QED
    BY <2>1 DEF RowsGrow, GW!GetActive
<1>3. ASSUME NEW v \in Workers PROVE WorkInv(v)'
  <2>1. CASE v = w
    BY <2>1
  <2>2. CASE v # w
    <3>1. work'[v] = work[v] /\ ring'[v] = ring[v]
      BY <2>2 DEF GW!Become, GatewayInv, GW!TypeOK
    <3> QED
      BY <1>2, <3>1, OthersKeep
  <2> QED
    BY <2>1, <2>2
<1> QED
  BY <1>1, <1>3 DEF GatewayInv

\* Answers that tell nothing of the command need no session.
LEMMA PlainAnswer ==
  ASSUME GatewayInv, NEW w \in Workers, NEW request \in GW!RequestSet,
         NEW late \in BOOLEAN, NEW principal \in GW!AtMostOne(Users),
         NEW outcome \in GatewayOutcomes,
         GW!Answer(w, request, late, principal, outcome),
         \/ request.command = GW!Login
         \/ outcome \in {"bad body", "unauthorized"},
         UNCHANGED <<sessions, ring, actors>>
  PROVE  GatewayInv'
<1> DEFINE record == [at |-> "answered", request |-> request, late |-> late,
                      principal |-> principal, outcome |-> outcome]
<1>1. record \in GW!Works
  BY DEF GW!Works, GatewayOutcomes
<1>2. work'[w] = record
  BY DEF GW!Answer, GW!Become, GatewayInv, GW!TypeOK
<1>3. /\ work'[w].at = "answered" /\ work'[w].request = request
      /\ work'[w].outcome = outcome
  <2>1. /\ record.at = "answered" /\ record.request = request
        /\ record.outcome = outcome
    OBVIOUS
  <2> HIDE DEF record
  <2> QED
    BY <1>2, <2>1
<1>4. ~(Protected(w)' /\ work'[w].outcome \notin {"bad body", "unauthorized"})
  BY <1>3 DEF Protected
<1>5. WorkInv(w)'
  BY <1>3, <1>4 DEF WorkInv
<1> QED
  BY <1>1, <1>5, OneWorkerMoves DEF GW!Answer

\* A request comes in.
LEMMA ReceiveKeeps ==
  ASSUME GatewayInv, NEW w \in Workers, NEW request \in GW!RequestSet,
         GW!Receive(w, request)
  PROVE  GatewayInv'
<1> DEFINE late == \A s \in request.cookie : ~GW!GetActive(s)
<1> USE NobodyType
<1>1. UNCHANGED <<sessions, ring, actors>> /\ late \in BOOLEAN
  BY DEF GW!Receive
<1>2. ASSUME NEW outcome \in GatewayOutcomes,
             GW!Answer(w, request, late, {}, outcome),
             request.command = GW!Login \/ outcome = "bad body"
      PROVE  GatewayInv'
  BY <1>1, <1>2, PlainAnswer
<1>3. ASSUME GW!Become(w, GW!At("dispatch", request, late, {})),
             request.command = GW!Login
      PROVE  GatewayInv'
  <2>1. GW!At("dispatch", request, late, {}) \in GW!Works
    BY <1>1 DEF GW!At, GW!Works
  <2>2. work'[w] = GW!At("dispatch", request, late, {})
    BY <1>3 DEF GW!Become, GatewayInv, GW!TypeOK
  <2>3. WorkInv(w)'
    BY <1>3, <2>2 DEF GW!At, WorkInv, Protected
  <2> QED
    BY <1>1, <1>3, <2>1, <2>3, OneWorkerMoves
<1>4. ASSUME GW!Become(w, GW!At("authenticate", request, late, {})),
             request.command # GW!Login
      PROVE  GatewayInv'
  <2>1. GW!At("authenticate", request, late, {}) \in GW!Works
    BY <1>1 DEF GW!At, GW!Works
  <2>2. work'[w] = GW!At("authenticate", request, late, {})
    BY <1>4 DEF GW!Become, GatewayInv, GW!TypeOK
  <2>3. \A s \in request.cookie :
          sessions'[s] # GW!NoRow /\ (late => ~GW!GetActive(s)')
    BY <1>1 DEF GW!Receive, GW!Issued, GW!GetActive
  <2>4. WorkInv(w)'
    BY <1>4, <2>2, <2>3 DEF GW!At, WorkInv, Protected
  <2> QED
    BY <1>1, <1>4, <2>1, <2>4, OneWorkerMoves
<1> QED
  BY <1>2, <1>3, <1>4 DEF GW!Receive, GatewayOutcomes, GW!Runs, GW!Login

\* The identity of a session is read.
LEMMA AuthenticateKeeps ==
  ASSUME GatewayInv, NEW w \in Workers, GW!Authenticate(w)
  PROVE  GatewayInv'
<1> DEFINE request == work[w].request
           late == work[w].late
<1> USE NobodyType
<1>1. /\ request \in GW!RequestSet /\ late \in BOOLEAN
      /\ request.command # GW!Login
  BY ServingType DEF GW!Authenticate, GatewayInv, WorkInv, Protected
<1>2. UNCHANGED <<sessions, ring, actors>>
  BY DEF GW!Authenticate
<1>3. ASSUME NEW s \in request.cookie, GW!Authenticates(w, s),
             GW!Become(w, GW!At("csrf", request, late, sessions[s].subject))
      PROVE  GatewayInv'
  <2>1. request.cookie = {s} /\ s \in Sessions
    BY <1>1 DEF GW!RequestSet, GW!AtMostOne
  <2>2. /\ sessions[s].subject \in GW!AtMostOne(Users)
        /\ sessions[s].subject # {}
    BY <1>3, <2>1, AuthenticatedExists, RowType DEF GatewayInv
  <2>3. ~late
    BY <1>3 DEF GW!Authenticate, GW!Authenticates, GatewayInv, WorkInv
  <2>4. GW!At("csrf", request, late, sessions[s].subject) \in GW!Works
    BY <1>1, <2>2 DEF GW!At, GW!Works
  <2>5. work'[w] = GW!At("csrf", request, late, sessions[s].subject)
    BY <1>3 DEF GW!Become, GatewayInv, GW!TypeOK
  <2>6. Vetted(w, s)'
    BY <1>2, <1>3, <2>1, <2>2, <2>3, <2>5 DEF GW!At, Vetted, GW!Authenticates
  <2>7. WorkInv(w)'
    BY <1>1, <2>1, <2>5, <2>6 DEF GW!At, WorkInv, Protected
  <2> QED
    BY <1>2, <1>3, <2>4, <2>7, OneWorkerMoves
<1>4. ASSUME GW!Answer(w, request, late, {}, "unauthorized")
      PROVE  GatewayInv'
  BY <1>1, <1>2, <1>4, PlainAnswer DEF GatewayOutcomes
<1> QED
  BY <1>3, <1>4 DEF GW!Authenticate

\* The origin and the CSRF proof are checked, the row read again.
LEMMA VerifyCsrfKeeps ==
  ASSUME GatewayInv, NEW w \in Workers, GW!VerifyCsrf(w)
  PROVE  GatewayInv'
<1> DEFINE request == work[w].request
           late == work[w].late
           principal == work[w].principal
<1>1. /\ request \in GW!RequestSet /\ late \in BOOLEAN
      /\ principal \in GW!AtMostOne(Users)
  BY ServingType DEF GW!VerifyCsrf, GatewayInv
<1>2. request.command # GW!Login
  BY DEF GW!VerifyCsrf, GatewayInv, WorkInv, Protected
<1>3. PICK s \in Sessions : Vetted(w, s)
  BY DEF GW!VerifyCsrf, GatewayInv, WorkInv
<1>4. UNCHANGED <<sessions, ring, actors>>
  BY DEF GW!VerifyCsrf
<1>5. CASE GW!ProofHolds(request)
  <2>1. GW!Become(w, GW!At("dispatch", request, late, principal))
    BY <1>5 DEF GW!VerifyCsrf
  <2>2. GW!At("dispatch", request, late, principal) \in GW!Works
    BY <1>1 DEF GW!At, GW!Works
  <2>3. work'[w] = GW!At("dispatch", request, late, principal)
    BY <2>1 DEF GW!Become, GatewayInv, GW!TypeOK
  <2>4. Vetted(w, s)'
    BY <1>3, <1>4, <2>3 DEF GW!At, Vetted
  <2>5. request.origin /\ request.proof = {s}
    BY <1>3, <1>5 DEF GW!ProofHolds, Vetted
  <2>6. Proved(w)'
    BY <2>3, <2>4, <2>5 DEF GW!At, Proved
  <2>7. WorkInv(w)'
    BY <2>3, <2>6 DEF GW!At, WorkInv
  <2> QED
    BY <1>4, <2>1, <2>2, <2>7, OneWorkerMoves
<1>6. CASE ~GW!ProofHolds(request)
  <2>1. GW!Answer(w, request, late, {}, "unauthorized")
    BY <1>6 DEF GW!VerifyCsrf
  <2> QED
    BY <1>1, <1>4, <2>1, NobodyType, PlainAnswer DEF GatewayOutcomes
<1> QED
  BY <1>5, <1>6

\* The router and the handler answer.
LEMMA DispatchKeeps ==
  ASSUME GatewayInv, NEW w \in Workers, GW!Dispatch(w)
  PROVE  GatewayInv'
<1> DEFINE request == work[w].request
           late == work[w].late
           principal == work[w].principal
           outcome == GW!Outcome(request, principal)
<1>1. /\ request \in GW!RequestSet /\ late \in BOOLEAN
      /\ principal \in GW!AtMostOne(Users)
  BY ServingType DEF GW!Dispatch, GatewayInv
<1>2. outcome \in GatewayOutcomes
  BY DEF GW!Outcome, GatewayOutcomes
<1>3. /\ UNCHANGED <<sessions, ring, actors>>
      /\ GW!Answer(w, request, late, principal, outcome)
  BY DEF GW!Dispatch
<1>4. CASE request.command = GW!Login
  <2> HIDE DEF request, late, principal, outcome
  <2> QED
    BY <1>1, <1>2, <1>3, <1>4, PlainAnswer
<1>5. CASE request.command # GW!Login
  <2> DEFINE record == [at |-> "answered", request |-> request, late |-> late,
                        principal |-> principal, outcome |-> outcome]
  <2>1. record \in GW!Works
    BY <1>1, <1>2 DEF GW!Works, GatewayOutcomes
  <2>2. work'[w] = record
    BY <1>3 DEF GW!Answer, GW!Become, GatewayInv, GW!TypeOK
  <2>3. Proved(w)
    BY <1>5 DEF GW!Dispatch, GatewayInv, WorkInv, Protected
  <2>4. /\ work'[w].at = "answered" /\ work'[w].request = work[w].request
        /\ work'[w].late = work[w].late
        /\ work'[w].principal = work[w].principal
    BY <2>2
  <2>5. Proved(w)'
    BY <1>3, <2>3, <2>4 DEF Proved, Vetted
  <2>6. WorkInv(w)'
    BY <2>4, <2>5 DEF WorkInv
  <2> QED
    BY <1>3, <2>1, <2>6, OneWorkerMoves DEF GW!Answer
<1> QED
  BY <1>4, <1>5

\* Rows are only added, revoked and grow older; the worker that does so has
\* no request.
LEMMA RowsMove ==
  ASSUME GatewayInv, GW!TypeOK', RowsGrow,
         \A w \in Workers : \/ work'[w] = work[w] /\ ring'[w] = ring[w]
                            \/ work'[w] = GW!Idle
  PROVE  GatewayInv'
<1>1. ASSUME NEW w \in Workers PROVE WorkInv(w)'
  <2>1. CASE work'[w] = work[w] /\ ring'[w] = ring[w]
    BY <2>1, OthersKeep
  <2>2. CASE work'[w] = GW!Idle
    BY <2>2 DEF GW!Idle, WorkInv
  <2> QED
    BY <2>1, <2>2
<1> QED
  BY <1>1 DEF GatewayInv

LEMMA IssueKeeps ==
  ASSUME GatewayInv, NEW w \in Workers, NEW s \in Sessions, NEW u \in Users,
         GW!Issue(w, s, u)
  PROVE  GatewayInv'
<1> DEFINE row == [state |-> "live", subject |-> {u},
                   key |-> {ring[w].current}, age |-> 0]
<1>1. row \in GW!Rows
  BY DEF GW!Rows, GatewayInv, GW!TypeOK
<1>2. sessions' \in [Sessions -> GW!Rows \cup {GW!NoRow}]
  BY <1>1 DEF GW!Issue, GatewayInv, GW!TypeOK
<1>3. work' \in [Workers -> GW!Works]
  BY DEF GW!Issue, GW!Become, GatewayInv, GW!TypeOK, GW!Works
<1>4. GW!TypeOK'
  BY <1>2, <1>3 DEF GW!Issue, GatewayInv, GW!TypeOK
<1>5. \A t \in Sessions : t # s => sessions'[t] = sessions[t]
  BY DEF GW!Issue, GatewayInv, GW!TypeOK
<1>6. RowsGrow
  BY <1>5 DEF GW!Issue, RowsGrow, GW!GetActive
<1>7. \A v \in Workers : \/ work'[v] = work[v] /\ ring'[v] = ring[v]
                         \/ work'[v] = GW!Idle
  BY DEF GW!Issue, GW!Become, GatewayInv, GW!TypeOK
<1> QED
  BY <1>4, <1>6, <1>7, RowsMove

LEMMA BeginLogoutKeeps ==
  ASSUME GatewayInv, NEW w \in Workers, NEW s \in Sessions,
         GW!BeginLogout(w, s)
  PROVE  GatewayInv'
<1> DEFINE record == [at |-> "revoke", session |-> s]
<1>1. record \in GW!Works
  BY DEF GW!Works
<1>2. work'[w] = record
  BY DEF GW!BeginLogout, GW!Become, GatewayInv, GW!TypeOK
<1>3. sessions'[s] # GW!NoRow
  BY AuthenticatedExists DEF GW!BeginLogout
<1>4. WorkInv(w)'
  BY <1>2, <1>3 DEF WorkInv
<1> QED
  BY <1>1, <1>4, OneWorkerMoves DEF GW!BeginLogout

LEMMA RevokeKeeps ==
  ASSUME GatewayInv, NEW w \in Workers, GW!Revoke(w)
  PROVE  GatewayInv'
<1> DEFINE s == work[w].session
           row == [sessions[s] EXCEPT !.state = "revoked"]
<1>1. s \in Sessions /\ sessions[s] # GW!NoRow
  BY RevokingType DEF GW!Revoke, GatewayInv, WorkInv
<1>2. sessions[s] \in GW!Rows
  BY <1>1, RowType DEF GatewayInv
<1>3. /\ row \in GW!Rows /\ row.subject = sessions[s].subject
      /\ row.key = sessions[s].key /\ row.state = "revoked"
  BY <1>2 DEF GW!Rows
<1>4. sessions' = [sessions EXCEPT ![s] = row]
  BY DEF GW!Revoke
<1> HIDE DEF row
<1>5. \A t \in Sessions : sessions'[t] = IF t = s THEN row ELSE sessions[t]
  BY <1>4 DEF GatewayInv, GW!TypeOK
<1>6. sessions' \in [Sessions -> GW!Rows \cup {GW!NoRow}]
  BY <1>3, <1>4 DEF GatewayInv, GW!TypeOK
<1>7. work' \in [Workers -> GW!Works]
  BY DEF GW!Revoke, GW!Become, GatewayInv, GW!TypeOK, GW!Works
<1>8. GW!TypeOK'
  BY <1>6, <1>7 DEF GW!Revoke, GatewayInv, GW!TypeOK
<1>9. RowsGrow
  BY <1>3, <1>5 DEF RowsGrow, GW!GetActive, GW!NoRow
<1>10. \A v \in Workers : \/ work'[v] = work[v] /\ ring'[v] = ring[v]
                          \/ work'[v] = GW!Idle
  BY DEF GW!Revoke, GW!Become, GatewayInv, GW!TypeOK
<1> QED
  BY <1>8, <1>9, <1>10, RowsMove

LEMMA AgeKeeps ==
  ASSUME GatewayInv, NEW s \in Sessions, GW!Age(s)
  PROVE  GatewayInv'
<1> DEFINE row == [sessions[s] EXCEPT !.age = @ + 1]
<1>1. sessions[s] \in GW!Rows
  BY RowType DEF GW!Age, GatewayInv
<1>2. /\ row \in GW!Rows /\ row.subject = sessions[s].subject
      /\ row.key = sessions[s].key /\ row.state = sessions[s].state
      /\ row.age > sessions[s].age /\ sessions[s].age \in 0..2
      /\ row.age \in 0..2
  BY <1>1 DEF GW!Age, GW!Rows
<1>3. sessions' = [sessions EXCEPT ![s] = row]
  BY DEF GW!Age
<1> HIDE DEF row
<1>4. \A t \in Sessions : sessions'[t] = IF t = s THEN row ELSE sessions[t]
  BY <1>3 DEF GatewayInv, GW!TypeOK
<1>5. sessions' \in [Sessions -> GW!Rows \cup {GW!NoRow}]
  BY <1>2, <1>3 DEF GatewayInv, GW!TypeOK
<1>6. GW!TypeOK'
  BY <1>5 DEF GW!Age, GatewayInv, GW!TypeOK
<1>7. row # GW!NoRow
  BY <1>2 DEF GW!NoRow
<1>8. RowsGrow
  BY <1>2, <1>4, <1>7 DEF RowsGrow, GW!GetActive
<1>9. \A v \in Workers : work'[v] = work[v] /\ ring'[v] = ring[v]
  BY DEF GW!Age
<1> QED
  BY <1>6, <1>8, <1>9, RowsMove

LEMMA RestartKeeps ==
  ASSUME GatewayInv, NEW w \in Workers, NEW r \in Rings, GW!Restart(w, r)
  PROVE  GatewayInv'
<1>1. work' \in [Workers -> GW!Works]
  BY DEF GW!Restart, GW!Become, GatewayInv, GW!TypeOK, GW!Works
<1>2. GW!TypeOK'
  BY <1>1 DEF GW!Restart, GatewayInv, GW!TypeOK
<1>3. sessions' = sessions
  BY DEF GW!Restart
<1>4. RowsGrow
  BY <1>3 DEF RowsGrow, GW!GetActive
<1>5. \A v \in Workers : \/ work'[v] = work[v] /\ ring'[v] = ring[v]
                         \/ work'[v] = GW!Idle
  BY DEF GW!Restart, GW!Become, GatewayInv, GW!TypeOK
<1> QED
  BY <1>2, <1>4, <1>5, RowsMove

LEMMA StutterKeeps ==
  ASSUME GatewayInv, UNCHANGED <<sessions, ring, work>>,
         actors' \in SUBSET Users
  PROVE  GatewayInv'
<1>1. GW!TypeOK'
  BY DEF GatewayInv, GW!TypeOK
<1>2. RowsGrow
  BY DEF RowsGrow, GW!GetActive
<1> QED
  BY <1>1, <1>2, RowsMove

---------------------------------------------------------------------------
\* The inductive invariant holds.
LEMMA GatewayInductive == GW!Spec => []GatewayInv
<1>1. GW!Init => GatewayInv
  <2> SUFFICES ASSUME GW!Init PROVE GatewayInv
    OBVIOUS
  <2>1. GW!Idle \in GW!Works
    BY DEF GW!Works
  <2>2. GW!TypeOK
    BY <2>1 DEF GW!Init, GW!TypeOK
  <2>3. \A w \in Workers : work[w].at = "idle"
    BY DEF GW!Init, GW!Idle
  <2>4. \A w \in Workers : WorkInv(w)
    BY <2>3 DEF WorkInv
  <2> QED
    BY <2>2, <2>4 DEF GatewayInv
<1>2. GatewayInv /\ [GW!Next]_(GW!vars) => GatewayInv'
  <2> SUFFICES ASSUME GatewayInv, [GW!Next]_(GW!vars) PROVE GatewayInv'
    OBVIOUS
  <2>1. CASE UNCHANGED GW!vars
    <3>1. UNCHANGED <<sessions, ring, work>> /\ actors' \in SUBSET Users
      BY <2>1 DEF GW!vars, GatewayInv, GW!TypeOK
    <3> QED
      BY <3>1, StutterKeeps
  <2>2. ASSUME NEW users \in SUBSET Users, GW!ChangeActors(users)
        PROVE  GatewayInv'
    BY <2>2, StutterKeeps DEF GW!ChangeActors
  <2> QED
    BY <2>1, <2>2, IssueKeeps, BeginLogoutKeeps, RevokeKeeps, ReceiveKeeps,
       AuthenticateKeeps, VerifyCsrfKeeps, DispatchKeeps, RestartKeeps,
       AgeKeeps
       DEF GW!Next
<1> QED
  BY <1>1, <1>2, PTL DEF GW!Spec

\* The type invariant: rows, keys and requests in service stay well formed.
\* It needs the inductive invariant: a logout must find the row it revokes.
THEOREM GatewayTypeCorrect == GW!Spec => []GW!TypeOK
  BY GatewayInductive, PTL DEF GatewayInv

\* Only a request vetted by a session of its principal learns anything about
\* a protected command or starts a workflow or a run.
THEOREM OnlyVettedRequestsStart == GW!Spec => []GW!VettedBySession
<1>1. GatewayInv => GW!VettedBySession
  BY DEF GatewayInv, WorkInv, Protected, Proved, Vetted, GW!VettedBySession
<1> QED
  BY <1>1, GatewayInductive, PTL
---------------------------------------------------------------------------
(* ChatRouting, for every text a guest types.                              *)

\* Whatever a guest types and whatever intent the model proposes, the chat
\* opens only a context that guests are offered: the list of the router and
\* that of the context service agree.
THEOREM GuestStaysPublic ==
  ASSUME NEW text \in Texts, NEW intent \in GuestIntents
  PROVE  GuestRoute(intent, text).context \in OfferedToGuest \cup {NoContext}
<1>1. ASSUME NEW command
      PROVE  RouteCommand(command, text).context
               \in OfferedToGuest \cup {NoContext}
  BY DEF RouteCommand, RoutePublicContext, To, Help, LoginRequired,
         OfferedToGuest, PublicContexts
<1> QED
  BY <1>1 DEF GuestRoute, To, Help, LoginRequired, OfferedToGuest

\* A protected command of a guest asks for a login, with arguments or not,
\* and no intent the model proposes for the same text changes that.
THEOREM ProtectedCommandNeedsLogin ==
  ASSUME NEW text \in Texts, text # <<>>, Head(text) \in ProtectedCommands,
         NEW intent
  PROVE  GuestRoute(intent, text) = LoginRequired
<1>1. ParseChatCommand(text) = Unknown
  <2>1. Head(text) \in SlashWords
    BY DEF SlashWords
  <2>2. Head(text) \notin {"/login", "/context", "/resume", "/cancel"}
    BY DEF ProtectedCommands
  <2>3. text \notin {<<"/login">>, <<"/context">>, <<"/resume">>,
                     <<"/cancel">>}
    BY <2>2
  <2> QED
    BY <2>1, <2>2, <2>3 DEF ParseChatCommand
<1> QED
  BY <1>1 DEF GuestRoute, RouteCommand, Unknown, Ordinary
=============================================================================
