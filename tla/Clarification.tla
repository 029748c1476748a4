--------------------------- MODULE Clarification ---------------------------
(***************************************************************************)
(* What the harness promises about clarification questions, without runs,  *)
(* workflows or a model: each request has at most one open question, only  *)
(* the actor it was put to can answer it, an answered or displaced         *)
(* question never opens again, and a process restart forgets every open    *)
(* question.  harness/core.py keeps these slots in _pending_intake.        *)
(***************************************************************************)
EXTENDS Naturals, Sequences

CONSTANTS
  Requests,  \* request ids (AG-UI thread ids)
  Actors,    \* user ids
  NoActor    \* the answerer of a question nobody answered

VARIABLES
  questions, \* every question ever asked: [request, actor, answeredBy]
  open       \* the open question of each request, 0 when there is none

vars == <<questions, open>>

Init ==
  /\ questions = <<>>
  /\ open = [r \in Requests |-> 0]

\* A new question takes the slot of its request, displacing an open one.
Ask(r, a) ==
  /\ questions' = Append(questions,
                    [request |-> r, actor |-> a, answeredBy |-> NoActor])
  /\ open' = [open EXCEPT ![r] = Len(questions) + 1]

\* The actor who was asked answers the open question, which closes it.
Answer(r, a) ==
  /\ open[r] # 0
  /\ questions[open[r]].actor = a
  /\ questions' = [questions EXCEPT ![open[r]].answeredBy = a]
  /\ open' = [open EXCEPT ![r] = 0]

\* The process restarts: every open question is lost.
Forget ==
  /\ open' = [r \in Requests |-> 0]
  /\ UNCHANGED questions

Next ==
  \/ \E r \in Requests, a \in Actors : Ask(r, a) \/ Answer(r, a)
  \/ Forget

Spec == Init /\ [][Next]_vars
=============================================================================
