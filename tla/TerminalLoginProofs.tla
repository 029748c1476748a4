------------------------ MODULE TerminalLoginProofs ------------------------
(***************************************************************************)
(* Theorems about TerminalLogin for any logins of one machine account,     *)
(* people, groups, mapping files and keys, any lifetimes and intervals.    *)
(***************************************************************************)
EXTENDS TerminalLogin, FiniteSetTheorems, TLAPS

---------------------------------------------------------------------------
(* Types                                                                   *)

\* TypeOK but for the file, which is about sessions; and what the stages of
\* a login say of the types of its code and token.
Types ==
  /\ at \in [Logins -> Stages] /\ mapping \in [Logins -> Mappings \cup {{}}]
  /\ token \in [Logins -> Tokens \cup {NoToken}]
  /\ session \in [Logins -> Sessions \cup {NoSession}]
  /\ life \in [Logins -> Nat]
  /\ timer \in [Logins -> Timers] /\ code \in [Logins -> Codes]
  /\ \E k \in Keys : jwks = {k}
  /\ private \in BOOLEAN /\ alone \in [Logins -> BOOLEAN]
  /\ \A p \in Logins :
       /\ code[p].state \in {"approved", "spent"} => code[p].by \in Users
       /\ at[p] = "keys" => token[p] \in Tokens

\* A login that fails keeps or loses what it had.
LEMMA ForgetTypes ==
  ASSUME Types, NEW p \in Logins, Forget(p)
  PROVE  /\ mapping' \in [Logins -> Mappings \cup {{}}]
         /\ token' \in [Logins -> Tokens \cup {NoToken}]
         /\ timer' \in [Logins -> Timers] /\ code' \in [Logins -> Codes]
         /\ \A q \in Logins :
              /\ code'[q].state \in {"approved", "spent"}
                   => code'[q].by \in Users
              /\ q # p => token'[q] = token[q]
<1>1. NoTimer \in Timers /\ NoCode \in Codes /\ NoCode.state = "none"
  BY DEF NoTimer, Timers, NoCode, Codes
<1>2. \A q \in Logins :
        /\ code'[q] = IF q = p THEN NoCode ELSE code[q]
        /\ token'[q] = IF q = p THEN NoToken ELSE token[q]
  BY DEF Forget, Types
<1> QED
  BY <1>1, <1>2 DEF Forget, LeaveLoop, Types

\* Slowing down moves the two intervals and both waits.
LEMMA SlowerByType ==
  ASSUME NEW t \in Timers
  PROVE  /\ SlowerBy(t) \in Timers
         /\ SlowerBy(t).interval = t.interval + 1
         /\ SlowerBy(t).nap = t.interval + 1
         /\ SlowerBy(t).required = t.required + 1
         /\ SlowerBy(t).due = t.required + 1
<1> DEFINE t1 == [t EXCEPT !.interval = @ + 1]
           t2 == [t1 EXCEPT !.nap = t.interval + 1]
           t3 == [t2 EXCEPT !.required = @ + 1]
           t4 == [t3 EXCEPT !.due = t.required + 1]
<1>1. t1 \in Timers /\ t1.interval = t.interval + 1 /\ t1.required = t.required
  BY DEF Timers
<1>2. /\ t2 \in Timers /\ t2.interval = t1.interval
      /\ t2.nap = t.interval + 1 /\ t2.required = t1.required
  <2> HIDE DEF t1
  <2> QED
    BY <1>1 DEF Timers
<1>3. /\ t3 \in Timers /\ t3.interval = t2.interval
      /\ t3.nap = t2.nap /\ t3.required = t2.required + 1
  <2> HIDE DEF t2
  <2> QED
    BY <1>2 DEF Timers
<1>4. /\ t4 \in Timers /\ t4.interval = t3.interval
      /\ t4.nap = t3.nap /\ t4.required = t3.required
      /\ t4.due = t.required + 1
  <2> HIDE DEF t3
  <2> QED
    BY <1>3 DEF Timers
<1>5. SlowerBy(t) = t4
  BY DEF SlowerBy
<1> HIDE DEF t1, t2, t3, t4
<1> QED
  BY <1>1, <1>2, <1>3, <1>4, <1>5

LEMMA TypesInit == Init => Types
<1> SUFFICES ASSUME Init PROVE Types
  OBVIOUS
<1>1. NoTimer \in Timers /\ NoCode \in Codes /\ NoCode.state = "none"
  BY DEF NoTimer, Timers, NoCode, Codes
<1>2. (CHOOSE k \in Keys : TRUE) \in Keys
  BY TerminalAssumption
<1> QED
  BY <1>1, <1>2 DEF Init, Types, Stages

LEMMA TypesNext == Types /\ [Next]_vars => Types'
<1> SUFFICES ASSUME Types, [Next]_vars PROVE Types'
  OBVIOUS
<1>1. ASSUME NEW p \in Logins, NEW m \in Mappings, Start(p, m)
      PROVE  Types'
  BY <1>1 DEF Start, GoTo, Types, built, disk, Stages
<1>2. ASSUME NEW p \in Logins, Authorize(p) PROVE Types'
  <2>1. PICK lifetime \in Lifetimes, seconds \in Intervals :
          LET t == [left |-> lifetime, interval |-> seconds, nap |-> 0,
                    required |-> seconds, due |-> 0]
          IN /\ \/ /\ PastDeadline(t)
                   /\ GoTo(p, "request", "failed")
                   /\ Forget(p)
                \/ /\ ~PastDeadline(t)
                   /\ GoTo(p, "request", "poll")
                   /\ timer' = [timer EXCEPT ![p] = t]
                   /\ code' = [code EXCEPT ![p].state = "pending"]
                   /\ UNCHANGED <<mapping, token>>
             /\ UNCHANGED <<built, jwks, disk>>
    BY <1>2 DEF Authorize
  <2> DEFINE t == [left |-> lifetime, interval |-> seconds, nap |-> 0,
                   required |-> seconds, due |-> 0]
  <2>2. t \in Timers
    BY TerminalAssumption DEF Timers
  <2>3. CASE GoTo(p, "request", "failed") /\ Forget(p)
    BY <2>1, <2>3, ForgetTypes DEF GoTo, Types, built, disk, Stages, Ended
  <2>4. CASE /\ GoTo(p, "request", "poll")
             /\ timer' = [timer EXCEPT ![p] = t]
             /\ code' = [code EXCEPT ![p].state = "pending"]
             /\ UNCHANGED <<mapping, token>>
    <3>1. code' \in [Logins -> Codes] /\ code'[p].state = "pending"
      BY <2>4 DEF Types, Codes
    <3>2. timer' \in [Logins -> Timers]
      BY <2>2, <2>4 DEF Types
    <3> HIDE DEF t
    <3> QED
      BY <2>1, <2>4, <3>1, <3>2 DEF GoTo, Types, built, disk, Stages
  <2> QED
    BY <2>1, <2>3, <2>4
<1>3. ASSUME NEW p \in Logins, Pending(p) \/ SlowDown(p) PROVE Types'
  <2>1. PICK t \in Timers : timer' = [timer EXCEPT ![p] = t]
    <3>1. timer[p] \in Timers
      BY DEF Types
    <3>2. CASE Pending(p)
      <4> DEFINE t == [timer[p] EXCEPT !.nap = timer[p].interval,
                                       !.due = timer[p].required]
      <4>1. t \in Timers
        BY <3>1 DEF Timers
      <4>2. timer' = [timer EXCEPT ![p] = t]
        BY <3>1, <3>2 DEF Pending, Timers, Types
      <4> QED
        BY <4>1, <4>2
    <3>3. CASE SlowDown(p)
      BY <3>1, <3>3, SlowerByType DEF SlowDown
    <3> QED
      BY <1>3, <3>2, <3>3
  <2>2. timer' \in [Logins -> Timers]
    BY <2>1 DEF Types
  <2> QED
    BY <1>3, <2>2
       DEF Pending, SlowDown, GoTo, Types, built, disk, Stages
<1>4. ASSUME NEW p \in Logins, Refused(p) PROVE Types'
  BY <1>4, ForgetTypes DEF Refused, GoTo, Types, built, disk, Stages, Ended
<1>5. ASSUME NEW p \in Logins, Granted(p) PROVE Types'
  <2>1. CASE GoTo(p, "poll", "failed") /\ Forget(p)
    BY <1>5, <2>1, ForgetTypes
       DEF Granted, GoTo, Types, built, disk, Stages, Ended
  <2>2. CASE /\ GoTo(p, "poll", "keys")
             /\ \E groups \in SUBSET Groups, key \in jwks,
                   sound \in BOOLEAN :
                  token' = [token EXCEPT ![p] =
                    [user |-> code[p].by, groups |-> groups, key |-> key,
                     sound |-> sound]]
             /\ code' = [code EXCEPT ![p].state = "spent"]
             /\ LeaveLoop(p)
             /\ UNCHANGED mapping
    <3>1. PICK groups \in SUBSET Groups, key \in jwks, sound \in BOOLEAN :
            token' = [token EXCEPT ![p] =
               [user |-> code[p].by, groups |-> groups, key |-> key,
                sound |-> sound]]
      BY <2>2
    <3>2. [user |-> code[p].by, groups |-> groups, key |-> key,
           sound |-> sound] \in Tokens
      BY <1>5 DEF Granted, Types, Tokens
    <3>3. token' \in [Logins -> Tokens \cup {NoToken}] /\ token'[p] \in Tokens
          /\ \A q \in Logins : q # p => token'[q] = token[q]
      BY <3>1, <3>2 DEF Types
    <3>4. /\ code' \in [Logins -> Codes]
          /\ \A q \in Logins : code'[q].by = code[q].by
          /\ \A q \in Logins : q # p => code'[q] = code[q]
          /\ code[p].by \in Users
      <4>1. code' = [code EXCEPT ![p].state = "spent"] /\ code[p].by \in Users
        BY <1>5, <2>2 DEF Granted, Types
      <4>2. \A q \in Logins : code[q] \in Codes
        BY DEF Types
      <4> QED
        BY <4>1, <4>2 DEF Types, Codes
    <3>5. timer' \in [Logins -> Timers]
      BY <1>5, <2>2 DEF Granted, LeaveLoop, NoTimer, Types, Timers
    <3>6. UNCHANGED <<mapping, built, jwks, disk>>
      BY <1>5, <2>2 DEF Granted
    <3>7. at' \in [Logins -> Stages]
      BY <2>2 DEF GoTo, Types, Stages
    <3>8. \A q \in Logins :
            /\ code'[q].state \in {"approved", "spent"} => code'[q].by \in Users
            /\ at'[q] = "keys" => token'[q] \in Tokens
      <4>1. \A q \in Logins : q # p => at'[q] = at[q]
        BY <2>2 DEF GoTo, Types
      <4> QED
        BY <3>3, <3>4, <4>1 DEF Types
    <3> QED
      BY <3>3, <3>4, <3>5, <3>6, <3>7, <3>8 DEF Types, built, disk
  <2> QED
    BY <1>5, <2>1, <2>2 DEF Granted
<1>6. ASSUME NEW p \in Logins, Wake(p) PROVE Types'
  BY <1>6, ForgetTypes DEF Wake, GoTo, Types, built, disk, Stages, Ended
<1>7. ASSUME NEW p \in Logins, BuildSession(p) PROVE Types'
  <2>1. token[p] \in Tokens /\ mapping[p] \in Mappings \cup {{}}
    BY <1>7 DEF BuildSession, GoTo, Types
  <2>2. [user |-> token[p].user, groups |-> token[p].groups,
         approvals |-> ResolveGroupGrants(token[p].groups, mapping[p])]
          \in Sessions
    BY <2>1 DEF Tokens, Sessions, ResolveGroupGrants
  <2>3. /\ session' \in [Logins -> Sessions \cup {NoSession}]
        /\ life' \in [Logins -> Nat]
    BY <1>7, <2>2, TerminalAssumption DEF BuildSession, Types
  <2> QED
    BY <1>7, <2>3 DEF BuildSession, GoTo, Types, disk, Stages
<1>8. ASSUME NEW p \in Logins, RejectToken(p) PROVE Types'
  BY <1>8, ForgetTypes
     DEF RejectToken, GoTo, Types, built, disk, Stages, Ended
<1>9. ASSUME NEW p \in Logins, Truncate(p) \/ Write(p) \/ Chmod(p)
      PROVE  Types'
  BY <1>9 DEF Truncate, Write, Chmod, GoTo, Types, built, Stages, Ended
<1>10. ASSUME NEW p \in Logins, Abort(p) PROVE Types'
  BY <1>10, ForgetTypes DEF Abort, GoTo, Types, built, Stages, Ended
<1>11. ASSUME NEW p \in Logins, Decide(p) \/ Expire(p) PROVE Types'
  <2>1. PICK decision \in Codes :
          /\ code' = [code EXCEPT ![p] = decision]
          /\ decision.state \in {"approved", "spent"} => decision.by \in Users
    BY <1>11 DEF Decide, Expire, Types, Codes
  <2> QED
    BY <1>11, <2>1 DEF Decide, Expire, Types, built, disk
<1>12. CASE Rotate
  BY <1>12 DEF Rotate, Types, built, disk
<1>13. CASE Tick
  <2>1. \A n \in Nat : Less(n) \in Nat
    BY DEF Less
  <2>2. life' \in [Logins -> Nat]
    BY <1>13, <2>1 DEF Tick, Types
  <2>3. timer' \in [Logins -> Timers]
    BY <1>13, <2>1 DEF Tick, Types, Timers
  <2> QED
    BY <1>13, <2>2, <2>3 DEF Tick, Types, disk
<1>14. CASE UNCHANGED vars
  BY <1>14 DEF vars, Types, built, disk
<1> QED
  BY <1>1, <1>2, <1>3, <1>4, <1>5, <1>6, <1>7, <1>8, <1>9, <1>10, <1>11,
     <1>12, <1>13, <1>14 DEF Next, Step, Poll

---------------------------------------------------------------------------
(* What one login does leaves the others alone, but for the file.          *)

OthersKeep(p) ==
  \A q \in Logins \ {p} :
    /\ at'[q] = at[q] /\ mapping'[q] = mapping[q] /\ token'[q] = token[q]
    /\ session'[q] = session[q] /\ timer'[q] = timer[q]
    /\ code'[q] = code[q]

\* The steps of a login, and those of others that concern its code.
Moves(p) ==
  \/ \E m \in Mappings : Start(p, m)
  \/ Step(p) \/ Abort(p) \/ Decide(p) \/ Expire(p)

LEMMA OthersAreKept ==
  ASSUME Types, NEW p \in Logins, Moves(p)
  PROVE  OthersKeep(p)
<1> USE DEF OthersKeep, GoTo, Types, built, disk, Forget, LeaveLoop
<1>1. CASE \E m \in Mappings : Start(p, m)
  BY <1>1 DEF Start
<1>2. CASE Authorize(p)
  BY <1>2 DEF Authorize
<1>3. CASE Pending(p) \/ SlowDown(p)
  BY <1>3 DEF Pending, SlowDown
<1>4. CASE Refused(p) \/ Granted(p)
  BY <1>4 DEF Refused, Granted
<1>5. CASE Wake(p)
  BY <1>5 DEF Wake
<1>6. CASE BuildSession(p) \/ RejectToken(p)
  BY <1>6 DEF BuildSession, RejectToken
<1>7. CASE Truncate(p) \/ Write(p) \/ Chmod(p)
  BY <1>7 DEF Truncate, Write, Chmod
<1>8. CASE Abort(p)
  BY <1>8 DEF Abort
<1>9. CASE Decide(p) \/ Expire(p)
  BY <1>9 DEF Decide, Expire
<1> QED
  BY <1>1, <1>2, <1>3, <1>4, <1>5, <1>6, <1>7, <1>8, <1>9
     DEF Moves, Step, Poll

LEMMA NextMoves ==
  ASSUME [Next]_vars
  PROVE  (\E p \in Logins : Moves(p)) \/ Rotate \/ Tick \/ UNCHANGED vars
  BY DEF Next, Moves

---------------------------------------------------------------------------
(* From the approval of a code to the session                              *)

\* The session is that of the person who approved the code, built from a
\* sound token of theirs.
Approved(p) ==
  /\ code[p] = [state |-> "spent", by |-> session[p].user]
  /\ token[p].sound /\ token[p].user = session[p].user
  /\ session[p].approvals = token[p].groups \cap mapping[p]

\* A login has a session from the moment it has built one; from then on
\* neither its code nor its token changes.
StageOf(p) ==
  /\ at[p] \in {"idle", "request", "poll", "sleep", "keys"}
       => session[p] = NoSession
  /\ at[p] \in {"truncate", "write", "chmod", "done"}
       => session[p] # NoSession
  /\ at[p] = "keys" => code[p] = [state |-> "spent", by |-> token[p].user]
  /\ session[p] # NoSession => Approved(p)

StageInv == \A p \in Logins : StageOf(p)

\* A session is not nothing: NoUser is nobody.
LEMMA SessionsAreReal == NoSession \notin Sessions
  BY TerminalAssumption DEF NoSession, Sessions

LEMMA StageKept ==
  ASSUME StageInv, NEW p \in Logins, OthersKeep(p), StageOf(p)'
  PROVE  StageInv'
<1>1. ASSUME NEW q \in Logins \ {p} PROVE StageOf(q)'
  BY <1>1 DEF OthersKeep, StageInv, StageOf, Approved
<1> QED
  BY <1>1 DEF StageInv

LEMMA StageInit == Init => StageInv
  BY DEF Init, StageInv, StageOf

LEMMA StageNext == Types /\ StageInv /\ [Next]_vars => StageInv'
<1> SUFFICES ASSUME Types, StageInv, [Next]_vars PROVE StageInv'
  OBVIOUS
<1>1. ASSUME NEW p \in Logins, Moves(p) PROVE StageInv'
  <2>1. OthersKeep(p) /\ StageOf(p)
    BY <1>1, OthersAreKept DEF StageInv
  <2> SUFFICES StageOf(p)'
    BY <2>1, StageKept
  <2> USE DEF GoTo, Types, built, disk
  \* Up to the token there is no session, and a step makes none.
  <2>2. ASSUME session'[p] = NoSession, session[p] = NoSession,
               at'[p] \notin {"keys", "truncate", "write", "chmod", "done"}
        PROVE  StageOf(p)'
    BY <2>2 DEF StageOf
  <2>3. CASE \E m \in Mappings : Start(p, m)
    BY <2>1, <2>2, <2>3 DEF Start, StageOf
  <2>4. CASE Authorize(p)
    BY <2>1, <2>2, <2>4 DEF Authorize, StageOf
  <2>5. CASE Pending(p) \/ SlowDown(p)
    BY <2>1, <2>2, <2>5 DEF Pending, SlowDown, StageOf
  <2>6. CASE Refused(p) \/ Wake(p) \/ RejectToken(p)
    BY <2>1, <2>2, <2>6 DEF Refused, Wake, RejectToken, StageOf
  <2>7. CASE Granted(p)
    <3>1. CASE GoTo(p, "poll", "failed")
      BY <2>1, <2>2, <2>7, <3>1 DEF Granted, StageOf
    <3>2. CASE /\ GoTo(p, "poll", "keys")
               /\ \E groups \in SUBSET Groups, key \in jwks,
                     sound \in BOOLEAN :
                    token' = [token EXCEPT ![p] =
                      [user |-> code[p].by, groups |-> groups, key |-> key,
                       sound |-> sound]]
               /\ code' = [code EXCEPT ![p].state = "spent"]
      <4>1. token'[p].user = code[p].by
        BY <3>2
      <4>2. code[p] \in Codes
        OBVIOUS
      <4>3. code'[p] = [state |-> "spent", by |-> code[p].by]
        BY <3>2, <4>2 DEF Codes
      <4>4. session'[p] = NoSession /\ at'[p] = "keys"
        BY <2>1, <2>7, <3>2 DEF Granted, StageOf
      <4> QED
        BY <4>1, <4>3, <4>4 DEF StageOf
    <3> QED
      BY <2>7, <3>1, <3>2 DEF Granted
  <2>8. CASE BuildSession(p)
    <3>1. /\ token[p] \in Tokens /\ token'[p] = token[p]
          /\ code'[p] = code[p] /\ mapping'[p] = mapping[p]
          /\ code[p] = [state |-> "spent", by |-> token[p].user]
          /\ token[p].sound /\ at'[p] = "truncate"
      BY <2>1, <2>8 DEF BuildSession, StageOf, Acceptable
    <3>2. /\ session'[p].user = token[p].user
          /\ session'[p].approvals = token[p].groups \cap mapping[p]
      BY <2>8 DEF BuildSession, ResolveGroupGrants
    <3>3. session'[p] # NoSession
      BY <3>1, <3>2, TerminalAssumption DEF NoSession, Tokens
    <3> QED
      BY <3>1, <3>2, <3>3 DEF StageOf, Approved
  <2>9. CASE Truncate(p) \/ Write(p) \/ Chmod(p)
    BY <2>1, <2>9 DEF Truncate, Write, Chmod, StageOf, Approved
  <2>10. CASE Abort(p)
    BY <2>1, <2>2, <2>10 DEF Abort, StageOf, Approved
  <2>11. CASE Decide(p) \/ Expire(p)
    BY <2>1, <2>11 DEF Decide, Expire, StageOf, Approved
  <2> QED
    BY <1>1, <2>3, <2>4, <2>5, <2>6, <2>7, <2>8, <2>9, <2>10, <2>11
       DEF Moves, Step, Poll
<1>2. CASE Rotate \/ Tick \/ UNCHANGED vars
  BY <1>2 DEF Rotate, Tick, vars, built, StageInv, StageOf, Approved
<1> QED
  BY <1>1, <1>2, NextMoves


---------------------------------------------------------------------------
(* The session file                                                        *)

\* The file is missing, a ruin of some length, or the text of a session
\* that a login has built.
FileInv ==
  \/ file = Missing
  \/ file.is = "torn" /\ file.size \in Nat
  \/ /\ file.is = "session" /\ file.of \in Logins
     /\ session[file.of] # NoSession
     /\ file = Whole(file.of, Size(session[file.of]))

\* The text of a session has a length, and is not empty.
LEMMA SizeType ==
  ASSUME NEW s \in Sessions
  PROVE  Size(s) \in Nat
<1>1. IsFiniteSet(s.groups) /\ IsFiniteSet(s.approvals)
  BY TerminalAssumption, FS_Subset DEF Sessions
<1> QED
  BY <1>1, FS_CardinalityType DEF Size

\* A session that has been built stays what it is.
LEMMA BuiltStays ==
  ASSUME Types, StageInv, [Next]_vars, NEW p \in Logins,
         session[p] # NoSession
  PROVE  session'[p] = session[p]
<1>1. at[p] # "keys"
  BY DEF StageInv, StageOf
<1>2. ASSUME NEW q \in Logins, Moves(q) PROVE session'[p] = session[p]
  <2>1. CASE p # q
    BY <1>2, <2>1, OthersAreKept DEF OthersKeep
  <2>2. CASE p = q
    <3>1. ~BuildSession(p)
      BY <1>1 DEF BuildSession, GoTo
    <3> QED
      BY <1>2, <2>2, <3>1
         DEF Moves, Step, Poll, Start, Authorize, Pending, SlowDown, Refused,
             Granted, Wake, RejectToken, Truncate, Write, Chmod, Abort,
             Decide, Expire, built
  <2> QED
    BY <2>1, <2>2
<1> QED
  BY <1>2, NextMoves DEF Rotate, Tick, vars, built

\* What a login writes over the file is its session or a ruin.
LEMMA OverType ==
  ASSUME Types, StageInv, FileInv, NEW p \in Logins, at[p] = "write"
  PROVE  /\ session[p] \in Sessions /\ Size(session[p]) \in Nat
         /\ \/ Over(p) = Whole(p, Size(session[p]))
            \/ Over(p).is = "torn" /\ Over(p).size \in Nat
<1>1. session[p] \in Sessions /\ session[p] # NoSession
  BY DEF StageInv, StageOf, Types
<1>2. Size(session[p]) \in Nat
  BY <1>1, SizeType
<1>3. file.size \in Nat
  <2>1. CASE file.is = "session"
    <3>1. /\ file.of \in Logins /\ session[file.of] # NoSession
          /\ file = Whole(file.of, Size(session[file.of]))
      BY <2>1 DEF FileInv, Missing
    <3>2. session[file.of] \in Sessions
      BY <3>1 DEF Types
    <3>3. Size(session[file.of]) \in Nat
      BY <3>2, SizeType
    <3>4. file.size = Size(session[file.of])
      BY <3>1 DEF Whole
    <3> QED
      BY <3>3, <3>4
  <2>2. CASE file.is # "session"
    BY <2>2 DEF FileInv, Missing
  <2> QED
    BY <2>1, <2>2
<1> QED
  BY <1>1, <1>2, <1>3 DEF Over, Torn

LEMMA FileInit == Init => FileInv
  BY DEF Init, FileInv

\* What happens to the file in a step.
LEMMA FileSteps ==
  ASSUME Types, [Next]_vars
  PROVE  \/ \E p \in Logins : Truncate(p)
         \/ \E p \in Logins : Write(p)
         \/ file' = file /\ \A p \in Logins : alone'[p] => alone[p]
<1>1. ASSUME NEW p \in Logins, Moves(p), ~Truncate(p), ~Write(p)
      PROVE  file' = file /\ \A q \in Logins : alone'[q] => alone[q]
  <2>1. CASE Abort(p)
    BY <2>1 DEF Abort, Types
  <2>2. CASE ~Abort(p)
    <3>1. file' = file /\ alone' = alone
      BY <1>1, <2>2
         DEF Moves, Step, Poll, Start, Authorize, Pending, SlowDown, Refused,
             Granted, Wake, BuildSession, RejectToken, Chmod, Decide, Expire,
             disk
    <3> QED
      BY <3>1
  <2> QED
    BY <2>1, <2>2
<1> QED
  BY <1>1, NextMoves DEF Rotate, Tick, vars, disk

LEMMA FileNext == Types /\ StageInv /\ FileInv /\ [Next]_vars => FileInv'
<1> SUFFICES ASSUME Types, StageInv, FileInv, [Next]_vars PROVE FileInv'
  OBVIOUS
<1>1. ASSUME NEW p \in Logins, Truncate(p) PROVE FileInv'
  <2>1. file' = Torn(0)
    BY <1>1 DEF Truncate, OpenFile, Empty
  <2> QED
    BY <2>1 DEF FileInv, Torn
<1>2. ASSUME NEW p \in Logins, Write(p) PROVE FileInv'
  <2>1. at[p] = "write" /\ file' = Over(p) /\ session' = session
    BY <1>2 DEF Write, GoTo, built
  <2>2. CASE Over(p).is = "torn" /\ Over(p).size \in Nat
    BY <2>1, <2>2 DEF FileInv
  <2>3. CASE Over(p) = Whole(p, Size(session[p]))
    <3>1. session[p] # NoSession
      BY <2>1 DEF StageInv, StageOf
    <3>2. /\ file' = Whole(p, Size(session'[p]))
          /\ file'.is = "session" /\ file'.of = p
      BY <2>1, <2>3 DEF Whole
    <3> QED
      BY <2>1, <3>1, <3>2 DEF FileInv
  <2> QED
    BY <2>1, <2>2, <2>3, OverType
<1>3. ASSUME file' = file PROVE FileInv'
  <2>1. CASE file.is = "session"
    <3>1. /\ file.of \in Logins /\ session[file.of] # NoSession
          /\ file = Whole(file.of, Size(session[file.of]))
      BY <2>1 DEF FileInv, Missing
    <3>2. session'[file.of] = session[file.of]
      BY <3>1, BuiltStays
    <3> QED
      BY <1>3, <2>1, <3>1, <3>2 DEF FileInv
  <2>2. CASE file.is # "session"
    BY <1>3, <2>2 DEF FileInv
  <2> QED
    BY <2>1, <2>2
<1> QED
  BY <1>1, <1>2, <1>3, FileSteps

---------------------------------------------------------------------------
\* The invariants so far hold together.
LEMMA FileInvariance == Spec => [](Types /\ StageInv /\ FileInv)
<1>1. Init => Types /\ StageInv /\ FileInv
  BY TypesInit, StageInit, FileInit
<1>2. Types /\ StageInv /\ FileInv /\ [Next]_vars
        => (Types /\ StageInv /\ FileInv)'
  BY TypesNext, StageNext, FileNext
<1> QED
  BY <1>1, <1>2, PTL DEF Spec

\* The variables of TerminalLogin keep their types, and the session file is
\* missing, torn or exactly one login's session.
THEOREM TerminalTypeCorrect == Spec => []TypeOK
<1>1. Types /\ FileInv => TypeOK
  BY DEF Types, FileInv, TypeOK
<1> QED
  BY <1>1, FileInvariance, PTL

\* A session that whoami prints was approved: the code of its login has been
\* redeemed for a sound token of the person who approved it, and its grants
\* are those the mapping gives groups of the token -- for any number of
\* logins that write one file over each other and die in between.
THEOREM PrintedIsApproved == Spec => []ShownIsApproved
<1>1. StageInv /\ FileInv => ShownIsApproved
  <2> SUFFICES ASSUME StageInv, FileInv, Printed.is = "session"
               PROVE  /\ file.of = Printed.of
                      /\ Approved(file.of)
    BY DEF ShownIsApproved, Approved
  <2>1. file.is = "session"
    <3>1. file.is \in {"missing", "torn", "session"}
      BY DEF FileInv, Missing
    <3>2. file.is = "missing" => Printed.is = "no session"
      BY DEF Printed
    <3>3. file.is = "torn" => Printed.is = "invalid"
      BY DEF Printed
    <3> QED
      BY <3>1, <3>2, <3>3
  <2>2. file.of \in Logins /\ session[file.of] # NoSession
    BY <2>1 DEF FileInv, Missing
  <2>3. Printed.of = file.of
    BY <2>1 DEF Printed
  <2> QED
    BY <2>2, <2>3 DEF StageInv, StageOf
<1> QED
  BY <1>1, FileInvariance, PTL


---------------------------------------------------------------------------
(* The two clocks of a wait: the client's sleep and the provider's         *)
(* interval.                                                               *)

\* The client sleeps no shorter than the provider wants it to, and knows an
\* interval no shorter than the provider's.
TimeOf(p) ==
  /\ at[p] \in {"poll", "sleep"} => timer[p].interval >= timer[p].required
  /\ at[p] = "sleep" => timer[p].nap >= timer[p].due
  /\ at[p] = "poll" => timer[p].due = 0

TimeInv == \A p \in Logins : TimeOf(p)

LEMMA TimeInit == Init => TimeInv
  BY DEF Init, TimeInv, TimeOf

LEMMA TimeNext == Types /\ TimeInv /\ [Next]_vars => TimeInv'
<1> SUFFICES ASSUME Types, TimeInv, [Next]_vars PROVE TimeInv'
  OBVIOUS
<1>1. ASSUME NEW p \in Logins, Moves(p) PROVE TimeInv'
  <2>1. OthersKeep(p) /\ TimeOf(p) /\ timer[p] \in Timers
    BY <1>1, OthersAreKept DEF TimeInv, Types
  <2> SUFFICES TimeOf(p)'
    <3>1. ASSUME NEW q \in Logins \ {p} PROVE TimeOf(q)'
      BY <2>1, <3>1 DEF OthersKeep, TimeInv, TimeOf
    <3> QED
      BY <3>1 DEF TimeInv
  <2> USE DEF GoTo, Types
  \* A login that neither waits nor polls has no clocks to keep.
  <2>2. ASSUME at'[p] \notin {"poll", "sleep"} PROVE TimeOf(p)'
    BY <2>2 DEF TimeOf
  <2>3. CASE \E m \in Mappings : Start(p, m)
    BY <2>2, <2>3 DEF Start
  <2>4. CASE Authorize(p)
    <3>1. CASE GoTo(p, "request", "failed")
      BY <2>2, <3>1
    <3>2. CASE ~GoTo(p, "request", "failed")
      <4>1. PICK lifetime \in Lifetimes, seconds \in Intervals :
              timer' = [timer EXCEPT ![p] =
                [left |-> lifetime, interval |-> seconds, nap |-> 0,
                 required |-> seconds, due |-> 0]]
        BY <2>4, <3>2 DEF Authorize
      <4>2. at'[p] = "poll"
        BY <2>4, <3>2 DEF Authorize
      <4>3. /\ timer'[p].interval = seconds /\ timer'[p].required = seconds
            /\ timer'[p].due = 0 /\ seconds \in Nat
        BY <4>1, TerminalAssumption
      <4> QED
        BY <4>2, <4>3 DEF TimeOf
    <3> QED
      BY <3>1, <3>2
  <2>5. CASE Pending(p)
    <3>1. /\ at[p] = "poll" /\ at'[p] = "sleep"
          /\ timer'[p].interval = timer[p].interval
          /\ timer'[p].required = timer[p].required
          /\ timer'[p].nap = timer[p].interval
          /\ timer'[p].due = timer[p].required
      BY <2>1, <2>5 DEF Pending, Timers
    <3> QED
      BY <2>1, <3>1 DEF TimeOf
  <2>6. CASE SlowDown(p)
    <3>1. at[p] = "poll" /\ at'[p] = "sleep" /\ timer'[p] = SlowerBy(timer[p])
      BY <2>6 DEF SlowDown
    <3>2. timer[p].interval \in Nat /\ timer[p].required \in Nat
      BY <2>1 DEF Timers
    <3> QED
      BY <2>1, <3>1, <3>2, SlowerByType DEF TimeOf
  <2>7. CASE Refused(p) \/ Granted(p)
    BY <2>2, <2>7 DEF Refused, Granted
  \* A nap that is over has outlasted the provider's interval.
  <2>8. CASE Wake(p)
    <3>1. timer[p].nap = 0 /\ timer[p].due \in Nat
      BY <2>1, <2>8 DEF Wake, Timers
    <3>2. at[p] = "sleep"
      BY <2>8 DEF Wake
    <3>3. timer[p].due = 0
      BY <2>1, <3>1, <3>2 DEF TimeOf
    <3>4. CASE at'[p] = "poll" /\ timer' = timer
      BY <2>1, <3>2, <3>3, <3>4 DEF TimeOf
    <3> QED
      BY <2>2, <2>8, <3>4 DEF Wake
  <2>9. CASE BuildSession(p) \/ RejectToken(p)
    BY <2>2, <2>9 DEF BuildSession, RejectToken
  <2>10. CASE Truncate(p) \/ Write(p) \/ Chmod(p)
    BY <2>2, <2>10 DEF Truncate, Write, Chmod
  <2>11. CASE Abort(p)
    BY <2>2, <2>11 DEF Abort
  <2>12. CASE Decide(p) \/ Expire(p)
    BY <2>1, <2>12 DEF Decide, Expire, TimeOf
  <2> QED
    BY <1>1, <2>3, <2>4, <2>5, <2>6, <2>7, <2>8, <2>9, <2>10, <2>11, <2>12
       DEF Moves, Step, Poll
\* Both clocks run at the same speed.
<1>2. CASE Tick
  <2>1. ASSUME NEW p \in Logins PROVE TimeOf(p)'
    <3>1. timer[p] \in Timers /\ TimeOf(p)
      BY DEF Types, TimeInv
    <3>2. /\ timer'[p].interval = timer[p].interval
          /\ timer'[p].required = timer[p].required
          /\ timer'[p].nap = Less(timer[p].nap)
          /\ timer'[p].due = Less(timer[p].due)
          /\ at' = at
      BY <1>2, <3>1 DEF Tick, Timers
    <3>3. timer[p].nap \in Nat /\ timer[p].due \in Nat
      BY <3>1 DEF Timers
    <3> QED
      BY <3>1, <3>2, <3>3 DEF TimeOf, Less
  <2> QED
    BY <2>1 DEF TimeInv
<1>3. CASE Rotate \/ UNCHANGED vars
  BY <1>3 DEF Rotate, vars, TimeInv, TimeOf
<1> QED
  BY <1>1, <1>2, <1>3, NextMoves

\* No poll of login_once comes before the interval the provider has last
\* asked for is over, for any intervals and however often slow_down makes
\* them longer (RFC 8628, section 3.5).
THEOREM PollsAreNeverTooFast == Spec => []NeverTooFast
<1>1. Init => TimeInv
  BY TimeInit
<1>2. Types /\ TimeInv /\ [Next]_vars => TimeInv'
  BY TimeNext
<1>3. TimeInv => NeverTooFast
  BY DEF TimeInv, TimeOf, NeverTooFast
<1> QED
  BY <1>1, <1>2, <1>3, FileInvariance, PTL DEF Spec

---------------------------------------------------------------------------
(* A login alone with the file                                             *)

\* A login at its write that found nobody else there, and was joined by
\* nobody, has an empty file before it.
AloneInv ==
  \A p \in Logins : at[p] = "write" /\ alone[p] =>
    file = Empty /\ \A q \in Logins \ {p} : at[q] # "write"

\* A login gets to its write by emptying the file.
LEMMA WriteIsReached ==
  ASSUME Types, [Next]_vars, NEW p \in Logins, at'[p] = "write"
  PROVE  at[p] = "write" \/ Truncate(p)
<1>1. ASSUME NEW q \in Logins, Moves(q)
      PROVE  at[p] = "write" \/ Truncate(p)
  <2>1. CASE p # q
    BY <1>1, <2>1, OthersAreKept DEF OthersKeep
  <2>2. CASE p = q
    BY <1>1, <2>2
       DEF Moves, Step, Poll, Start, Authorize, Pending, SlowDown, Refused,
           Granted, Wake, BuildSession, RejectToken, Write, Chmod, Abort,
           Decide, Expire, GoTo, Types, Ended
  <2> QED
    BY <2>1, <2>2
<1> QED
  BY <1>1, NextMoves DEF Rotate, Tick, vars

LEMMA AloneInit == Init => AloneInv
  BY DEF Init, AloneInv

LEMMA AloneNext == Types /\ AloneInv /\ [Next]_vars => AloneInv'
<1> SUFFICES ASSUME Types, AloneInv, [Next]_vars,
                    NEW p \in Logins, at'[p] = "write", alone'[p]
             PROVE  file' = Empty /\ \A q \in Logins \ {p} : at'[q] # "write"
  BY DEF AloneInv
<1>1. CASE \E q \in Logins : Truncate(q)
  <2>1. PICK q \in Logins : Truncate(q)
    BY <1>1
  <2>2. /\ file' = Empty /\ p = q
        /\ \A o \in Logins : at[o] # "write"
    BY <2>1 DEF Truncate, OpenFile, HasItOpen
  <2>3. \A o \in Logins \ {q} : at'[o] = at[o]
    BY <2>1 DEF Truncate, GoTo, Types
  <2> QED
    BY <2>2, <2>3
<1>2. CASE \E q \in Logins : Write(q)
  <2>1. PICK q \in Logins : Write(q)
    BY <1>2
  <2>2. at[q] = "write" /\ at'[q] = "chmod" /\ ~alone'[q] /\ p # q
    BY <2>1 DEF Write, GoTo, Types
  <2>3. at[p] = "write" /\ alone[p]
    BY <2>1, <2>2 DEF Write, GoTo, Types
  <2> QED
    BY <2>2, <2>3 DEF AloneInv
<1>3. CASE file' = file /\ \A q \in Logins : alone'[q] => alone[q]
  <2>1. CASE \E q \in Logins : Truncate(q)
    BY <1>1, <2>1
  <2>2. CASE ~\E q \in Logins : Truncate(q)
    <3>1. \A q \in Logins : at'[q] = "write" => at[q] = "write"
      BY <2>2, WriteIsReached
    <3> QED
      BY <1>3, <3>1 DEF AloneInv
  <2> QED
    BY <2>1, <2>2
<1> QED
  BY <1>1, <1>2, <1>3, FileSteps

\* A login that had the file to itself leaves its own session in it: the
\* whole text, whatever was there before, for sessions of any length.
THEOREM LoneLoginsReplaceTheFile == Spec => LoginReplacesFile
<1> DEFINE Replaced ==
      \A p \in Logins :
        at[p] = "write" /\ at'[p] = "chmod" /\ alone[p] =>
          file' = Whole(p, Size(session[p]))
<1>1. Init => AloneInv
  BY AloneInit
<1>2. Types /\ AloneInv /\ [Next]_vars => AloneInv'
  BY AloneNext
<1>3. Types /\ StageInv /\ FileInv /\ AloneInv /\ [Next]_vars
        => [Replaced]_vars
  <2> SUFFICES ASSUME Types, StageInv, FileInv, AloneInv, [Next]_vars,
                      NEW p \in Logins, at[p] = "write", at'[p] = "chmod",
                      alone[p]
               PROVE  file' = Whole(p, Size(session[p]))
    OBVIOUS
  <2>1. file = Empty
    BY DEF AloneInv
  <2>2. Write(p)
    <3>1. ASSUME NEW q \in Logins, Moves(q) PROVE Write(p)
      <4>1. p = q
        BY <3>1, OthersAreKept DEF OthersKeep
      <4> QED
        BY <3>1, <4>1
           DEF Moves, Step, Poll, Start, Authorize, Pending, SlowDown,
               Refused, Granted, Wake, BuildSession, RejectToken, Truncate,
               Chmod, Abort, Decide, Expire, GoTo, Types
    <3> QED
      BY <3>1, NextMoves DEF Rotate, Tick, vars
  <2>3. Size(session[p]) \in Nat
    BY OverType
  <2>4. Size(session[p]) >= file.size
    BY <2>1, <2>3 DEF Empty, Torn
  <2> QED
    BY <2>2, <2>4 DEF Write, Over
<1> QED
  BY <1>1, <1>2, <1>3, FileInvariance, PTL DEF Spec, LoginReplacesFile

=============================================================================
