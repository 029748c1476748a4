---------------------------- MODULE ChatRouting ----------------------------
(***************************************************************************)
(* The chat's deterministic routing before any model is asked:             *)
(* parse_chat_command and AvailableChatContextService of                   *)
(* gateway/chat_workflow_context.py, and the router of visitors without a  *)
(* session, gateway/guest_chat_router.py.  All of it is pure; a text is    *)
(* the sequence of its words, and only the words that begin with "/" and   *)
(* the names of contexts are told apart.                                   *)
(***************************************************************************)
EXTENDS Sequences, Naturals

\* ChatContextKind
Contexts ==
  {"login", "register_account", "join_organization",
   "register_organization", "onboarding_review", "provision", "help"}
NoContext == "no_context"

\* The words that begin with a slash, of those a user may type.
ProtectedCommands ==
  {"/provision", "/onboard-org", "/review-onboard-org",
   "/onboarding-review"}
SlashWords ==
  {"/login", "/context", "/resume", "/cancel", "/join-org", "/other"}
    \cup ProtectedCommands
Words == SlashWords \cup Contexts \cup {"word"}
Texts == Seq(Words)

Ordinary == [kind |-> "none", context |-> NoContext]
Unknown  == [kind |-> "unknown", context |-> NoContext]
Kind(k)  == [kind |-> k, context |-> NoContext]
Select(c) == [kind |-> "select_context", context |-> c]

\* parse_chat_command: the allow-list; a text that does not begin with a
\* slash is ordinary language, any other one is at most unknown.
ParseChatCommand(text) ==
  IF text = <<>> \/ Head(text) \notin SlashWords THEN Ordinary
  ELSE IF text = <<"/login">>   THEN Kind("login")
  ELSE IF text = <<"/context">> THEN Kind("show_context")
  ELSE IF /\ Head(text) = "/context" /\ Len(text) = 2
          /\ text[2] \in Contexts
       THEN Select(text[2])
  ELSE IF text = <<"/resume">>  THEN Kind("list_resumable")
  ELSE IF text = <<"/cancel">>  THEN Kind("cancel_active")
  ELSE Unknown

\* AvailableChatContextService.for_principal: what is offered to a guest,
\* and to a user by membership and reviewer permission.
OfferedToGuest ==
  {"login", "register_account", "join_organization", "help"}
OfferedToUser(member, reviewer) ==
  IF ~member THEN {"register_organization", "join_organization", "help"}
  ELSE {"provision", "join_organization", "help"}
         \cup (IF reviewer THEN {"onboarding_review"} ELSE {})

---------------------------------------------------------------------------
(* GuestChatRouter *)

\* GuestIntakeIntent, or none.
GuestIntents ==
  {"register_account", "join_organization", "help", "protected_action",
   "no_intent"}

To(action, context) == [action |-> action, context |-> context]
Help == To("show_help", "help")
LoginRequired == To("login_required", NoContext)

\* _PUBLIC_CONTEXTS
PublicContexts == {"login", "register_account", "join_organization", "help"}

\* _route_public_context
RoutePublicContext(c) ==
  CASE c = "login"             -> To("start_login", c)
    [] c = "register_account"  -> To("start_registration", c)
    [] c = "join_organization" -> To("start_join_organization", c)
    [] OTHER                   -> Help

\* _route_command
RouteCommand(command, text) ==
  IF command.kind = "login" THEN To("start_login", "login")
  ELSE IF command.kind = "show_context" THEN To("show_contexts", NoContext)
  ELSE IF command.kind = "select_context"
            /\ command.context \in PublicContexts
       THEN RoutePublicContext(command.context)
  ELSE IF command.kind = "unknown" /\ Head(text) \in ProtectedCommands
       THEN LoginRequired
  ELSE Help

\* route: the candidate intent matters for ordinary language only.
GuestRoute(intent, text) ==
  LET command == ParseChatCommand(text)
  IN IF command # Ordinary THEN RouteCommand(command, text)
     ELSE CASE intent = "register_account" ->
                 To("start_registration", "register_account")
            [] intent = "join_organization" ->
                 To("start_join_organization", "join_organization")
            [] intent = "protected_action" -> LoginRequired
            [] OTHER -> Help
=============================================================================
