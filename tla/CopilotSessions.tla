--------------------------- MODULE CopilotSessions ---------------------------
(***************************************************************************)
(* CopilotServiceImpl, SessionManager and AgentGraph: sessions whose        *)
(* context the shell replaces on every page switch, messages that an agent *)
(* answers by calling capabilities, and interrupts that wait in the        *)
(* context until the user decides.  Every write of a session is a          *)
(* transaction of its own; the context that is written back is the one     *)
(* that was read when the request began.  The language model is external:  *)
(* it may ask for any tool, known or not.  Titles and activity times are   *)
(* left out.                                                               *)
(***************************************************************************)
EXTENDS NoValue, Naturals, FiniteSets

CONSTANTS Chats,          \* session ids
          Turns,          \* messages and resumes at work at once
          Modules,        \* what a shell session's page may show
          Capabilities,
          Actions,        \* the capabilities of type "action"
          Asked,          \* executions that the agent asks about
          MaxIterations,  \* _MAX_AGENT_ITERATIONS, rounds of the agent loop
          MaxDecisions,   \* bound: decisions counted
          SerialResumes   \* whether resumes of one session never overlap

VARIABLES chat,      \* copilot_sessions
          turn,
          ran,       \* what the agent asked FunctionService to run, and for
                     \* which page
          decided,   \* how often a decision on an execution was passed on
          shown      \* the executions a user was asked about

chatVars == <<chat, turn, ran, decided, shown>>

\* In agent mode a session has no module.
Places == Modules \cup {"agent"}

ASSUME CopilotAssumption ==
  /\ Actions \subseteq Capabilities
  /\ MaxIterations \in Nat
  /\ MaxDecisions \in Nat
  /\ SerialResumes \in BOOLEAN
  /\ None \notin Asked \cup Chats

Chat == [status : {"active", "deleted"}, place : Places, pending : Asked \cup {None}]

ASSUME NoneIsNoChat == None \notin Chat

Turn == [pc      : {"idle", "agent", "tools", "clear", "decide"},
         chat    : Chats \cup {None},
         place   : Places \cup {None},         \* of the context it read
         tools   : SUBSET Capabilities,
         rounds  : 0..MaxIterations,           \* answers that asked for tools
         pending : Asked \cup {None}]          \* of the context it read

NoTurn == [pc |-> "idle", chat |-> None, place |-> None, tools |-> {}, rounds |-> 0,
           pending |-> None]

ChatTypeOK ==
  /\ chat \in [Chats -> Chat \cup {None}]
  /\ turn \in [Turns -> Turn]
  /\ ran \subseteq Capabilities \X Places
  /\ decided \in [Asked -> 0..MaxDecisions]
  /\ shown \subseteq Asked

----------------------------------------------------------------------------

\* get_by_id finds active sessions only.
Active(s) == chat[s] # None /\ chat[s].status = "active"

\* SHELL_MODULE_CAPABILITIES; a function is always read only.
AllowedIn(place) ==
  IF place \in {"agent", "data", "function"} THEN Capabilities
  ELSE IF place \in {"ontology", "setting"} THEN Capabilities \ Actions ELSE {}

EndsTurn(i) == turn' = [turn EXCEPT ![i] = NoTurn]

BeginsTurn(i, pc, s, tools, e) ==
  /\ turn[i] = NoTurn
  /\ turn' = [turn EXCEPT ![i] = [pc |-> pc, chat |-> s, place |-> chat[s].place,
                                  tools |-> tools, rounds |-> 0, pending |-> e]]

Resumes(i, s) == turn[i].pc \in {"clear", "decide"} /\ turn[i].chat = s

CreateSession(s, place) ==
  /\ chat[s] = None
  /\ chat' = [chat EXCEPT ![s] = [status |-> "active", place |-> place, pending |-> None]]
  /\ UNCHANGED <<turn, ran, decided, shown>>

\* The context column is replaced as a whole.
WithContext(row, place, e) == [status |-> row.status, place |-> place, pending |-> e]

\* The shell sends a whole context, without the interrupt that waits in it.
UpdateContext(s, module) ==
  /\ Active(s)
  /\ chat[s].place \in Modules
  /\ chat' = [chat EXCEPT ![s] = WithContext(@, module, None)]
  /\ UNCHANGED <<turn, ran, decided, shown>>

DeleteSession(s) ==
  /\ Active(s)
  /\ chat' = [chat EXCEPT ![s].status = "deleted"]
  /\ UNCHANGED <<turn, ran, decided, shown>>

----------------------------------------------------------------------------
(* A message.                                                              *)

\* The capabilities are those that exist now, filtered for the module.
SendMessage(i, s, existing) ==
  /\ Active(s)
  /\ BeginsTurn(i, "agent", s, existing \cap AllowedIn(chat[s].place), None)
  /\ UNCHANGED <<chat, ran, decided, shown>>

\* An answer of the model that asks for tools: without any to offer it is
\* only asked for text.
AskForTools(i) ==
  /\ turn[i].pc = "agent"
  /\ turn[i].tools # {}
  /\ turn[i].rounds < MaxIterations
  /\ turn' = [turn EXCEPT ![i].pc = "tools", ![i].rounds = @ + 1]
  /\ UNCHANGED <<chat, ran, decided, shown>>

\* Variant: the tool is looked up by its name alone.
ExecuteAnyToolCall(i, c) ==
  /\ turn[i].pc = "tools"
  /\ ran' = ran \cup {<<c, turn[i].place>>}
  /\ UNCHANGED <<chat, turn, decided, shown>>

\* Any number of calls in a round.  A tool that was not offered is answered
\* with an error, and so is a tool that fails; the loop goes on with either.
ExecuteToolCall(i, c) ==
  /\ turn[i].pc = "tools"
  /\ ran' = IF c \in turn[i].tools THEN ran \cup {<<c, turn[i].place>>} ELSE ran
  /\ UNCHANGED <<chat, turn, decided, shown>>

AnswerTools(i) ==
  /\ turn[i].pc = "tools"
  /\ turn' = [turn EXCEPT ![i].pc = "agent"]
  /\ UNCHANGED <<chat, ran, decided, shown>>

\* The interrupt is put into the context that was read, for a session that
\* was deleted meanwhile too; the event may be lost on its way to the user.
StoreInterrupt(i, e) ==
  LET t == turn[i]
  IN /\ t.pc = "agent"
     /\ decided[e] = 0 /\ \A s \in Chats : chat[s] # None => chat[s].pending # e
     /\ e \notin shown
     /\ chat' = [chat EXCEPT ![t.chat] = WithContext(@, t.place, e)]
     /\ shown' = shown \cup {e}
     /\ EndsTurn(i)
     /\ UNCHANGED <<ran, decided>>

\* The agent has answered, or the request dies in the middle of its work.
TurnEnds(i) ==
  /\ turn[i] # NoTurn
  /\ EndsTurn(i)
  /\ UNCHANGED <<chat, ran, decided, shown>>

----------------------------------------------------------------------------
(* The user's decision.                                                    *)

ResumeExecution(i, s) ==
  /\ Active(s)
  /\ chat[s].pending # None
  /\ SerialResumes => \A j \in Turns : ~Resumes(j, s)
  /\ BeginsTurn(i, "clear", s, {}, chat[s].pending)
  /\ UNCHANGED <<chat, ran, decided, shown>>

\* Variant: the interrupt stays in the context.
KeepInterrupt(i) ==
  /\ turn[i].pc = "clear"
  /\ turn' = [turn EXCEPT ![i].pc = "decide"]
  /\ UNCHANGED <<chat, ran, decided, shown>>

\* update_context raises when the session is gone.
ClearInterrupt(i) ==
  LET t == turn[i]
  IN /\ t.pc = "clear"
     /\ IF Active(t.chat)
        THEN /\ chat' = [chat EXCEPT ![t.chat] = WithContext(@, t.place, None)]
             /\ turn' = [turn EXCEPT ![i].pc = "decide"]
        ELSE EndsTurn(i) /\ UNCHANGED chat
     /\ UNCHANGED <<ran, decided, shown>>

\* confirm_execution or cancel_execution.
Decide(i) ==
  LET t == turn[i]
  IN /\ t.pc = "decide"
     /\ decided[t.pending] < MaxDecisions
     /\ decided' = [decided EXCEPT ![t.pending] = @ + 1]
     /\ EndsTurn(i)
     /\ UNCHANGED <<chat, ran, shown>>

ChatInit ==
  /\ chat = [s \in Chats |-> None]
  /\ turn = [i \in Turns |-> NoTurn]
  /\ ran = {}
  /\ decided = [e \in Asked |-> 0]
  /\ shown = {}

ChatNext ==
  \/ \E s \in Chats :
       \/ \E place \in Places : CreateSession(s, place)
       \/ \E module \in Modules : UpdateContext(s, module)
       \/ DeleteSession(s)
  \/ \E i \in Turns :
       \/ \E s \in Chats :
            \/ \E existing \in SUBSET Capabilities : SendMessage(i, s, existing)
            \/ ResumeExecution(i, s)
       \/ AskForTools(i)
       \/ \E c \in Capabilities : ExecuteToolCall(i, c)
       \/ AnswerTools(i)
       \/ \E e \in Asked : StoreInterrupt(i, e)
       \/ TurnEnds(i)
       \/ ClearInterrupt(i)
       \/ Decide(i)

ChatSpec == ChatInit /\ [][ChatNext]_chatVars

----------------------------------------------------------------------------

\* In a shell session no action runs on the ontology or settings pages,
\* whatever the language model asks for and whichever page is opened while it
\* works: the tools belong to the page the message was sent from.
ToolsConfined ==
  \A r \in ran : r[1] \in AllowedIn(r[2])

\* The user's decision on an execution is passed on at most once, although
\* messages and page switches write back contexts that were read earlier and
\* a resume may die between its steps (the interrupt is cleared first).
DecidedOnce == \A e \in Asked : decided[e] <= 1
=============================================================================
