------------------------ MODULE AgentServices_proofs ------------------------
(***************************************************************************)
(* Proofs about CopilotSessions, CopilotRegistries, FunctionCatalog and    *)
(* WorkflowRun for any number of sessions, requests, tools, rows,          *)
(* administrators, functions, workflows, nodes and edges.                  *)
(*                                                                         *)
(* ChatInv holds however messages, page switches, deletions and resumes    *)
(* interleave: a turn at work has a session, and its tools are those of    *)
(* the page it read.                                                       *)
(***************************************************************************)
EXTENDS CopilotSessions, CopilotRegistries, FunctionCatalog, WorkflowRun,
        FiniteSetTheorems, TLAPS

Resuming(i) == turn[i].pc \in {"clear", "decide"}

TurnOK(i) ==
  turn[i].pc # "idle" =>
    /\ turn[i].chat \in Chats
    /\ chat[turn[i].chat] # None
    /\ turn[i].place \in Places
    /\ turn[i].tools \subseteq AllowedIn(turn[i].place)
    /\ Resuming(i) => turn[i].pending \in Asked

TurnInv == \A i \in Turns : TurnOK(i)

ChatInv == ChatTypeOK /\ TurnInv /\ ToolsConfined

----------------------------------------------------------------------------
(* Types of the rows and of the turns that requests write.                 *)

LEMMA NoTurnIsTurn == NoTurn \in Turn
BY CopilotAssumption DEF NoTurn, Turn

LEMMA StatusOfChat ==
  ASSUME NEW row \in Chat
  PROVE  [row EXCEPT !.status = "deleted"] \in Chat
BY DEF Chat

LEMMA ContextOfChat ==
  ASSUME NEW row \in Chat, NEW place \in Places, NEW e \in Asked \cup {None}
  PROVE  WithContext(row, place, e) \in Chat
BY DEF WithContext, Chat

LEMMA TurnKinds ==
  ASSUME NEW s \in Chats, NEW place \in Places, NEW T \in SUBSET Capabilities,
         NEW e \in Asked \cup {None}, NEW p \in {"agent", "clear"}
  PROVE  [pc |-> p, chat |-> s, place |-> place, tools |-> T, rounds |-> 0,
          pending |-> e] \in Turn
<1>1. 0 \in 0..MaxIterations
  BY CopilotAssumption
<1> QED BY <1>1 DEF Turn

\* The agent asks for tools, and goes on with their results.
LEMMA TurnCounts ==
  ASSUME NEW q \in Turn, q.rounds < MaxIterations,
         NEW new, new = [q EXCEPT !.pc = "tools", !.rounds = @ + 1]
  PROVE  /\ new \in Turn /\ new.pc = "tools"
         /\ new.chat = q.chat /\ new.place = q.place /\ new.tools = q.tools
<1>1. q.rounds + 1 \in 0..MaxIterations
  BY CopilotAssumption DEF Turn
<1> QED BY <1>1 DEF Turn

LEMMA TurnAnswers ==
  ASSUME NEW q \in Turn, NEW new, new = [q EXCEPT !.pc = "agent"]
  PROVE  /\ new \in Turn /\ new.pc = "agent"
         /\ new.chat = q.chat /\ new.place = q.place /\ new.tools = q.tools
BY DEF Turn

LEMMA TurnDecides ==
  ASSUME NEW q \in Turn
  PROVE  /\ [q EXCEPT !.pc = "decide"] \in Turn
         /\ [q EXCEPT !.pc = "decide"].pc = "decide"
         /\ \A k \in {"rounds", "chat", "place", "tools", "pending"} :
              [q EXCEPT !.pc = "decide"][k] = q[k]
BY DEF Turn

----------------------------------------------------------------------------

LEMMA ChatInvInit == ChatInit => ChatInv
<1> SUFFICES ASSUME ChatInit PROVE ChatInv
  OBVIOUS
<1>1. \A e \in Asked : decided[e] \in 0..MaxDecisions
  BY CopilotAssumption DEF ChatInit
<1>2. ChatTypeOK
  BY <1>1, NoTurnIsTurn DEF ChatInit, ChatTypeOK
<1>3. TurnInv /\ ToolsConfined
  BY DEF ChatInit, TurnInv, TurnOK, NoTurn, ToolsConfined
<1> QED BY <1>2, <1>3 DEF ChatInv

\* A turn keeps what it is entitled to when no row goes away.
LEMMA TurnStays ==
  ASSUME NEW i \in Turns, TurnOK(i), turn'[i] = turn[i],
         \A s \in Chats : chat[s] # None => chat'[s] # None
  PROVE  TurnOK(i)'
BY DEF TurnOK, Resuming

LEMMA EndsTurnKeeps ==
  ASSUME NEW i \in Turns, ChatTypeOK, TurnInv, EndsTurn(i),
         \A s \in Chats : chat[s] # None => chat'[s] # None
  PROVE  turn' \in [Turns -> Turn] /\ TurnInv'
<1>1. turn' \in [Turns -> Turn] /\ turn'[i] = NoTurn
      /\ \A j \in Turns \ {i} : turn'[j] = turn[j]
  BY NoTurnIsTurn DEF ChatTypeOK, EndsTurn
<1>2. TurnOK(i)'
  BY <1>1 DEF TurnOK, NoTurn
<1>3. \A j \in Turns \ {i} : TurnOK(j)'
  BY <1>1, TurnStays DEF TurnInv
<1> QED BY <1>1, <1>2, <1>3 DEF TurnInv

\* The steps that begin a turn, go on with one, or only write a row.
LEMMA BeginsTurnKeeps ==
  ASSUME ChatTypeOK, TurnInv, UNCHANGED chat, NEW i \in Turns, NEW s \in Chats,
         NEW p \in {"agent", "clear"}, NEW T \in SUBSET Capabilities,
         NEW e \in Asked \cup {None}, chat[s] # None, T \subseteq AllowedIn(chat[s].place),
         p = "clear" => e # None, BeginsTurn(i, p, s, T, e)
  PROVE  turn' \in [Turns -> Turn] /\ TurnInv'
<1>1. chat[s].place \in Places
  BY DEF ChatTypeOK, Chat
<1>2. [pc |-> p, chat |-> s, place |-> chat[s].place, tools |-> T, rounds |-> 0,
       pending |-> e] \in Turn
  BY <1>1, TurnKinds
<1>3. turn' \in [Turns -> Turn] /\ \A j \in Turns \ {i} : turn'[j] = turn[j]
  BY <1>2 DEF BeginsTurn, ChatTypeOK
<1>4. turn'[i] = [pc |-> p, chat |-> s, place |-> chat[s].place, tools |-> T, rounds |-> 0,
                  pending |-> e]
  BY DEF BeginsTurn, ChatTypeOK
<1>5. TurnOK(i)'
  BY <1>1, <1>4 DEF TurnOK, Resuming
<1>6. \A j \in Turns \ {i} : TurnOK(j)'
  BY <1>3, TurnStays DEF TurnInv
<1> QED BY <1>3, <1>5, <1>6 DEF TurnInv

LEMMA RowsKeep ==
  ASSUME ChatTypeOK, TurnInv, UNCHANGED turn,
         NEW s \in Chats, NEW row \in Chat, chat' = [chat EXCEPT ![s] = row]
  PROVE  chat' \in [Chats -> Chat \cup {None}] /\ TurnInv'
<1>1. chat' \in [Chats -> Chat \cup {None}]
      /\ \A r \in Chats : chat[r] # None => chat'[r] # None
  BY NoneIsNoChat DEF ChatTypeOK
<1> QED BY <1>1, TurnStays DEF TurnInv

\* A turn passes between the model and its tools.
LEMMA TurnGoesOn ==
  ASSUME ChatInv, NEW i \in Turns, turn[i].pc \in {"agent", "tools"}, NEW q \in Turn,
         q.pc \in {"tools", "agent"}, q.chat = turn[i].chat, q.place = turn[i].place,
         q.tools = turn[i].tools,
         turn' = [turn EXCEPT ![i] = q], UNCHANGED <<chat, ran, decided, shown>>
  PROVE  ChatInv'
<1>1. /\ turn' \in [Turns -> Turn] /\ turn'[i] = q
      /\ \A j \in Turns \ {i} : turn'[j] = turn[j]
  BY DEF ChatInv, ChatTypeOK
<1>2. TurnOK(i) /\ turn[i].pc # "idle"
  BY DEF ChatInv, TurnInv
<1>3. TurnOK(i)'
  BY <1>1, <1>2 DEF TurnOK, Resuming
<1>4. TurnInv'
  BY <1>1, <1>3, TurnStays DEF ChatInv, TurnInv
<1> QED BY <1>1, <1>4 DEF ChatInv, ChatTypeOK, ToolsConfined

LEMMA ChatInvStep == ChatInv /\ [ChatNext]_chatVars => ChatInv'
<1> SUFFICES ASSUME ChatInv, [ChatNext]_chatVars PROVE ChatInv'
  OBVIOUS
<1> USE DEF ChatInv
<1>1. CASE UNCHANGED chatVars
  BY <1>1 DEF chatVars, ChatTypeOK, TurnInv, TurnOK, Resuming, ToolsConfined
<1>2. ASSUME NEW s \in Chats, NEW place \in Places, CreateSession(s, place)
      PROVE  ChatInv'
  <2>1. [status |-> "active", place |-> place, pending |-> None] \in Chat
    BY DEF Chat
  <2> QED BY <1>2, <2>1, RowsKeep DEF CreateSession, ChatTypeOK, ToolsConfined
<1>3. ASSUME NEW s \in Chats, NEW module \in Modules, UpdateContext(s, module)
      PROVE  ChatInv'
  <2>1. chat[s] \in Chat /\ module \in Places
    BY <1>3 DEF UpdateContext, Active, ChatTypeOK, Places
  <2>2. chat' = [chat EXCEPT ![s] = WithContext(chat[s], module, None)]
    BY <1>3 DEF UpdateContext
  <2>3. WithContext(chat[s], module, None) \in Chat
    BY <2>1, ContextOfChat
  <2> QED BY <1>3, <2>2, <2>3, RowsKeep DEF UpdateContext, ChatTypeOK, ToolsConfined
<1>4. ASSUME NEW s \in Chats, DeleteSession(s)
      PROVE  ChatInv'
  <2>1. chat[s] \in Chat
    BY <1>4 DEF DeleteSession, Active, ChatTypeOK
  <2>2. chat' = [chat EXCEPT ![s] = [chat[s] EXCEPT !.status = "deleted"]]
    BY <1>4 DEF DeleteSession
  <2>3. [chat[s] EXCEPT !.status = "deleted"] \in Chat
    BY <2>1, StatusOfChat
  <2> QED BY <1>4, <2>2, <2>3, RowsKeep DEF DeleteSession, ChatTypeOK, ToolsConfined
<1>5. ASSUME NEW i \in Turns, NEW s \in Chats, NEW existing \in SUBSET Capabilities,
             SendMessage(i, s, existing)
      PROVE  ChatInv'
  <2>1. turn' \in [Turns -> Turn] /\ TurnInv'
    BY <1>5, BeginsTurnKeeps DEF SendMessage, Active
  <2> QED BY <1>5, <2>1 DEF SendMessage, ChatTypeOK, ToolsConfined
<1>6. ASSUME NEW i \in Turns, NEW s \in Chats, ResumeExecution(i, s)
      PROVE  ChatInv'
  <2>1. chat[s].pending \in Asked \cup {None}
    BY <1>6 DEF ResumeExecution, Active, ChatTypeOK, Chat
  <2>2. turn' \in [Turns -> Turn] /\ TurnInv'
    BY <1>6, <2>1, BeginsTurnKeeps DEF ResumeExecution, Active
  <2> QED BY <1>6, <2>2 DEF ResumeExecution, ChatTypeOK, ToolsConfined
<1>7. ASSUME NEW i \in Turns, NEW c \in Capabilities, ExecuteToolCall(i, c)
      PROVE  ChatInv'
  <2>1. TurnOK(i) /\ turn[i].pc = "tools" /\ UNCHANGED <<chat, turn, decided, shown>>
    BY <1>7 DEF ExecuteToolCall, TurnInv
  <2>2. ran' \subseteq Capabilities \X Places /\ ToolsConfined'
    BY <1>7, <2>1 DEF ExecuteToolCall, TurnOK, ToolsConfined, ChatTypeOK
  <2> QED BY <2>1, <2>2 DEF ChatTypeOK, TurnInv, TurnOK, Resuming
<1>8. ASSUME NEW i \in Turns, NEW e \in Asked, StoreInterrupt(i, e)
      PROVE  ChatInv'
  <2>1. TurnOK(i) /\ turn[i].pc = "agent"
    BY <1>8 DEF StoreInterrupt, TurnInv
  <2>2. PICK s \in Chats : s = turn[i].chat /\ chat[s] \in Chat
    BY <2>1 DEF TurnOK, ChatTypeOK
  <2>3. chat' = [chat EXCEPT ![s] = WithContext(chat[s], turn[i].place, e)]
    BY <1>8, <2>2 DEF StoreInterrupt
  <2>4. WithContext(chat[s], turn[i].place, e) \in Chat
    BY <2>1, <2>2, ContextOfChat DEF TurnOK
  <2>5. chat' \in [Chats -> Chat \cup {None}]
        /\ \A r \in Chats : chat[r] # None => chat'[r] # None
    BY <2>3, <2>4, NoneIsNoChat DEF ChatTypeOK
  <2>6. turn' \in [Turns -> Turn] /\ TurnInv'
    BY <1>8, <2>5, EndsTurnKeeps DEF StoreInterrupt
  <2> QED BY <1>8, <2>5, <2>6 DEF StoreInterrupt, ChatTypeOK, ToolsConfined
<1>9. ASSUME NEW i \in Turns, TurnEnds(i)
      PROVE  ChatInv'
  <2>1. turn' \in [Turns -> Turn] /\ TurnInv'
    BY <1>9, EndsTurnKeeps DEF TurnEnds
  <2> QED BY <1>9, <2>1 DEF TurnEnds, ChatTypeOK, ToolsConfined
<1>10. ASSUME NEW i \in Turns, ClearInterrupt(i)
       PROVE  ChatInv'
  <2>1. TurnOK(i) /\ turn[i].pc = "clear" /\ turn[i] \in Turn
    BY <1>10 DEF ClearInterrupt, TurnInv, ChatTypeOK
  <2>2. CASE ~Active(turn[i].chat)
    <3>1. turn' \in [Turns -> Turn] /\ TurnInv' /\ UNCHANGED <<chat, ran, decided, shown>>
      BY <1>10, <2>2, EndsTurnKeeps DEF ClearInterrupt
    <3> QED BY <3>1 DEF ChatTypeOK, ToolsConfined
  <2>3. CASE Active(turn[i].chat)
    <3>1. PICK s \in Chats : s = turn[i].chat /\ chat[s] \in Chat
      BY <2>1 DEF TurnOK, ChatTypeOK
    <3>2. /\ chat' = [chat EXCEPT ![s] = WithContext(chat[s], turn[i].place, None)]
          /\ turn' = [turn EXCEPT ![i] = [turn[i] EXCEPT !.pc = "decide"]]
          /\ UNCHANGED <<ran, decided, shown>>
      BY <1>10, <2>3, <3>1 DEF ClearInterrupt
    <3>3. WithContext(chat[s], turn[i].place, None) \in Chat
      BY <2>1, <3>1, ContextOfChat DEF TurnOK
    <3>4. chat' \in [Chats -> Chat \cup {None}]
          /\ \A r \in Chats : chat[r] # None => chat'[r] # None
      BY <3>2, <3>3, NoneIsNoChat DEF ChatTypeOK
    <3>5. turn' \in [Turns -> Turn] /\ turn'[i] = [turn[i] EXCEPT !.pc = "decide"]
          /\ \A j \in Turns \ {i} : turn'[j] = turn[j]
      BY <2>1, <3>2, TurnDecides DEF ChatTypeOK
    <3>6. TurnOK(i)'
      BY <2>1, <3>4, <3>5 DEF TurnOK, Resuming, Turn
    <3>7. TurnInv'
      BY <3>4, <3>5, <3>6, TurnStays DEF TurnInv
    <3> QED BY <3>2, <3>4, <3>5, <3>7 DEF ChatTypeOK, ToolsConfined
  <2> QED BY <2>2, <2>3
<1>11. ASSUME NEW i \in Turns, Decide(i)
       PROVE  ChatInv'
  <2>1. turn' \in [Turns -> Turn] /\ TurnInv'
    BY <1>11, EndsTurnKeeps DEF Decide
  <2>2. turn[i].pending \in Asked
    BY <1>11 DEF Decide, TurnInv, TurnOK, Resuming
  <2>3. decided' \in [Asked -> 0..MaxDecisions]
    BY <1>11, <2>2, CopilotAssumption DEF Decide, ChatTypeOK
  <2> QED BY <1>11, <2>1, <2>3 DEF Decide, ChatTypeOK, ToolsConfined
<1>12. ASSUME NEW i \in Turns, AskForTools(i)
       PROVE  ChatInv'
  <2>1. turn[i] \in Turn /\ turn[i].rounds < MaxIterations
    BY <1>12 DEF AskForTools, ChatTypeOK
  <2>2. PICK q : q = [turn[i] EXCEPT !.pc = "tools", !.rounds = @ + 1]
    OBVIOUS
  <2>3. /\ q \in Turn /\ q.pc \in {"tools", "agent"}
        /\ q.chat = turn[i].chat /\ q.place = turn[i].place /\ q.tools = turn[i].tools
    BY <2>1, <2>2, TurnCounts
  <2> QED BY <1>12, <2>2, <2>3, TurnGoesOn DEF AskForTools
<1>13. ASSUME NEW i \in Turns, AnswerTools(i)
       PROVE  ChatInv'
  <2>1. PICK q : q = [turn[i] EXCEPT !.pc = "agent"]
    OBVIOUS
  <2>2. /\ q \in Turn /\ q.pc \in {"tools", "agent"}
        /\ q.chat = turn[i].chat /\ q.place = turn[i].place /\ q.tools = turn[i].tools
    BY <2>1, TurnAnswers DEF ChatTypeOK
  <2> QED BY <1>13, <2>1, <2>2, TurnGoesOn DEF AnswerTools
<1> QED
  BY <1>1, <1>2, <1>3, <1>4, <1>5, <1>6, <1>7, <1>8, <1>9, <1>10, <1>11, <1>12, <1>13
     DEF ChatNext

\* Turns, rows and tools stay in order whatever interleaves.
THEOREM ChatInvariance == ChatSpec => []ChatInv
BY ChatInvInit, ChatInvStep, PTL DEF ChatSpec

\* The tables keep their types.
THEOREM ChatTyping == ChatSpec => []ChatTypeOK
<1>1. ChatInv => ChatTypeOK
  BY DEF ChatInv
<1> QED BY <1>1, ChatInvariance, PTL

\* The tools that a message gave the agent are the only ones that run for
\* it, and they are those of the page the message was sent from.
THEOREM ToolsAreConfined == ChatSpec => []ToolsConfined
<1>1. ChatInv => ToolsConfined
  BY DEF ChatInv
<1> QED BY <1>1, ChatInvariance, PTL

----------------------------------------------------------------------------
(* CopilotRegistries.  RowsInv holds however the requests interleave: the  *)
(* rid of a registration at work is in no row, was never deleted and is no *)
(* other registration's.                                                   *)

Registering(i) == job[i].new # None

JobOK(i) ==
  /\ job[i].pc # "idle" => job[i].rid \in Entries
  /\ Registering(i) =>
       /\ job[i].rid \in Entries /\ job[i].rid \notin deleted
       /\ registry[job[i].rid] = None
       /\ \A k \in Admins : Registering(k) /\ job[k].rid = job[i].rid => k = i

RowsInv == RegistryTypeOK /\ DeletedStayDeleted /\ \A i \in Admins : JobOK(i)

LEMMA NoJobIsJob == NoJob \in Job
BY DEF NoJob, Job

LEMMA NewEntryIsEntry ==
  ASSUME NEW kind \in {"model", "skill", "subagent", "mcp"}, NEW default \in BOOLEAN
  PROVE  NewEntry(kind, default) \in Entry
BY DEF NewEntry, Entry

LEMMA EntryKinds ==
  ASSUME NEW row \in Entry, NEW status \in {"off", "on", "error"}, NEW b \in BOOLEAN
  PROVE  [row EXCEPT !.status = status] \in Entry /\ [row EXCEPT !.default = b] \in Entry
BY DEF Entry

LEMMA RowsInvInit == RegistryInit => RowsInv
<1> SUFFICES ASSUME RegistryInit PROVE RowsInv
  OBVIOUS
<1>1. RegistryTypeOK /\ DeletedStayDeleted
  BY NoJobIsJob DEF RegistryInit, RegistryTypeOK, DeletedStayDeleted
<1>2. \A i \in Admins : JobOK(i)
  BY DEF RegistryInit, JobOK, Registering, NoJob
<1> QED BY <1>1, <1>2 DEF RowsInv

\* A step that fills no empty row and begins no registration keeps it.
LEMMA RowsKept ==
  ASSUME RowsInv, RegistryTypeOK', deleted' = deleted,
         \A r \in Entries : registry[r] = None => registry'[r] = None,
         \A i \in Admins : job'[i] = job[i] \/ job'[i] = NoJob
                            \/ (job'[i].new = None /\ job'[i].rid \in Entries)
  PROVE  RowsInv'
<1>1. DeletedStayDeleted'
  BY DEF RowsInv, RegistryTypeOK, DeletedStayDeleted
<1>2. \A i \in Admins : Registering(i)' => Registering(i) /\ job'[i] = job[i]
  BY DEF Registering, NoJob
<1>3. ASSUME NEW i \in Admins PROVE JobOK(i)'
  <2>1. job'[i].pc # "idle" => job'[i].rid \in Entries
    BY DEF RowsInv, JobOK, NoJob
  <2>2. Registering(i)' => /\ job'[i].rid \in Entries /\ job'[i].rid \notin deleted'
                           /\ registry'[job'[i].rid] = None
                           /\ \A k \in Admins : Registering(k)' /\ job'[k].rid = job'[i].rid
                                                  => k = i
    BY <1>2 DEF RowsInv, JobOK
  <2> QED BY <2>1, <2>2 DEF JobOK, Registering
<1> QED BY <1>1, <1>3 DEF RowsInv

\* A job that is set is a job, and the others are as they were.
LEMMA JobSet ==
  ASSUME RegistryTypeOK, NEW i \in Admins, NEW q \in Job, job' = [job EXCEPT ![i] = q]
  PROVE  /\ job' \in [Admins -> Job] /\ job'[i] = q
         /\ \A k \in Admins \ {i} : job'[k] = job[k]
BY DEF RegistryTypeOK

\* Likewise for a row that is written.
LEMMA EntryWritten ==
  ASSUME RegistryTypeOK, NEW r \in Entries, NEW row \in Entry,
         registry' = [registry EXCEPT ![r] = row]
  PROVE  /\ registry' \in [Entries -> Entry \cup {None}] /\ registry'[r] = row
         /\ row # None
         /\ \A s \in Entries \ {r} : registry'[s] = registry[s]
BY NoneIsNoEntry DEF RegistryTypeOK

\* What WriteDefault leaves of a row.
LEMMA DefaultWritten ==
  ASSUME RegistryTypeOK, NEW i \in Admins, WriteDefault(i)
  PROVE  /\ registry' \in [Entries -> Entry \cup {None}]
         /\ \A r \in Entries :
              ~(r = job[i].rid /\ Registering(i)) /\ registry[r] = None
                => registry'[r] = None
<1>1. job[i] \in Job /\ job[i].new \in Entry \cup {None}
  BY DEF RegistryTypeOK, Job
<1>2. \A r \in Entries :
        registry'[r] = IF r = job[i].rid /\ job[i].new # None THEN job[i].new
                       ELSE IF registry[r] = None THEN None
                       ELSE IF r = job[i].rid THEN [registry[r] EXCEPT !.default = TRUE]
                       ELSE IF r \in job[i].cleared THEN [registry[r] EXCEPT !.default = FALSE]
                       ELSE registry[r]
  BY DEF WriteDefault
<1>3. \A r \in Entries : registry[r] # None =>
          /\ registry[r] \in Entry
          /\ [registry[r] EXCEPT !.default = TRUE] \in Entry
          /\ [registry[r] EXCEPT !.default = FALSE] \in Entry
  <2>1. \A row \in Entry : /\ [row EXCEPT !.default = TRUE] \in Entry
                            /\ [row EXCEPT !.default = FALSE] \in Entry
    BY DEF Entry
  <2> QED BY <2>1 DEF RegistryTypeOK
<1>4. \A r \in Entries : registry'[r] \in Entry \cup {None}
  BY <1>1, <1>2, <1>3
<1>5. registry' \in [Entries -> Entry \cup {None}]
  BY <1>4 DEF WriteDefault
<1>6. ASSUME NEW r \in Entries
      PROVE  ~(r = job[i].rid /\ Registering(i)) /\ registry[r] = None
               => registry'[r] = None
  BY <1>2 DEF Registering
<1> QED BY <1>5, <1>6

LEMMA RowsInvStep == RowsInv /\ [RegistryNext]_registryVars => RowsInv'
<1> SUFFICES ASSUME RowsInv, [RegistryNext]_registryVars PROVE RowsInv'
  OBVIOUS
<1>0. RegistryTypeOK
  BY DEF RowsInv
<1>1. CASE UNCHANGED registryVars
  BY <1>0, <1>1, RowsKept DEF registryVars, RegistryTypeOK
<1>2. ASSUME NEW r \in Entries, NEW kind \in {"model", "skill", "subagent", "mcp"},
             Register(r, kind)
      PROVE  RowsInv'
  <2>1. NewEntry(kind, FALSE) \in Entry
    BY NewEntryIsEntry
  <2>2. UNCHANGED <<deleted, job>> /\ registry' = [registry EXCEPT ![r] = NewEntry(kind, FALSE)]
    BY <1>2 DEF Register
  <2>3. /\ registry' \in [Entries -> Entry \cup {None}]
        /\ \A s \in Entries \ {r} : registry'[s] = registry[s]
    BY <1>0, <2>1, <2>2, EntryWritten
  <2>4. r \notin deleted /\ \A i \in Admins : job[i].rid # r
    BY <1>2 DEF Register, Fresh
  <2>5. RegistryTypeOK' /\ DeletedStayDeleted'
    BY <2>2, <2>3, <2>4 DEF RowsInv, RegistryTypeOK, DeletedStayDeleted
  <2>6. \A i \in Admins : JobOK(i)'
    BY <2>2, <2>3, <2>4 DEF RowsInv, JobOK, Registering
  <2> QED BY <2>5, <2>6 DEF RowsInv
<1>3. ASSUME NEW r \in Entries, NEW status \in {"on", "off"}, Update(r, status)
      PROVE  RowsInv'
  <2>1. registry[r] \in Entry /\ registry[r] # None
    BY <1>0, <1>3 DEF Update, Entered, RegistryTypeOK
  <2>2. UNCHANGED <<deleted, job>>
        /\ registry' = [registry EXCEPT ![r] = [registry[r] EXCEPT !.status = status]]
    BY <1>3 DEF Update
  <2>3. /\ registry' \in [Entries -> Entry \cup {None}]
        /\ \A s \in Entries \ {r} : registry'[s] = registry[s]
    BY <1>0, <2>1, <2>2, EntryKinds, EntryWritten
  <2> QED BY <2>1, <2>2, <2>3, RowsKept DEF RowsInv, RegistryTypeOK
<1>4. ASSUME NEW r \in Entries, TakeDefault(r)
      PROVE  RowsInv'
  <2>1. registry[r] \in Entry /\ registry[r] # None
    BY <1>0, <1>4 DEF TakeDefault, Defaults, Entered, RegistryTypeOK
  <2>2. UNCHANGED <<deleted, job>>
        /\ registry' = [registry EXCEPT ![r] = [registry[r] EXCEPT !.default = FALSE]]
    BY <1>4 DEF TakeDefault
  <2>3. [registry[r] EXCEPT !.default = FALSE] \in Entry
    BY <2>1, EntryKinds DEF Entry
  <2>4. /\ registry' \in [Entries -> Entry \cup {None}]
        /\ \A s \in Entries \ {r} : registry'[s] = registry[s]
    BY <1>0, <2>2, <2>3, EntryWritten
  <2> QED BY <2>1, <2>2, <2>4, RowsKept DEF RowsInv, RegistryTypeOK
<1>5. ASSUME NEW r \in Entries, Delete(r)
      PROVE  RowsInv'
  <2>1. registry[r] # None /\ registry' = [registry EXCEPT ![r] = None]
        /\ deleted' = deleted \cup {r} /\ job' = job
    BY <1>5 DEF Delete, Entered
  <2>2. /\ registry' \in [Entries -> Entry \cup {None}] /\ registry'[r] = None
        /\ \A s \in Entries \ {r} : registry'[s] = registry[s]
    BY <1>0, <2>1 DEF RegistryTypeOK
  <2>3. RegistryTypeOK' /\ DeletedStayDeleted'
    BY <2>1, <2>2 DEF RowsInv, RegistryTypeOK, DeletedStayDeleted
  <2>4. \A i \in Admins : JobOK(i)'
    BY <2>1, <2>2 DEF RowsInv, JobOK, Registering
  <2> QED BY <2>3, <2>4 DEF RowsInv
<1>6. ASSUME NEW i \in Admins, NEW r \in Entries, RegisterDefault(i, r)
      PROVE  RowsInv'
  <2> DEFINE new == NewEntry("model", TRUE)
             q   == [pc |-> "write", rid |-> r, cleared |-> Defaults, new |-> new]
  <2>1. new \in Entry /\ new # None
    BY NewEntryIsEntry, NoneIsNoEntry
  <2>2. q \in Job
    BY <2>1 DEF Job, Defaults, Entered
  <2>3. job' = [job EXCEPT ![i] = q] /\ UNCHANGED <<registry, deleted>>
    BY <1>6 DEF RegisterDefault, ClearDefaults
  <2>4. PICK p \in Job : p = q
    BY <2>2
  <2>5. p.rid = r /\ p.new # None
    BY <2>1, <2>4
  <2>6. /\ job' \in [Admins -> Job] /\ job'[i] = p
        /\ \A k \in Admins \ {i} : job'[k] = job[k]
    BY <1>0, <2>3, <2>4, JobSet
  <2>7. /\ r \notin deleted /\ registry[r] = None
        /\ \A k \in Admins : job[k].rid # r
    BY <1>6 DEF RegisterDefault, Fresh, Entered
  <2>8. RegistryTypeOK' /\ DeletedStayDeleted'
    BY <2>3, <2>6 DEF RowsInv, RegistryTypeOK, DeletedStayDeleted
  <2>9. \A k \in Admins : JobOK(k)'
    BY <2>3, <2>5, <2>6, <2>7 DEF RowsInv, JobOK, Registering
  <2> QED BY <2>8, <2>9 DEF RowsInv
<1>7. ASSUME NEW i \in Admins, NEW r \in Entries, UpdateToDefault(i, r)
      PROVE  RowsInv'
  <2>1. [pc |-> "write", rid |-> r, cleared |-> Defaults, new |-> None] \in Job
    BY DEF Job, Defaults, Entered
  <2>2. job' = [job EXCEPT ![i] = [pc |-> "write", rid |-> r, cleared |-> Defaults,
                                   new |-> None]]
        /\ UNCHANGED <<registry, deleted>>
    BY <1>7 DEF UpdateToDefault, ClearDefaults
  <2>3. /\ job' \in [Admins -> Job] /\ job'[i].new = None /\ job'[i].rid = r
        /\ \A k \in Admins \ {i} : job'[k] = job[k]
    BY <1>0, <2>1, <2>2, JobSet
  <2> QED BY <1>0, <2>2, <2>3, RowsKept DEF RegistryTypeOK
<1>8. ASSUME NEW i \in Admins, NEW r \in Entries, DiscoverTools(i, r)
      PROVE  RowsInv'
  <2>2. [pc |-> "rpc", rid |-> r, cleared |-> {}, new |-> None] \in Job
    BY DEF Job
  <2>3. job' = [job EXCEPT ![i] = [pc |-> "rpc", rid |-> r, cleared |-> {}, new |-> None]]
        /\ UNCHANGED <<registry, deleted>>
    BY <1>8 DEF DiscoverTools
  <2>4. /\ job' \in [Admins -> Job] /\ job'[i].new = None /\ job'[i].rid = r
        /\ \A k \in Admins \ {i} : job'[k] = job[k]
    BY <1>0, <2>2, <2>3, JobSet
  <2> QED BY <1>0, <2>3, <2>4, RowsKept DEF RegistryTypeOK
<1>9. ASSUME NEW i \in Admins, NEW status \in {"on", "error"}, Discovered(i, status)
      PROVE  RowsInv'
  <2>1. job[i].rid \in Entries
    BY <1>9 DEF Discovered, RowsInv, JobOK
  <2>2. /\ job' \in [Admins -> Job] /\ job'[i] = NoJob
        /\ \A k \in Admins \ {i} : job'[k] = job[k]
    BY <1>0, <1>9, JobSet, NoJobIsJob DEF Discovered, EndsJob
  <2>3. deleted' = deleted
    BY <1>9 DEF Discovered
  <2>4. CASE registry[job[i].rid] = None
    BY <1>0, <1>9, <2>2, <2>3, <2>4, RowsKept DEF Discovered, RegistryTypeOK
  <2>5. CASE registry[job[i].rid] # None
    <3>1. PICK r \in Entries : r = job[i].rid /\ registry[r] \in Entry
      BY <1>0, <2>1, <2>5 DEF RegistryTypeOK
    <3>2. registry' = [registry EXCEPT ![r] = [registry[r] EXCEPT !.status = status]]
      BY <1>9, <2>5, <3>1 DEF Discovered
    <3>3. /\ registry' \in [Entries -> Entry \cup {None}]
          /\ \A s \in Entries \ {r} : registry'[s] = registry[s]
      BY <1>0, <3>1, <3>2, EntryKinds, EntryWritten
    <3> QED BY <1>0, <2>2, <2>3, <2>5, <3>1, <3>3, RowsKept DEF RegistryTypeOK
  <2> QED BY <2>4, <2>5
<1>10. ASSUME NEW i \in Admins, WriteDefault(i)
       PROVE  RowsInv'
  <2>1. /\ job' \in [Admins -> Job] /\ job'[i] = NoJob
        /\ \A k \in Admins \ {i} : job'[k] = job[k]
    BY <1>0, <1>10, JobSet, NoJobIsJob DEF WriteDefault, EndsJob
  <2>2. deleted' = deleted
    BY <1>10 DEF WriteDefault
  <2>3. registry' \in [Entries -> Entry \cup {None}]
    BY <1>0, <1>10, DefaultWritten
  <2>4. \A r \in Entries : ~(r = job[i].rid /\ Registering(i)) /\ registry[r] = None
                             => registry'[r] = None
    BY <1>0, <1>10, DefaultWritten
  <2>5. RegistryTypeOK' /\ DeletedStayDeleted'
    BY <2>1, <2>2, <2>3, <2>4 DEF RowsInv, RegistryTypeOK, DeletedStayDeleted, JobOK
  <2>6. JobOK(i)'
    BY <2>1 DEF JobOK, Registering, NoJob
  <2>7. \A k \in Admins \ {i} : JobOK(k)'
    BY <2>1, <2>2, <2>4 DEF RowsInv, JobOK, Registering, NoJob
  <2> QED BY <2>5, <2>6, <2>7 DEF RowsInv
<1>11. ASSUME NEW i \in Admins, JobDies(i)
       PROVE  RowsInv'
  <2>1. /\ job' \in [Admins -> Job] /\ job'[i] = NoJob
        /\ \A k \in Admins \ {i} : job'[k] = job[k]
    BY <1>0, <1>11, JobSet, NoJobIsJob DEF JobDies, EndsJob
  <2> QED BY <1>0, <1>11, <2>1, RowsKept DEF JobDies, RegistryTypeOK
<1> QED
  BY <1>1, <1>2, <1>3, <1>4, <1>5, <1>6, <1>7, <1>8, <1>9, <1>10, <1>11
     DEF RegistryNext, TableRequests, McpRequests

\* The rows stay in order whatever interleaves.
THEOREM RowsInvariance == RegistrySpec => []RowsInv
BY RowsInvInit, RowsInvStep, PTL DEF RegistrySpec

\* The four tables keep their types.
THEOREM RegistryTyping == RegistrySpec => []RegistryTypeOK
<1>1. RowsInv => RegistryTypeOK
  BY DEF RowsInv
<1> QED BY <1>1, RowsInvariance, PTL

\* No request that was at work when a row was deleted brings it back.
THEOREM DeletionsStay == RegistrySpec => []DeletedStayDeleted
<1>1. RowsInv => DeletedStayDeleted
  BY DEF RowsInv
<1> QED BY <1>1, RowsInvariance, PTL

----------------------------------------------------------------------------

(* WorkflowRun.  An edge is open until the layer of its source has been     *)
(* taken off; in_degree counts a node's open edges.                         *)

Taken(s) == s \in Nodes /\ layers[s] # 0 /\ layers[s] < depth

Open(n) == {i \in Incoming(n) : ~Taken(edges[i].source)}

Counted == \A n \in Nodes : inDegree[n] = Cardinality(Open(n))

\* A node is in a layer when its edges have been taken off, and not before.
Layered ==
  /\ \A n \in Nodes : layers[n] <= depth
  /\ \A n \in Nodes : layers[n] # 0 => inDegree[n] = 0
  /\ depth # 0 => \A n \in Nodes : layers[n] = 0 => inDegree[n] # 0

\* What a node comes after is in an earlier layer.
Ordered ==
  \A i \in EdgeIds : \A n \in Nodes :
    edges[i].target = n /\ layers[n] # 0 =>
      LET s == edges[i].source IN s \in Nodes /\ layers[s] # 0 /\ layers[s] < layers[n]

StuckSet(S) ==
  \A n \in S : \E i \in Incoming(n) : edges[i].source \in S \cup {Stranger}

\* No node that waits for ever gets into a layer.
StuckWait == \A S \in SUBSET Nodes : StuckSet(S) => \A n \in S : layers[n] = 0

\* Layers before the current one are done, later ones have not begun.
StepsInOrder ==
  \A n \in Nodes :
    /\ layers[n] = 0 \/ layers[n] > current => step[n] = "waiting"
    /\ layers[n] # 0 /\ layers[n] < current => step[n] \notin {"waiting", "running"}

Came == outcome \in {"running", "success", "partial_failure"}

RunInv ==
  /\ RunTypeOK /\ Counted /\ Layered /\ Ordered /\ StuckWait /\ StepsInOrder
  /\ outcome = "sorting" => current = 0
  /\ Came => \A n \in Nodes : layers[n] # 0
  /\ outcome = "refused" => Stuck
  /\ outcome \in {"success", "partial_failure"} => current > depth

LEMMA IncomingFinite == ASSUME NEW n PROVE IsFiniteSet(Incoming(n))
BY FS_Subset, WorkflowAssumption DEF Incoming

LEMMA OpenFinite ==
  ASSUME NEW n
  PROVE  /\ IsFiniteSet(Open(n)) /\ Cardinality(Open(n)) \in Nat
         /\ Cardinality(Open(n)) = 0 <=> Open(n) = {}
<1>1. Open(n) \in SUBSET Incoming(n)
  BY DEF Open
<1> QED BY <1>1, IncomingFinite, FS_Subset, FS_CardinalityType, FS_EmptySet

LEMMA RunInvInit == RunInit => RunInv
<1> SUFFICES ASSUME RunInit PROVE RunInv
  OBVIOUS
<1>1. \A n \in Nodes : Cardinality(Incoming(n)) \in Nat
  BY IncomingFinite, FS_CardinalityType
<1>2. RunTypeOK
  BY <1>1 DEF RunInit, RunTypeOK
<1>3. \A n \in Nodes : Open(n) = Incoming(n)
  BY DEF RunInit, Open, Taken
<1>4. Counted
  BY <1>3 DEF RunInit, Counted
<1> QED BY <1>2, <1>4 DEF RunInit, RunInv, Layered, Ordered, StuckWait, StepsInOrder, Came

\* What sorting is about stays: the run only goes on.
LEMMA OnlyRuns ==
  ASSUME RunInv, UNCHANGED <<edges, inDegree, layers, depth>>, RunTypeOK', StepsInOrder',
         outcome' = "sorting" => current' = 0,
         Came' => \A n \in Nodes : layers[n] # 0,
         outcome' = "refused" => Stuck,
         outcome' \in {"success", "partial_failure"} => current' > depth
  PROVE  RunInv'
<1>1. Counted' /\ Layered' /\ Ordered' /\ StuckWait'
  BY DEF RunInv, Counted, Layered, Ordered, StuckWait, StuckSet, Open, Taken, Incoming
<1>2. Stuck' = Stuck
  BY DEF Stuck, Incoming
<1> QED BY <1>1, <1>2 DEF RunInv

LEMMA RunInvSeed == ASSUME RunInv, SeedQueue PROVE RunInv'
<1>0. /\ RunTypeOK /\ Counted /\ Layered /\ Ordered /\ StuckWait /\ StepsInOrder
      /\ outcome = "sorting" /\ depth = 0 /\ current = 0
  BY DEF RunInv, SeedQueue
<1>1. /\ depth' = 1 /\ layers' = [n \in Nodes |-> IF inDegree[n] = 0 THEN 1 ELSE 0]
      /\ UNCHANGED <<edges, inDegree, current, step, outcome>>
  BY DEF SeedQueue
<1>2. \A n \in Nodes : layers[n] = 0
  BY <1>0 DEF RunTypeOK, Layered
<1>3. \A n \in Nodes : Open(n) = Incoming(n) /\ Open(n)' = Incoming(n)
  BY <1>1, <1>2 DEF Open, Taken, Incoming
<1>4. \A n \in Nodes : inDegree[n] = Cardinality(Incoming(n))
  BY <1>0, <1>3 DEF Counted
<1>5. \A n \in Nodes : inDegree[n] = 0 => Incoming(n) = {}
  BY <1>3, <1>4, OpenFinite
<1>6. Counted'
  BY <1>1, <1>3, <1>4 DEF Counted
<1>7. Layered' /\ RunTypeOK'
  BY <1>0, <1>1 DEF Layered, RunTypeOK
<1>8. Ordered'
  BY <1>1, <1>5 DEF Ordered, Incoming
<1>9. StuckWait'
  BY <1>1, <1>5 DEF StuckWait, StuckSet, Incoming
<1>10. StepsInOrder'
  BY <1>0, <1>1, <1>2 DEF StepsInOrder
<1> QED BY <1>0, <1>1, <1>6, <1>7, <1>8, <1>9, <1>10 DEF RunInv, Came

\* Edges out of the queue are open, and those that stay open are the others.
LEMMA QueueOpen ==
  ASSUME RunInv, depth # 0, NEW n \in Nodes
  PROVE  /\ FromQueue(n) \subseteq Open(n)
         /\ inDegree[n] - Cardinality(FromQueue(n)) = Cardinality(Open(n) \ FromQueue(n))
<1>1. FromQueue(n) \subseteq Open(n)
  BY DEF RunInv, RunTypeOK, FromQueue, Queue, Layer, Open, Taken
<1>2. Open(n) \cap FromQueue(n) = FromQueue(n)
  BY <1>1
<1>3. Cardinality(Open(n) \ FromQueue(n)) = Cardinality(Open(n)) - Cardinality(FromQueue(n))
  <2>1. PICK A, B : A = Open(n) /\ B = FromQueue(n)
    OBVIOUS
  <2>2. IsFiniteSet(A) /\ A \cap B = B
    BY <1>2, <2>1, OpenFinite
  <2>3. Cardinality(A \ B) = Cardinality(A) - Cardinality(A \cap B)
    BY <2>2, FS_Difference
  <2> QED BY <2>1, <2>2, <2>3
<1> QED BY <1>1, <1>3 DEF RunInv, Counted

LEMMA RunInvRound == ASSUME RunInv, NextQueue PROVE RunInv'
<1>0. /\ RunTypeOK /\ Counted /\ Layered /\ Ordered /\ StuckWait /\ StepsInOrder
      /\ outcome = "sorting" /\ depth # 0 /\ depth \in Nat /\ current = 0
  BY DEF RunInv, NextQueue, RunTypeOK
<1>1. PICK next : next = {n \in Nodes : FromQueue(n) # {}
                                        /\ inDegree[n] - Cardinality(FromQueue(n)) = 0}
  OBVIOUS
<1>2. /\ depth' = depth + 1
      /\ layers' = [n \in Nodes |-> IF n \in next THEN depth + 1 ELSE layers[n]]
      /\ inDegree' = [n \in Nodes |-> inDegree[n] - Cardinality(FromQueue(n))]
      /\ UNCHANGED <<edges, current, step, outcome>>
  BY <1>1 DEF NextQueue
<1>3. \A n \in next : n \in Nodes /\ FromQueue(n) # {} /\ inDegree'[n] = 0
  BY <1>1, <1>2
<1>4. \A n \in next : layers[n] = 0
  <2> SUFFICES ASSUME NEW n \in next PROVE layers[n] = 0
    OBVIOUS
  <2>1. Open(n) # {} /\ n \in Nodes
    BY <1>0, <1>3, QueueOpen
  <2>2. inDegree[n] # 0
    BY <1>0, <2>1, OpenFinite DEF Counted
  <2> QED BY <1>0, <2>1, <2>2 DEF Layered
<1>5. \A s \in Nodes : Taken(s)' <=> layers[s] # 0
  <2> SUFFICES ASSUME NEW s \in Nodes
               PROVE  layers'[s] # 0 /\ layers'[s] < depth' <=> layers[s] # 0
    BY DEF Taken
  <2>1. CASE s \in next
    BY <1>0, <1>2, <1>4, <2>1
  <2>2. CASE s \notin next
    BY <1>0, <1>2, <2>2 DEF Layered, RunTypeOK
  <2> QED BY <2>1, <2>2
<1>6. \A n \in Nodes : Open(n)' = Open(n) \ FromQueue(n)
  <2> SUFFICES ASSUME NEW n \in Nodes, NEW i \in EdgeIds, edges[i].target = n
               PROVE  ~Taken(edges[i].source)' <=>
                        ~Taken(edges[i].source) /\ edges[i].source \notin Queue
    BY <1>2 DEF Open, Incoming, FromQueue
  <2>1. PICK s : s = edges[i].source
    OBVIOUS
  <2>2. edges'[i].source = s
    BY <1>2, <2>1
  <2>3. CASE s \notin Nodes
    BY <1>2, <2>1, <2>3 DEF Taken, Queue, Layer
  <2>4. CASE s \in Nodes
    <3>1. Taken(s)' <=> layers[s] # 0
      BY <1>5, <2>4
    <3>2. layers[s] # 0 <=> Taken(s) \/ s \in Queue
      BY <1>0, <2>4 DEF Taken, Queue, Layer, Layered, RunTypeOK
    <3> QED BY <1>2, <2>1, <3>1, <3>2 DEF Taken
  <2> QED BY <2>3, <2>4
<1>7. Counted'
  <2>1. \A n \in Nodes : inDegree'[n] = Cardinality(Open(n) \ FromQueue(n))
    BY <1>0, <1>2, QueueOpen
  <2> QED BY <1>6, <2>1 DEF Counted
<1>8. \A n \in Nodes : inDegree'[n] \in Nat /\ (inDegree'[n] = 0 <=> Open(n)' = {})
  <2> SUFFICES ASSUME NEW n \in Nodes
               PROVE  inDegree'[n] \in Nat /\ (inDegree'[n] = 0 <=> Open(n)' = {})
    OBVIOUS
  <2>1. inDegree'[n] = Cardinality(Open(n) \ FromQueue(n))
    BY <1>0, <1>2, QueueOpen
  <2>2. IsFiniteSet(Open(n) \ FromQueue(n))
    BY OpenFinite, FS_Subset
  <2> QED BY <1>6, <2>1, <2>2, FS_CardinalityType, FS_EmptySet
<1>9. RunTypeOK'
  BY <1>0, <1>2, <1>8 DEF RunTypeOK
<1>10. Layered'
  <2>1. \A n \in Nodes : layers'[n] <= depth'
    BY <1>0, <1>2 DEF Layered, RunTypeOK
  <2>2. ASSUME NEW n \in Nodes, layers'[n] # 0 PROVE inDegree'[n] = 0
    <3>1. CASE n \in next
      BY <1>3, <3>1
    <3>2. CASE n \notin next
      <4>1. layers[n] # 0 /\ inDegree[n] = 0
        BY <1>0, <1>2, <2>2, <3>2 DEF Layered
      <4>2. Open(n) = {}
        BY <1>0, <4>1, OpenFinite DEF Counted
      <4> QED BY <1>6, <1>8, <4>2
    <3> QED BY <3>1, <3>2
  <2>3. ASSUME NEW n \in Nodes, layers'[n] = 0 PROVE inDegree'[n] # 0
    <3>1. n \notin next /\ layers[n] = 0
      BY <1>0, <1>2, <2>3
    <3>2. inDegree[n] # 0
      BY <1>0, <3>1 DEF Layered
    <3>3. CASE FromQueue(n) # {}
      BY <1>1, <1>2, <3>1, <3>3
    <3>4. CASE FromQueue(n) = {}
      <4>1. Open(n)' = Open(n) /\ Open(n) # {}
        BY <1>0, <1>6, <3>2, <3>4, OpenFinite DEF Counted
      <4> QED BY <1>8, <4>1
    <3> QED BY <3>3, <3>4
  <2> QED BY <2>1, <2>2, <2>3 DEF Layered
<1>11. ASSUME NEW n \in next, NEW i \in EdgeIds, edges[i].target = n, NEW s,
              s = edges[i].source
       PROVE  s \in Nodes /\ layers[s] # 0
  <2>1. Open(n)' = {} /\ n \in Nodes
    BY <1>3, <1>8
  <2>2. i \in Incoming(n)'
    BY <1>2, <1>11 DEF Incoming
  <2>3. Taken(s)'
    BY <1>2, <1>11, <2>1, <2>2 DEF Open, Taken
  <2>4. s \in Nodes
    BY <2>3 DEF Taken
  <2> QED BY <1>5, <2>3, <2>4
<1>12. Ordered'
  <2> SUFFICES ASSUME NEW i \in EdgeIds, NEW n \in Nodes, edges[i].target = n,
                      layers'[n] # 0, NEW s, s = edges[i].source
               PROVE  s \in Nodes /\ layers'[s] # 0 /\ layers'[s] < layers'[n]
    BY <1>2 DEF Ordered
  <2>1. CASE n \in next
    <3>1. s \in Nodes /\ layers[s] # 0
      BY <1>11, <2>1
    <3>2. s \notin next /\ layers'[s] = layers[s]
      BY <1>2, <1>4, <3>1
    <3> QED BY <1>0, <1>2, <2>1, <3>1, <3>2 DEF Layered, RunTypeOK
  <2>2. CASE n \notin next
    <3>1. layers'[n] = layers[n]
      BY <1>2, <2>2
    <3>2. s \in Nodes /\ layers[s] # 0 /\ layers[s] < layers[n]
      BY <1>0, <3>1 DEF Ordered
    <3>3. layers'[s] = layers[s]
      BY <1>2, <1>4, <3>2
    <3> QED BY <3>1, <3>2, <3>3
  <2> QED BY <2>1, <2>2
<1>13. StuckWait'
  <2> SUFFICES ASSUME NEW S \in SUBSET Nodes, StuckSet(S)', NEW n \in S
               PROVE  layers'[n] = 0
    BY DEF StuckWait
  <2>1. StuckSet(S)
    BY <1>2 DEF StuckSet, Incoming
  <2>2. \A m \in S : layers[m] = 0
    BY <1>0, <2>1 DEF StuckWait
  <2>3. n \notin next
    <3> SUFFICES ASSUME n \in next PROVE FALSE
      OBVIOUS
    <3>1. PICK i \in EdgeIds : edges[i].target = n /\ edges[i].source \in S \cup {Stranger}
      BY <2>1 DEF StuckSet, Incoming
    <3>2. edges[i].source \in Nodes /\ layers[edges[i].source] # 0
      BY <1>11, <3>1
    <3> QED BY <2>2, <3>1, <3>2, WorkflowAssumption
  <2> QED BY <1>2, <2>2, <2>3
<1>14. StepsInOrder'
  <2> SUFFICES ASSUME NEW n \in Nodes PROVE step[n] = "waiting" /\ ~(layers'[n] < 0)
    BY <1>0, <1>2 DEF StepsInOrder
  <2>1. layers[n] = 0 \/ layers[n] > 0
    BY <1>0 DEF RunTypeOK
  <2> QED BY <1>0, <1>9, <2>1 DEF StepsInOrder, RunTypeOK
<1> QED BY <1>0, <1>2, <1>7, <1>9, <1>10, <1>12, <1>13, <1>14 DEF RunInv, Came

LEMMA RunInvSorted == ASSUME RunInv, Sorted PROVE RunInv'
<1>0. /\ RunTypeOK /\ Counted /\ Layered /\ StepsInOrder
      /\ outcome = "sorting" /\ current = 0
      /\ UNCHANGED <<edges, inDegree, layers, depth, step>>
  BY DEF RunInv, Sorted
<1>1. \A n \in Nodes : step[n] = "waiting"
  BY <1>0 DEF StepsInOrder, RunTypeOK
<1>2. CASE \A n \in Nodes : layers[n] # 0
  <2>1. outcome' = "running" /\ current' = 1
    BY <1>2 DEF Sorted
  <2>2. RunTypeOK' /\ StepsInOrder'
    BY <1>0, <1>1, <2>1 DEF RunTypeOK, StepsInOrder
  <2> QED BY <1>0, <1>2, <2>1, <2>2, OnlyRuns
<1>3. CASE \E n \in Nodes : layers[n] = 0
  <2>1. outcome' = "refused" /\ current' = current
    BY <1>3 DEF Sorted
  <2>2. PICK S \in SUBSET Nodes : S = {n \in Nodes : layers[n] = 0}
    OBVIOUS
  <2>3. ASSUME NEW n \in S PROVE \E i \in Incoming(n) : edges[i].source \in S \cup {Stranger}
    <3>0. n \in Nodes /\ layers[n] = 0
      BY <2>2
    <3>1. PICK i : i \in Open(n) /\ edges[i].source \notin Queue
      <4>1. CASE depth = 0
        <5>1. inDegree[n] # 0
          BY <3>0, <4>1 DEF Sorted
        <5> QED BY <1>0, <3>0, <4>1, <5>1, OpenFinite DEF Counted, Queue
      <4>2. CASE depth # 0
        <5>1. FromQueue(n) # {} => inDegree[n] # Cardinality(FromQueue(n))
          BY <3>0, <4>2 DEF Sorted
        <5>2. inDegree[n] # 0
          BY <1>0, <3>0, <4>2 DEF Layered
        <5>3. /\ FromQueue(n) \subseteq Open(n)
              /\ inDegree[n] = Cardinality(Open(n))
          BY <1>0, <3>0, <4>2, QueueOpen DEF Counted
        <5>4. FromQueue(n) # Open(n)
          BY <5>1, <5>2, <5>3, OpenFinite
        <5> QED BY <5>3, <5>4 DEF FromQueue, Open
      <4> QED BY <4>1, <4>2
    <3>2. i \in Incoming(n) /\ ~Taken(edges[i].source) /\ edges[i].source \in Ids
      BY <1>0, <3>1 DEF Open, Incoming, RunTypeOK, Edge
    <3>3. CASE edges[i].source \in Nodes
      <4>1. layers[edges[i].source] = 0
        BY <1>0, <3>1, <3>2, <3>3 DEF Taken, Queue, Layer, Layered, RunTypeOK
      <4> QED BY <2>2, <3>2, <3>3, <4>1
    <3> QED BY <3>2, <3>3 DEF Ids
  <2>4. Stuck
    BY <1>3, <2>2, <2>3 DEF Stuck
  <2>5. RunTypeOK' /\ StepsInOrder'
    BY <1>0, <2>1 DEF RunTypeOK, StepsInOrder
  <2> QED BY <1>0, <2>1, <2>4, <2>5, OnlyRuns DEF Came
<1> QED BY <1>2, <1>3

LEMMA RunInvStart ==
  ASSUME RunInv, NEW executable \in SUBSET Nodes, StartLayer(executable)
  PROVE  RunInv'
<1>0. /\ RunTypeOK /\ StepsInOrder /\ outcome = "running"
      /\ UNCHANGED <<edges, inDegree, layers, depth, current, outcome>>
      /\ executable \subseteq Layer(current)
  BY DEF RunInv, StartLayer
<1>1. step' \in [Nodes -> {"waiting", "skipped", "running", "success", "failed"}]
  BY <1>0 DEF StartLayer, RunTypeOK
<1>2. \A n \in Nodes : layers[n] # current => step'[n] = step[n]
  BY <1>0 DEF StartLayer, Layer
<1>3. StepsInOrder'
  <2> SUFFICES ASSUME NEW n \in Nodes
               PROVE  /\ layers[n] = 0 \/ layers[n] > current => step'[n] = "waiting"
                      /\ layers[n] # 0 /\ layers[n] < current
                           => step'[n] \notin {"waiting", "running"}
    BY <1>0 DEF StepsInOrder
  <2>1. layers[n] # 0 /\ layers[n] \in Nat /\ current \in Nat
    BY <1>0 DEF RunInv, Came, RunTypeOK
  <2>2. CASE layers[n] = current
    BY <2>1, <2>2
  <2>3. CASE layers[n] # current
    BY <1>0, <1>2, <2>1, <2>3 DEF StepsInOrder
  <2> QED BY <2>2, <2>3
<1>4. RunTypeOK'
  BY <1>0, <1>1 DEF RunTypeOK
<1> QED BY <1>0, <1>3, <1>4, OnlyRuns DEF RunInv, Came

LEMMA RunInvEnds ==
  ASSUME RunInv, NEW n \in Nodes, NEW result \in {"success", "failed"}, NodeEnds(n, result)
  PROVE  RunInv'
<1>0. /\ RunTypeOK /\ StepsInOrder /\ outcome = "running" /\ step[n] = "running"
      /\ UNCHANGED <<edges, inDegree, layers, depth, current, outcome>>
      /\ step' = [step EXCEPT ![n] = result]
  BY DEF RunInv, NodeEnds
<1>1. RunTypeOK' /\ step'[n] = result /\ \A m \in Nodes \ {n} : step'[m] = step[m]
  BY <1>0 DEF RunTypeOK
<1>2. StepsInOrder'
  BY <1>0, <1>1 DEF StepsInOrder
<1> QED BY <1>0, <1>1, <1>2, OnlyRuns DEF RunInv, Came

LEMMA RunInvGather == ASSUME RunInv, Gather PROVE RunInv'
<1>0. /\ RunTypeOK /\ StepsInOrder /\ outcome = "running" /\ current \in Nat /\ depth \in Nat
      /\ UNCHANGED <<edges, inDegree, layers, depth, step>> /\ current' = current + 1
      /\ \A n \in Nodes : layers[n] # 0 /\ layers[n] \in Nat
  BY DEF RunInv, Gather, RunTypeOK, Came
<1>1. \A n \in Nodes : layers[n] = current => step[n] \notin {"waiting", "running"}
  BY DEF Gather, Layer
<1>2. StepsInOrder'
  BY <1>0, <1>1 DEF StepsInOrder
<1>3. outcome' \in {"running", "success", "partial_failure"}
  BY <1>0 DEF Gather
<1>4. outcome' # "running" => current' > depth
  BY <1>0 DEF Gather
<1>5. RunTypeOK'
  BY <1>0, <1>3 DEF RunTypeOK
<1> QED BY <1>0, <1>2, <1>3, <1>4, <1>5, OnlyRuns

LEMMA RunInvStep == RunInv /\ [RunNext]_runVars => RunInv'
<1> SUFFICES ASSUME RunInv, [RunNext]_runVars PROVE RunInv'
  OBVIOUS
<1>0. RunTypeOK /\ StepsInOrder
  BY DEF RunInv
<1>1. CASE UNCHANGED runVars
  <2>1. UNCHANGED <<edges, inDegree, layers, depth, current, step, outcome>>
    BY <1>1 DEF runVars
  <2>2. RunTypeOK' /\ StepsInOrder'
    BY <1>0, <2>1 DEF RunTypeOK, StepsInOrder
  <2> QED BY <2>1, <2>2, OnlyRuns DEF RunInv, Came
<1>2. CASE UnknownTarget \/ ConditionRaises
  <2>1. UNCHANGED <<edges, inDegree, layers, depth, current, step>> /\ outcome' = "error"
    BY <1>2 DEF UnknownTarget, ConditionRaises
  <2>2. RunTypeOK' /\ StepsInOrder'
    BY <1>0, <2>1 DEF RunTypeOK, StepsInOrder
  <2> QED BY <2>1, <2>2, OnlyRuns DEF Came
<1> QED
  BY <1>1, <1>2, RunInvSeed, RunInvRound, RunInvSorted, RunInvStart, RunInvEnds,
     RunInvGather DEF RunNext

\* Layers, counts and steps agree in every run of every definition.
THEOREM RunInvariance == RunSpec => []RunInv
BY RunInvInit, RunInvStep, PTL DEF RunSpec

\* A definition is refused exactly when its nodes wait for one another.
THEOREM RefusalsAreRight == RunSpec => []RefusedWhenStuck
<1>1. RunInv => RefusedWhenStuck
  <2> SUFFICES ASSUME RunInv, Came PROVE ~Stuck
    BY DEF RefusedWhenStuck, RunInv, Came
  <2>1. ASSUME NEW S \in SUBSET Nodes, StuckSet(S) PROVE S = {}
    BY <2>1 DEF RunInv, StuckWait
  <2> QED BY <2>1 DEF Stuck, StuckSet
<1> QED BY <1>1, RunInvariance, PTL

\* No node starts before what it comes after has ended.
THEOREM PredecessorsAreDone == RunSpec => []PredecessorsDone
<1>1. RunInv => PredecessorsDone
  <2> SUFFICES ASSUME RunInv PROVE PredecessorsDone
    OBVIOUS
  <2>0. /\ RunTypeOK /\ Layered /\ Ordered /\ StepsInOrder
    BY DEF RunInv
  <2>1. ASSUME NEW i \in EdgeIds, NEW s \in Nodes, NEW n \in Nodes, edges[i].source = s,
               edges[i].target = n, step[n] # "waiting"
        PROVE  step[s] \notin {"waiting", "running"}
    <3>1. layers[n] # 0 /\ layers[n] <= current
      BY <2>0, <2>1 DEF StepsInOrder, RunTypeOK
    <3>2. layers[s] # 0 /\ layers[s] < layers[n]
      BY <2>0, <2>1, <3>1 DEF Ordered
    <3> QED BY <2>0, <3>1, <3>2 DEF StepsInOrder, RunTypeOK
  <2>2. ASSUME outcome \in {"success", "partial_failure"}, NEW n \in Nodes
        PROVE  step[n] \notin {"waiting", "running"}
    <3>1. layers[n] # 0 /\ current > depth /\ layers[n] <= depth
      BY <2>2 DEF RunInv, Came, Layered
    <3> QED BY <2>0, <3>1 DEF StepsInOrder, RunTypeOK
  <2> QED BY <2>1, <2>2 DEF PredecessorsDone
<1> QED BY <1>1, RunInvariance, PTL
----------------------------------------------------------------------------

(* FunctionCatalog.  What a request is about to write has its type.         *)

CallOK(i) ==
  LET q == funcCall[i]
  IN /\ q.pc = "register" => q.rid \in Funcs /\ q.name \in ApiNames
     /\ q.pc = "define" => q.rid \in Workflows /\ q.def \in Workflow
     /\ q.pc = "running" => q.rec \in FuncRecords
     /\ q.pc = "logged" => q.rec \in FuncRecords /\ q.result \in {"success", "failed"}

CatalogInv == CatalogTypeOK /\ \A i \in FuncCalls : CallOK(i)

LEMMA NoFuncCallOK == NoFuncCall \in FuncCall
BY DEF NoFuncCall, FuncCall

LEMMA RequestKinds ==
  ASSUME NEW pc \in {"register", "define", "running"}, NEW rid \in Funcs \cup Workflows,
         NEW name \in ApiNames \cup {None}, NEW def \in Workflow \cup {None},
         NEW e \in FuncRecords \cup {None}, NEW q, q = AskedFor(pc, rid, name, def, e)
  PROVE  /\ q \in FuncCall /\ q.pc = pc /\ q.rid = rid /\ q.name = name /\ q.def = def
         /\ q.rec = e
BY DEF AskedFor, FuncCall

\* The default, 0, is the level of no levels.
LEMMA HighestIsLevel ==
  ASSUME NEW levels \in SUBSET Levels
  PROVE  Highest(levels) \in Levels
<1>1. \E top \in levels \cup {0} : \A level \in levels : level <= top
  <2>1. CASE 3 \in levels
    BY <2>1 DEF Levels
  <2>2. CASE 3 \notin levels /\ 2 \in levels
    BY <2>2 DEF Levels
  <2>3. CASE 3 \notin levels /\ 2 \notin levels /\ 1 \in levels
    BY <2>3 DEF Levels
  <2>4. CASE levels \subseteq {0}
    BY <2>4
  <2> QED BY <2>1, <2>2, <2>3, <2>4 DEF Levels
<1>2. levels \cup {0} \subseteq Levels
  BY DEF Levels
<1>3. Highest(levels) \in levels \cup {0}
  BY <1>1 DEF Highest
<1> QED BY <1>2, <1>3

LEMMA DefinedKind ==
  ASSUME NEW nodes \in SUBSET DeclaredLevels, NEW d, d = Defined(nodes)
  PROVE  d \in Workflow
<1>1. nodes \in SUBSET Levels
  BY CatalogAssumption
<1>2. Highest(nodes) \in Levels
  BY <1>1, HighestIsLevel
<1> QED BY <1>2 DEF Defined, Workflow

LEMMA CatalogInvInit == CatalogInit => CatalogInv
<1> SUFFICES ASSUME CatalogInit PROVE CatalogInv
  OBVIOUS
<1>1. CatalogTypeOK
  BY NoFuncCallOK DEF CatalogInit, CatalogTypeOK
<1>2. \A i \in FuncCalls : CallOK(i)
  BY DEF CatalogInit, CallOK, NoFuncCall
<1> QED BY <1>1, <1>2 DEF CatalogInit, CatalogInv

\* The request in slot i becomes q: what it knows must be in order.
LEMMA CallChanges ==
  ASSUME CatalogInv, NEW i \in FuncCalls, NEW q \in FuncCall,
         funcCall' = [funcCall EXCEPT ![i] = q],
         q.pc = "register" => q.rid \in Funcs /\ q.name \in ApiNames,
         q.pc = "define" => q.rid \in Workflows /\ q.def \in Workflow,
         q.pc = "running" => q.rec \in FuncRecords,
         q.pc = "logged" => q.rec \in FuncRecords /\ q.result \in {"success", "failed"}
  PROVE  /\ funcCall' \in [FuncCalls -> FuncCall] /\ funcCall'[i] = q
         /\ \A j \in FuncCalls \ {i} : funcCall'[j] = funcCall[j]
         /\ \A j \in FuncCalls : CallOK(j)'
<1>1. /\ funcCall' \in [FuncCalls -> FuncCall] /\ funcCall'[i] = q
      /\ \A j \in FuncCalls \ {i} : funcCall'[j] = funcCall[j]
  BY DEF CatalogInv, CatalogTypeOK
<1>2. \A j \in FuncCalls : CallOK(j)'
  BY <1>1 DEF CatalogInv, CallOK
<1> QED BY <1>1, <1>2

LEMMA OnlyCalls ==
  ASSUME CatalogInv, UNCHANGED <<func, workflow, record>>,
         funcCall' \in [FuncCalls -> FuncCall], \A j \in FuncCalls : CallOK(j)'
  PROVE  CatalogInv'
BY DEF CatalogInv, CatalogTypeOK

LEMMA FuncCallEnds ==
  ASSUME CatalogInv, NEW i \in FuncCalls, EndsFunc(i)
  PROVE  /\ funcCall' \in [FuncCalls -> FuncCall] /\ funcCall'[i] = NoFuncCall
         /\ \A j \in FuncCalls \ {i} : funcCall'[j] = funcCall[j]
         /\ \A j \in FuncCalls : CallOK(j)'
<1>1. PICK q \in FuncCall : q = NoFuncCall
  BY NoFuncCallOK
<1>2. q.pc = "idle"
  BY <1>1 DEF NoFuncCall
<1> QED BY <1>1, <1>2, CallChanges DEF EndsFunc

LEMMA CatalogInvStep == CatalogInv /\ [CatalogNext]_catalogVars => CatalogInv'
<1> SUFFICES ASSUME CatalogInv, [CatalogNext]_catalogVars PROVE CatalogInv'
  OBVIOUS
<1>0. CatalogTypeOK /\ \A i \in FuncCalls : CallOK(i)
  BY DEF CatalogInv
<1>1. CASE UNCHANGED catalogVars
  BY <1>1 DEF catalogVars, CatalogInv, CatalogTypeOK, CallOK
<1>2. ASSUME NEW i \in FuncCalls, NEW f \in Funcs, NEW name \in ApiNames,
             RegisterFunction(i, f, name)
      PROVE  CatalogInv'
  <2>1. PICK q : q = AskedFor("register", f, name, None, None)
    OBVIOUS
  <2>2. q \in FuncCall /\ q.pc = "register" /\ q.rid = f /\ q.name = name
    BY <2>1, RequestKinds
  <2>3. funcCall' = [funcCall EXCEPT ![i] = q] /\ UNCHANGED <<func, workflow, record>>
    BY <1>2, <2>1 DEF RegisterFunction, BeginsFunc
  <2> QED BY <2>2, <2>3, CallChanges, OnlyCalls
<1>3. ASSUME NEW i \in FuncCalls, NEW f \in Funcs, NEW e \in FuncRecords,
             StartFunction(i, f, e)
      PROVE  CatalogInv'
  <2>1. PICK q : q = AskedFor("running", f, None, None, e)
    OBVIOUS
  <2>2. q \in FuncCall /\ q.pc = "running" /\ q.rec = e
    BY <2>1, RequestKinds
  <2>3. funcCall' = [funcCall EXCEPT ![i] = q] /\ UNCHANGED <<func, workflow, record>>
    BY <1>3, <2>1 DEF StartFunction, BeginsFunc
  <2> QED BY <2>2, <2>3, CallChanges, OnlyCalls
<1>4. ASSUME NEW i \in FuncCalls, NEW w \in Workflows, NEW nodes \in SUBSET DeclaredLevels,
             UpdateWorkflow(i, w, nodes)
      PROVE  CatalogInv'
  <2>1. PICK d : d = Defined(nodes)
    OBVIOUS
  <2>2. d \in Workflow
    BY <2>1, DefinedKind
  <2>3. PICK q : q = AskedFor("define", w, None, d, None)
    OBVIOUS
  <2>4. q \in FuncCall /\ q.pc = "define" /\ q.rid = w /\ q.def = d
    BY <2>2, <2>3, RequestKinds
  <2>5. funcCall' = [funcCall EXCEPT ![i] = q] /\ UNCHANGED <<func, workflow, record>>
    BY <1>4, <2>1, <2>3 DEF UpdateWorkflow, BeginsFunc
  <2> QED BY <2>2, <2>4, <2>5, CallChanges, OnlyCalls
<1>5. ASSUME NEW i \in FuncCalls, NEW result \in {"success", "failed"},
             LogFunction(i, result)
      PROVE  CatalogInv'
  <2>1. funcCall[i] \in FuncCall /\ funcCall[i].pc = "running" /\ funcCall[i].rec \in FuncRecords
    BY <1>0, <1>5 DEF LogFunction, FuncAt, CatalogTypeOK, CallOK
  <2>2. PICK q : q = [funcCall[i] EXCEPT !.pc = "logged", !.result = result]
    OBVIOUS
  <2>3. /\ q \in FuncCall /\ q.pc = "logged" /\ q.result = result
        /\ q.rec = funcCall[i].rec
    BY <2>1, <2>2 DEF FuncCall
  <2>4. funcCall' = [funcCall EXCEPT ![i] = q] /\ UNCHANGED <<func, workflow, record>>
    BY <1>5, <2>2 DEF LogFunction
  <2> QED BY <2>1, <2>3, <2>4, CallChanges, OnlyCalls
<1>6. ASSUME NEW i \in FuncCalls, InsertFunction(i) PROVE CatalogInv'
  <2>1. /\ EndsFunc(i) /\ UNCHANGED <<workflow, record>>
        /\ \/ func' = func
           \/ func' = [func EXCEPT ![funcCall[i].rid] = funcCall[i].name]
    BY <1>6 DEF InsertFunction
  <2>2. funcCall[i].name \in ApiNames
    BY <1>0, <1>6 DEF InsertFunction, FuncAt, CallOK
  <2>3. func' \in [Funcs -> ApiNames \cup {None}]
    BY <1>0, <2>1, <2>2 DEF CatalogTypeOK
  <2> QED BY <1>0, <2>1, <2>3, FuncCallEnds
          DEF CatalogInv, CatalogTypeOK
<1>7. ASSUME NEW f \in Funcs, DeleteFunction(f) PROVE CatalogInv'
  BY <1>0, <1>7 DEF DeleteFunction, CatalogInv, CatalogTypeOK, CallOK
<1>8. ASSUME NEW w \in Workflows, NEW row \in Workflow \cup {None},
             workflow' = [workflow EXCEPT ![w] = row]
      PROVE  workflow' \in [Workflows -> Workflow \cup {None}]
  BY <1>0, <1>8 DEF CatalogTypeOK
<1>9. ASSUME NEW w \in Workflows, NEW nodes \in SUBSET DeclaredLevels, CreateWorkflow(w, nodes)
      PROVE  CatalogInv'
  <2>1. PICK d : d = Defined(nodes)
    OBVIOUS
  <2>2. d \in Workflow
    BY <2>1, DefinedKind
  <2>3. workflow' = [workflow EXCEPT ![w] = d] /\ UNCHANGED <<func, record, funcCall>>
    BY <1>9, <2>1 DEF CreateWorkflow
  <2>4. workflow' \in [Workflows -> Workflow \cup {None}]
    BY <1>8, <2>2, <2>3
  <2> QED BY <1>0, <2>3, <2>4 DEF CatalogInv, CatalogTypeOK, CallOK
<1>10. ASSUME NEW w \in Workflows, DeleteWorkflow(w) PROVE CatalogInv'
  <2>1. workflow' = [workflow EXCEPT ![w] = None] /\ UNCHANGED <<func, record, funcCall>>
    BY <1>10 DEF DeleteWorkflow
  <2>2. workflow' \in [Workflows -> Workflow \cup {None}]
    BY <1>8, <2>1
  <2> QED BY <1>0, <2>1, <2>2 DEF CatalogInv, CatalogTypeOK, CallOK
<1>11. ASSUME NEW i \in FuncCalls, WriteWorkflow(i) PROVE CatalogInv'
  <2>1. /\ EndsFunc(i) /\ UNCHANGED <<func, record>>
        /\ funcCall[i].rid \in Workflows /\ funcCall[i].def \in Workflow
    BY <1>0, <1>11 DEF WriteWorkflow, FuncAt, CallOK
  <2>2. \/ workflow' = workflow
        \/ workflow' = [workflow EXCEPT ![funcCall[i].rid] = funcCall[i].def]
    BY <1>11 DEF WriteWorkflow
  <2>3. workflow' \in [Workflows -> Workflow \cup {None}]
    BY <1>0, <1>8, <2>1, <2>2 DEF CatalogTypeOK
  <2> QED BY <1>0, <2>1, <2>3, FuncCallEnds DEF CatalogInv, CatalogTypeOK
<1>12. ASSUME NEW i \in FuncCalls, CommitFunction(i) PROVE CatalogInv'
  <2>1. /\ EndsFunc(i) /\ UNCHANGED <<func, workflow>>
        /\ funcCall[i].result \in {"success", "failed"}
        /\ record' = [record EXCEPT ![funcCall[i].rec] = funcCall[i].result]
    BY <1>0, <1>12 DEF CommitFunction, FuncAt, CallOK
  <2>2. record' \in [FuncRecords -> {"none", "running", "success", "failed"}]
    BY <1>0, <2>1 DEF CatalogTypeOK
  <2> QED BY <1>0, <2>1, <2>2, FuncCallEnds
          DEF CatalogInv, CatalogTypeOK
<1>13. ASSUME NEW i \in FuncCalls, FuncCallDies(i) PROVE CatalogInv'
  BY <1>13, FuncCallEnds, OnlyCalls DEF FuncCallDies
<1> QED
  BY <1>1, <1>2, <1>3, <1>4, <1>5, <1>6, <1>7, <1>9, <1>10, <1>11, <1>12, <1>13
     DEF CatalogNext, FunctionRequests, WorkflowRequests

\* Functions, workflows, records and requests stay in order.
THEOREM CatalogInvariance == CatalogSpec => []CatalogInv
BY CatalogInvInit, CatalogInvStep, PTL DEF CatalogSpec

\* The tables of the catalog keep their types.
THEOREM CatalogTyping == CatalogSpec => []CatalogTypeOK
<1>1. CatalogInv => CatalogTypeOK
  BY DEF CatalogInv
<1> QED BY <1>1, CatalogInvariance, PTL
=============================================================================
