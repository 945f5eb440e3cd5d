-------------------------- MODULE CopilotRegistries --------------------------
(***************************************************************************)
(* ModelManager, SkillManager, SubAgentManager and McpManager: four tables *)
(* of one tenant with the same operations.  A model may be the default     *)
(* one; an MCP connection keeps the result of asking its server, which     *)
(* takes up to half a minute.  An update that is asked for by rid writes   *)
(* whatever row there is by then, and commits before it looks.             *)
(***************************************************************************)
EXTENDS NoValue, FiniteSets

CONSTANTS Entries,       \* rids
          Admins,        \* requests at work at once
          SerialDefaults \* whether requests that set a default never overlap

VARIABLES registry,  \* the rows
          deleted,   \* the rids that were deleted
          job

registryVars == <<registry, deleted, job>>

ASSUME RegistryAssumption ==
  /\ SerialDefaults \in BOOLEAN
  /\ None \notin Entries

\* status is the enabled flag of a skill or a sub-agent, and an MCP
\* connection's "disconnected", "connected" or "error".
Entry == [kind    : {"model", "skill", "subagent", "mcp"},
          default : BOOLEAN,
          status  : {"off", "on", "error"}]

ASSUME NoneIsNoEntry == None \notin Entry

Job == [pc      : {"idle", "write", "rpc"},
        rid     : Entries \cup {None},
        cleared : SUBSET Entries,
        new     : Entry \cup {None}]   \* the row that register adds

NoJob == [pc |-> "idle", rid |-> None, cleared |-> {}, new |-> None]

RegistryTypeOK ==
  /\ registry \in [Entries -> Entry \cup {None}]
  /\ deleted \subseteq Entries
  /\ job \in [Admins -> Job]

----------------------------------------------------------------------------

Entered == {r \in Entries : registry[r] # None}

Defaults == {r \in Entered : registry[r].default}

\* generate_rid never repeats an identifier.
Fresh(r) == /\ r \notin deleted \cup Entered
            /\ \A i \in Admins : job[i].rid # r

EndsJob(i) == job' = [job EXCEPT ![i] = NoJob]

NewEntry(kind, default) ==
  [kind |-> kind, default |-> default, status |-> IF kind = "mcp" THEN "off" ELSE "on"]

\* Variant: a new default leaves the old one.
ClearNone(i, r, new) ==
  /\ job[i] = NoJob
  /\ job' = [job EXCEPT ![i] = [pc |-> "write", rid |-> r, cleared |-> {}, new |-> new]]

\* The statement that takes the flag from every default model there is.
ClearDefaults(i, r, new) ==
  /\ job[i] = NoJob
  /\ SerialDefaults => \A j \in Admins : job[j].pc # "write"
  /\ job' = [job EXCEPT ![i] = [pc |-> "write", rid |-> r, cleared |-> Defaults,
                                new |-> new]]

RegisterDefault(i, r) ==
  /\ Fresh(r)
  /\ ClearDefaults(i, r, NewEntry("model", TRUE))
  /\ UNCHANGED <<registry, deleted>>

\* Whether the rid is known is not asked.
UpdateToDefault(i, r) ==
  /\ r \in Entered => registry[r].kind = "model"
  /\ ClearDefaults(i, r, None)
  /\ UNCHANGED <<registry, deleted>>

\* Its own row is written after the flags were taken; rows that were deleted
\* in between stay deleted.
WriteDefault(i) ==
  LET j == job[i]
  IN /\ j.pc = "write"
     /\ registry' =
          [r \in Entries |->
             IF r = j.rid /\ j.new # None THEN j.new
             ELSE IF registry[r] = None THEN None
             ELSE IF r = j.rid THEN [registry[r] EXCEPT !.default = TRUE]
             ELSE IF r \in j.cleared THEN [registry[r] EXCEPT !.default = FALSE]
             ELSE registry[r]]
     /\ EndsJob(i)
     /\ UNCHANGED deleted

\* register of the other managers, and of a model that is not the default.
Register(r, kind) ==
  /\ Fresh(r)
  /\ registry' = [registry EXCEPT ![r] = NewEntry(kind, FALSE)]
  /\ UNCHANGED <<deleted, job>>

\* set_enabled, and an update that names no default.
Update(r, status) ==
  /\ r \in Entered
  /\ registry[r].kind \in {"skill", "subagent"}
  /\ registry' = [registry EXCEPT ![r].status = status]
  /\ UNCHANGED <<deleted, job>>

TakeDefault(r) ==
  /\ r \in Defaults
  /\ registry' = [registry EXCEPT ![r].default = FALSE]
  /\ UNCHANGED <<deleted, job>>

Delete(r) ==
  /\ r \in Entered
  /\ registry' = [registry EXCEPT ![r] = None]
  /\ deleted' = deleted \cup {r}
  /\ UNCHANGED job

----------------------------------------------------------------------------

\* discover_tools; test_connection writes nothing.
DiscoverTools(i, r) ==
  /\ job[i] = NoJob
  /\ r \in Entered /\ registry[r].kind = "mcp"
  /\ job' = [job EXCEPT ![i] = [pc |-> "rpc", rid |-> r, cleared |-> {}, new |-> None]]
  /\ UNCHANGED <<registry, deleted>>

\* Variant: the row that was read is written back whole.
DiscoveredMerge(i, status) ==
  /\ job[i].pc = "rpc"
  /\ registry' = [registry EXCEPT ![job[i].rid] =
                    [kind |-> "mcp", default |-> FALSE, status |-> status]]
  /\ EndsJob(i)
  /\ UNCHANGED deleted

\* The tools are recorded, or the error is: a time-out, a refused connection,
\* a bad answer.  Without a row nothing is.
Discovered(i, status) ==
  LET r == job[i].rid
  IN /\ job[i].pc = "rpc"
     /\ registry' = IF registry[r] = None THEN registry
                    ELSE [registry EXCEPT ![r].status = status]
     /\ EndsJob(i)
     /\ UNCHANGED deleted

JobDies(i) ==
  /\ job[i] # NoJob
  /\ EndsJob(i)
  /\ UNCHANGED <<registry, deleted>>

RegistryInit ==
  /\ registry = [r \in Entries |-> None]
  /\ deleted = {}
  /\ job = [i \in Admins |-> NoJob]

\* The requests about any of the four tables, those that ask an MCP server
\* left out.
TableRequests(r) ==
  \/ \E kind \in {"model", "skill", "subagent", "mcp"} : Register(r, kind)
  \/ \E status \in {"on", "off"} : Update(r, status)
  \/ TakeDefault(r)
  \/ Delete(r)
  \/ \E i \in Admins : RegisterDefault(i, r) \/ UpdateToDefault(i, r)

McpRequests(i) ==
  \/ \E r \in Entries : DiscoverTools(i, r)
  \/ \E status \in {"on", "error"} : Discovered(i, status)

RegistryNext ==
  \/ \E r \in Entries : TableRequests(r)
  \/ \E i \in Admins : McpRequests(i) \/ WriteDefault(i) \/ JobDies(i)

RegistrySpec == RegistryInit /\ [][RegistryNext]_registryVars

----------------------------------------------------------------------------

\* get_default never fails because a tenant has two default models, through
\* registrations, updates, deletions and requests that die between taking
\* the flag and giving it.
OneDefaultModel == \A r, s \in Defaults : r = s

\* What was deleted does not come back when an update or the answer of an
\* MCP server arrives late.
DeletedStayDeleted == \A r \in deleted : registry[r] = None
=============================================================================
