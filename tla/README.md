# Lingshu: TLA+ models, checks and proofs

Lingshu is a Python (FastAPI, asyncio) back end for an ontology platform: users
describe entity types, publish versions of that description, map it onto data
sources, run actions against the data, and do all of this through a web page or
an LLM agent. The back end keeps its state in Neo4j (the ontology graph),
PostgreSQL (snapshots, executions, edit log, users, tenants), Redis (locks,
caches) and, optionally, FoundationDB (edit log). No request handler is atomic:
each awaits several calls to several stores, so requests interleave between any
two calls, and each store commits on its own.

This directory holds the TLA+ models of that behaviour, the TLC configurations
that check them and the TLAPS proofs about them. Paths below are relative to
`backend/src/lingshu/` unless they start with `docs/` or `backend/`.

## 1. Inventory

| Part | State | Operations | Hard behaviour | What makes it correct |
|---|---|---|---|---|
| Ontology graph store (`ontology/repository/graph_repo.py`) | Neo4j nodes: one per version of an entity, with stage flags, owner, snapshot and base snapshot | create, read by stage, set, delete, promote, roll back | each Cypher statement is a transaction, a handler runs several | flags describe exactly one stage; a published version is never changed by editing |
| Entity editing (`ontology/service.py` 134-300, 518-673, 788-801) | Redis edit locks; requests in flight | create, update, delete, submit, discard draft, discard staging, discard all, acquire, release, refresh | check-then-act across awaits; lock expiry; requests that die | base version right in every draft; no draft without an owner; published versions left alone |
| Publishing (`ontology/service.py` 690-786, `ontology/retry.py`) | Redis commit lock, snapshots table, active pointer | commit staging | three stores that commit separately; retry of three statements; lock lease; crash | commits exclude each other; history is linear; the graph shows the version the pointer names |
| Rollback (`ontology/service.py` 857-898) | as publishing | roll back to a snapshot | no lock; two statements; switches two snapshots only; any tenant's snapshot id | the graph shows the target version |
| Validators (`ontology/validators/`) | none (read relationships) | dependency, contract and cycle checks | check-then-act | no dangling reference, no interface cycle |
| Action execution (`function/service.py`, `function/repository/execution_repo.py`, `function/safety/enforcer.py`) | executions table, edit log | execute, batch, async, confirm, cancel | confirm racing cancel; expiry; action and status committed separately; background task lost | a handler runs an execution at most once; one that is decided is taken by nobody new; success means a complete run |
| Action engines (`function/actions/`) | none | native, SQL, Python, webhook | webhook retries | - |
| Workflows (`function/workflows/`) | workflow table | CRUD, execute a DAG in layers | failing nodes, conditions | every node after its predecessors; cycles refused |
| Global functions (`function/globals/`) | functions table with version | CRUD, execute | check-then-insert, lost increments | a name finds one function (a unique index decides) |
| Edit log and merge (`data/writeback/`, `data/pipeline/merge.py`) | edit log | write, read, replay over a base row | two writes of one timestamp; deletes and re-creations | replay equals the last write of each field |
| Row locks (`data/writeback/lock.py`) | Redis locks | acquire, release | GET then DELETE | nothing calls it |
| Data service and connectors (`data/service.py`, `data/pipeline/`, `data/connectors/`) | connections table; connectors and schemas in memory | connection CRUD and test, query an instance | a cache filled from a row read before an update; a schema published while it loads; shared and computed columns | a connector is its row's (it need not be, section 6); a schema is out of date for a bounded time; masked values stay hidden |
| Data branches (`data/branch/`) | Nessie branches | create, delete, merge, diff | a hash is read one call before it is sent | no unread commit is lost; main stays |
| Copilot (`copilot/service.py`, `copilot/sessions/`, `copilot/agent/`) | session context with a pending interrupt | send message, resume | double resume; context overwritten | an interrupt is answered at most once |
| Copilot registries (`copilot/infra/`) | models, skills, MCP, sub-agents | CRUD | two default models | - |
| Authentication (`setting/service.py`, `setting/auth/`) | refresh tokens, revoked token ids | login, logout, refresh, switch tenant | logouts beside refreshes, clocks, cookies | a logged-out token is refused; its session is over (it need not be, section 6) |
| Tenants, members, roles (`setting/service.py`, `setting/authz/enforcer.py`) | memberships in PostgreSQL, roles in memory | add, update, remove member, roles | memory changed before commit; last admin race | enforcer agrees with the table; a tenant keeps an admin (it need not, section 6) |
| Infrastructure (`infra/`) | - | sessions, identifiers | a session rolls back on an exception | - |
| Front end, protobuf files, deployment | - | - | - | - |

The parts meet in few places. Routes call one handler each. Editing and
publishing meet in the graph, with no lock in common. Copilot calls action
execution (an approved interrupt confirms a pending execution), and action execution
reads the ontology and writes the edit log. The merger that would replay the edit
log over what the data service reads is implemented and called by nothing.

PROJECT.json lists every part with its status, and under "hazards" what is hard
to test in this code, each at its line.

## 2. Plan

In the order of importance for the system. All but the last three points is done.

1. **Ontology versioning** - `OntologyGraph`, `OntologyEditing`,
   `OntologyPublishing`, composed by `OntologySystem`; abstract history in
   `SnapshotHistory`.
2. **Action execution** - `ActionExecution`; abstract promise in `ExecutionLedger`.
3. **Authentication, membership, roles** - `Authentication`, `Membership`,
   `CustomRoles`: tokens, and PostgreSQL against the enforcer in memory.
4. **Data** - `EditLog`, `DataConnections`, `SchemaCache`, `InstanceQuery`,
   `DataBranches`.
5. **Functions and workflows** - `WorkflowRun`, `FunctionCatalog`.
6. **Copilot** - `CopilotSessions`, `CopilotRegistries`.
7. **Relationships** - left. No operation of the code creates an EXTENDS, IMPLEMENTS
   or reference relationship, so the dependency, contract and cycle checks find
   nothing; there is something to model once one does.
8. **The FoundationDB edit log** - left. `main.py:91` passes on `settings.editlog_backend`,
   which may select it; the default is the SQL store, which is modelled.
9. **Several worker processes of the setting and data services** - left. Each has an
   enforcer, a connector cache and a schema cache of its own and nothing connects
   them, so what one drops the others keep until they restart; what is checked and
   proved is about one process. The ontology's requests and executions keep their state in the
   stores, so there any number of workers is covered.

## 3. Modules

A handler of this code is a coroutine that awaits calls to stores. Between two
awaits nothing else runs in the same worker, but other workers and other
coroutines run during each. So every request in flight is a record with a program
counter (`pc`) that names the call it makes next, every call is one action that
applies the whole effect of the call and the synchronous code up to the next
await, and what a handler read earlier and uses later is a field of the record.
A request that its first check refuses changes nothing and is not started.

| Module | What it models | State | Code |
|---|---|---|---|
| `OntologyGraph` | the Cypher statements, one operator each: graph before to graph after | `graph`: a node record, or None, under each identity | `repository/graph_repo.py` |
| `OntologyEditing` | create, update, delete, submit, discard draft, discard staging, discard all, acquire and release | `editLock` (Redis), `edit` (requests in flight) | `ontology/service.py` |
| `OntologyPublishing` | `commit_staging`, `rollback_to_snapshot`, `retry_neo4j_operation` | `commitLock` (Redis), `rows` and `pointer` (PostgreSQL, committed), `pub` (requests) | `ontology/service.py`, `ontology/retry.py`, `repository/snapshot_repo.py` |
| `OntologySystem` | editing and publishing on one graph; with `Serial` one request at a time | all of the above | `ontology/router.py` |
| `SnapshotHistory` | abstract: a commit adds one row whose parent is the current version; a rollback moves the pointer to a row, of whatever tenant | `rows`, `pointer` | - |
| `ActionExecution` | execute, batch, async with its background task, confirm, cancel, expiry | `record` (executions table), `effects` (what runs did), `late`, `call` (handlers) | `function/service.py` |
| `ExecutionLedger` | abstract: a handler runs an execution at most once, nobody new takes one that is decided, only a run makes a success, nothing is reopened | `status`, `runs`, `holders`, `ready` | - |
| `MC...` | symmetry sets and name assignments for TLC | | |
| `..._proofs` | theorems | | |

Points of correspondence that are not obvious:

- **A node** keeps only what versioning tests or sets: entity, three flags, owner,
  snapshot, base snapshot. Business fields and relationships are left out.
  `snapshot_id` of a draft is the one of the version it was cloned from
  (the code clones the property map) until the promotion overwrites it.
- **PostgreSQL** rows that a session flushed but did not commit exist only in the
  request's record; `CommitPoint` is the moment of `session.commit()`. `CommitFails`
  is an exception before it: the session rolls back, Neo4j does not.
- **The promotion** is three auto-commit statements retried together.
  `CommitPromote` runs the next one; `CommitRetry` is a transient error after any
  prefix was applied, the last statement's own effect included or not.
- **Locks** expire in any state (`LockExpires`, `CommitLockExpires`), which stands
  for every duration of every call. `CommitsFitLease` restricts this: no lock of a
  commit in flight expires. Calls that only renew a TTL change nothing.
- **An execution** that is confirmed or runs in the background runs under a second
  identifier, because the code calls `execute_action` again and that draws a new
  one; its own row is updated in a second transaction. `target` ties the two rows
  together (in the code, `result.delegated_to` of one).
- **A run** is one step for the engine and one for each output written back
  (`write_editlog` commits each entry). `effects` records the steps done, the
  execution they were for and the identifier they ran under, as the edit log and the
  data do. It is an observation of the model: no action reads it but `FreshIds`, which
  stands for `uuid4` never repeating an identifier. A run counts when all its steps are
  done (`RunsOf`), whether or not its record was written.
- **A foreign snapshot** (`ForeignSnaps`) is the identifier of another tenant's row.
  `get_by_id` does not ask for the tenant, so a rollback finds it. Its versions are not
  in this tenant's graph and its row is not in `rows`.

The services around the ontology work on tables of their own. Each has a module;
`NoValue` declares the constant `None`, which they share, and `MCServices` puts
them side by side. "Observes" marks variables that no code has and no guard of the
code reads.

| Module | What it models | State | Code |
|---|---|---|---|
| `Membership` | create user, tenant and member, change and remove a member, enable and disable, login, switch of tenant, single sign-on | `account`, `tenant`, `member` (PostgreSQL, committed), `grant` (Casbin, in memory), `call` | `setting/service.py`, `setting/authz/enforcer.py`, `setting/auth/jit_provisioning.py`, `setting/repository/` |
| `CustomRoles` | create, update and delete a role, new tenants, restarts | `role`, `system`, `homes` (PostgreSQL), `policy` (Casbin), `roleCall` | `setting/service.py`, `setting/authz/enforcer.py`, `setting/seed.py` |
| `Authentication` | sign-in, refresh with rotation, logout, expiry, blacklist | `issued` (tokens and refresh rows), `blacklist` (Redis), `clock`, `tokenCall`; `loggedOut` observes | `setting/auth/provider.py`, `setting/auth/middleware.py`, `setting/service.py` |
| `DataConnections` | create, update, delete and test a connection; the connectors kept in memory | `conn` (PostgreSQL), `connector` (memory), `connCall` | `data/service.py`, `data/repository/connection_repo.py` |
| `SchemaCache` | load of a type's schema in two calls, store, expiry, invalidation, publications meanwhile | `entry` (memory), `load`, `now`, `version`; `replaced` observes | `data/pipeline/schema_loader.py` |
| `EditLog` | write of an entry and its later commit; replay over a base row | `edits` (PostgreSQL), `baseRow`, `writing`, `time` | `data/writeback/fdb_client.py`, `data/pipeline/merge.py` |
| `InstanceQuery` | one row: filters and sort refused, columns selected, mapped back, virtual fields, masking | `property` (schema), `cells`, `todo`, `stage` | `data/service.py`, `data/pipeline/` |
| `DataBranches` | create, delete and merge a branch with the hashes that are read first | `head` (Nessie), `branchCall`; `written`, `readBefore` observe | `data/branch/nessie_client.py`, `data/service.py` |
| `WorkflowRun` | layers of a definition, conditions, one layer after the other | `edges` (definition), `inDegree`, `layers`, `depth`, `current`, `step`, `outcome` | `function/workflows/engine.py` |
| `FunctionCatalog` | functions: register, delete, execute with its record; workflows: create, update, delete with their safety level | `func`, `workflow`, `record` (PostgreSQL), `funcCall` | `function/service.py`, `function/globals/registry.py`, `function/workflows/service.py` |
| `CopilotSessions` | sessions, context updates, messages with tool calls, interrupts, resumes | `chat` (PostgreSQL), `turn`; `ran`, `decided`, `shown` observe | `copilot/service.py`, `copilot/sessions/`, `copilot/agent/` |
| `CopilotRegistries` | models, skills, sub-agents, MCP connections: register, update, delete, default model, tool discovery | `registry` (PostgreSQL), `job`; `deleted` observes | `copilot/infra/` |

- **Flush and commit.** Handlers of `setting/` flush rows and return; the session
  commits when the response is ready. Between the two the rows are invisible to
  other sessions but hold their keys, so `Waits` and `RoleWaits` keep back a second
  writer of the same key, and `Refused` and `RoleRefused` are the unique constraint
  that it then meets. The enforcer has no transaction: it changes at the flush, and
  stays changed when the commit fails (`CommitFails`).
- **The enforcer** grants roles per user, not per user and tenant, and gives
  permissions to role names, as the code's policies do. A restart rebuilds both
  from the tables.
- **A page of members** (`MemberPages`) is what `remove_member` counts
  administrators in: any `MemberPage` of them, as rows of one instant have no order.
- **The clock** of `Authentication` counts half seconds and tokens count whole ones,
  because the blacklist's key is set for whole seconds and runs out in fractions of
  them, and a JWT is still taken in the second in which it expires. `RefreshTtl` is in
  half seconds. `is_valid` compares a row's expiry with a time without a zone; `NaiveRows`
  says whether the driver returns such rows. Where it does not, every refresh raises.
- **A commit** may be made although its caller sees it fail, or is cancelled while it
  waits: `ConnCallDies` at `pop` and `AsyncSettleUnanswered` are such endings.
- **An edit entry** takes its time when it is made and is seen when its session
  commits. `ReadByKey` is the set of all orders that `ORDER BY created_at` allows.
- **Nessie** is external, modelled by the compare-and-set that the client relies on.
  A hash stands for the set of commits it names. The hash that `CreateBranch` looks
  up appears nowhere later: the client never sends it.
- **A layer** of a workflow is one step of Kahn's algorithm (`NextQueue` takes off
  every edge out of the queue). A definition is any list of edges, strangers
  included, because the API takes any.
- **A node of a workflow** is, for its safety level, what the client wrote under
  `safety_level` in its `input_mappings`. The level of the capability it calls, which the
  code does not look up, is not modelled.
- **A computed value** in `InstanceQuery` is only its origin: `raw` when it can tell
  what the table holds, `hidden` after masking, `none` when there is nothing.
- **The language model** may ask for any tools, any number of them in a round; the agent
  stops after `MaxIterations` rounds. `StoreInterrupt` is the service's branch for an interrupt
  event. Today's agent never emits one (section 6); the resume is written for one
  that does.

Mutated definitions (`...Swapped`, `...Unchecked`, `ActLogFirst`; "Variant" in their
comments) stand beside what they vary and are used by no specification: PROJECT.json
pairs each with the property that would catch the mistake.

## 4. Runs

| Run | Instance | Shows |
|---|---|---|
| `edit_concurrent` | 2 entities of one name, 3 nodes, 2 users, 2 requests, all handlers | whatever the interleaving, lost locks and dying requests: flags stay consistent (`StagesExclusive`), bases stay right (`BaseVersionKept`), editing leaves published versions alone (`EditsKeepPublished`) |
| `publish_serial` | 2 entities, 3 nodes, 2 users, 3 snapshots, one request at a time, transient errors | after each commit the graph shows exactly the version pointed to (`GraphMatchesPointer`), with its row (`PublishedHasRow`) |
| `publish_concurrent` | 2 commits and 1 editor interleaved, 3 snapshots, every failure | commits exclude each other (`CommitExclusion`), the tables implement `SnapshotHistory` (`LinearHistory`), no path keeps the commit lock for ever (`CommitLockFreed`) |
| `publish_rollback` | 1 entity, 4 nodes, commits and rollbacks one at a time, one snapshot of another tenant | rollbacks between any two of the tenant's own versions of a single entity leave the right graph and add nothing to the history, which a foreign snapshot does not disturb either; editing leaves the superseded versions that they need alone (`HistoricalKept`; no discards of staged versions) |
| `execution_decided` | 4 identifiers, 2 handlers, 1 output, overlapping decisions, failing tasks, workers that die at any call | success is recorded only behind a complete run (`SuccessComplete`); the table implements `ExecutionLedger` (`LedgerKept`) |
| `services` | twelve small instances, one at work in a behaviour | each service around the ontology keeps what it promises with concurrent requests, failures, restarts and expiry (table below) |
| `double_staging` | violation | one author, editing a staged entity again, reaches two current versions |
| `rollback_version` | violation | with two entities, a rollback and another one back lose the version of the entity that only the older snapshot changed |
| `commit_failure` | violation | a failure after the promotion leaves published versions without a row |
| `commit_lease` | violation | a commit that outlasts its lock runs together with the next |
| `discard_history` | violation | discarding a staged version turns superseded published versions into drafts |
| `cancel_race` | violation | an execution recorded as cancelled was run |

What `services` checks, beside the types of all twelve modules (`ServicesTypeOK`):

| Property | Says | Needs |
|---|---|---|
| `GrantsBacked` | the enforcer grants no role that no membership gives or is about to give | `SerialChanges`, `FailingOps` |
| `OneDefault` | no user has two default tenants | - |
| `PoliciesBacked` | the enforcer allows nothing that no role allows or is about to allow | `SerialRoles`, `FailingRoles` |
| `NamesUnique` | a name means one role in a tenant | - |
| `RevokedRefused` | a logged-out access token is refused in every second before the one it expires in | - |
| `StalenessBounded` | a cached schema is out of date for less than the cache's time | - |
| `LaterEditWins` | a reader sees no value that was replaced by an edit made after it was seen | - |
| `MaskedHidden` | nothing under a masked property's name tells what the table holds | - |
| `NothingLostUnread` | no commit is lost with a branch unless the deletion had read it | - |
| `MainKeeps` | main is never deleted and loses nothing | - |
| `RefusedWhenStuck` | a workflow is refused when, and only when, nodes wait for one another or for a stranger | - |
| `PredecessorsDone` | no node starts while one before it may run; a run that ends came to all nodes | - |
| `ToolsConfined` | an agent runs only tools of the page the message was sent from | - |
| `DecidedOnce` | a decision on an execution is passed on at most once | `SerialResumes` |
| `OneDefaultModel` | a tenant has at most one default model | `SerialDefaults` |
| `DeletedStayDeleted` | no late update or answer of an MCP server brings a deleted row back | - |

The conditions of the last column restrict when a request begins, or which of them may
fail. The code enforces none of them, and without it TLC refutes the property; so these
four say what is left when the overlap or the failure does not happen, and none of them
is among the theorems:

- `SerialChanges`: no change or removal of a membership overlaps another request
  about that user or another change in that tenant. A login between a removal's flush
  and its commit gives the role back.
- `FailingOps`: the requests whose commit may fail. When the creation of a user, or
  the addition or change of a member, is among them, the enforcer keeps a role that
  was rolled back until the next restart. Creations of tenants and removals may fail.
- `SerialRoles`: of two updates of one role the second removes the policies of the
  name it read, not those that the first has just given.
- `FailingRoles`: the requests about roles whose commit may fail. When a creation or an
  update is among them, the enforcer keeps policies of a role that was rolled back.
- `SerialDefaults`: two requests clear the same default and each set their own.
- `SerialResumes`: two resumes read the same waiting interrupt.

**Bounds of the other runs.** Sets of the .cfg files are the only bounds, and none of them
is in a guard except that creating a node needs an unused one, a commit an unused snapshot
identifier, a request an unused execution identifier. Two requests suffice for any
pairwise race of two calls, and every property above is a statement about one
entity or a pair; a second entity matters for uniqueness of names, for the change
set of a commit and for rollbacks (which is why `publish_rollback` has one and
`rollback_version` two). Three nodes hold a current version, a staged one and a
draft of an entity; four add a superseded one. Three snapshots are needed for a commit
whose parent could be stale; one foreign snapshot stands for any; `MaxRetries = 1`
already covers a failure after each prefix followed by success, and by giving up. Four execution identifiers hold a
pending execution and its run next to another pair; `Outputs = 1` distinguishes an
engine step, a write-back and the record. Deadlock is checked in the ontology
runs; in the execution runs it is not, because identifiers run out.

**Bounds of `services`.** One service is at work in a behaviour (`active`), because
they share no state. Each has two requests in flight, which suffices for a race of
two; connections have three (an update, a deletion and a test). The rest:

- members: two users, two tenants, pages of two members; memberships of one user in
  both tenants, one of them the default. `MaxDisabled = 1`: a status is a flag that only
  logins and switches read;
- roles: two identifiers, two names of which one is a system role's, two tenants, one
  permission;
- tokens: two pairs over five half seconds, access for one second, refresh for three
  half seconds: two sign-ins, or a sign-in and a rotation, with a logout in each half of a
  second and a refresh after the expiry. Rows without a zone, as no refresh works
  otherwise;
- one connection with two configurations; a cache of two ticks over four, two definitions;
- three edits over two fields: a create, an update and a delete, committed in another
  order than they were made;
- one chat, two pages and the agent's place, two tools of which one is an action, two
  executions; decisions are counted to two, one more than there may be;
- three registry rows: an old default and two new ones;
- workflows of three nodes with every list of three edges, parallel ones, self loops
  and strangers included; two functions of one name, one stored workflow whose nodes have
  the lowest or the highest level;
- three branches and one commit: each property is about one commit at a time;
- three properties over two columns, one of which is named like a property.

Deadlock is not checked: identifiers and clocks run out. Requests are
interchangeable (`h1`, `h2`), and so are identifiers that stand in the same position
in every constant (`x1`, `x2` and `y1`, `y2`). Symmetry is sound here, because the
properties are invariants and action properties and the specification has no fairness.

**Fairness.** Only `CommitLockFreed` needs it (`FairSpec`): weak fairness of each
publishing request's next call, since an awaited call returns or raises, and of
the expiry of the commit lock, since Redis counts down. Requests are not assumed
to arrive, and a crashed worker takes no further step.

## 5. Proofs

All theorems hold for any number of nodes, entities, users, snapshots, requests,
executions, outputs, tenants, roles, tokens, connections, branches, edges and requests.

| Module | Theorem | Assumes | Inductive invariant |
|---|---|---|---|
| `OntologyEditing_proofs` | `EditTypeCorrect`, `EditStagesExclusive`, `EditBaseVersionKept`, `EditPublishedKept` | - | `IInv` |
| `OntologySystem_proofs` | `TypeCorrect`, `StagesStayExclusive` | - | `SoundInv` |
| | `CommitsExclusive` | `CommitsFitLease` | `LockInv` |
| | `HistoryLinear` | `CommitsFitLease`; with rollbacks, one publishing request | `HistoryInv` |
| `OntologyVersions_proofs` | `PublishedRows` | no crash, no error | `OriginInv` |
| | `GraphShowsPointer` | `Serial`, `CommitsFitLease`, only transient errors; with rollbacks, one publishing request, one entity, no `discard_staging`, no foreign snapshots | `ShowInv` |
| | `OnlyDiscardsRewrite` | no `discard_staging` | `NoDiscards` |
| | `OneCurrentVersion` | `Serial`, no rollbacks, never two staged nodes of an entity | `OneInv` |
| `ActionExecution_proofs` | `ExecTyping`, `SuccessIsComplete` | - | `ExecInv` |
| | `LedgerImplemented` | - | `ExecInv`, `EffectInv` |
| `OntologySystem_proofs` | `PublishingTypeCorrect` | - | `SoundInv` |
| `SettingServices_proofs` | `AuthTyping`, `LogoutsRefuse` | - | `AuthInv` |
| | `MembershipTyping`, `DefaultTenantIsOne` | - | `MemberInv` |
| | `RolesTyping`, `RoleNamesUnique` | - | `RolesInv` |
| `AgentServices_proofs` | `ChatTyping`, `ToolsAreConfined` | - | `ChatInv` |
| | `RegistryTyping`, `DeletionsStay` | - | `RowsInv` |
| | `RefusalsAreRight`, `PredecessorsAreDone` | finitely many nodes and edges | `RunInv` |
| | `CatalogTyping` | - | `CatalogInv` |
| `DataServices_proofs` | `NothingIsLostUnread`, `MainIsKept` | - | `BranchInv` |
| | `ConnTyping` | - | `ConnTyped` |
| | `StalenessIsBounded` | - | `CacheInv` |
| | `MasksHide` | - | `QueryInv` |
| | `LaterEditsWin` | - | `EditLogInv` |
| `MCServices_proofs` | `ServicesAct`, `ServicesTyping` | - | those of the services |

- `IInv` pairs a predicate on the graph with one on every request in flight.
  The second is what makes it inductive: a node read two calls ago and about to be
  written back as a draft still has its base in the graph, and a request that saw no
  current version works on an entity that still has no published one. It mentions published
  nodes only, so other requests' steps (which keep those) cannot disturb it.
- `SoundInv` is the same idea for the whole system, with less about bases, since
  commits do change published nodes.
- `LockInv`: a commit in flight is the holder of the lock. Without
  `CommitsFitLease` it fails, as `commit_lease` shows. `HistoryInv`: the parent that
  a request read is still the pointer when it commits (`Informed`), because no other
  request publishes (`OneBusy`): the lock keeps commits apart. A rollback takes no
  lock, so where there are rollbacks only one publishing request runs.
- `OriginInv`: a snapshot that is used anywhere, in the graph or in what a request
  read of it, is in PostgreSQL or belongs to a commit in flight, and an identifier
  just drawn is used nowhere. It needs neither exclusion nor the absence of
  rollbacks.
- `ShowInv`: what the graph shows of the history at each call of the one publishing
  request (`Progress`). While a commit promotes, the entities it does not change show
  the pointer's version; those it changes are still staged as it read them, or, from
  the second statement on, already show the new version only. Both are possible at
  the first statement, because a retry starts over on a graph that an unanswered
  attempt has already promoted. Before its PostgreSQL commit the pointer is the
  parent that the new row takes, so what the graph then shows is the pointer's
  version again. `VersionsKnown` says that what the pointer and the parents name is
  in the table, so the search along the history ends at rows; `DiscardsUnpublished`,
  that a discard about to turn nodes into drafts takes no current version.
  `RowsRestorable` is what a rollback needs: a row knows only its own changes, and
  with one entity those are all; the nodes it published are still there, unless a
  discard has turned them into drafts. `rollback_version` shows two entities.
- `OneInv`: when the second statement publishes what is staged, the first has
  switched off every version it replaces. It holds between any commits, because each
  statement concerns all that is staged, whoever's commit it is, and needs no lock.
- `NoDiscards`: an editing request writes a published node only at the last call of
  `discard_staging`.
- `ExecInv`: identifiers in use by handlers differ; the rows a handler relies on are
  still there; a handler about to record a run has done all its steps; the execution
  a handler serves has no effects of its own. It needs no assumption on failures or
  overlap.
- `EffectInv`: what a run did, it did for the identifier it ran under or for a recorded
  execution; and a handler at work for a run has so far taken only steps before the one it
  takes next, all for the execution it holds. So a run becomes complete only at its last
  step, by the handler that holds the execution and has not run it before. The
  refinement maps every request to `Take`, the last `Act` of a run to `Run`, every update
  of the execution's own row to `Write`, `AsyncFails` and `HandlerStops` to `GiveUp`, and all
  else to a stutter. It needs no assumption: confirmations and cancellations overlap and
  workers die between a run and its record. The ledger therefore allows two
  confirmations that both found the execution pending to run it twice, and one that was
  lost before it settled to be confirmed and run again; it says that nothing else does.
- `AuthInv`: a logged-out token's blacklist key lasts until the second it expires in
  begins, or that second has come (`Outlives`); whole seconds against half ones is
  the arithmetic of the lemma `Seconds`.
- `MemberInv`: the row that a session is about to commit is no other session's, so
  what its flush found is still so at the commit (`CommitsApart`). `OneDefault` is not
  inductive without it: a user who gets a default tenant must have none yet, and has
  none because the account is new.
- `RolesInv` is the same idea with the role's name as a second key.
- `ChatInv`: a turn's tools are those allowed on the page it read, wherever the
  session is now.
- `RowsInv`: the identifier of a registration at work is in no row, was never deleted
  and is no other registration's.
- `BranchInv`: a request knows only commits that were written, and a deletion is
  never about main.
- `ConnTyped`: the types, and that a request about to write has what it writes.
- `CacheInv`: what a load has read was not replaced before the load began (`LoadOK`),
  so an entry whose time starts with the load expires within the cache's time of the
  replacement. With a time that starts at the store it would not (`StoreFromNow`).
- `RunInv`: `inDegree` is the number of edges from nodes not yet taken (`Counted`); a
  node is in a layer exactly when that is zero (`Layered`), after all it comes after
  (`Ordered`); no set of nodes that wait for one another has a member in a layer
  (`StuckWait`). A refused definition is stuck, because the nodes in no layer are such a set.
- `CatalogInv`: a request about to write has a definition, a name or a result of the kind
  its table takes.
- `QueryInv`: only properties without a column are computed after the mapping, so
  what masking sees is all there is.
- `EditLogInv`: an entry was made no later than it was seen, identifiers are not
  repeated, and the log is finite, so it can be read in some order (`ReadsAll`). The
  replay is a fold; `MergeSteps` gives the sequence of rows it goes through. By
  induction along it (the least index at which the claim fails, `SmallestOf`), the
  last entry that writes a field decides what the field shows (`LastWriteDecides`).
  An entry made after another was seen has a later time, so it comes after that one in
  every order of the read; `LaterEditWins` follows.
- `MCServices_proofs` combines the services: a step is one of the service at work and
  leaves the others' variables alone (`OthersRest`). So a behaviour of the
  composition in which a service works is one of that service's own specification, and all
  theorems of the table hold of it.

**Assumptions in words.** `CommitsFitLease`: a commit ends within 60 s. The code does not
enforce it; `commit_lease` shows what happens without it. The assumptions of the services
are in section 4 and are used by no theorem.

`GraphShowsPointer` needs each of its hypotheses but the one on foreign snapshots, which
only its proof needs (`publish_rollback` has one). Without any other TLC refutes
`GraphMatchesPointer` on an instance of one entity, two for the last: an author who
submits beside a commit; two commits, the first of which outlasts its lock; a commit that
fails or dies after its promotion; a rollback that runs beside another request, that dies
between its statements, or that restores versions a discard has turned into drafts; a
rollback of one of two entities. `OneCurrentVersion` reduces `double_staging` to its
cause: the code never checks that an entity is staged once. `OnlyDiscardsRewrite` does
the same for `discard_history`.

**Only model-checked.** `CommitLockFreed`: liveness is out of the prover's reach.
`GrantsBacked`, `PoliciesBacked`, `DecidedOnce` and `OneDefaultModel` hold only without the
overlaps and failures of section 4, which the code allows, so they are left to TLC. Every
other property of a passing run is stated by a theorem, under the hypotheses above.
`EditsKeepPublished` speaks of a tenant published at most once, with every editing
operation; `HistoricalKept` of any tenant, without `discard_staging`, and
`discard_history` shows why.

## 6. Where code and documents differ

Six differences have a run (PROJECT.json, "findings"). Others met while modelling
have none:

- a rollback takes no commit lock and its two statements and its PostgreSQL commit
  are separate: next to a commit, or when it dies half way, the graph is left between
  versions;
- a rollback accepts the snapshot id of another tenant
  (`repository/snapshot_repo.py:22`): the pointer moves to it, the versions of the current
  snapshot are switched off and none are switched on;
- name uniqueness is checked against current versions when a draft is created, so
  two drafts of one name can be published;
- a background execution whose worker restarts stays `running` for ever
  (`docs/FUNCTION_DESIGN.md:784` has its status updated to success or failed);
- nothing marks a pending execution expired when its ten minutes are over
  (`docs/FUNCTION_DESIGN.md:1013`): a late confirmation does, a late cancellation
  still cancels;
- a confirmation whose run fails leaves the execution pending
  (`docs/FUNCTION_DESIGN.md:1009` says failed), and a direct run that fails leaves no
  record (line 1019 has success/failed);
- the run behind a user's confirmation is recorded as confirmed by
  "copilot_interrupt", since both pass `skip_confirmation`;
- background execution always skips the confirmation (`function/service.py:403`),
  whatever its caller asked.

Setting:

- a browser's logout leaves the refresh token live (`docs/SETTING_DESIGN.md:220` has it
  revoked): the cookie is sent to `/setting/v1/auth/refresh` only (`setting/router.py:101`),
  so the logout at line 115 finds none;
- two removals of members at once each count the other's administrator and take both
  (`setting/service.py:718`, under the comment "Prevent removing the last admin");
- whether a refresh token is over is asked by comparing a naive `utcnow()` with the row's
  time zone aware one, which raises a TypeError when the driver returns such rows;
- two refreshes with one token at once both succeed, so the session goes on twice
  (`setting/service.py:231`);
- administrators are counted on the first page of twenty members
  (`setting/service.py:718`), so a removal may be refused although there are others;
- single sign-on is implemented and `main.py` does not wire it;
- roles in the enforcer are per user and not per tenant: who is an administrator
  of one tenant passes the check in another;
- the enforcer changes before the commit, so a commit that fails leaves the grant, or the
  policies of a role that was never created or updated (`setting/service.py:800`, `:855`).

Copilot:

- the agent's tool calls omit the `session` that `execute_action` and
  `execute_function` require (`copilot/agent/tools.py:101`, `:107`): the TypeError is
  caught, and every such call is answered with an error;
- sub-agents are offered as tools under names that the executor of tool calls does not know;
- the agent never emits the interrupt event that the service waits for;
- a page switch of the shell sends a context without the waiting interrupt and drops it
  (`use-copilot.ts:39`);
- a resume names no execution: it decides on whatever is waiting by then;
- an interrupt is stored for a session that was deleted while its agent worked;
- two default models make `get_default` raise; an update of an unknown model that names
  the default clears the default there is.

Functions and workflows:

- a workflow's safety level is the highest that its nodes' `input_mappings` name under
  `safety_level`, read-only by default (`workflows/repository.py:97`), where
  `docs/FUNCTION_DESIGN.md:972` and `:1067` have the highest of the capabilities it calls;
- of two registrations of one name that overlap the second meets the unique index of
  `backend/alembic/versions/004_function_tables.py:35` and ends in an unhandled error, not in
  the conflict that the lookup raises; concurrent updates lose a version number
  (`function/globals/registry.py:85`);
- a condition that compares with a result that is not there raises, and so does an edge to
  an unknown node: both end the run without an outcome;
- the engine runs stub nodes only; two updates of nodes and of edges at once lose one of them.

Data:

- a test of a connection that read its row before an update or a deletion, and goes on
  after it, puts a connector of the old configuration back (`data/service.py:143`), past the
  "Invalidate cached connector" of line 98;
- a connector is not dropped when the commit call of an update or a deletion raises, or its
  request is cancelled, after PostgreSQL has committed (`data/service.py:96`, `:113`): the
  process goes on using it;
- a query uses only a connector that was made by testing the connection since the
  process started (`data/service.py:354`);
- the column of a masked property can be read through an unmasked property of the
  same column, and virtual fields are computed from unmasked values;
- unknown fields of a filter are dropped, and an instance asked for by unknown keys is
  looked up without a condition;
- `create_branch` reads the hash of `from_ref` and does not send it; the hash that
  `delete_branch` expects is the service's own of a moment before, not the one the user saw;
- the merger, the row locks (GET then DELETE), `invalidate_schema_cache`, the
  checkpoint saver and `execute_subagent` are called by nothing.

Ontology:

- property types are created as drafts that no route submits or discards, so a type
  with one has changes for ever and a rollback of its tenant is refused;
- BELONGS_TO edges vanish with the version that is discarded;
- relationships that the validators look for are never created;
- a second edit of a shared property type's draft no longer cascades, and the rid to
  inherit from is not validated.

## 7. Not modelled

- **Validators and relationships**: see section 2; with no relationship ever created they
  refuse nothing.
- **Action engines, connectors, SQL generation, LLM providers, the checkpoint saver**:
  they compute on data or call services outside this repository. What
  they return is a nondeterministic choice of the module that calls them. The
  webhook engine's retries repeat a request to an outside service, which keeps no state here.
- **FoundationDB store**: an alternative to the SQL store that a setting selects; it keeps
  entries under versioned keys of a store of its own. **Row locks**: called by nothing.
- **Front end, protobuf files, deployment, configuration, schemas of requests
  and responses**: no state that other clients rely on.
- **Several processes** of the setting and data services: section 2.
- Within the modelled parts: PropertyType creation, notifications, listing, search,
  counting, audit records, titles and activity times. They change nothing that the
  modelled handlers read. Passwords are left out of `Authentication`, the version
  counter of functions out of `FunctionCatalog`, and what conditions compare and
  nodes return out of `WorkflowRun`.
