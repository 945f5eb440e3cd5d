--------------------------- MODULE FunctionCatalog ---------------------------
(***************************************************************************)
(* FunctionRegistry, WorkflowService and execute_function: the functions   *)
(* and workflows of a tenant, and the records of the functions that ran.   *)
(* A request reads a row, then writes and commits; what it flushes before  *)
(* the commit is seen by nobody.  A workflow's safety level is computed    *)
(* from its nodes and stored beside them; its edges are WorkflowRun's.     *)
(***************************************************************************)
EXTENDS NoValue, Naturals

CONSTANTS Funcs,        \* rids of functions
          ApiNames,
          Workflows,    \* rids of workflows
          DeclaredLevels,  \* safety levels that input_mappings give
          FuncCalls,    \* requests at work at once
          FuncRecords   \* execution ids

VARIABLES func,       \* global_functions: the name of each one, or None
          workflow,   \* workflows
          record,     \* executions of functions, as other sessions see them
          funcCall

catalogVars == <<func, workflow, record, funcCall>>

\* SAFETY_LEVEL_ORDER, from read-only, which is the default, to critical.
Levels == 0..3

\* A node is what its input_mappings say under "safety_level".
Workflow == [nodes : SUBSET DeclaredLevels, level : Levels]

ASSUME CatalogAssumption ==
  /\ DeclaredLevels \subseteq Levels
  /\ None \notin ApiNames \cup Funcs \cup Workflows \cup FuncRecords \cup Workflow

FuncCall == [pc   : {"idle", "register", "define", "running", "logged"},
             rid  : Funcs \cup Workflows \cup {None},
             name : ApiNames \cup {None},
             def  : Workflow \cup {None},    \* what update_fields will write
             rec  : FuncRecords \cup {None},
             result : {"none", "success", "failed"}]

NoFuncCall == [pc |-> "idle", rid |-> None, name |-> None, def |-> None, rec |-> None,
               result |-> "none"]

CatalogTypeOK ==
  /\ func \in [Funcs -> ApiNames \cup {None}]
  /\ workflow \in [Workflows -> Workflow \cup {None}]
  /\ record \in [FuncRecords -> {"none", "running", "success", "failed"}]
  /\ funcCall \in [FuncCalls -> FuncCall]

----------------------------------------------------------------------------

FuncAt(i, pc) == funcCall[i].pc = pc

AskedFor(pc, rid, name, def, e) ==
  [pc |-> pc, rid |-> rid, name |-> name, def |-> def, rec |-> e, result |-> "none"]

BeginsFunc(i, q) ==
  /\ funcCall[i] = NoFuncCall
  /\ funcCall' = [funcCall EXCEPT ![i] = q]

EndsFunc(i) == funcCall' = [funcCall EXCEPT ![i] = NoFuncCall]

\* The name is looked up one call before the row is inserted.
RegisterFunction(i, f, name) ==
  /\ func[f] = None
  /\ \A j \in FuncCalls : funcCall[j].rid # f
  /\ \A g \in Funcs : func[g] # name
  /\ BeginsFunc(i, AskedFor("register", f, name, None, None))
  /\ UNCHANGED <<func, workflow, record>>

\* Flush and commit.  The unique index on tenant and name refuses a name that
\* was registered since the lookup; no handler expects that error.
InsertFunction(i) ==
  LET name == funcCall[i].name
  IN /\ FuncAt(i, "register")
     /\ func' = IF \E g \in Funcs : func[g] = name THEN func
                ELSE [func EXCEPT ![funcCall[i].rid] = name]
     /\ EndsFunc(i)
     /\ UNCHANGED <<workflow, record>>

DeleteFunction(f) ==
  /\ func[f] # None
  /\ func' = [func EXCEPT ![f] = None]
  /\ UNCHANGED <<workflow, record, funcCall>>

----------------------------------------------------------------------------

\* compute_safety_level
Highest(levels) ==
  CHOOSE top \in levels \cup {0} : \A level \in levels : level <= top

\* recompute_safety_level does not look the nodes' capabilities up.
Defined(nodes) ==
  [nodes |-> nodes, level |-> Highest(nodes)]

CreateWorkflow(w, nodes) ==
  /\ workflow[w] = None
  /\ \A j \in FuncCalls : funcCall[j].rid # w
  /\ workflow' = [workflow EXCEPT ![w] = Defined(nodes)]
  /\ UNCHANGED <<func, record, funcCall>>

\* Nodes that the request does not give are those it read.
UpdateWorkflow(i, w, nodes) ==
  /\ workflow[w] # None
  /\ BeginsFunc(i, AskedFor("define", w, None, Defined(nodes), None))
  /\ UNCHANGED <<func, workflow, record>>

\* One UPDATE of definition and safety_level; a row that was deleted meanwhile
\* is not written, and the request fails.
WriteWorkflow(i) ==
  LET w == funcCall[i].rid
  IN /\ FuncAt(i, "define")
     /\ workflow' = IF workflow[w] = None THEN workflow
                    ELSE [workflow EXCEPT ![w] = funcCall[i].def]
     /\ EndsFunc(i)
     /\ UNCHANGED <<func, record>>

DeleteWorkflow(w) ==
  /\ workflow[w] # None
  /\ workflow' = [workflow EXCEPT ![w] = None]
  /\ UNCHANGED <<func, record, funcCall>>

----------------------------------------------------------------------------

\* log_start flushes the record of a function that is there.
StartFunction(i, f, e) ==
  /\ func[f] # None
  /\ record[e] = "none"
  /\ \A j \in FuncCalls : funcCall[j].rec # e
  /\ BeginsFunc(i, AskedFor("running", f, None, None, e))
  /\ UNCHANGED <<func, workflow, record>>

\* A result, or an AppError; any other error rolls the record back.
LogFunction(i, result) ==
  /\ FuncAt(i, "running")
  /\ funcCall' = [funcCall EXCEPT ![i].pc = "logged", ![i].result = result]
  /\ UNCHANGED <<func, workflow, record>>

CommitFunction(i) ==
  /\ FuncAt(i, "logged")
  /\ record' = [record EXCEPT ![funcCall[i].rec] = funcCall[i].result]
  /\ EndsFunc(i)
  /\ UNCHANGED <<func, workflow>>

\* The request dies: nothing that it flushed stays.
FuncCallDies(i) ==
  /\ funcCall[i] # NoFuncCall
  /\ EndsFunc(i)
  /\ UNCHANGED <<func, workflow, record>>

CatalogInit ==
  /\ func = [f \in Funcs |-> None]
  /\ workflow = [w \in Workflows |-> None]
  /\ record = [e \in FuncRecords |-> "none"]
  /\ funcCall = [i \in FuncCalls |-> NoFuncCall]

FunctionRequests(i) ==
  \/ \E f \in Funcs, name \in ApiNames : RegisterFunction(i, f, name)
  \/ \E f \in Funcs, e \in FuncRecords : StartFunction(i, f, e)
  \/ InsertFunction(i)
  \/ \E result \in {"success", "failed"} : LogFunction(i, result)
  \/ CommitFunction(i)

WorkflowRequests(w) ==
  \/ \E nodes \in SUBSET DeclaredLevels :
       \/ CreateWorkflow(w, nodes)
       \/ \E i \in FuncCalls : UpdateWorkflow(i, w, nodes)
  \/ DeleteWorkflow(w)

CatalogNext ==
  \/ \E f \in Funcs : DeleteFunction(f)
  \/ \E w \in Workflows : WorkflowRequests(w)
  \/ \E i \in FuncCalls : FunctionRequests(i) \/ WriteWorkflow(i) \/ FuncCallDies(i)

CatalogSpec == CatalogInit /\ [][CatalogNext]_catalogVars

=============================================================================
