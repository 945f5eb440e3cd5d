------------------------------ MODULE MCServices ------------------------------
(* The services around the ontology, each on its own small instance: in a    *)
(* behaviour one of them works and the others stay in their initial state.   *)
EXTENDS Membership, CustomRoles, Authentication, DataConnections, SchemaCache,
        EditLog, CopilotSessions, CopilotRegistries, WorkflowRun, FunctionCatalog,
        DataBranches, InstanceQuery, TLC

CONSTANTS h1, h2, x1, x2, y1, y2, z

VARIABLE active

MCSystemPerms == [n \in SystemNames |-> Perms]

Symmetry == Permutations({h1, h2}) \cup Permutations({x1, x2}) \cup Permutations({y1, y2})

baseVars == <<memberVars, roleVars, authVars, connVars, cacheVars, editVars>>

newVars == <<chatVars, registryVars, runVars, catalogVars>>

tableVars == <<branchVars, queryVars>>

vars == <<active, baseVars, newVars, tableVars>>

\* Databases that nothing was seeded in.
NoMembers ==
  /\ account = [u \in Users |-> "none"]
  /\ tenant = [y \in Tenants |-> "none"]
  /\ member = [u \in Users |-> [y \in Tenants |-> None]]
  /\ grant = {}
  /\ call = [h \in Calls |-> NoCall]

NoRoles ==
  /\ role = [r \in RoleIds |-> None]
  /\ system = {}
  /\ homes = {}
  /\ policy = {}
  /\ roleCall = [h \in RoleCalls |-> NoRoleCall]

NoRun ==
  /\ edges = [i \in EdgeIds |-> [source |-> Stranger, target |-> Stranger, conditional |-> FALSE]]
  /\ inDegree = [n \in Nodes |-> 0]
  /\ layers = [n \in Nodes |-> 0]
  /\ depth = 0
  /\ current = 0
  /\ step = [n \in Nodes |-> "waiting"]
  /\ outcome = "sorting"

NoQuery ==
  /\ property = [p \in Props |-> [column |-> None, from |-> None, masked |-> FALSE]]
  /\ stage = "start"
  /\ todo = {}
  /\ cells = [k \in Keys |-> "none"]

ServicesInit ==
  /\ active \in {"members", "roles", "auth", "connections", "cache", "edits",
                 "chats", "registries", "run", "catalog", "branches", "queries"}
  /\ IF active = "members" THEN MembershipInit ELSE NoMembers
  /\ IF active = "roles" THEN RolesInit ELSE NoRoles
  /\ AuthInit
  /\ ConnInit
  /\ CacheInit
  /\ EditLogInit
  /\ active # "edits" => baseRow = None
  /\ ChatInit
  /\ RegistryInit
  /\ IF active = "run" THEN RunInit ELSE NoRun
  /\ CatalogInit
  /\ BranchInit
  /\ IF active = "queries" THEN QueryInit ELSE NoQuery

ServicesNext ==
  /\ UNCHANGED active
  /\ \/ /\ active = "members"
        /\ MembershipNext
        /\ UNCHANGED <<roleVars, authVars, connVars, cacheVars, editVars, newVars, tableVars>>
     \/ /\ active = "roles"
        /\ RolesNext
        /\ UNCHANGED <<memberVars, authVars, connVars, cacheVars, editVars, newVars, tableVars>>
     \/ /\ active = "auth"
        /\ AuthNext
        /\ UNCHANGED <<memberVars, roleVars, connVars, cacheVars, editVars, newVars, tableVars>>
     \/ /\ active = "connections"
        /\ ConnNext
        /\ UNCHANGED <<memberVars, roleVars, authVars, cacheVars, editVars, newVars, tableVars>>
     \/ /\ active = "cache"
        /\ CacheNext
        /\ UNCHANGED <<memberVars, roleVars, authVars, connVars, editVars, newVars, tableVars>>
     \/ /\ active = "edits"
        /\ EditLogNext
        /\ UNCHANGED <<memberVars, roleVars, authVars, connVars, cacheVars, newVars, tableVars>>
     \/ /\ active = "chats"
        /\ ChatNext
        /\ UNCHANGED <<baseVars, registryVars, runVars, catalogVars, tableVars>>
     \/ /\ active = "registries"
        /\ RegistryNext
        /\ UNCHANGED <<baseVars, chatVars, runVars, catalogVars, tableVars>>
     \/ /\ active = "run"
        /\ RunNext
        /\ UNCHANGED <<baseVars, chatVars, registryVars, catalogVars, tableVars>>
     \/ /\ active = "catalog"
        /\ CatalogNext
        /\ UNCHANGED <<baseVars, chatVars, registryVars, runVars, tableVars>>
     \/ /\ active = "branches"
        /\ BranchNext
        /\ UNCHANGED <<baseVars, newVars, queryVars>>
     \/ /\ active = "queries"
        /\ QueryNext
        /\ UNCHANGED <<baseVars, newVars, branchVars>>

ServicesSpec == ServicesInit /\ [][ServicesNext]_vars

\* Every service keeps its types.
ServicesTypeOK ==
  /\ MembershipTypeOK
  /\ RolesTypeOK
  /\ AuthTypeOK
  /\ ConnTypeOK
  /\ CacheTypeOK
  /\ EditTypeOK
  /\ ChatTypeOK
  /\ RegistryTypeOK
  /\ RunTypeOK
  /\ CatalogTypeOK
  /\ BranchTypeOK
  /\ QueryTypeOK
=============================================================================
