------------------------- MODULE MCServices_proofs -------------------------
(***************************************************************************)
(* Proofs about the composition that one run checks: the service that      *)
(* works keeps its own specification and the others stay as they were, so  *)
(* what is proved of each service holds of the composition.                *)
(***************************************************************************)
EXTENDS MCServices, SettingServices_proofs, DataServices_proofs,
        AgentServices_proofs, TLAPS

\* A step is one of the service that works; the others rest.
LEMMA OthersRest ==
  ASSUME [ServicesNext]_vars
  PROVE  /\ active' = active
         /\ active = "members" => [MembershipNext]_memberVars
         /\ active # "members" => UNCHANGED memberVars
         /\ active = "roles" => [RolesNext]_roleVars
         /\ active # "roles" => UNCHANGED roleVars
         /\ active = "auth" => [AuthNext]_authVars
         /\ active # "auth" => UNCHANGED authVars
         /\ active = "connections" => [ConnNext]_connVars
         /\ active # "connections" => UNCHANGED connVars
         /\ active = "cache" => [CacheNext]_cacheVars
         /\ active # "cache" => UNCHANGED cacheVars
         /\ active = "edits" => [EditLogNext]_editVars
         /\ active # "edits" => UNCHANGED editVars
         /\ active = "chats" => [ChatNext]_chatVars
         /\ active # "chats" => UNCHANGED chatVars
         /\ active = "registries" => [RegistryNext]_registryVars
         /\ active # "registries" => UNCHANGED registryVars
         /\ active = "run" => [RunNext]_runVars
         /\ active # "run" => UNCHANGED runVars
         /\ active = "catalog" => [CatalogNext]_catalogVars
         /\ active # "catalog" => UNCHANGED catalogVars
         /\ active = "branches" => [BranchNext]_branchVars
         /\ active # "branches" => UNCHANGED branchVars
         /\ active = "queries" => [QueryNext]_queryVars
         /\ active # "queries" => UNCHANGED queryVars
<1>1. CASE UNCHANGED vars
  BY <1>1 DEF vars, baseVars, newVars, tableVars
<1>2. CASE ServicesNext
  BY <1>2 DEF ServicesNext, vars, baseVars, newVars, tableVars
<1> QED BY <1>1, <1>2

\* What a service at rest starts from is well typed, too.
LEMMA RestTyped == ServicesInit => ServicesTypeOK
<1> SUFFICES ASSUME ServicesInit PROVE ServicesTypeOK
  OBVIOUS
<1>1. MembershipTypeOK
  <2>1. CASE active = "members"
    BY <2>1, MemberInvInit DEF ServicesInit, MemberInv
  <2>2. CASE active # "members"
    BY <2>2, NoCallOK DEF ServicesInit, NoMembers, MembershipTypeOK, Statuses
  <2> QED BY <2>1, <2>2
<1>2. RolesTypeOK
  <2>1. CASE active = "roles"
    BY <2>1, RolesInvInit DEF ServicesInit, RolesInv
  <2>2. CASE active # "roles"
    BY <2>2, NoRoleCallOK DEF ServicesInit, NoRoles, RolesTypeOK
  <2> QED BY <2>1, <2>2
<1>3. AuthTypeOK
  BY AuthInvInit DEF ServicesInit, AuthInv
<1>4. ConnTypeOK
  BY NoConnCallOK DEF ServicesInit, ConnInit, ConnTypeOK
<1>5. CacheTypeOK
  BY CacheInvInit DEF ServicesInit, CacheInv
<1>6. EditTypeOK
  BY EditLogInvInit DEF ServicesInit, EditLogInv
<1>7. ChatTypeOK
  BY ChatInvInit DEF ServicesInit, ChatInv
<1>8. RegistryTypeOK
  BY RowsInvInit DEF ServicesInit, RowsInv
<1>9. RunTypeOK
  <2>1. CASE active = "run"
    BY <2>1, RunInvInit DEF ServicesInit, RunInv
  <2>2. CASE active # "run"
    <3>1. [source |-> Stranger, target |-> Stranger, conditional |-> FALSE] \in Edge
      BY DEF Edge, Ids
    <3>2. NoRun
      BY <2>2 DEF ServicesInit
    <3>3. /\ edges = [i \in EdgeIds |-> [source |-> Stranger, target |-> Stranger,
                                        conditional |-> FALSE]]
          /\ inDegree = [n \in Nodes |-> 0] /\ layers = [n \in Nodes |-> 0]
          /\ depth = 0 /\ current = 0
          /\ step = [n \in Nodes |-> "waiting"] /\ outcome = "sorting"
      BY <3>2 DEF NoRun
    <3>4. edges \in [EdgeIds -> Edge]
      BY <3>1, <3>3
    <3>5. step \in [Nodes -> {"waiting", "skipped", "running", "success", "failed"}]
      BY <3>3
    <3> QED BY <3>3, <3>4, <3>5 DEF RunTypeOK
  <2> QED BY <2>1, <2>2
<1>10. CatalogTypeOK
  BY CatalogInvInit DEF ServicesInit, CatalogInv
<1>11. BranchTypeOK
  BY BranchInvInit DEF ServicesInit, BranchInv
<1>12. QueryTypeOK
  <2>1. CASE active = "queries"
    BY <2>1 DEF ServicesInit, QueryInit, QueryTypeOK
  <2>2. CASE active # "queries"
    <3>1. [column |-> None, from |-> None, masked |-> FALSE] \in Property
      BY DEF Property
    <3> QED BY <2>2, <3>1 DEF ServicesInit, NoQuery, QueryTypeOK
  <2> QED BY <2>1, <2>2
<1> QED
  BY <1>1, <1>2, <1>3, <1>4, <1>5, <1>6, <1>7, <1>8, <1>9, <1>10, <1>11, <1>12
     DEF ServicesTypeOK

\* A service that works does what its own specification says, so that every
\* theorem about that specification holds of the composition.
THEOREM ServicesAct ==
  ServicesSpec =>
    /\ active = "members" => MembershipSpec
    /\ active = "roles" => RolesSpec
    /\ active = "auth" => AuthSpec
    /\ active = "connections" => ConnSpec
    /\ active = "cache" => CacheSpec
    /\ active = "edits" => EditLogSpec
    /\ active = "chats" => ChatSpec
    /\ active = "registries" => RegistrySpec
    /\ active = "run" => RunSpec
    /\ active = "catalog" => CatalogSpec
    /\ active = "branches" => BranchSpec
    /\ active = "queries" => QuerySpec
<1>1. ServicesSpec => (active = "members" => MembershipSpec)
  <2>1. ServicesInit /\ active = "members" => MembershipInit
    BY DEF ServicesInit
  <2>2. [ServicesNext]_vars => (active = "members" => (active = "members")' /\ [MembershipNext]_memberVars)
    BY OthersRest
  <2> QED BY <2>1, <2>2, PTL DEF ServicesSpec, MembershipSpec
<1>2. ServicesSpec => (active = "roles" => RolesSpec)
  <2>1. ServicesInit /\ active = "roles" => RolesInit
    BY DEF ServicesInit
  <2>2. [ServicesNext]_vars => (active = "roles" => (active = "roles")' /\ [RolesNext]_roleVars)
    BY OthersRest
  <2> QED BY <2>1, <2>2, PTL DEF ServicesSpec, RolesSpec
<1>3. ServicesSpec => (active = "auth" => AuthSpec)
  <2>1. ServicesInit /\ active = "auth" => AuthInit
    BY DEF ServicesInit
  <2>2. [ServicesNext]_vars => (active = "auth" => (active = "auth")' /\ [AuthNext]_authVars)
    BY OthersRest
  <2> QED BY <2>1, <2>2, PTL DEF ServicesSpec, AuthSpec
<1>4. ServicesSpec => (active = "connections" => ConnSpec)
  <2>1. ServicesInit /\ active = "connections" => ConnInit
    BY DEF ServicesInit
  <2>2. [ServicesNext]_vars => (active = "connections" => (active = "connections")' /\ [ConnNext]_connVars)
    BY OthersRest
  <2> QED BY <2>1, <2>2, PTL DEF ServicesSpec, ConnSpec
<1>5. ServicesSpec => (active = "cache" => CacheSpec)
  <2>1. ServicesInit /\ active = "cache" => CacheInit
    BY DEF ServicesInit
  <2>2. [ServicesNext]_vars => (active = "cache" => (active = "cache")' /\ [CacheNext]_cacheVars)
    BY OthersRest
  <2> QED BY <2>1, <2>2, PTL DEF ServicesSpec, CacheSpec
<1>6. ServicesSpec => (active = "edits" => EditLogSpec)
  <2>1. ServicesInit /\ active = "edits" => EditLogInit
    BY DEF ServicesInit
  <2>2. [ServicesNext]_vars => (active = "edits" => (active = "edits")' /\ [EditLogNext]_editVars)
    BY OthersRest
  <2> QED BY <2>1, <2>2, PTL DEF ServicesSpec, EditLogSpec
<1>7. ServicesSpec => (active = "chats" => ChatSpec)
  <2>1. ServicesInit /\ active = "chats" => ChatInit
    BY DEF ServicesInit
  <2>2. [ServicesNext]_vars => (active = "chats" => (active = "chats")' /\ [ChatNext]_chatVars)
    BY OthersRest
  <2> QED BY <2>1, <2>2, PTL DEF ServicesSpec, ChatSpec
<1>8. ServicesSpec => (active = "registries" => RegistrySpec)
  <2>1. ServicesInit /\ active = "registries" => RegistryInit
    BY DEF ServicesInit
  <2>2. [ServicesNext]_vars => (active = "registries" => (active = "registries")' /\ [RegistryNext]_registryVars)
    BY OthersRest
  <2> QED BY <2>1, <2>2, PTL DEF ServicesSpec, RegistrySpec
<1>9. ServicesSpec => (active = "run" => RunSpec)
  <2>1. ServicesInit /\ active = "run" => RunInit
    BY DEF ServicesInit
  <2>2. [ServicesNext]_vars => (active = "run" => (active = "run")' /\ [RunNext]_runVars)
    BY OthersRest
  <2> QED BY <2>1, <2>2, PTL DEF ServicesSpec, RunSpec
<1>10. ServicesSpec => (active = "catalog" => CatalogSpec)
  <2>1. ServicesInit /\ active = "catalog" => CatalogInit
    BY DEF ServicesInit
  <2>2. [ServicesNext]_vars => (active = "catalog" => (active = "catalog")' /\ [CatalogNext]_catalogVars)
    BY OthersRest
  <2> QED BY <2>1, <2>2, PTL DEF ServicesSpec, CatalogSpec
<1>11. ServicesSpec => (active = "branches" => BranchSpec)
  <2>1. ServicesInit /\ active = "branches" => BranchInit
    BY DEF ServicesInit
  <2>2. [ServicesNext]_vars => (active = "branches" => (active = "branches")' /\ [BranchNext]_branchVars)
    BY OthersRest
  <2> QED BY <2>1, <2>2, PTL DEF ServicesSpec, BranchSpec
<1>12. ServicesSpec => (active = "queries" => QuerySpec)
  <2>1. ServicesInit /\ active = "queries" => QueryInit
    BY DEF ServicesInit
  <2>2. [ServicesNext]_vars => (active = "queries" => (active = "queries")' /\ [QueryNext]_queryVars)
    BY OthersRest
  <2> QED BY <2>1, <2>2, PTL DEF ServicesSpec, QuerySpec
<1> QED
  BY <1>1, <1>2, <1>3, <1>4, <1>5, <1>6, <1>7, <1>8, <1>9, <1>10, <1>11, <1>12

\* In the composition every service keeps its types, the one that works by its
\* own theorem and the others because nothing of theirs changes.
THEOREM ServicesTyping == ServicesSpec => []ServicesTypeOK
<1>1. ServicesSpec => []MembershipTypeOK
  <2>1. ServicesInit => MembershipTypeOK
    BY RestTyped DEF ServicesTypeOK
  <2>2. MembershipTypeOK /\ [ServicesNext]_vars => (~(active = "members") => MembershipTypeOK' /\ ~(active = "members")')
    BY OthersRest DEF MembershipTypeOK, memberVars
  <2> QED BY <2>1, <2>2, ServicesAct, MembershipTyping, PTL DEF ServicesSpec
<1>2. ServicesSpec => []RolesTypeOK
  <2>1. ServicesInit => RolesTypeOK
    BY RestTyped DEF ServicesTypeOK
  <2>2. RolesTypeOK /\ [ServicesNext]_vars => (~(active = "roles") => RolesTypeOK' /\ ~(active = "roles")')
    BY OthersRest DEF RolesTypeOK, roleVars
  <2> QED BY <2>1, <2>2, ServicesAct, RolesTyping, PTL DEF ServicesSpec
<1>3. ServicesSpec => []AuthTypeOK
  <2>1. ServicesInit => AuthTypeOK
    BY RestTyped DEF ServicesTypeOK
  <2>2. AuthTypeOK /\ [ServicesNext]_vars => (~(active = "auth") => AuthTypeOK' /\ ~(active = "auth")')
    BY OthersRest DEF AuthTypeOK, authVars
  <2> QED BY <2>1, <2>2, ServicesAct, AuthTyping, PTL DEF ServicesSpec
<1>4. ServicesSpec => []ConnTypeOK
  <2>1. ServicesInit => ConnTypeOK
    BY RestTyped DEF ServicesTypeOK
  <2>2. ConnTypeOK /\ [ServicesNext]_vars => (~(active = "connections") => ConnTypeOK' /\ ~(active = "connections")')
    BY OthersRest DEF ConnTypeOK, connVars
  <2> QED BY <2>1, <2>2, ServicesAct, ConnTyping, PTL DEF ServicesSpec
<1>5. ServicesSpec => []CacheTypeOK
  <2>1. ServicesInit => CacheTypeOK
    BY RestTyped DEF ServicesTypeOK
  <2>2. CacheTypeOK /\ [ServicesNext]_vars => (~(active = "cache") => CacheTypeOK' /\ ~(active = "cache")')
    BY OthersRest DEF CacheTypeOK, cacheVars
  <2>3. CacheInv => CacheTypeOK
    BY DEF CacheInv
  <2> QED BY <2>1, <2>2, <2>3, ServicesAct, CacheInvariance, PTL DEF ServicesSpec
<1>6. ServicesSpec => []EditTypeOK
  <2>1. ServicesInit => EditTypeOK
    BY RestTyped DEF ServicesTypeOK
  <2>2. EditTypeOK /\ [ServicesNext]_vars => (~(active = "edits") => EditTypeOK' /\ ~(active = "edits")')
    BY OthersRest DEF EditTypeOK, editVars
  <2>3. EditLogInv => EditTypeOK
    BY DEF EditLogInv
  <2> QED BY <2>1, <2>2, <2>3, ServicesAct, EditLogInvariance, PTL DEF ServicesSpec
<1>7. ServicesSpec => []ChatTypeOK
  <2>1. ServicesInit => ChatTypeOK
    BY RestTyped DEF ServicesTypeOK
  <2>2. ChatTypeOK /\ [ServicesNext]_vars => (~(active = "chats") => ChatTypeOK' /\ ~(active = "chats")')
    BY OthersRest DEF ChatTypeOK, chatVars
  <2> QED BY <2>1, <2>2, ServicesAct, ChatTyping, PTL DEF ServicesSpec
<1>8. ServicesSpec => []RegistryTypeOK
  <2>1. ServicesInit => RegistryTypeOK
    BY RestTyped DEF ServicesTypeOK
  <2>2. RegistryTypeOK /\ [ServicesNext]_vars => (~(active = "registries") => RegistryTypeOK' /\ ~(active = "registries")')
    BY OthersRest DEF RegistryTypeOK, registryVars
  <2> QED BY <2>1, <2>2, ServicesAct, RegistryTyping, PTL DEF ServicesSpec
<1>9. ServicesSpec => []RunTypeOK
  <2>1. ServicesInit => RunTypeOK
    BY RestTyped DEF ServicesTypeOK
  <2>2. RunTypeOK /\ [ServicesNext]_vars => (~(active = "run") => RunTypeOK' /\ ~(active = "run")')
    BY OthersRest DEF RunTypeOK, runVars
  <2>3. RunInv => RunTypeOK
    BY DEF RunInv
  <2> QED BY <2>1, <2>2, <2>3, ServicesAct, RunInvariance, PTL DEF ServicesSpec
<1>10. ServicesSpec => []CatalogTypeOK
  <2>1. ServicesInit => CatalogTypeOK
    BY RestTyped DEF ServicesTypeOK
  <2>2. CatalogTypeOK /\ [ServicesNext]_vars => (~(active = "catalog") => CatalogTypeOK' /\ ~(active = "catalog")')
    BY OthersRest DEF CatalogTypeOK, catalogVars
  <2> QED BY <2>1, <2>2, ServicesAct, CatalogTyping, PTL DEF ServicesSpec
<1>11. ServicesSpec => []BranchTypeOK
  <2>1. ServicesInit => BranchTypeOK
    BY RestTyped DEF ServicesTypeOK
  <2>2. BranchTypeOK /\ [ServicesNext]_vars => (~(active = "branches") => BranchTypeOK' /\ ~(active = "branches")')
    BY OthersRest DEF BranchTypeOK, branchVars
  <2>3. BranchInv => BranchTypeOK
    BY DEF BranchInv
  <2> QED BY <2>1, <2>2, <2>3, ServicesAct, BranchInvariance, PTL DEF ServicesSpec
<1>12. ServicesSpec => []QueryTypeOK
  <2>1. ServicesInit => QueryTypeOK
    BY RestTyped DEF ServicesTypeOK
  <2>2. QueryTypeOK /\ [ServicesNext]_vars => (~(active = "queries") => QueryTypeOK' /\ ~(active = "queries")')
    BY OthersRest DEF QueryTypeOK, queryVars
  <2>3. QueryInv => QueryTypeOK
    BY DEF QueryInv
  <2> QED BY <2>1, <2>2, <2>3, ServicesAct, QueryInvariance, PTL DEF ServicesSpec
<1> QED
  BY <1>1, <1>2, <1>3, <1>4, <1>5, <1>6, <1>7, <1>8, <1>9, <1>10, <1>11, <1>12, PTL DEF ServicesTypeOK
=============================================================================
