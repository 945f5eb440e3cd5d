----------------------------- MODULE CustomRoles -----------------------------
(***************************************************************************)
(* SettingServiceImpl: the roles of a tenant, and the policies that the    *)
(* Casbin enforcer keeps in the memory of the one server process.  A role  *)
(* belongs to a tenant, a policy to a role's name only.  As in Membership, *)
(* the enforcer changes before the session commits.                        *)
(***************************************************************************)
EXTENDS NoValue, FiniteSets

CONSTANTS RoleIds,     \* rids of custom roles
          Names,       \* names that requests give
          SystemNames, \* names of SYSTEM_ROLE_DEFINITIONS among them
          Homes,       \* tenants
          Perms,
          SystemPerms, \* what seed_policies gives to a system role
          RoleCalls,
          SerialRoles, \* whether changes of one role never overlap
          FailingRoles \* requests whose commit can fail

VARIABLES role,      \* custom_roles: the row of each custom role, or None
          system,    \* custom_roles: the system rows, <<tenant, name>>
          homes,     \* tenants table
          policy,    \* Casbin policies in memory, <<role name, permission>>
          roleCall

roleVars == <<role, system, homes, policy, roleCall>>

Role == [home : Homes, name : Names, perms : SUBSET Perms]

ASSUME RolesAssumption ==
  /\ SystemNames \subseteq Names
  /\ SystemPerms \in [SystemNames -> SUBSET Perms]
  /\ SerialRoles \in BOOLEAN
  /\ FailingRoles \subseteq {"create", "update", "delete"}
  /\ None \notin RoleIds
  /\ None \notin Role

RoleCall == [pc  : {"idle", "flush", "commit"},
             op  : {"none", "create", "update", "delete"},
             rid : RoleIds \cup {None},
             old : Role \cup {None},    \* the row it read
             new : Role \cup {None}]    \* the row it writes

NoRoleCall == [pc |-> "idle", op |-> "none", rid |-> None, old |-> None, new |-> None]

RolesTypeOK ==
  /\ role \in [RoleIds -> Role \cup {None}]
  /\ system \subseteq Homes \X SystemNames
  /\ homes \subseteq Homes
  /\ policy \subseteq Names \X Perms
  /\ roleCall \in [RoleCalls -> RoleCall]

----------------------------------------------------------------------------

RoleRows == {r \in RoleIds : role[r] # None}

\* get_by_name; a rename may find the role itself.
NameTaken(t, name, except) ==
  \/ <<t, name>> \in system
  \/ \E r \in RoleRows \ except : role[r].home = t /\ role[r].name = name

SystemPolicies == {p \in SystemNames \X Perms : p[2] \in SystemPerms[p[1]]}

PoliciesOf(row) == {row.name} \X row.perms

BeginRole(h, op, r, old, new) ==
  /\ roleCall[h] = NoRoleCall
  /\ SerialRoles => \A g \in RoleCalls : roleCall[g].rid # r
  /\ roleCall' = [roleCall EXCEPT ![h] =
                   [pc |-> "flush", op |-> op, rid |-> r, old |-> old, new |-> new]]
  /\ UNCHANGED <<role, system, homes, policy>>

EndsRole(h) == roleCall' = [roleCall EXCEPT ![h] = NoRoleCall]

\* generate_rid never repeats an identifier.
CreateRole(h, r, t, name, perms) ==
  /\ t \in homes
  /\ role[r] = None
  /\ \A g \in RoleCalls : roleCall[g].rid # r
  /\ ~NameTaken(t, name, {})
  /\ BeginRole(h, "create", r, None, [home |-> t, name |-> name, perms |-> perms])

\* The new row changes the name, the permissions, or both; the tenant asked
\* for a name's collision is the caller's, whatever the role's is.
UpdateRole(h, r, t, name, perms) ==
  /\ r \in RoleRows
  /\ t \in homes
  /\ name # role[r].name => ~NameTaken(t, name, {r})
  /\ BeginRole(h, "update", r, role[r],
               [home |-> role[r].home, name |-> name, perms |-> perms])

DeleteRole(h, r) ==
  /\ r \in RoleRows
  /\ BeginRole(h, "delete", r, role[r], None)

----------------------------------------------------------------------------

\* Another session holds the row, or the name in its tenant, uncommitted.
RoleWaits(h) ==
  \E g \in RoleCalls \ {h} :
    /\ roleCall[g].pc = "commit"
    /\ \/ roleCall[g].rid = roleCall[h].rid
       \/ /\ roleCall[g].new # None /\ roleCall[h].new # None
          /\ roleCall[g].new.home = roleCall[h].new.home
          /\ roleCall[g].new.name = roleCall[h].new.name

\* Variant: the table has no unique constraint.
RoleRefusedIfGone(q) == q.op = "update" /\ role[q.rid] = None

\* uq_custom_role_tenant_name refuses the row, or the row is gone.
RoleRefused(q) ==
  \/ q.new # None /\ NameTaken(q.new.home, q.new.name, {q.rid})
  \/ q.op = "update" /\ role[q.rid] = None

\* Variant: a rename leaves the policies of the old name.
PolicyAfterRename(q) ==
  IF q.op = "delete" THEN policy \ ({q.old.name} \X Perms)
  ELSE policy \cup PoliciesOf(q.new)

\* remove_role_policies of the name that was read, for any tenant, then
\* add_custom_role_policies of the new row.
PolicyAfter(q) ==
  (IF q.old = None THEN policy ELSE policy \ ({q.old.name} \X Perms))
  \cup (IF q.new = None THEN {} ELSE PoliciesOf(q.new))

FlushRole(h) ==
  /\ roleCall[h].pc = "flush"
  /\ ~RoleWaits(h)
  /\ ~RoleRefused(roleCall[h])
  /\ policy' = PolicyAfter(roleCall[h])
  /\ roleCall' = [roleCall EXCEPT ![h].pc = "commit"]
  /\ UNCHANGED <<role, system, homes>>

FlushRoleRefused(h) ==
  /\ roleCall[h].pc = "flush"
  /\ ~RoleWaits(h)
  /\ RoleRefused(roleCall[h])
  /\ EndsRole(h)
  /\ UNCHANGED <<role, system, homes, policy>>

CommitRole(h) ==
  /\ roleCall[h].pc = "commit"
  /\ role' = [role EXCEPT ![roleCall[h].rid] = roleCall[h].new]
  /\ EndsRole(h)
  /\ UNCHANGED <<system, homes, policy>>

\* get_session rolls the row back; the enforcer has no transaction.
CommitRoleFails(h) ==
  /\ roleCall[h].op \in FailingRoles
  /\ roleCall[h].pc = "commit"
  /\ EndsRole(h)
  /\ UNCHANGED <<role, system, homes, policy>>

\* create_tenant gives the new tenant no system roles; the next start does.
NewHome(t) ==
  /\ t \notin homes
  /\ homes' = homes \cup {t}
  /\ UNCHANGED <<role, system, policy, roleCall>>

\* The process stops; run_seed of the next one adds the system roles whose
\* names are free, and loads the policies of the custom ones.
RestartRoles ==
  /\ system' = system \cup
       {s \in homes \X SystemNames :
          \A r \in RoleRows : role[r].home # s[1] \/ role[r].name # s[2]}
  /\ policy' = SystemPolicies \cup UNION {PoliciesOf(role[r]) : r \in RoleRows}
  /\ roleCall' = [h \in RoleCalls |-> NoRoleCall]
  /\ UNCHANGED <<role, homes>>

RolesInit ==
  \E t \in Homes :
    /\ role = [r \in RoleIds |-> None]
    /\ system = {t} \X SystemNames
    /\ homes = {t}
    /\ policy = SystemPolicies
    /\ roleCall = [h \in RoleCalls |-> NoRoleCall]

RolesNext ==
  \/ \E h \in RoleCalls :
       \/ \E r \in RoleIds, t \in Homes, name \in Names, perms \in SUBSET Perms :
            CreateRole(h, r, t, name, perms) \/ UpdateRole(h, r, t, name, perms)
       \/ \E r \in RoleIds : DeleteRole(h, r)
       \/ FlushRole(h)
       \/ FlushRoleRefused(h)
       \/ CommitRole(h)
       \/ CommitRoleFails(h)
  \/ \E t \in Homes : NewHome(t)
  \/ RestartRoles

RolesSpec == RolesInit /\ [][RolesNext]_roleVars

----------------------------------------------------------------------------

Backing(p) ==
  \/ p \in SystemPolicies
  \/ \E r \in RoleRows : p \in PoliciesOf(role[r])
  \/ \E h \in RoleCalls : /\ roleCall[h].pc = "commit"
                          /\ roleCall[h].new # None
                          /\ p \in PoliciesOf(roleCall[h].new)

\* The enforcer never allows what no committed role and no role about to be
\* committed allows, through renames, deletions, tenants that share a role
\* name, and restarts (update_role re-syncs by the name it read).
PoliciesBacked == \A p \in policy : Backing(p)

\* A name means one role in a tenant, system or custom, although it is
\* checked before the flush and a rename checks it in the caller's tenant.
NamesUnique ==
  \A r \in RoleRows :
    /\ <<role[r].home, role[r].name>> \notin system
    /\ \A s \in RoleRows : role[s].home = role[r].home /\ role[s].name = role[r].name
                             => s = r
=============================================================================
