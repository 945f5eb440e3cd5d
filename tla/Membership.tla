----------------------------- MODULE Membership -----------------------------
(***************************************************************************)
(* SettingServiceImpl: users, tenants and memberships, and the grants that *)
(* the Casbin enforcer keeps in the memory of the one server process.  A   *)
(* request reads, then flushes its rows and changes the enforcer, and its  *)
(* session commits when the response is ready: its rows are seen by others *)
(* only then, the grants at once.  The e-mail address, which is unique,    *)
(* stands for the user's rid.                                              *)
(***************************************************************************)
EXTENDS NoValue, Naturals, FiniteSets

CONSTANTS Users,
          Tenants,
          RoleNames,      \* roles that requests name
          Calls,          \* requests at work at once
          MemberPage,     \* how many members list_by_tenant returns (20)
          SerialChanges,  \* whether a change or removal of a membership never
                          \* overlaps a request about that user, nor another
                          \* change in that tenant
          FailingOps,     \* requests whose commit can fail
          MaxDisabled  \* bound: rows disabled at one time

VARIABLES account,  \* users table: the status of each user, or "none"
          tenant,   \* tenants table: the status of each tenant, or "none"
          member,   \* user_tenant_memberships
          grant,    \* Casbin grouping policies in memory
          call      \* the request in each slot

\* "session" is a login, a switch or a single sign-on that adds no row here.
Ops == {"create_user", "create_tenant", "add", "update", "remove", "session", "sso"}

memberVars == <<account, tenant, member, grant, call>>

ASSUME MembershipAssumption ==
  /\ {"admin", "member"} \subseteq RoleNames
  /\ MemberPage \in Nat
  /\ MaxDisabled \in Nat
  /\ SerialChanges \in BOOLEAN
  /\ FailingOps \subseteq Ops
  /\ None \notin RoleNames \cup Users \cup Tenants

Statuses == {"none", "active", "disabled"}

MemberRow == [role : RoleNames, default : BOOLEAN]

ASSUME NoneIsNoMember == None \notin MemberRow

Call == [pc     : {"idle", "flush", "commit"},
         op     : Ops \cup {"none"},
         user   : Users \cup {None},
         tenant : Tenants \cup {None},
         role   : RoleNames \cup {None},   \* the role it writes or grants
         old    : RoleNames \cup {None}]   \* the role it read, None for no row

NoCall == [pc |-> "idle", op |-> "none", user |-> None, tenant |-> None,
           role |-> None, old |-> None]

MembershipTypeOK ==
  /\ account \in [Users -> Statuses]
  /\ tenant \in [Tenants -> Statuses]
  /\ member \in [Users -> [Tenants -> MemberRow \cup {None}]]
  /\ grant \subseteq Users \X RoleNames
  /\ call \in [Calls -> Call]

----------------------------------------------------------------------------

IsMember(u, t) == member[u][t] # None

RoleOf(u, t) == member[u][t].role

MembersOf(t) == {u \in Users : IsMember(u, t)}

AdminsOf(t) == {u \in MembersOf(t) : RoleOf(u, t) = "admin"}

\* list_by_tenant: the newest members, at most a page of them.
MemberPages(t) ==
  {page \in SUBSET MembersOf(t) :
     Cardinality(page) = IF Cardinality(MembersOf(t)) < MemberPage
                         THEN Cardinality(MembersOf(t)) ELSE MemberPage}

\* The tenants a login may choose: the default one, or else any of the user's.
LoginTenants(u) ==
  LET default == {t \in Tenants : IsMember(u, t) /\ member[u][t].default}
  IN IF default # {} THEN default ELSE {t \in Tenants : IsMember(u, t)}

Changes(q) == q.op \in {"update", "remove"}

Conflict(q, r) ==
  \/ (Changes(q) \/ Changes(r)) /\ q.user = r.user
  \/ Changes(q) /\ Changes(r) /\ q.tenant = r.tenant

Begin(h, op, u, t, role, old) ==
  LET q == [pc |-> "flush", op |-> op, user |-> u, tenant |-> t, role |-> role,
            old |-> old]
  IN /\ call[h] = NoCall
     /\ SerialChanges => \A g \in Calls : call[g] # NoCall => ~Conflict(q, call[g])
     /\ call' = [call EXCEPT ![h] = q]
     /\ UNCHANGED <<account, tenant, member, grant>>

OpensSession(h, u, role) == Begin(h, "session", u, None, role, role)

Ends(h) == call' = [call EXCEPT ![h] = NoCall]

----------------------------------------------------------------------------
(* What each handler reads and checks before it writes.                    *)

CreateUser(h, u, t, role) ==
  /\ account[u] = "none"
  /\ tenant[t] # "none"
  /\ Begin(h, "create_user", u, t, role, None)

CreateTenant(h, u, t) ==
  /\ account[u] # "none"
  /\ tenant[t] = "none"
  /\ Begin(h, "create_tenant", u, t, "admin", None)

AddMember(h, u, t, role) ==
  /\ account[u] # "none"
  /\ tenant[t] # "none"
  /\ ~IsMember(u, t)
  /\ Begin(h, "add", u, t, role, None)

UpdateMemberRole(h, u, t, role) ==
  /\ IsMember(u, t)
  /\ Begin(h, "update", u, t, role, RoleOf(u, t))

RemoveMember(h, u, t) ==
  /\ IsMember(u, t)
  /\ RoleOf(u, t) = "admin" =>
       \E page \in MemberPages(t) : Cardinality(page \cap AdminsOf(t)) > 1
  /\ Begin(h, "remove", u, t, None, RoleOf(u, t))

Login(h, u, t) ==
  /\ account[u] = "active"
  /\ t \in LoginTenants(u)
  /\ OpensSession(h, u, RoleOf(u, t))

SwitchTenant(h, u, t) ==
  /\ IsMember(u, t)
  /\ tenant[t] = "active"
  /\ OpensSession(h, u, RoleOf(u, t))

\* provision_user of a known user in the newest tenant t, then as a login.
SsoKnownUser(h, u, t) ==
  /\ account[u] = "active"
  /\ tenant[t] # "none"
  /\ IF IsMember(u, t)
     THEN \E s \in LoginTenants(u) : OpensSession(h, u, RoleOf(u, s))
     ELSE LET default == {s \in LoginTenants(u) : member[u][s].default}
          IN \E role \in {RoleOf(u, s) : s \in LoginTenants(u)}
                         \cup (IF default = {} THEN {"member"} ELSE {}) :
               Begin(h, "sso", u, t, role, None)

SsoNewUser(h, u, t) ==
  /\ account[u] = "none"
  /\ tenant[t] # "none"
  /\ Begin(h, "create_user", u, t, "member", None)

----------------------------------------------------------------------------
(* The flush of the rows, the enforcer, and the commit.                    *)

InsertsUser(q) == q.op = "create_user"

InsertsMember(q) == q.op # "none" /\ q.old = None

\* sync_user_role and remove_user_role.
Synced(q) ==
  IF q.op \in {"create_tenant", "remove"} THEN {} ELSE {<<q.user, q.role>>}

Dropped(q) == IF Changes(q) THEN {<<q.user, q.old>>} ELSE {}

SameRow(q, r) == q.user = r.user /\ (q.tenant = r.tenant \/ InsertsUser(q))

\* The row that a flush inserts is there by now: the database refuses it.
Refused(q) ==
  \/ InsertsUser(q) /\ account[q.user] # "none"
  \/ InsertsMember(q) /\ IsMember(q.user, q.tenant)
  \/ q.op = "create_tenant" /\ tenant[q.tenant] # "none"
  \/ q.op = "update" /\ ~IsMember(q.user, q.tenant)

\* A row that another session has written but not committed is locked.
Waits(h) ==
  \E g \in Calls \ {h} : /\ call[g].pc = "commit"
                         /\ \/ SameRow(call[h], call[g])
                            \/ /\ call[h].op = "create_tenant"
                               /\ call[g].op = "create_tenant"
                               /\ call[h].tenant = call[g].tenant

\* A session that writes no row of these tables has nothing to commit here.
Flushed(h) ==
  IF Changes(call[h]) \/ InsertsMember(call[h])
  THEN call' = [call EXCEPT ![h].pc = "commit"]
  ELSE Ends(h)

\* Variant: the old role is left with the user.
FlushKeepingOld(h) ==
  /\ call[h].pc = "flush"
  /\ ~Waits(h)
  /\ ~Refused(call[h])
  /\ grant' = grant \cup Synced(call[h])
  /\ Flushed(h)
  /\ UNCHANGED <<account, tenant, member>>

Flush(h) ==
  /\ call[h].pc = "flush"
  /\ ~Waits(h)
  /\ ~Refused(call[h])
  /\ grant' = (grant \ Dropped(call[h])) \cup Synced(call[h])
  /\ Flushed(h)
  /\ UNCHANGED <<account, tenant, member>>

FlushRefused(h) ==
  /\ call[h].pc = "flush"
  /\ ~Waits(h)
  /\ Refused(call[h])
  /\ Ends(h)
  /\ UNCHANGED <<account, tenant, member, grant>>

\* Variant: every new membership is a default one.
RowAfterDefault(q) ==
  CASE q.op = "remove" -> None
    [] q.op = "update" -> [member[q.user][q.tenant] EXCEPT !.role = q.role]
    [] OTHER -> [role |-> IF q.op = "sso" THEN "member" ELSE q.role, default |-> TRUE]

RowAfter(q) ==
  CASE q.op = "remove" -> None
    [] q.op = "update" -> [member[q.user][q.tenant] EXCEPT !.role = q.role]
    [] OTHER -> [role |-> IF q.op = "sso" THEN "member" ELSE q.role,
                 default |-> InsertsUser(q)]

CommitRows(h) ==
  LET q == call[h]
  IN /\ q.pc = "commit"
     /\ account' = IF InsertsUser(q) THEN [account EXCEPT ![q.user] = "active"]
                   ELSE account
     /\ tenant' = IF q.op = "create_tenant" THEN [tenant EXCEPT ![q.tenant] = "active"]
                  ELSE tenant
     /\ member' = [member EXCEPT ![q.user][q.tenant] = RowAfter(q)]
     /\ Ends(h)
     /\ UNCHANGED grant

\* get_session rolls the rows back; the enforcer has no transaction.
CommitFails(h) ==
  /\ call[h].op \in FailingOps
  /\ call[h].pc = "commit"
  /\ Ends(h)
  /\ UNCHANGED <<account, tenant, member, grant>>

----------------------------------------------------------------------------

Disabled == {u \in Users : account[u] = "disabled"}
              \cup {t \in Tenants : tenant[t] = "disabled"}

\* update_user and delete_user write one row and read nothing.
SetUserStatus(u, status) ==
  /\ account[u] # "none"
  /\ status = "disabled" => Cardinality(Disabled) < MaxDisabled
  /\ account' = [account EXCEPT ![u] = status]
  /\ UNCHANGED <<tenant, member, grant, call>>

\* update_tenant and delete_tenant.
SetTenantStatus(t, status) ==
  /\ tenant[t] # "none"
  /\ status = "disabled" => Cardinality(Disabled) < MaxDisabled
  /\ tenant' = [tenant EXCEPT ![t] = status]
  /\ UNCHANGED <<account, member, grant, call>>

\* The process stops, and run_seed of the next one reads the table.
Restart ==
  /\ grant' = {g \in Users \X RoleNames :
                 \E t \in Tenants : IsMember(g[1], t) /\ RoleOf(g[1], t) = g[2]}
  /\ call' = [h \in Calls |-> NoCall]
  /\ UNCHANGED <<account, tenant, member>>

\* run_seed on an empty database.
MembershipInit ==
  \E u \in Users, t \in Tenants :
    /\ account = [x \in Users |-> IF x = u THEN "active" ELSE "none"]
    /\ tenant = [x \in Tenants |-> IF x = t THEN "active" ELSE "none"]
    /\ member = [x \in Users |-> [y \in Tenants |->
                   IF x = u /\ y = t THEN [role |-> "admin", default |-> TRUE] ELSE None]]
    /\ grant = {<<u, "admin">>}
    /\ call = [h \in Calls |-> NoCall]

Requests(h) ==
  \E u \in Users, t \in Tenants :
    \/ CreateTenant(h, u, t)
    \/ RemoveMember(h, u, t)
    \/ Login(h, u, t)
    \/ SwitchTenant(h, u, t)
    \/ SsoKnownUser(h, u, t)
    \/ SsoNewUser(h, u, t)
    \/ \E role \in RoleNames :
         \/ CreateUser(h, u, t, role)
         \/ AddMember(h, u, t, role)
         \/ UpdateMemberRole(h, u, t, role)

StatusUpdates ==
  \E status \in {"active", "disabled"} :
    \/ \E u \in Users : SetUserStatus(u, status)
    \/ \E t \in Tenants : SetTenantStatus(t, status)

MembershipNext ==
  \/ \E h \in Calls : \/ Requests(h)
                      \/ Flush(h)
                      \/ FlushRefused(h)
                      \/ CommitRows(h)
                      \/ CommitFails(h)
  \/ StatusUpdates
  \/ Restart

MembershipSpec == MembershipInit /\ [][MembershipNext]_memberVars

----------------------------------------------------------------------------

InTable(u, role) ==
  \E t \in Tenants : IsMember(u, t) /\ RoleOf(u, t) = role

\* The enforcer never lets a user act in a role that no committed membership
\* gives and no request is about to commit, whatever requests overlap with
\* logins, creations and restarts (sync_user_role runs before the commit).
GrantsBacked ==
  \A g \in grant :
    \/ InTable(g[1], g[2])
    \/ \E h \in Calls : call[h].pc = "commit" /\ g \in Synced(call[h])

\* A login never fails because a user has two default tenants
\* (get_default_tenant asks for one row or none).
OneDefault ==
  \A u \in Users, s, t \in Tenants :
    IsMember(u, s) /\ IsMember(u, t) /\ member[u][s].default /\ member[u][t].default
      => s = t
=============================================================================
