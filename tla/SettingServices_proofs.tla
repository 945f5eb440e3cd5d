------------------------ MODULE SettingServices_proofs ------------------------
(***************************************************************************)
(* Proofs about Authentication, Membership and CustomRoles for any number  *)
(* of tokens, users, tenants, roles and requests.                          *)
(***************************************************************************)
EXTENDS Authentication, Membership, CustomRoles, FiniteSetTheorems, TLAPS

(* Authentication.  AuthInv holds however the requests interleave: a       *)
(* request's pair was issued, and a blacklisted key outlives the seconds      *)
(* before its token expires.                                               *)

AtWork(h) == tokenCall[h].pc # "idle"

CallsIssued ==
  \A h \in TokenCalls : AtWork(h) =>
    tokenCall[h].token \in Tokens /\ Issued(tokenCall[h].token)

Outlives ==
  \A x \in loggedOut :
    Issued(x) /\ (2 * issued[x].exp <= blacklist[x] \/ issued[x].exp <= Second(clock))

AuthInv == AuthTypeOK /\ CallsIssued /\ Outlives

LEMMA Seconds ==
  ASSUME NEW c \in Nat
  PROVE  Second(c) \in Nat /\ 2 * Second(c) <= c /\ c < 2 * Second(c) + 2
BY DEF Second

LEMMA SecondsPass ==
  ASSUME NEW c \in Nat
  PROVE  Second(c) <= Second(c + 1)
BY DEF Second

LEMMA PairKinds ==
  ASSUME NEW p \in Pair, NEW state \in {"live", "rotated", "revoked"}
  PROVE  /\ [p EXCEPT !.state = state] \in Pair
         /\ [p EXCEPT !.state = state].state = state
         /\ [p EXCEPT !.state = state].exp = p.exp
BY DEF Pair

LEMMA NewPairs ==
  ASSUME clock \in Nat
  PROVE  NewPair \in Pair /\ NewPair # None
<1>1. Second(clock) + AccessTtl \in Nat /\ clock + RefreshTtl \in Nat
  BY Seconds, AuthAssumption
<1> QED BY <1>1, NoneIsNoPair DEF NewPair, Pair

LEMMA NoTokenCallOK == NoTokenCall \in TokenCall
BY DEF NoTokenCall, TokenCall

LEMMA AuthInvInit == AuthInit => AuthInv
<1> SUFFICES ASSUME AuthInit PROVE AuthInv
  OBVIOUS
<1>1. AuthTypeOK
  BY NoTokenCallOK DEF AuthInit, AuthTypeOK
<1>2. CallsIssued /\ Outlives
  BY DEF AuthInit, CallsIssued, AtWork, NoTokenCall, Issued, Outlives
<1> QED BY <1>1, <1>2 DEF AuthInv

\* What is issued stays issued, with its time of expiry.
PairsKept ==
  \A x \in Tokens : Issued(x) => /\ Issued(x)'
                                 /\ issued'[x].exp = issued[x].exp

LEMMA OutlivesKept ==
  ASSUME AuthTypeOK, Outlives, PairsKept, UNCHANGED <<clock, blacklist, loggedOut>>
  PROVE  Outlives'
BY DEF AuthTypeOK, Outlives, PairsKept, Second

\* The call of a request ends, or stays.
LEMMA CallEnds ==
  ASSUME AuthTypeOK, NEW h \in TokenCalls, EndsToken(h)
  PROVE  /\ tokenCall' \in [TokenCalls -> TokenCall]
         /\ ~AtWork(h)' /\ tokenCall'[h].token = None
         /\ \A g \in TokenCalls \ {h} : tokenCall'[g] = tokenCall[g]
BY NoTokenCallOK DEF AuthTypeOK, EndsToken, AtWork, NoTokenCall

LEMMA CallBegins ==
  ASSUME AuthTypeOK, NEW h \in TokenCalls, NEW pc \in {"rotate", "revoke"},
         NEW x \in Tokens, BeginsWith(h, pc, x)
  PROVE  /\ tokenCall' \in [TokenCalls -> TokenCall]
         /\ tokenCall'[h].pc = pc /\ tokenCall'[h].token = x
         /\ \A g \in TokenCalls \ {h} : tokenCall'[g] = tokenCall[g]
<1>1. [pc |-> pc, token |-> x] \in TokenCall
  BY DEF TokenCall
<1> QED BY <1>1 DEF AuthTypeOK, BeginsWith

\* What RefreshCommit and LogoutCommit leave of the pairs.
LEMMA Rotated ==
  ASSUME AuthInv, NEW h \in TokenCalls, NEW y \in Tokens, RefreshCommit(h, y)
  PROVE  issued' \in [Tokens -> Pair \cup {None}] /\ PairsKept
<1>1. PICK x \in Tokens : x = tokenCall[h].token /\ Issued(x)
  BY DEF AuthInv, CallsIssued, AtWork, RefreshCommit
<1>2. issued[x] \in Pair /\ ~Issued(y) /\ x # y
  BY <1>1 DEF AuthInv, AuthTypeOK, Issued, RefreshCommit
<1>3. NewPair \in Pair /\ NewPair # None
  BY NewPairs DEF AuthInv, AuthTypeOK
<1>4. PICK p \in Pair : p = [issued[x] EXCEPT !.state = "rotated"]
  BY <1>2, PairKinds
<1>5. p.exp = issued[x].exp
  BY <1>2, <1>4, PairKinds
<1>6. issued' = [[issued EXCEPT ![x] = p] EXCEPT ![y] = NewPair]
  BY <1>1, <1>4 DEF RefreshCommit
<1>7. /\ issued' \in [Tokens -> Pair \cup {None}]
      /\ issued'[x] = p /\ issued'[y] = NewPair
      /\ \A z \in Tokens \ {x, y} : issued'[z] = issued[z]
  BY <1>2, <1>3, <1>6 DEF AuthInv, AuthTypeOK
<1>8. PairsKept
  BY <1>2, <1>5, <1>7, NoneIsNoPair DEF PairsKept, Issued
<1> QED BY <1>7, <1>8

LEMMA LoggedOut ==
  ASSUME AuthInv, NEW h \in TokenCalls, LogoutCommit(h)
  PROVE  /\ issued' \in [Tokens -> Pair \cup {None}] /\ PairsKept
         /\ tokenCall[h].token \in Tokens
<1>1. PICK x \in Tokens : x = tokenCall[h].token /\ Issued(x)
  BY DEF AuthInv, CallsIssued, AtWork, LogoutCommit
<1>2. issued[x] \in Pair
  BY <1>1 DEF AuthInv, AuthTypeOK, Issued
<1>3. PICK state \in {"live", "rotated", "revoked"} :
         state = IF issued[x].state = "live" THEN "revoked" ELSE issued[x].state
  BY <1>2 DEF Pair
<1>4. PICK p \in Pair : p = [issued[x] EXCEPT !.state = state]
  BY <1>2, PairKinds
<1>5. p.exp = issued[x].exp
  BY <1>2, <1>4, PairKinds
<1>6. issued' = [issued EXCEPT ![x] = p]
  BY <1>1, <1>3, <1>4 DEF LogoutCommit
<1>7. /\ issued' \in [Tokens -> Pair \cup {None}] /\ issued'[x] = p
      /\ \A z \in Tokens \ {x} : issued'[z] = issued[z]
  BY <1>6 DEF AuthInv, AuthTypeOK
<1>8. PairsKept
  BY <1>1, <1>5, <1>7, NoneIsNoPair DEF PairsKept, Issued
<1> QED BY <1>1, <1>7, <1>8

LEMMA AuthInvStep == AuthInv /\ [AuthNext]_authVars => AuthInv'
<1> SUFFICES ASSUME AuthInv, [AuthNext]_authVars PROVE AuthInv'
  OBVIOUS
<1>0. AuthTypeOK /\ CallsIssued /\ Outlives
  BY DEF AuthInv
<1>1. CASE UNCHANGED authVars
  BY <1>0, <1>1
     DEF authVars, AuthInv, AuthTypeOK, CallsIssued, AtWork, Issued, Outlives, Second
<1>2. ASSUME NEW x \in Tokens, SignIn(x) PROVE AuthInv'
  <2>1. NewPair \in Pair /\ NewPair # None
    BY <1>0, NewPairs DEF AuthTypeOK
  <2>2. ~Issued(x) /\ UNCHANGED <<clock, blacklist, loggedOut, tokenCall>>
        /\ issued' = [issued EXCEPT ![x] = NewPair]
    BY <1>2 DEF SignIn
  <2>3. /\ issued' \in [Tokens -> Pair \cup {None}] /\ issued'[x] = NewPair
        /\ \A z \in Tokens \ {x} : issued'[z] = issued[z]
    BY <1>0, <2>1, <2>2 DEF AuthTypeOK
  <2>4. PairsKept
    BY <2>2, <2>3 DEF PairsKept, Issued
  <2>5. AuthTypeOK' /\ CallsIssued'
    BY <1>0, <2>2, <2>3, <2>4 DEF AuthTypeOK, CallsIssued, AtWork, PairsKept
  <2> QED BY <1>0, <2>2, <2>4, <2>5, OutlivesKept DEF AuthInv
<1>3. ASSUME NEW h \in TokenCalls, NEW x \in Tokens, RefreshRead(h, x) PROVE AuthInv'
  <2>1. Issued(x) /\ BeginsWith(h, "rotate", x)
        /\ UNCHANGED <<issued, clock, blacklist, loggedOut>>
    BY <1>3 DEF RefreshRead, IsValid, IsLive
  <2>2. /\ tokenCall' \in [TokenCalls -> TokenCall] /\ tokenCall'[h].token = x
        /\ \A g \in TokenCalls \ {h} : tokenCall'[g] = tokenCall[g]
    BY <1>0, <2>1, CallBegins
  <2> QED BY <1>0, <2>1, <2>2
    DEF AuthInv, AuthTypeOK, CallsIssued, AtWork, Issued, Outlives, Second
<1>4. ASSUME NEW h \in TokenCalls, NEW y \in Tokens, RefreshCommit(h, y) PROVE AuthInv'
  <2>1. EndsToken(h) /\ UNCHANGED <<clock, blacklist, loggedOut>>
    BY <1>4 DEF RefreshCommit
  <2>2. issued' \in [Tokens -> Pair \cup {None}] /\ PairsKept
    BY <1>4, Rotated
  <2>3. AuthTypeOK' /\ CallsIssued'
    BY <1>0, <2>1, <2>2, CallEnds DEF AuthTypeOK, CallsIssued, AtWork, PairsKept
  <2> QED BY <1>0, <2>1, <2>2, <2>3, OutlivesKept DEF AuthInv
<1>5. ASSUME NEW h \in TokenCalls, NEW x \in Tokens, Logout(h, x) PROVE AuthInv'
  <2>1. Issued(x) /\ RevokeToken(x) /\ loggedOut' = loggedOut \cup {x}
        /\ UNCHANGED <<issued, clock>>
        /\ (UNCHANGED tokenCall \/ BeginsWith(h, "revoke", x))
    BY <1>5 DEF Logout, Accepted, Valid
  <2>2. /\ tokenCall' \in [TokenCalls -> TokenCall]
        /\ \A g \in TokenCalls : AtWork(g)' => tokenCall'[g] = tokenCall[g]
                                                  \/ tokenCall'[g].token = x
    BY <1>0, <2>1, CallBegins DEF AuthTypeOK
  <2>3. CallsIssued'
    BY <1>0, <2>1, <2>2 DEF CallsIssued, AtWork, Issued
  <2>4. issued[x].exp \in Nat /\ clock \in Nat /\ blacklist \in [Tokens -> Nat]
    BY <1>0, <2>1 DEF AuthTypeOK, Issued, Pair
  <2>5. PICK sec \in Nat : sec = Second(clock) /\ 2 * sec <= clock /\ clock < 2 * sec + 2
    BY <2>4, Seconds
  <2>6. /\ blacklist' \in [Tokens -> Nat]
        /\ \A z \in Tokens \ {x} : blacklist'[z] = blacklist[z]
        /\ 2 * issued[x].exp <= blacklist'[x] \/ issued[x].exp <= sec
    <3>1. CASE issued[x].exp - sec > 0
      <4>1. blacklist' = [blacklist EXCEPT ![x] = clock + 2 * (issued[x].exp - sec)]
        BY <2>1, <2>5, <3>1 DEF RevokeToken
      <4>2. /\ clock + 2 * (issued[x].exp - sec) \in Nat
            /\ 2 * issued[x].exp <= clock + 2 * (issued[x].exp - sec)
        BY <2>4, <2>5, <3>1
      <4> QED BY <2>4, <4>1, <4>2
    <3>2. CASE ~(issued[x].exp - sec > 0)
      BY <2>1, <2>4, <2>5, <3>2 DEF RevokeToken
    <3> QED BY <3>1, <3>2
  <2>7. Second(clock)' = sec
    BY <2>1, <2>5 DEF Second
  <2>8. Outlives'
    BY <1>0, <2>1, <2>5, <2>6, <2>7 DEF Outlives, AuthTypeOK, Issued
  <2> QED BY <1>0, <2>1, <2>2, <2>3, <2>6, <2>8
    DEF AuthInv, AuthTypeOK, Issued
<1>6. ASSUME NEW h \in TokenCalls, LogoutCommit(h) PROVE AuthInv'
  <2>1. EndsToken(h) /\ UNCHANGED <<clock, blacklist, loggedOut>>
    BY <1>6 DEF LogoutCommit
  <2>2. /\ issued' \in [Tokens -> Pair \cup {None}] /\ PairsKept
        /\ tokenCall[h].token \in Tokens
    BY <1>6, LoggedOut
  <2>3. AuthTypeOK' /\ CallsIssued'
    BY <1>0, <2>1, <2>2, CallEnds DEF AuthTypeOK, CallsIssued, AtWork, PairsKept
  <2> QED BY <1>0, <2>1, <2>2, <2>3, OutlivesKept DEF AuthInv
<1>7. ASSUME NEW h \in TokenCalls, TokenCallDies(h) PROVE AuthInv'
  <2>1. EndsToken(h) /\ UNCHANGED <<issued, clock, blacklist, loggedOut>>
    BY <1>7 DEF TokenCallDies
  <2> QED BY <1>0, <2>1, CallEnds
    DEF AuthInv, AuthTypeOK, CallsIssued, AtWork, Issued, Outlives, Second
<1>8. CASE Tick
  <2>1. clock \in Nat /\ clock' = clock + 1 /\ UNCHANGED <<issued, blacklist, loggedOut, tokenCall>>
    BY <1>0, <1>8 DEF Tick, AuthTypeOK
  <2>2. /\ Second(clock) \in Nat /\ Second(clock + 1) \in Nat
        /\ Second(clock) <= Second(clock + 1)
    <3>1. clock + 1 \in Nat
      BY <2>1
    <3> QED BY <2>1, <3>1, Seconds, SecondsPass
  <2>3. PICK sec \in Nat, later \in Nat :
           sec = Second(clock) /\ later = Second(clock)' /\ sec <= later
    <3>1. Second(clock)' = Second(clock + 1)
      BY <2>1 DEF Second
    <3> QED BY <2>2, <3>1
  <2>4. \A x \in Tokens : Issued(x) => issued[x].exp \in Nat
    BY <1>0 DEF AuthTypeOK, Issued, Pair
  <2>5. Outlives'
    BY <1>0, <2>1, <2>3, <2>4 DEF Outlives, Issued, AuthTypeOK
  <2> QED BY <1>0, <2>1, <2>5 DEF AuthInv, AuthTypeOK, CallsIssued, AtWork, Issued
<1> QED BY <1>1, <1>2, <1>3, <1>4, <1>5, <1>6, <1>7, <1>8 DEF AuthNext

\* Pairs, requests and the blacklist stay in order whatever interleaves.
THEOREM AuthInvariance == AuthSpec => []AuthInv
BY AuthInvInit, AuthInvStep, PTL DEF AuthSpec

\* The tables keep their types.
THEOREM AuthTyping == AuthSpec => []AuthTypeOK
<1>1. AuthInv => AuthTypeOK
  BY DEF AuthInv
<1> QED BY <1>1, AuthInvariance, PTL

\* A token that was logged out is refused until the second it expires in.
THEOREM LogoutsRefuse == AuthSpec => []RevokedRefused
<1>1. AuthInv => RevokedRefused
  <2> SUFFICES ASSUME AuthInv, NEW x \in loggedOut, Second(clock) < issued[x].exp
               PROVE  ~Accepted(x)
    BY DEF RevokedRefused
  <2>1. clock \in Nat /\ blacklist[x] \in Nat /\ Issued(x) /\ issued[x].exp \in Nat
    BY DEF AuthInv, AuthTypeOK, Outlives, Issued, Pair
  <2>2. PICK sec \in Nat : sec = Second(clock) /\ clock < 2 * sec + 2
    BY <2>1, Seconds
  <2>3. 2 * issued[x].exp <= blacklist[x]
    BY <2>1, <2>2 DEF AuthInv, Outlives
  <2>4. clock < blacklist[x]
    BY <2>1, <2>2, <2>3
  <2> QED BY <2>4 DEF Accepted, IsRevoked
<1> QED BY <1>1, AuthInvariance, PTL

----------------------------------------------------------------------------
(* Membership.  MemberInv holds however the requests overlap: a row that a *)
(* session is about to commit is nobody else's, so that what its flush     *)
(* found in the tables is still so.                                        *)

CallShape(q) ==
  IF q.pc = "idle" THEN q = NoCall
  ELSE /\ q.op # "none" /\ q.user \in Users
       /\ q.op # "session" => q.tenant \in Tenants
       /\ q.op # "remove" => q.role \in RoleNames
       /\ q.op \in {"update", "remove", "session"} <=> q.old # None
       /\ q.op = "session" => q.pc = "flush"

NewUsers == \A u \in Users, t \in Tenants : IsMember(u, t) => account[u] # "none"

CallersKnown ==
  \A h \in Calls : call[h].pc # "idle" /\ ~InsertsUser(call[h])
                     => account[call[h].user] # "none"

\* What the flush of h found is still so, and the row is only h's to commit.
CommitOK(h) ==
  LET q == call[h]
  IN q.pc = "commit" =>
       /\ InsertsUser(q) => account[q.user] = "none"
       /\ InsertsMember(q) => ~IsMember(q.user, q.tenant)
       /\ q.op = "update" => IsMember(q.user, q.tenant)
       /\ \A g \in Calls \ {h} : call[g].pc = "commit" /\ call[g].user = q.user
            => call[g].tenant # q.tenant /\ ~InsertsUser(call[g]) /\ ~InsertsUser(q)

CallsShaped == \A h \in Calls : CallShape(call[h])

CommitsApart == \A h \in Calls : CommitOK(h)

MemberInv == /\ MembershipTypeOK /\ CallsShaped /\ NewUsers /\ CallersKnown
             /\ CommitsApart /\ OneDefault

LEMMA NoCallOK == NoCall \in Call /\ NoCall.pc = "idle" /\ CallShape(NoCall)
BY DEF NoCall, Call, CallShape

LEMMA MemberRows ==
  ASSUME NEW row \in MemberRow, NEW r \in RoleNames
  PROVE  /\ [row EXCEPT !.role = r] \in MemberRow
         /\ [row EXCEPT !.role = r].role = r
         /\ [row EXCEPT !.role = r].default = row.default
BY DEF MemberRow

LEMMA MemberInvInit == MembershipInit => MemberInv
<1> SUFFICES ASSUME NEW u \in Users, NEW t \in Tenants,
       account = [x \in Users |-> IF x = u THEN "active" ELSE "none"],
       tenant = [x \in Tenants |-> IF x = t THEN "active" ELSE "none"],
       member = [x \in Users |-> [y \in Tenants |->
                   IF x = u /\ y = t THEN [role |-> "admin", default |-> TRUE] ELSE None]],
       grant = {<<u, "admin">>},
       call = [h \in Calls |-> NoCall]
     PROVE MemberInv
  BY DEF MembershipInit
<1>1. [role |-> "admin", default |-> TRUE] \in MemberRow
  BY MembershipAssumption DEF MemberRow
<1>2. MembershipTypeOK
  <2>1. member \in [Users -> [Tenants -> MemberRow \cup {None}]]
    BY <1>1
  <2>2. account \in [Users -> Statuses] /\ tenant \in [Tenants -> Statuses]
    BY DEF Statuses
  <2>3. grant \subseteq Users \X RoleNames /\ call \in [Calls -> Call]
    BY NoCallOK, MembershipAssumption
  <2> QED BY <2>1, <2>2, <2>3 DEF MembershipTypeOK
<1>3. \A x \in Users, y \in Tenants : IsMember(x, y) => x = u /\ y = t
  BY DEF IsMember
<1>4. NewUsers /\ OneDefault
  BY <1>3 DEF NewUsers, OneDefault
<1>5. CallsShaped /\ CallersKnown /\ CommitsApart
  BY NoCallOK DEF CallsShaped, CallersKnown, CommitsApart, CommitOK
<1> QED BY <1>2, <1>4, <1>5 DEF MemberInv

\* A request begins.
LEMMA BeginSets ==
  ASSUME MemberInv, NEW h \in Calls, NEW op \in Ops, NEW u \in Users,
         NEW t \in Tenants \cup {None}, NEW r \in RoleNames \cup {None},
         NEW old \in RoleNames \cup {None}, Begin(h, op, u, t, r, old)
  PROVE  /\ call[h] = NoCall
         /\ call' \in [Calls -> Call]
         /\ call'[h] = [pc |-> "flush", op |-> op, user |-> u, tenant |-> t, role |-> r,
                        old |-> old]
         /\ \A g \in Calls \ {h} : call'[g] = call[g]
         /\ UNCHANGED <<account, tenant, member, grant>>
<1> DEFINE q == [pc |-> "flush", op |-> op, user |-> u, tenant |-> t, role |-> r, old |-> old]
<1>1. q \in Call
  BY DEF Call
<1>2. call[h] = NoCall /\ call' = [call EXCEPT ![h] = q] /\ UNCHANGED <<account, tenant, member, grant>>
  BY DEF Begin
<1>3. PICK p \in Call : p = q
  BY <1>1
<1>4. call' \in [Calls -> Call] /\ call'[h] = p /\ \A g \in Calls \ {h} : call'[g] = call[g]
  BY <1>2, <1>3 DEF MemberInv, MembershipTypeOK
<1> QED BY <1>2, <1>3, <1>4

LEMMA BeginKeeps ==
  ASSUME MemberInv, NEW h \in Calls, NEW op \in Ops, NEW u \in Users,
         NEW t \in Tenants \cup {None}, NEW r \in RoleNames \cup {None},
         NEW old \in RoleNames \cup {None}, Begin(h, op, u, t, r, old),
         op # "session" => t # None, op # "remove" => r # None,
         op \in {"update", "remove", "session"} <=> old # None,
         op # "create_user" => account[u] # "none"
  PROVE  MemberInv'
<1>1. /\ call' \in [Calls -> Call]
      /\ call'[h] = [pc |-> "flush", op |-> op, user |-> u, tenant |-> t, role |-> r,
                     old |-> old]
      /\ \A g \in Calls \ {h} : call'[g] = call[g]
      /\ UNCHANGED <<account, tenant, member, grant>>
  BY BeginSets
<1>2. MembershipTypeOK' /\ NewUsers' /\ OneDefault'
  BY <1>1 DEF MemberInv, MembershipTypeOK, NewUsers, OneDefault, IsMember
<1>3. CallShape(call'[h])
  BY <1>1 DEF CallShape, Ops
<1>4. CallsShaped'
  BY <1>1, <1>3 DEF MemberInv, CallsShaped
<1>5. CallersKnown'
  BY <1>1 DEF MemberInv, CallersKnown, InsertsUser
<1>6. CommitsApart'
  <2>1. CommitOK(h)'
    BY <1>1 DEF CommitOK
  <2>2. ASSUME NEW g \in Calls \ {h} PROVE CommitOK(g)'
    BY <1>1 DEF MemberInv, CommitsApart, CommitOK, InsertsUser, InsertsMember, IsMember
  <2> QED BY <2>1, <2>2 DEF CommitsApart
<1> QED BY <1>2, <1>4, <1>5, <1>6 DEF MemberInv

\* Requests that end without a commit, or whose process dies, take nothing along.
LEMMA EndKeeps ==
  ASSUME MemberInv, UNCHANGED <<account, tenant, member>>,
         grant' \subseteq Users \X RoleNames,
         call' \in [Calls -> Call],
         \A g \in Calls : call'[g] = call[g] \/ call'[g] = NoCall
  PROVE  MemberInv'
<1>1. MembershipTypeOK' /\ NewUsers' /\ OneDefault'
  BY DEF MemberInv, MembershipTypeOK, NewUsers, OneDefault, IsMember
<1>2. CallsShaped'
  BY NoCallOK DEF MemberInv, CallsShaped
<1>3. \A g \in Calls : call'[g].pc # "idle" => call'[g] = call[g]
  BY NoCallOK
<1>4. CallersKnown'
  BY <1>3 DEF MemberInv, CallersKnown
<1>5. ASSUME NEW h \in Calls, call'[h].pc = "commit"
      PROVE  CommitOK(h)'
  <2>1. call'[h] = call[h] /\ CommitOK(h)
    BY <1>3, <1>5 DEF MemberInv, CommitsApart
  <2>2. \A g \in Calls : call'[g].pc = "commit" => call'[g] = call[g]
    BY <1>3
  <2> QED BY <2>1, <2>2 DEF CommitOK, IsMember
<1>6. CommitsApart'
  BY <1>5 DEF CommitsApart, CommitOK
<1> QED BY <1>1, <1>2, <1>4, <1>6 DEF MemberInv

\* A flush that goes on to the commit.
LEMMA FlushSets ==
  ASSUME MemberInv, NEW h \in Calls, Flush(h)
  PROVE  /\ call' \in [Calls -> Call]
         /\ \A g \in Calls \ {h} : call'[g] = call[g]
         /\ IF call[h].op = "session" THEN call'[h] = NoCall
            ELSE /\ call'[h].pc = "commit"
                 /\ \A k \in {"op", "user", "tenant", "role", "old"} : call'[h][k] = call[h][k]
         /\ UNCHANGED <<account, tenant, member>>
         /\ Synced(call[h]) \subseteq Users \X RoleNames
<1>1. call[h] \in Call /\ call[h].pc = "flush" /\ CallShape(call[h])
  BY DEF Flush, MemberInv, MembershipTypeOK, CallsShaped
<1>2. Synced(call[h]) \subseteq Users \X RoleNames
  BY <1>1 DEF Synced, CallShape
<1>3. PICK q \in Call : q = [call[h] EXCEPT !.pc = "commit"]
  BY <1>1 DEF Call
<1>4. q.pc = "commit" /\ \A k \in {"op", "user", "tenant", "role", "old"} : q[k] = call[h][k]
  BY <1>1, <1>3 DEF Call
<1>5. call[h].op = "session" <=> ~(Changes(call[h]) \/ InsertsMember(call[h]))
  BY <1>1 DEF Changes, InsertsMember, CallShape, Call, Ops
<1>6. CASE call[h].op = "session"
  BY <1>2, <1>5, <1>6, NoCallOK DEF Flush, Flushed, Ends, MemberInv, MembershipTypeOK
<1>7. CASE call[h].op # "session"
  <2>1. call' = [call EXCEPT ![h] = q] /\ UNCHANGED <<account, tenant, member>>
    BY <1>3, <1>5, <1>7 DEF Flush, Flushed
  <2>2. call' \in [Calls -> Call] /\ call'[h] = q /\ \A g \in Calls \ {h} : call'[g] = call[g]
    BY <2>1 DEF MemberInv, MembershipTypeOK
  <2> QED BY <1>2, <1>4, <1>7, <2>1, <2>2
<1> QED BY <1>6, <1>7

LEMMA FlushKeeps ==
  ASSUME MemberInv, NEW h \in Calls, Flush(h)
  PROVE  MemberInv'
<1>1. call[h] \in Call /\ call[h].pc = "flush" /\ CallShape(call[h])
  BY DEF Flush, MemberInv, MembershipTypeOK, CallsShaped
<1>2. grant' \subseteq Users \X RoleNames
  BY FlushSets DEF Flush, MemberInv, MembershipTypeOK
<1>3. CASE call[h].op = "session"
  BY <1>2, <1>3, FlushSets, EndKeeps
<1>4. CASE call[h].op # "session"
  <2>1. /\ call' \in [Calls -> Call] /\ call'[h].pc = "commit"
        /\ call'[h].op = call[h].op /\ call'[h].user = call[h].user
        /\ call'[h].tenant = call[h].tenant /\ call'[h].role = call[h].role
        /\ call'[h].old = call[h].old
        /\ \A g \in Calls \ {h} : call'[g] = call[g]
        /\ UNCHANGED <<account, tenant, member>>
    BY <1>4, FlushSets
  <2>2. MembershipTypeOK' /\ NewUsers' /\ OneDefault'
    BY <1>2, <2>1 DEF MemberInv, MembershipTypeOK, NewUsers, OneDefault, IsMember
  <2>3. CallsShaped'
    BY <1>1, <1>4, <2>1 DEF MemberInv, CallsShaped, CallShape
  <2>4. CallersKnown'
    BY <1>1, <2>1 DEF MemberInv, CallersKnown, InsertsUser
  <2>5. /\ ~Refused(call[h])
        /\ \A g \in Calls \ {h} : call[g].pc = "commit" => ~SameRow(call[h], call[g])
    BY DEF Flush, Waits
  <2>6. InsertsUser(call[h]) => account[call[h].user] = "none"
    BY <2>5 DEF Refused
  <2>7. \A g \in Calls \ {h} : call[g].pc = "commit" /\ call[g].user = call[h].user
          => call[g].tenant # call[h].tenant /\ ~InsertsUser(call[g]) /\ ~InsertsUser(call[h])
    <3> SUFFICES ASSUME NEW g \in Calls \ {h}, call[g].pc = "commit",
                        call[g].user = call[h].user
                 PROVE  /\ call[g].tenant # call[h].tenant
                        /\ ~InsertsUser(call[g]) /\ ~InsertsUser(call[h])
      OBVIOUS
    <3>1. call[g].tenant # call[h].tenant /\ ~InsertsUser(call[h])
      BY <2>5 DEF SameRow
    <3>2. account[call[h].user] # "none"
      BY <1>1, <3>1 DEF MemberInv, CallersKnown
    <3>3. ~InsertsUser(call[g])
      BY <3>2 DEF MemberInv, CommitsApart, CommitOK
    <3> QED BY <3>1, <3>3
  <2>8. CommitOK(h)'
    BY <2>1, <2>5, <2>6, <2>7 DEF CommitOK, Refused, InsertsUser, InsertsMember, IsMember
  <2>9. ASSUME NEW g \in Calls \ {h} PROVE CommitOK(g)'
    BY <2>1, <2>7 DEF MemberInv, CommitsApart, CommitOK, InsertsUser, InsertsMember, IsMember
  <2>10. CommitsApart'
    BY <2>8, <2>9 DEF CommitsApart
  <2> QED BY <2>2, <2>3, <2>4, <2>10 DEF MemberInv
<1> QED BY <1>3, <1>4

\* What a commit does to the tables.
LEMMA CommitSets ==
  ASSUME MemberInv, NEW h \in Calls, CommitRows(h)
  PROVE  LET q == call[h]
         IN /\ call' \in [Calls -> Call] /\ call'[h] = NoCall
            /\ \A g \in Calls \ {h} : call'[g] = call[g]
            /\ grant' = grant
            /\ account' \in [Users -> Statuses] /\ tenant' \in [Tenants -> Statuses]
            /\ \A u \in Users : account'[u] = IF InsertsUser(q) /\ u = q.user THEN "active"
                                              ELSE account[u]
            /\ member' \in [Users -> [Tenants -> MemberRow \cup {None}]]
            /\ q.user \in Users /\ q.tenant \in Tenants
            /\ member'[q.user][q.tenant] = RowAfter(q)
            /\ \A u \in Users, t \in Tenants : u # q.user \/ t # q.tenant
                 => member'[u][t] = member[u][t]
            /\ RowAfter(q) \in MemberRow \cup {None}
            /\ q.op = "remove" => RowAfter(q) = None
            /\ q.op = "update" => /\ RowAfter(q).role = q.role
                                  /\ RowAfter(q).default = member[q.user][q.tenant].default
            /\ q.op \notin {"update", "remove"} =>
                 /\ RowAfter(q).role = IF q.op = "sso" THEN "member" ELSE q.role
                 /\ RowAfter(q).default = InsertsUser(q)
<1> DEFINE q == call[h]
<1>1. q \in Call /\ q.pc = "commit" /\ CallShape(q) /\ CommitOK(h)
  BY DEF CommitRows, MemberInv, MembershipTypeOK, CallsShaped, CommitsApart
<1>2. PICK u \in Users, t \in Tenants : u = q.user /\ t = q.tenant
  BY <1>1 DEF CallShape
<1>3. MembershipTypeOK
  BY DEF MemberInv
<1>4. /\ RowAfter(q) \in MemberRow \cup {None}
      /\ q.op = "remove" => RowAfter(q) = None
      /\ q.op = "update" => /\ RowAfter(q).role = q.role
                            /\ RowAfter(q).default = member[u][t].default
      /\ q.op \notin {"update", "remove"} =>
                 /\ RowAfter(q).role = IF q.op = "sso" THEN "member" ELSE q.role
                 /\ RowAfter(q).default = InsertsUser(q)
  <2>1. CASE q.op = "remove"
    BY <2>1 DEF RowAfter
  <2>2. CASE q.op = "update"
    <3>1. member[u][t] \in MemberRow /\ q.role \in RoleNames
      BY <1>1, <1>2, <1>3, <2>2 DEF CommitOK, CallShape, IsMember, MembershipTypeOK
    <3>2. RowAfter(q) = [member[u][t] EXCEPT !.role = q.role]
      BY <1>2, <2>2 DEF RowAfter
    <3> QED BY <2>2, <3>1, <3>2, MemberRows
  <2>3. CASE q.op \notin {"update", "remove"}
    <3>1. RowAfter(q) = [role |-> IF q.op = "sso" THEN "member" ELSE q.role,
                         default |-> InsertsUser(q)]
      BY <2>3 DEF RowAfter
    <3>2. q.role \in RoleNames /\ "member" \in RoleNames /\ InsertsUser(q) \in BOOLEAN
      BY <1>1, <2>3, MembershipAssumption DEF CallShape, InsertsUser
    <3> QED BY <2>3, <3>1, <3>2 DEF MemberRow
  <2> QED BY <2>1, <2>2, <2>3
<1>5. PICK row \in MemberRow \cup {None} : row = RowAfter(q)
  BY <1>4
<1>6. member' = [member EXCEPT ![u][t] = row]
  BY <1>2, <1>5 DEF CommitRows
<1>7. /\ member' \in [Users -> [Tenants -> MemberRow \cup {None}]]
      /\ member'[u][t] = row
      /\ \A v \in Users, s \in Tenants : v # u \/ s # t => member'[v][s] = member[v][s]
  BY <1>3, <1>6 DEF MembershipTypeOK
<1>8. /\ account' \in [Users -> Statuses] /\ tenant' \in [Tenants -> Statuses]
      /\ \A v \in Users : account'[v] = IF InsertsUser(q) /\ v = u THEN "active" ELSE account[v]
  BY <1>2, <1>3 DEF CommitRows, MembershipTypeOK, Statuses
<1>9. /\ call' \in [Calls -> Call] /\ call'[h] = NoCall /\ grant' = grant
      /\ \A g \in Calls \ {h} : call'[g] = call[g]
  BY <1>3, NoCallOK DEF CommitRows, Ends, MembershipTypeOK
<1> QED BY <1>2, <1>4, <1>5, <1>7, <1>8, <1>9

LEMMA CommitKeeps ==
  ASSUME MemberInv, NEW h \in Calls, CommitRows(h)
  PROVE  MemberInv'
<1>1. call[h] \in Call /\ call[h].pc = "commit" /\ CallShape(call[h]) /\ CommitOK(h)
  BY DEF CommitRows, MemberInv, MembershipTypeOK, CallsShaped, CommitsApart
<1>2. PICK q \in Call : q = call[h]
  BY <1>1
<1>3. PICK u \in Users, t \in Tenants : u = q.user /\ t = q.tenant
  BY <1>1, <1>2 DEF CallShape
<1>4. PICK row \in MemberRow \cup {None} :
        /\ row = RowAfter(q)
        /\ member'[u][t] = row
        /\ \A v \in Users, s \in Tenants : v # u \/ s # t => member'[v][s] = member[v][s]
        /\ q.op = "remove" => row = None
        /\ q.op = "update" => row.default = member[u][t].default
        /\ q.op \notin {"update", "remove"} => row.default = InsertsUser(q)
  BY <1>2, <1>3, CommitSets
<1>5. /\ call' \in [Calls -> Call] /\ call'[h] = NoCall /\ grant' = grant
      /\ \A g \in Calls \ {h} : call'[g] = call[g]
      /\ account' \in [Users -> Statuses] /\ tenant' \in [Tenants -> Statuses]
      /\ \A v \in Users : account'[v] = IF InsertsUser(q) /\ v = u THEN "active" ELSE account[v]
      /\ member' \in [Users -> [Tenants -> MemberRow \cup {None}]]
  BY <1>2, <1>3, CommitSets
<1>6. MembershipTypeOK'
  BY <1>5 DEF MemberInv, MembershipTypeOK
<1>7. CallsShaped' /\ CallersKnown'
  BY <1>5, NoCallOK DEF MemberInv, CallsShaped, CallersKnown, CallShape
<1>8. InsertsUser(q) \/ account[u] # "none"
  BY <1>1, <1>2, <1>3 DEF MemberInv, CallersKnown
<1>9. NewUsers'
  BY <1>4, <1>5, <1>8 DEF MemberInv, NewUsers, IsMember
<1>10. OneDefault'
  <2>1. CASE InsertsUser(q)
    <3>1. \A s \in Tenants : ~IsMember(u, s)
      BY <1>1, <1>2, <1>3, <2>1 DEF CommitOK, MemberInv, NewUsers
    <3> QED BY <1>4, <3>1 DEF MemberInv, OneDefault, IsMember
  <2>2. CASE q.op = "update"
    <3>1. IsMember(u, t)
      BY <1>1, <1>2, <1>3, <2>2 DEF CommitOK
    <3> QED BY <1>4, <2>2, <3>1 DEF MemberInv, OneDefault, IsMember
  <2>3. CASE q.op # "update" /\ ~InsertsUser(q)
    BY <1>4, <2>3 DEF MemberInv, OneDefault, IsMember
  <2> QED BY <2>1, <2>2, <2>3
<1>11. ASSUME NEW g \in Calls, call'[g].pc = "commit"
       PROVE  CommitOK(g)'
  <2>1. g # h /\ call'[g] = call[g] /\ CommitOK(g)
    BY <1>5, <1>11, NoCallOK DEF MemberInv, CommitsApart
  <2>2. \A k \in Calls : call'[k].pc = "commit" => call'[k] = call[k]
    BY <1>5, NoCallOK
  <2>3. call[g].user \in Users /\ call[g].tenant \in Tenants
    BY <1>11, <2>1 DEF MemberInv, CallsShaped, CallShape
  <2>4. call[g].user = u => call[g].tenant # t /\ ~InsertsUser(call[g]) /\ ~InsertsUser(q)
    BY <1>1, <1>2, <1>3, <1>11, <2>1 DEF CommitOK
  <2>5. member'[call[g].user][call[g].tenant] = member[call[g].user][call[g].tenant]
    BY <1>4, <2>3, <2>4
  <2>6. InsertsUser(call[g]) => account'[call[g].user] = account[call[g].user]
    BY <1>5, <2>3, <2>4
  <2> QED BY <2>1, <2>2, <2>5, <2>6 DEF CommitOK, IsMember
<1>12. CommitsApart'
  BY <1>11 DEF CommitsApart, CommitOK
<1> QED BY <1>6, <1>7, <1>9, <1>10, <1>12 DEF MemberInv

\* The requests, with the role that their begin reads.
LEMMA RequestBegins ==
  ASSUME MemberInv, NEW h \in Calls, Requests(h)
  PROVE  \E op \in Ops, u \in Users, t \in Tenants \cup {None},
            r \in RoleNames \cup {None}, old \in RoleNames \cup {None} :
            /\ Begin(h, op, u, t, r, old)
            /\ op # "session" => t # None
            /\ op # "remove" => r # None
            /\ op \in {"update", "remove", "session"} <=> old # None
            /\ op # "create_user" => account[u] # "none"
            /\ op = "session" => InTable(u, r)
            /\ op = "sso" => r = "member" \/ InTable(u, r)
            /\ op \in {"update", "remove"} => IsMember(u, t) /\ RoleOf(u, t) = old
            /\ op = "remove" => RemoveMember(h, u, t)
<1> DEFINE Good(op, u, t, r, old) ==
            /\ op # "session" => t # None
            /\ op # "remove" => r # None
            /\ op \in {"update", "remove", "session"} <=> old # None
            /\ op # "create_user" => account[u] # "none"
            /\ op = "session" => InTable(u, r)
            /\ op = "sso" => r = "member" \/ InTable(u, r)
            /\ op \in {"update", "remove"} => IsMember(u, t) /\ RoleOf(u, t) = old
            /\ op = "remove" => RemoveMember(h, u, t)
<1>1. \A u \in Users, t \in Tenants : IsMember(u, t) =>
        RoleOf(u, t) \in RoleNames /\ account[u] # "none" /\ InTable(u, RoleOf(u, t))
  BY DEF MemberInv, MembershipTypeOK, IsMember, RoleOf, MemberRow, NewUsers, InTable
<1>2. None \notin RoleNames \cup Tenants /\ "admin" \in RoleNames /\ "member" \in RoleNames
  BY MembershipAssumption
<1>3. PICK u \in Users, t \in Tenants :
        \/ CreateTenant(h, u, t)
        \/ RemoveMember(h, u, t)
        \/ Login(h, u, t)
        \/ SwitchTenant(h, u, t)
        \/ SsoKnownUser(h, u, t)
        \/ SsoNewUser(h, u, t)
        \/ \E asked \in RoleNames :
             \/ CreateUser(h, u, t, asked)
             \/ AddMember(h, u, t, asked)
             \/ UpdateMemberRole(h, u, t, asked)
  BY DEF Requests
<1>4. CASE CreateTenant(h, u, t)
  <2>1. Begin(h, "create_tenant", u, t, "admin", None) /\ Good("create_tenant", u, t, "admin", None)
    BY <1>2, <1>4 DEF CreateTenant
  <2>2. "create_tenant" \in Ops
    BY DEF Ops
  <2> QED BY <1>2, <2>1, <2>2
<1>5. CASE RemoveMember(h, u, t)
  <2>1. Begin(h, "remove", u, t, None, RoleOf(u, t)) /\ Good("remove", u, t, None, RoleOf(u, t))
    BY <1>1, <1>2, <1>5 DEF RemoveMember
  <2>2. "remove" \in Ops /\ RoleOf(u, t) \in RoleNames
    BY <1>1, <1>5 DEF Ops, RemoveMember
  <2> QED BY <2>1, <2>2
<1>6. CASE Login(h, u, t)
  <2>1. IsMember(u, t)
    BY <1>6 DEF Login, LoginTenants
  <2>2. Begin(h, "session", u, None, RoleOf(u, t), RoleOf(u, t))
        /\ Good("session", u, None, RoleOf(u, t), RoleOf(u, t))
    BY <1>1, <1>2, <1>6, <2>1 DEF Login, OpensSession
  <2>3. "session" \in Ops /\ RoleOf(u, t) \in RoleNames
    BY <1>1, <2>1 DEF Ops
  <2> QED BY <2>2, <2>3
<1>7. CASE SwitchTenant(h, u, t)
  <2>1. IsMember(u, t)
    BY <1>7 DEF SwitchTenant
  <2>2. Begin(h, "session", u, None, RoleOf(u, t), RoleOf(u, t))
        /\ Good("session", u, None, RoleOf(u, t), RoleOf(u, t))
    BY <1>1, <1>2, <1>7, <2>1 DEF SwitchTenant, OpensSession
  <2>3. "session" \in Ops /\ RoleOf(u, t) \in RoleNames
    BY <1>1, <2>1 DEF Ops
  <2> QED BY <2>2, <2>3
<1>8. CASE SsoKnownUser(h, u, t)
  <2>1. CASE IsMember(u, t)
    <3>1. PICK s \in LoginTenants(u) : OpensSession(h, u, RoleOf(u, s))
      BY <1>8, <2>1 DEF SsoKnownUser
    <3>2. s \in Tenants /\ IsMember(u, s)
      BY <3>1 DEF LoginTenants
    <3>3. Begin(h, "session", u, None, RoleOf(u, s), RoleOf(u, s))
          /\ Good("session", u, None, RoleOf(u, s), RoleOf(u, s))
      BY <1>1, <1>2, <3>1, <3>2 DEF OpensSession
    <3>4. "session" \in Ops /\ RoleOf(u, s) \in RoleNames
      BY <1>1, <3>2 DEF Ops
    <3> QED BY <3>3, <3>4
  <2>2. CASE ~IsMember(u, t)
    <3>1. \A s \in LoginTenants(u) : s \in Tenants /\ IsMember(u, s)
      BY DEF LoginTenants
    <3>2. account[u] = "active" /\
          \E r \in {RoleOf(u, s) : s \in LoginTenants(u)} \cup {"member"} :
            Begin(h, "sso", u, t, r, None)
      BY <1>8, <2>2 DEF SsoKnownUser
    <3>3. PICK r \in {RoleOf(u, s) : s \in LoginTenants(u)} \cup {"member"} :
            Begin(h, "sso", u, t, r, None)
      BY <3>2
    <3>4. r \in RoleNames /\ (r = "member" \/ InTable(u, r))
      BY <1>1, <1>2, <3>1, <3>3
    <3>5. Good("sso", u, t, r, None)
      BY <1>2, <3>2, <3>4
    <3>6. "sso" \in Ops
      BY DEF Ops
    <3> QED BY <3>3, <3>4, <3>5, <3>6
  <2> QED BY <2>1, <2>2
<1>9. CASE SsoNewUser(h, u, t)
  <2>1. Begin(h, "create_user", u, t, "member", None) /\ Good("create_user", u, t, "member", None)
    BY <1>2, <1>9 DEF SsoNewUser
  <2>2. "create_user" \in Ops
    BY DEF Ops
  <2> QED BY <1>2, <2>1, <2>2
<1>10. ASSUME NEW r \in RoleNames, CreateUser(h, u, t, r)
       PROVE  \E op \in Ops, old \in RoleNames \cup {None} :
                Begin(h, op, u, t, r, old) /\ Good(op, u, t, r, old)
  <2>1. Begin(h, "create_user", u, t, r, None) /\ Good("create_user", u, t, r, None)
    BY <1>2, <1>10 DEF CreateUser
  <2>2. "create_user" \in Ops
    BY DEF Ops
  <2> QED BY <2>1, <2>2
<1>11. ASSUME NEW r \in RoleNames, AddMember(h, u, t, r)
       PROVE  \E op \in Ops, old \in RoleNames \cup {None} :
                Begin(h, op, u, t, r, old) /\ Good(op, u, t, r, old)
  <2>1. Begin(h, "add", u, t, r, None) /\ Good("add", u, t, r, None)
    BY <1>2, <1>11 DEF AddMember
  <2>2. "add" \in Ops
    BY DEF Ops
  <2> QED BY <2>1, <2>2
<1>12. ASSUME NEW r \in RoleNames, UpdateMemberRole(h, u, t, r)
       PROVE  \E op \in Ops, old \in RoleNames \cup {None} :
                Begin(h, op, u, t, r, old) /\ Good(op, u, t, r, old)
  <2>1. Begin(h, "update", u, t, r, RoleOf(u, t)) /\ Good("update", u, t, r, RoleOf(u, t))
    BY <1>1, <1>2, <1>12 DEF UpdateMemberRole
  <2>2. "update" \in Ops /\ RoleOf(u, t) \in RoleNames
    BY <1>1, <1>12 DEF Ops, UpdateMemberRole
  <2> QED BY <2>1, <2>2
<1>13. CASE \E asked \in RoleNames :
             \/ CreateUser(h, u, t, asked)
             \/ AddMember(h, u, t, asked)
             \/ UpdateMemberRole(h, u, t, asked)
  <2>1. \E r \in RoleNames, op \in Ops, old \in RoleNames \cup {None} :
          Begin(h, op, u, t, r, old) /\ Good(op, u, t, r, old)
    BY <1>10, <1>11, <1>12, <1>13
  <2> QED BY <2>1
<1> QED BY <1>3, <1>4, <1>5, <1>6, <1>7, <1>8, <1>9, <1>13

LEMMA MemberInvStep == MemberInv /\ [MembershipNext]_memberVars => MemberInv'
<1> SUFFICES ASSUME MemberInv, [MembershipNext]_memberVars PROVE MemberInv'
  OBVIOUS
<1>0. MembershipTypeOK
  BY DEF MemberInv
<1>1. CASE UNCHANGED memberVars
  BY <1>0, <1>1, EndKeeps DEF memberVars, MembershipTypeOK
<1>2. ASSUME NEW h \in Calls, Requests(h) PROVE MemberInv'
  <2>1. PICK op \in Ops, u \in Users, t \in Tenants \cup {None},
             r \in RoleNames \cup {None}, old \in RoleNames \cup {None} :
            /\ Begin(h, op, u, t, r, old)
            /\ op # "session" => t # None
            /\ op # "remove" => r # None
            /\ op \in {"update", "remove", "session"} <=> old # None
            /\ op # "create_user" => account[u] # "none"
    BY <1>2, RequestBegins
  <2> QED BY <2>1, BeginKeeps
<1>3. ASSUME NEW h \in Calls, Flush(h) PROVE MemberInv'
  BY <1>3, FlushKeeps
<1>4. ASSUME NEW h \in Calls, FlushRefused(h) \/ CommitFails(h) PROVE MemberInv'
  <2>1. UNCHANGED <<account, tenant, member, grant>> /\ call' = [call EXCEPT ![h] = NoCall]
    BY <1>4 DEF FlushRefused, CommitFails, Ends
  <2>2. call' \in [Calls -> Call] /\ \A g \in Calls : call'[g] = call[g] \/ call'[g] = NoCall
    BY <1>0, <2>1, NoCallOK DEF MembershipTypeOK
  <2> QED BY <1>0, <2>1, <2>2, EndKeeps DEF MembershipTypeOK
<1>5. ASSUME NEW h \in Calls, CommitRows(h) PROVE MemberInv'
  BY <1>5, CommitKeeps
<1>6. CASE StatusUpdates
  <2>1. UNCHANGED <<member, grant, call>>
    BY <1>6 DEF StatusUpdates, SetUserStatus, SetTenantStatus
  <2>2. /\ account' \in [Users -> Statuses] /\ tenant' \in [Tenants -> Statuses]
        /\ \A u \in Users : account'[u] = "none" <=> account[u] = "none"
    BY <1>0, <1>6 DEF StatusUpdates, SetUserStatus, SetTenantStatus, MembershipTypeOK, Statuses
  <2>3. MembershipTypeOK' /\ NewUsers' /\ OneDefault' /\ CallsShaped'
    BY <2>1, <2>2
       DEF MemberInv, MembershipTypeOK, NewUsers, OneDefault, IsMember, CallsShaped
  <2>4. \A h \in Calls : call[h].pc # "idle" => call[h].user \in Users
    BY DEF MemberInv, CallsShaped, CallShape
  <2>5. CallersKnown' /\ CommitsApart'
    BY <2>1, <2>2, <2>4 DEF MemberInv, CallersKnown, CommitsApart, CommitOK, IsMember
  <2> QED BY <2>3, <2>5 DEF MemberInv
<1>7. CASE Restart
  <2>1. call' \in [Calls -> Call] /\ \A g \in Calls : call'[g] = NoCall
    BY <1>7, NoCallOK DEF Restart
  <2>2. UNCHANGED <<account, tenant, member>> /\ grant' \subseteq Users \X RoleNames
    BY <1>7 DEF Restart
  <2> QED BY <2>1, <2>2, EndKeeps
<1> QED BY <1>1, <1>2, <1>3, <1>4, <1>5, <1>6, <1>7 DEF MembershipNext

\* Rows and requests stay in order whatever overlaps.
THEOREM MemberInvariance == MembershipSpec => []MemberInv
BY MemberInvInit, MemberInvStep, PTL DEF MembershipSpec

\* The tables keep their types.
THEOREM MembershipTyping == MembershipSpec => []MembershipTypeOK
<1>1. MemberInv => MembershipTypeOK
  BY DEF MemberInv
<1> QED BY <1>1, MemberInvariance, PTL

\* No user has two default tenants, so a login always finds one or none.
THEOREM DefaultTenantIsOne == MembershipSpec => []OneDefault
<1>1. MemberInv => OneDefault
  BY DEF MemberInv
<1> QED BY <1>1, MemberInvariance, PTL

----------------------------------------------------------------------------
(* CustomRoles.  RolesInv holds however the requests overlap: the name that *)
(* a session is about to commit is nobody else's, commits fail or not.     *)

RoleShape(q) ==
  IF q.pc = "idle" THEN q = NoRoleCall
  ELSE /\ q.rid \in RoleIds
       /\ q.op = "update" => q.new # None

RolesShaped == \A h \in RoleCalls : RoleShape(roleCall[h])

SameName(a, b) == a # None /\ b # None /\ a.home = b.home /\ a.name = b.name

RoleCommitOK(h) ==
  LET q == roleCall[h]
  IN q.pc = "commit" =>
       /\ q.new # None => ~NameTaken(q.new.home, q.new.name, {q.rid})
       /\ \A g \in RoleCalls \ {h} : roleCall[g].pc = "commit" =>
            roleCall[g].rid # q.rid /\ ~SameName(roleCall[g].new, q.new)

RoleCommitsApart == \A h \in RoleCalls : RoleCommitOK(h)

RolesInv == RolesTypeOK /\ RolesShaped /\ RoleCommitsApart /\ NamesUnique

LEMMA NoRoleCallOK ==
  NoRoleCall \in RoleCall /\ NoRoleCall.pc = "idle" /\ RoleShape(NoRoleCall)
BY DEF NoRoleCall, RoleCall, RoleShape

LEMMA RolesInvInit == RolesInit => RolesInv
<1> SUFFICES ASSUME NEW t \in Homes,
       role = [r \in RoleIds |-> None], system = {t} \X SystemNames, homes = {t},
       policy = SystemPolicies, roleCall = [h \in RoleCalls |-> NoRoleCall]
     PROVE RolesInv
  BY DEF RolesInit
<1>1. SystemPolicies \subseteq Names \X Perms
  BY RolesAssumption DEF SystemPolicies
<1>2. RolesTypeOK
  BY <1>1, NoRoleCallOK DEF RolesTypeOK
<1>3. RolesShaped /\ RoleCommitsApart /\ NamesUnique
  BY NoRoleCallOK DEF RolesShaped, RoleCommitsApart, RoleCommitOK, NamesUnique, RoleRows
<1> QED BY <1>2, <1>3 DEF RolesInv

LEMMA RoleBegins ==
  ASSUME RolesTypeOK, NEW h \in RoleCalls, NEW op \in {"create", "update", "delete"},
         NEW r \in RoleIds, NEW old \in Role \cup {None}, NEW new \in Role \cup {None},
         BeginRole(h, op, r, old, new)
  PROVE  /\ roleCall' \in [RoleCalls -> RoleCall]
         /\ roleCall'[h].pc = "flush" /\ roleCall'[h].op = op /\ roleCall'[h].rid = r
         /\ roleCall'[h].old = old /\ roleCall'[h].new = new
         /\ \A g \in RoleCalls \ {h} : roleCall'[g] = roleCall[g]
         /\ UNCHANGED <<role, system, homes, policy>>
<1>1. [pc |-> "flush", op |-> op, rid |-> r, old |-> old, new |-> new] \in RoleCall
  BY DEF RoleCall
<1> QED BY <1>1 DEF BeginRole, RolesTypeOK

\* The three requests, with the row that they read.
LEMMA RoleRequests ==
  ASSUME RolesTypeOK, NEW h \in RoleCalls, NEW r \in RoleIds,
         \/ \E t \in Homes, name \in Names, perms \in SUBSET Perms :
              CreateRole(h, r, t, name, perms) \/ UpdateRole(h, r, t, name, perms)
         \/ DeleteRole(h, r)
  PROVE  \E op \in {"create", "update", "delete"}, new \in Role \cup {None} :
           /\ BeginRole(h, op, r, role[r], new)
           /\ op = "update" => new # None
<1>1. \A t \in Homes, name \in Names, perms \in SUBSET Perms :
        [home |-> t, name |-> name, perms |-> perms] \in Role
  BY DEF Role
<1>2. CASE DeleteRole(h, r)
  BY <1>2 DEF DeleteRole
<1>3. CASE ~DeleteRole(h, r)
  <2>1. PICK t \in Homes, name \in Names, perms \in SUBSET Perms :
          CreateRole(h, r, t, name, perms) \/ UpdateRole(h, r, t, name, perms)
    BY <1>3
  <2>2. CASE CreateRole(h, r, t, name, perms)
    <3>1. role[r] = None /\ BeginRole(h, "create", r, None,
                                      [home |-> t, name |-> name, perms |-> perms])
      BY <2>2 DEF CreateRole
    <3> QED BY <1>1, <3>1
  <2>3. CASE UpdateRole(h, r, t, name, perms)
    <3>1. BeginRole(h, "update", r, role[r],
                    [home |-> role[r].home, name |-> name, perms |-> perms])
      BY <2>3 DEF UpdateRole
    <3>2. role[r].home \in Homes
      BY <2>3 DEF UpdateRole, RoleRows, RolesTypeOK, Role
    <3>3. PICK new \in Role : new = [home |-> role[r].home, name |-> name, perms |-> perms]
      BY <1>1, <3>2
    <3> QED BY <3>1, <3>3, RolesAssumption
  <2> QED BY <2>1, <2>2, <2>3
<1> QED BY <1>2, <1>3

\* Requests that end without a commit, or whose process dies.
LEMMA RoleEnds ==
  ASSUME RolesInv, role' = role, system' = system, RolesTypeOK',
         \A g \in RoleCalls : roleCall'[g] = roleCall[g] \/ roleCall'[g] = NoRoleCall
  PROVE  RolesInv'
<1>1. NamesUnique' /\ RolesShaped'
  BY NoRoleCallOK DEF RolesInv, NamesUnique, RoleRows, RolesShaped
<1>2. \A g \in RoleCalls : roleCall'[g].pc = "commit" => roleCall'[g] = roleCall[g]
  BY NoRoleCallOK
<1>3. RoleCommitsApart'
  BY <1>2 DEF RolesInv, RoleCommitsApart, RoleCommitOK, NameTaken, RoleRows
<1> QED BY <1>1, <1>3 DEF RolesInv

LEMMA RoleFlushSets ==
  ASSUME RolesInv, NEW h \in RoleCalls, FlushRole(h)
  PROVE  /\ roleCall' \in [RoleCalls -> RoleCall]
         /\ roleCall'[h].pc = "commit" /\ roleCall'[h].op = roleCall[h].op
         /\ roleCall'[h].rid = roleCall[h].rid /\ roleCall'[h].old = roleCall[h].old
         /\ roleCall'[h].new = roleCall[h].new
         /\ \A g \in RoleCalls \ {h} : roleCall'[g] = roleCall[g]
         /\ PolicyAfter(roleCall[h]) \subseteq Names \X Perms
<1>1. roleCall[h] \in RoleCall
  BY DEF RolesInv, RolesTypeOK
<1>2. PICK q \in RoleCall : q = [roleCall[h] EXCEPT !.pc = "commit"]
  BY <1>1 DEF RoleCall
<1>3. /\ q.pc = "commit" /\ q.op = roleCall[h].op /\ q.rid = roleCall[h].rid
      /\ q.old = roleCall[h].old /\ q.new = roleCall[h].new
  BY <1>1, <1>2 DEF RoleCall
<1>4. roleCall' = [roleCall EXCEPT ![h] = q]
  BY <1>2 DEF FlushRole
<1>5. roleCall' \in [RoleCalls -> RoleCall] /\ roleCall'[h] = q
      /\ \A g \in RoleCalls \ {h} : roleCall'[g] = roleCall[g]
  BY <1>4 DEF RolesInv, RolesTypeOK
<1>6. roleCall[h].new # None => PoliciesOf(roleCall[h].new) \subseteq Names \X Perms
  BY <1>1 DEF RoleCall, Role, PoliciesOf
<1>7. PolicyAfter(roleCall[h]) \subseteq Names \X Perms
  BY <1>6 DEF PolicyAfter, RolesInv, RolesTypeOK
<1> QED BY <1>3, <1>5, <1>7

LEMMA RolesInvStep == RolesInv /\ [RolesNext]_roleVars => RolesInv'
<1> SUFFICES ASSUME RolesInv, [RolesNext]_roleVars PROVE RolesInv'
  OBVIOUS
<1>0. RolesTypeOK /\ RolesShaped /\ RoleCommitsApart /\ NamesUnique
  BY DEF RolesInv
<1>1. CASE UNCHANGED roleVars
  BY <1>0, <1>1, RoleEnds DEF roleVars, RolesTypeOK
<1>2. ASSUME NEW h \in RoleCalls, NEW r \in RoleIds,
         \/ \E t \in Homes, name \in Names, perms \in SUBSET Perms :
              CreateRole(h, r, t, name, perms) \/ UpdateRole(h, r, t, name, perms)
         \/ DeleteRole(h, r)
      PROVE  RolesInv'
  <2>1. PICK op \in {"create", "update", "delete"}, new \in Role \cup {None} :
           BeginRole(h, op, r, role[r], new) /\ (op = "update" => new # None)
    BY <1>0, <1>2, RoleRequests
  <2>2. role[r] \in Role \cup {None}
    BY <1>0 DEF RolesTypeOK
  <2>3. /\ roleCall' \in [RoleCalls -> RoleCall]
        /\ roleCall'[h].pc = "flush" /\ roleCall'[h].op = op /\ roleCall'[h].rid = r
        /\ roleCall'[h].new = new
        /\ \A g \in RoleCalls \ {h} : roleCall'[g] = roleCall[g]
        /\ UNCHANGED <<role, system, homes, policy>>
    BY <1>0, <2>1, <2>2, RoleBegins
  <2>4. RolesTypeOK' /\ NamesUnique'
    BY <1>0, <2>3 DEF RolesTypeOK, NamesUnique, RoleRows
  <2>5. RolesShaped'
    BY <1>0, <2>1, <2>3 DEF RolesShaped, RoleShape
  <2>6. \A g \in RoleCalls : roleCall'[g].pc = "commit" => roleCall'[g] = roleCall[g]
    BY <2>3
  <2>7. RoleCommitsApart'
    BY <1>0, <2>3, <2>6 DEF RoleCommitsApart, RoleCommitOK, NameTaken, RoleRows
  <2> QED BY <2>4, <2>5, <2>7 DEF RolesInv
<1>3. ASSUME NEW h \in RoleCalls, FlushRole(h) PROVE RolesInv'
  <2>1. /\ roleCall' \in [RoleCalls -> RoleCall]
        /\ roleCall'[h].pc = "commit" /\ roleCall'[h].op = roleCall[h].op
        /\ roleCall'[h].rid = roleCall[h].rid /\ roleCall'[h].new = roleCall[h].new
        /\ \A g \in RoleCalls \ {h} : roleCall'[g] = roleCall[g]
        /\ PolicyAfter(roleCall[h]) \subseteq Names \X Perms
    BY <1>3, RoleFlushSets
  <2>2. UNCHANGED <<role, system, homes>> /\ policy' = PolicyAfter(roleCall[h])
        /\ roleCall[h].pc = "flush" /\ ~RoleWaits(h) /\ ~RoleRefused(roleCall[h])
    BY <1>3 DEF FlushRole
  <2>3. RolesTypeOK' /\ NamesUnique'
    BY <1>0, <2>1, <2>2 DEF RolesTypeOK, NamesUnique, RoleRows
  <2>4. RolesShaped'
    BY <1>0, <2>1, <2>2 DEF RolesShaped, RoleShape
  <2>5. \A g \in RoleCalls \ {h} : roleCall[g].pc = "commit" =>
            roleCall[g].rid # roleCall[h].rid /\ ~SameName(roleCall[g].new, roleCall[h].new)
    BY <2>2 DEF RoleWaits, SameName
  <2>6. roleCall[h].new # None => ~NameTaken(roleCall[h].new.home, roleCall[h].new.name,
                                             {roleCall[h].rid})
    BY <2>2 DEF RoleRefused
  <2>7. RoleCommitOK(h)'
    BY <2>1, <2>2, <2>5, <2>6 DEF RoleCommitOK, NameTaken, RoleRows
  <2>8. ASSUME NEW g \in RoleCalls \ {h} PROVE RoleCommitOK(g)'
    BY <1>0, <2>1, <2>2, <2>5 DEF RoleCommitsApart, RoleCommitOK, NameTaken, RoleRows, SameName
  <2> QED BY <2>3, <2>4, <2>7, <2>8 DEF RolesInv, RoleCommitsApart
<1>4. ASSUME NEW h \in RoleCalls, FlushRoleRefused(h) PROVE RolesInv'
  <2>1. UNCHANGED <<role, system, homes, policy>>
        /\ roleCall' = [roleCall EXCEPT ![h] = NoRoleCall]
    BY <1>4 DEF FlushRoleRefused, EndsRole
  <2>2. RolesTypeOK' /\ \A g \in RoleCalls : roleCall'[g] = roleCall[g] \/ roleCall'[g] = NoRoleCall
    BY <1>0, <2>1, NoRoleCallOK DEF RolesTypeOK
  <2> QED BY <2>1, <2>2, RoleEnds
<1>4a. ASSUME NEW h \in RoleCalls, CommitRoleFails(h) PROVE RolesInv'
  <2>1. UNCHANGED <<role, system, homes, policy>>
        /\ roleCall' = [roleCall EXCEPT ![h] = NoRoleCall]
    BY <1>4a DEF CommitRoleFails, EndsRole
  <2>2. RolesTypeOK' /\ \A g \in RoleCalls : roleCall'[g] = roleCall[g] \/ roleCall'[g] = NoRoleCall
    BY <1>0, <2>1, NoRoleCallOK DEF RolesTypeOK
  <2> QED BY <2>1, <2>2, RoleEnds
<1>5. ASSUME NEW h \in RoleCalls, CommitRole(h) PROVE RolesInv'
  <2>1. roleCall[h].pc = "commit" /\ roleCall[h] \in RoleCall
        /\ RoleShape(roleCall[h]) /\ RoleCommitOK(h)
    BY <1>0, <1>5 DEF CommitRole, RolesTypeOK, RolesShaped, RoleCommitsApart
  <2>2. PICK r \in RoleIds, new \in Role \cup {None} : r = roleCall[h].rid /\ new = roleCall[h].new
    BY <2>1 DEF RoleShape, RoleCall
  <2>3. /\ role' \in [RoleIds -> Role \cup {None}] /\ role'[r] = new
        /\ \A s \in RoleIds \ {r} : role'[s] = role[s]
        /\ UNCHANGED <<system, homes, policy>>
        /\ roleCall' = [roleCall EXCEPT ![h] = NoRoleCall]
    BY <1>0, <1>5, <2>2 DEF CommitRole, RolesTypeOK, EndsRole
  <2>4. RolesTypeOK' /\ roleCall'[h] = NoRoleCall
        /\ \A g \in RoleCalls \ {h} : roleCall'[g] = roleCall[g]
    BY <1>0, <2>3, NoRoleCallOK DEF RolesTypeOK
  <2>5. RolesShaped'
    BY <1>0, <2>4, NoRoleCallOK DEF RolesShaped
  <2>6. new # None => ~NameTaken(new.home, new.name, {r})
    BY <2>1, <2>2 DEF RoleCommitOK
  <2>7. NamesUnique'
    BY <1>0, <2>3, <2>6 DEF NamesUnique, NameTaken, RoleRows
  <2>8. ASSUME NEW g \in RoleCalls, roleCall'[g].pc = "commit" PROVE RoleCommitOK(g)'
    <3>1. g # h /\ roleCall'[g] = roleCall[g] /\ RoleCommitOK(g)
      BY <1>0, <2>4, <2>8, NoRoleCallOK DEF RoleCommitsApart
    <3>2. \A k \in RoleCalls : roleCall'[k].pc = "commit" => roleCall'[k] = roleCall[k]
      BY <2>4, NoRoleCallOK
    <3>3. roleCall[g].rid # r /\ ~SameName(roleCall[g].new, new)
      BY <2>1, <2>2, <2>8, <3>1 DEF RoleCommitOK
    <3>4. roleCall[g].new # None =>
            ~NameTaken(roleCall[g].new.home, roleCall[g].new.name, {roleCall[g].rid})'
      BY <2>3, <2>8, <3>1, <3>3 DEF RoleCommitOK, NameTaken, RoleRows, SameName
    <3> QED BY <3>1, <3>2, <3>4 DEF RoleCommitOK
  <2> QED BY <2>4, <2>5, <2>7, <2>8 DEF RolesInv, RoleCommitsApart, RoleCommitOK
<1>6. ASSUME NEW t \in Homes, NewHome(t) PROVE RolesInv'
  BY <1>0, <1>6, RoleEnds DEF NewHome, RolesTypeOK
<1>7. CASE RestartRoles
  <2>1. /\ \A g \in RoleCalls : roleCall'[g] = NoRoleCall
        /\ roleCall' \in [RoleCalls -> RoleCall]
        /\ UNCHANGED <<role, homes>>
    BY <1>7, NoRoleCallOK DEF RestartRoles
  <2>2. \A s \in system' : \/ s \in system
                           \/ /\ s \in homes \X SystemNames
                              /\ \A r \in RoleRows : role[r].home # s[1] \/ role[r].name # s[2]
    BY <1>7 DEF RestartRoles
  <2>3. \A r \in RoleRows : PoliciesOf(role[r]) \subseteq Names \X Perms
    BY <1>0 DEF RolesTypeOK, RoleRows, PoliciesOf, Role
  <2>4. policy' \subseteq Names \X Perms
    BY <1>7, <2>3, RolesAssumption DEF RestartRoles, SystemPolicies
  <2>5. RolesTypeOK'
    BY <1>0, <2>1, <2>2, <2>4 DEF RolesTypeOK
  <2>6. NamesUnique'
    BY <1>0, <2>1, <2>2 DEF NamesUnique, RoleRows
  <2>7. RolesShaped' /\ RoleCommitsApart'
    BY <2>1, NoRoleCallOK DEF RolesShaped, RoleCommitsApart, RoleCommitOK
  <2> QED BY <2>5, <2>6, <2>7 DEF RolesInv
<1> QED BY <1>1, <1>2, <1>3, <1>4, <1>4a, <1>5, <1>6, <1>7 DEF RolesNext

\* Roles and requests stay in order whatever overlaps.
THEOREM RolesInvariance == RolesSpec => []RolesInv
BY RolesInvInit, RolesInvStep, PTL DEF RolesSpec

\* The tables keep their types.
THEOREM RolesTyping == RolesSpec => []RolesTypeOK
<1>1. RolesInv => RolesTypeOK
  BY DEF RolesInv
<1> QED BY <1>1, RolesInvariance, PTL

\* A name means one role in a tenant, whatever overlaps.
THEOREM RoleNamesUnique == RolesSpec => []NamesUnique
<1>1. RolesInv => NamesUnique
  BY DEF RolesInv
<1> QED BY <1>1, RolesInvariance, PTL
=============================================================================
