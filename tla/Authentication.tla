--------------------------- MODULE Authentication ---------------------------
(***************************************************************************)
(* BuiltinProvider, AuthMiddleware and the token side of SettingServiceImpl: *)
(* a login issues an access token (a JWT, refused once it is in the Redis  *)
(* blacklist or over) and a refresh token (a row, revoked when it is used). *)
(* Who may log in is Membership's question: here anyone may.  The clock    *)
(* counts half seconds, because tokens expire by whole ones.               *)
(***************************************************************************)
EXTENDS NoValue, Naturals, FiniteSets

CONSTANTS Tokens,     \* pairs of an access and a refresh token
          TokenCalls, \* refresh and logout requests at work at once
          AccessTtl,  \* seconds
          RefreshTtl, \* half seconds
          NaiveRows,  \* whether the driver reads expires_at without a zone
          MaxClock    \* bound: half seconds that pass

VARIABLES issued,     \* the pairs that were issued
          clock,
          blacklist,  \* until when Redis keeps the access token's key
          loggedOut,  \* access tokens that a logout revoked
          tokenCall

authVars == <<issued, clock, blacklist, loggedOut, tokenCall>>

ASSUME AuthAssumption ==
  /\ AccessTtl \in Nat
  /\ RefreshTtl \in Nat
  /\ NaiveRows \in BOOLEAN
  /\ MaxClock \in Nat
  /\ None \notin Tokens

\* exp is the access token's, expires and state are the refresh token's.
Pair == [exp : Nat, expires : Nat, state : {"live", "rotated", "revoked"}]

ASSUME NoneIsNoPair == None \notin Pair

TokenCall == [pc : {"idle", "rotate", "revoke"}, token : Tokens \cup {None}]

NoTokenCall == [pc |-> "idle", token |-> None]

AuthTypeOK ==
  /\ issued \in [Tokens -> Pair \cup {None}]
  /\ clock \in Nat
  /\ blacklist \in [Tokens -> Nat]
  /\ loggedOut \subseteq Tokens
  /\ tokenCall \in [TokenCalls -> TokenCall]

----------------------------------------------------------------------------

Issued(x) == issued[x] # None

Second(c) == c \div 2

IsLive(x) == Issued(x) /\ issued[x].state = "live"

\* is_valid compares with utcnow(), which has no zone: a time with a zone
\* raises TypeError, and the request fails as for a token that is over.
IsValid(x) == IsLive(x) /\ NaiveRows /\ clock < issued[x].expires

NewPair ==
  [exp |-> Second(clock) + AccessTtl, expires |-> clock + RefreshTtl, state |-> "live"]

\* validate_token takes a token in the second it expires in; then the
\* middleware asks Redis.
Valid(x) == Issued(x) /\ Second(clock) <= issued[x].exp

IsRevoked(x) == clock < blacklist[x]

Accepted(x) == Valid(x) /\ ~IsRevoked(x)

BeginsWith(h, pc, x) ==
  /\ tokenCall[h] = NoTokenCall
  /\ tokenCall' = [tokenCall EXCEPT ![h] = [pc |-> pc, token |-> x]]

EndsToken(h) == tokenCall' = [tokenCall EXCEPT ![h] = NoTokenCall]

----------------------------------------------------------------------------

\* login, sso_callback and switch_tenant, which leaves the refresh token of
\* the tenant it left alone.
SignIn(x) ==
  /\ ~Issued(x)
  /\ issued' = [issued EXCEPT ![x] = NewPair]
  /\ UNCHANGED <<clock, blacklist, loggedOut, tokenCall>>

RefreshRead(h, x) ==
  /\ IsValid(x)
  /\ BeginsWith(h, "rotate", x)
  /\ UNCHANGED <<issued, clock, blacklist, loggedOut>>

\* The revocation and the new row are one transaction; the revocation does
\* not look at the state again, so two refreshes with one token both succeed.
RefreshCommit(h, y) ==
  /\ tokenCall[h].pc = "rotate"
  /\ ~Issued(y)
  /\ issued' = [issued EXCEPT ![tokenCall[h].token].state = "rotated",
                              ![y] = NewPair]
  /\ EndsToken(h)
  /\ UNCHANGED <<clock, blacklist, loggedOut>>

\* Variant: the key is kept for one second less.
RevokeTokenShort(x) ==
  LET ttl == issued[x].exp - Second(clock)
  IN IF ttl > 1
     THEN blacklist' = [blacklist EXCEPT ![x] = clock + 2 * (ttl - 1)]
     ELSE UNCHANGED blacklist

\* setex for the whole seconds that are left, and nothing when none are.
RevokeToken(x) ==
  LET ttl == issued[x].exp - Second(clock)
  IN IF ttl > 0
     THEN blacklist' = [blacklist EXCEPT ![x] = clock + 2 * ttl]
     ELSE UNCHANGED blacklist

\* The middleware lets the request in.  The refresh cookie's path keeps a
\* browser from sending it here, and without it the logout is over; other
\* clients send it.
Logout(h, x) ==
  /\ Accepted(x)
  /\ RevokeToken(x)
  /\ loggedOut' = loggedOut \cup {x}
  /\ UNCHANGED tokenCall \/ BeginsWith(h, "revoke", x)
  /\ UNCHANGED <<issued, clock>>

\* A token that was rotated before is as dead as it was.
LogoutCommit(h) ==
  /\ tokenCall[h].pc = "revoke"
  /\ issued' = [issued EXCEPT ![tokenCall[h].token].state =
                  IF @ = "live" THEN "revoked" ELSE @]
  /\ EndsToken(h)
  /\ UNCHANGED <<clock, blacklist, loggedOut>>

\* The request dies or its commit fails: its transaction is rolled back.
TokenCallDies(h) ==
  /\ tokenCall[h] # NoTokenCall
  /\ EndsToken(h)
  /\ UNCHANGED <<issued, clock, blacklist, loggedOut>>

Tick ==
  /\ clock < MaxClock
  /\ clock' = clock + 1
  /\ UNCHANGED <<issued, blacklist, loggedOut, tokenCall>>

AuthInit ==
  /\ issued = [x \in Tokens |-> None]
  /\ clock = 0
  /\ blacklist = [x \in Tokens |-> 0]
  /\ loggedOut = {}
  /\ tokenCall = [h \in TokenCalls |-> NoTokenCall]

AuthNext ==
  \/ \E x \in Tokens : SignIn(x)
  \/ \E h \in TokenCalls :
       \/ \E x \in Tokens : RefreshRead(h, x) \/ RefreshCommit(h, x) \/ Logout(h, x)
       \/ LogoutCommit(h)
       \/ TokenCallDies(h)
  \/ Tick

AuthSpec == AuthInit /\ [][AuthNext]_authVars

----------------------------------------------------------------------------

\* An access token that was logged out is refused in every second before the
\* one it expires in: the blacklist's key, set for whole seconds and read in
\* fractions of them, outlives those.
RevokedRefused ==
  \A x \in loggedOut : Second(clock) < issued[x].exp => ~Accepted(x)
=============================================================================
