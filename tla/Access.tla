------------------------------- MODULE Access -------------------------------
(***************************************************************************)
(* Accounts and sessions (internal/auth/service.go and middleware.go,      *)
(* internal/database/users.go, internal/api/users.go): rows of users and   *)
(* refresh_tokens, the cache of verified Basic credentials, clients that   *)
(* log in, refresh and authenticate, and administrators who change         *)
(* accounts while they do.                                                 *)
(*                                                                         *)
(* A step is one statement or one critical section of the cache.  A        *)
(* password is its generation; a refresh token remembers the generation    *)
(* its session was established under.  Permissions, scope and quota are    *)
(* one bit, whether the account is narrowed.  An access token needs no     *)
(* state: Bearer re-reads the row.  An account that is deleted and created *)
(* again is the same member of Accounts with another password.             *)
(*                                                                         *)
(* A client that is under way while an administrator changes its account   *)
(* is marked, since what it read may be old when it writes, and so is what *)
(* it writes; marked is also what a change that was cut short left behind. *)
(* A credential remembered before handleCreateUser wrote the profile is    *)
(* older.  Both are history: no step reads them.                           *)
(***************************************************************************)
EXTENDS Integers, FiniteSets

CONSTANTS Accounts,    \* accounts
          Founder,     \* the administrator of the first set-up
          Clients,     \* logins, refreshes, WebDAV requests
          Admins,      \* requests of the user administration
          MaxTokens,   \* bound: sessions at a time
          CacheLimit,  \* verified credentials above which the cache starts over
          MaxSecret    \* bound: generations of a password

ASSUME FounderAssumption == IsFiniteSet(Accounts) /\ Founder \in Accounts

VARIABLES account,   \* users: there, enabled, admin, narrowed, secret
          token,     \* rows of refresh_tokens that are not revoked: user, secret, marked
          verified,  \* verifyCache: user, secret, snapshot of the row, marked, older
          client,    \* what each client is in the middle of
          admin      \* what each administrator's request is in the middle of

accessVars == <<account, token, verified, client, admin>>

Absent == [there |-> FALSE, enabled |-> FALSE, admin |-> FALSE, narrowed |-> FALSE, secret |-> 0]
NoToken == [user |-> "none", secret |-> 0, marked |-> FALSE]
AtRest == [pc |-> "idle"]
Tokens == 1..MaxTokens
Live(t) == token[t] # NoToken
Marked(k) == [k EXCEPT !.marked = TRUE]

\* Numbers for new tokens: not those of tokens that a client still refers to.
Free == {t \in Tokens : ~Live(t)}
          \ {client[c].token : c \in {d \in Clients : client[d].pc \in {"whose", "rotate"}}}

AccessInit ==
  /\ account = [u \in Accounts |->
       IF u = Founder THEN [Absent EXCEPT !.there = TRUE, !.enabled = TRUE, !.admin = TRUE, !.secret = 1]
       ELSE Absent]
  /\ token = [t \in Tokens |-> NoToken]
  /\ verified = {}
  /\ client = [c \in Clients |-> AtRest] /\ admin = [a \in Admins |-> AtRest]

Go(c, step) == client' = [client EXCEPT ![c] = step]
Proceed(a, step) == admin' = [admin EXCEPT ![a] = step]

(***************************************************************************)
(* Clients.                                                                *)
(***************************************************************************)
\* authenticate with an access token: the account is read again.
Bearer(u) == account[u].there /\ account[u].enabled

\* VerifyBasic's first step: what the cache answers.
Cached(u) == {e.row : e \in {v \in verified : v.user = u}}

\* Login and VerifyBasic read the row and check the password and the flag; the
\* password they are given is any one the account ever had.
Verify(c, u, secret, kind) ==
  /\ client[c] = AtRest
  /\ account[u].there /\ account[u].secret = secret /\ account[u].enabled
  /\ kind = "basic" => ~\E v \in verified : v.user = u /\ v.secret = secret
  /\ Go(c, [pc |-> kind, user |-> u, secret |-> secret, marked |-> FALSE,
            row |-> IF kind = "basic" THEN account[u] ELSE Absent])
  /\ UNCHANGED <<account, token, verified, admin>>

\* verifyCache.put.
CachePut(c) ==
  LET o == client[c]
  IN  /\ o.pc = "basic"
      /\ verified' = (IF Cardinality(verified) > CacheLimit THEN {}
                      ELSE {v \in verified : v.user # o.user \/ v.secret # o.secret})
                       \cup {[user |-> o.user, secret |-> o.secret, row |-> o.row, marked |-> o.marked,
                             older |-> FALSE]}
      /\ Go(c, AtRest)
      /\ UNCHANGED <<account, token, admin>>

\* An entry reaches the end of its five minutes.
CacheExpires(v) ==
  /\ v \in verified /\ verified' = verified \ {v}
  /\ UNCHANGED <<account, token, client, admin>>

\* issue: the foreign key refuses a token of a deleted account.
Issue(c) ==
  LET o == client[c]
      t == CHOOSE t \in Free : \A s \in Free : t <= s
  IN  /\ o.pc \in {"login", "issue"}
      /\ Go(c, AtRest)
      /\ IF account[o.user].there /\ Free # {}
         THEN token' = [token EXCEPT ![t] = [user |-> o.user, secret |-> o.secret, marked |-> o.marked]]
         ELSE UNCHANGED token
      /\ UNCHANGED <<account, verified, admin>>

\* Refresh: LookupRefreshToken, UserByID, RevokeRefreshToken, issue.
Refresh(c, t) ==
  /\ client[c] = AtRest /\ Live(t)
  /\ Go(c, [pc |-> "whose", user |-> token[t].user, token |-> t, secret |-> token[t].secret,
            marked |-> token[t].marked])
  /\ UNCHANGED <<account, token, verified, admin>>

\* A revoked row and a missing one are the same to LookupRefreshToken, so
\* PurgeExpiredTokens changes nothing here.
Revoked(S) == [t \in Tokens |-> IF t \in S THEN NoToken ELSE token[t]]
TokensOf(u) == {t \in Tokens : token[t].user = u}

RefreshUser(c) ==
  LET o == client[c]
  IN  /\ o.pc = "whose"
      /\ IF ~account[o.user].there THEN Go(c, AtRest) /\ UNCHANGED token
         ELSE IF ~account[o.user].enabled
              THEN Go(c, AtRest) /\ token' = Revoked(TokensOf(o.user))
              ELSE Go(c, [o EXCEPT !.pc = "rotate"]) /\ UNCHANGED token
      /\ UNCHANGED <<account, verified, admin>>

RefreshRotate(c) ==
  LET o == client[c]
  IN  /\ o.pc = "rotate"
      /\ token' = Revoked({o.token})
      /\ Go(c, [o EXCEPT !.pc = "issue"])
      /\ UNCHANGED <<account, verified, admin>>

\* Logout, RevokeSessionOf and the end of a token's lifetime.
Logout(t) ==
  /\ Live(t)
  /\ token' = Revoked({t})
  /\ UNCHANGED <<account, verified, client, admin>>

(***************************************************************************)
(* Administrators: RequireAuth and RequireAdmin read the caller's row, or  *)
(* take the cached one; the checks of the handler come next, then its      *)
(* statements.                                                             *)
(***************************************************************************)
CountAdmins == Cardinality({u \in Accounts : account[u].there /\ account[u].admin /\ account[u].enabled})

MayAdminister(who) ==
  \/ Bearer(who) /\ account[who].admin
  \/ \E r \in Cached(who) : r.admin

\* What the handlers check before they take an administrator away.
KeepsAnAdmin(u) == account[u].admin => CountAdmins > 1

\* Clients that have read something of account u are overtaken by a change.
Overtake(u) ==
  client' = [c \in Clients |-> IF client[c] = AtRest \/ client[c].user # u THEN client[c]
                                ELSE Marked(client[c])]

\* handleCreateUser: the row, then the profile, as two statements; no cached
\* credential is dropped behind the second, so that one remembered in between
\* is served with the permissions it was checked under.
CreateUser(a, who, u, asAdmin) ==
  /\ admin[a] = AtRest /\ MayAdminister(who) /\ ~account[u].there /\ account[u].secret < MaxSecret
  /\ account' = [account EXCEPT ![u] = [there |-> TRUE, enabled |-> TRUE, admin |-> asAdmin,
                                        narrowed |-> FALSE, secret |-> @.secret + 1]]
  /\ Proceed(a, [pc |-> "profile", user |-> u])
  /\ UNCHANGED <<token, verified, client>>

CreateProfile(a) ==
  LET u == admin[a].user
  IN  /\ admin[a].pc = "profile"
      /\ account' = IF account[u].there THEN [account EXCEPT ![u].narrowed = TRUE] ELSE account
      /\ verified' = {[v EXCEPT !.older = @ \/ v.user = u] : v \in verified}
      /\ Overtake(u)
      /\ Proceed(a, AtRest)
      /\ UNCHANGED <<token>>

\* The change itself, as the first statement of each handler makes it.
Changed(u, change) ==
  CASE change = "disable"  -> [account[u] EXCEPT !.enabled = FALSE]
    [] change = "enable"   -> [account[u] EXCEPT !.enabled = TRUE]
    [] change = "narrow"   -> [account[u] EXCEPT !.narrowed = TRUE]
    [] change = "widen"    -> [account[u] EXCEPT !.narrowed = FALSE]
    [] change = "promote"  -> [account[u] EXCEPT !.admin = TRUE]
    [] change = "demote"   -> [account[u] EXCEPT !.admin = FALSE]
    [] change = "password" -> [account[u] EXCEPT !.secret = @ + 1]
    [] change = "sessions" -> account[u]

\* What handleUpdateUser changes, and what the other handlers do.
Profile == {"disable", "enable", "narrow", "widen"}
Changes == Profile \cup {"promote", "demote", "password", "sessions"}

\* handleUpdateUser, handleSetUserRole, handleSetUserPassword, of one's own
\* handleChangeOwnPassword, and handleRevokeUserSessions, up to the checks.
Administer(a, who, u, change) ==
  /\ admin[a] = AtRest /\ account[u].there
  /\ \/ MayAdminister(who)
     \/ change = "password" /\ who = u /\ (Bearer(u) \/ Cached(u) # {})
  /\ change = "disable" => who # u
  /\ change \in {"disable", "demote"} => KeepsAnAdmin(u)
  /\ change = "password" => account[u].secret < MaxSecret
  /\ change # "sessions" => Changed(u, change) # account[u]
  /\ Proceed(a, [pc |-> "write", user |-> u, change |-> change])
  /\ UNCHANGED <<account, token, verified, client>>

\* The statement; the sessions of an account are ended first when that is all
\* the request is for.
WriteChange(a) ==
  LET o == admin[a]
  IN  /\ o.pc = "write"
      /\ IF account[o.user].there
         THEN /\ account' = [account EXCEPT ![o.user] = Changed(o.user, o.change)]
              /\ token' = IF o.change = "sessions" THEN Revoked(TokensOf(o.user)) ELSE token
              /\ Overtake(o.user)
              /\ Proceed(a, [o EXCEPT !.pc = "forget"])
         ELSE Proceed(a, AtRest) /\ UNCHANGED <<account, token, client>>
      /\ UNCHANGED <<verified>>

\* InvalidateUser.
ForgetUser(a) ==
  LET o == admin[a]
  IN  /\ o.pc = "forget"
      /\ verified' = {v \in verified : v.user # o.user}
      /\ Overtake(o.user)
      /\ Proceed(a, IF o.change \in Profile \cup {"password"} THEN [o EXCEPT !.pc = "revoke"] ELSE AtRest)
      /\ UNCHANGED <<account, token>>

RevokeUserTokens_None(a) ==
  /\ admin[a].pc = "revoke" /\ Proceed(a, AtRest)
  /\ UNCHANGED <<account, token, verified, client>>

\* RevokeUserTokens after a change of password, and after an update that finds
\* the account disabled.
RevokeUserTokens(a) ==
  LET o == admin[a]
  IN  /\ o.pc = "revoke"
      /\ token' = IF o.change = "password" \/ ~account[o.user].enabled
                  THEN Revoked(TokensOf(o.user)) ELSE token
      /\ Overtake(o.user)
      /\ Proceed(a, AtRest)
      /\ UNCHANGED <<account, verified>>

\* handleDeleteUser: the plugins (Plugins!RemoveAllForUser) may refuse; then the
\* row, with its tokens, and the cache.
DeleteUser(a, who, u) ==
  /\ admin[a] = AtRest /\ MayAdminister(who) /\ who # u /\ account[u].there /\ KeepsAnAdmin(u)
  /\ Proceed(a, [pc |-> "drop", user |-> u, change |-> "delete"])
  /\ UNCHANGED <<account, token, verified, client>>

DeleteUserRow(a) ==
  LET u == admin[a].user
  IN  /\ admin[a].pc = "drop"
      /\ account' = [account EXCEPT ![u] = [Absent EXCEPT !.secret = account[u].secret]]
      /\ token' = Revoked(TokensOf(u))
      /\ Overtake(u)
      /\ Proceed(a, [admin[a] EXCEPT !.pc = "forget"])
      /\ UNCHANGED <<verified>>

\* The administrator hangs up: the statements left in the request fail.  The
\* cache is dropped without a statement in handleUpdateUser and handleDeleteUser,
\* and only after one in the others.
HangsUp(a) ==
  LET o    == admin[a]
      done == o.pc \in {"forget", "revoke"}
  IN  /\ o # AtRest
      /\ verified' = IF o.pc = "forget" /\ o.change \in Profile \cup {"delete"}
                     THEN {v \in verified : v.user # o.user}
                     ELSE {[v EXCEPT !.marked = @ \/ (done /\ v.user = o.user)] : v \in verified}
      /\ token' = [t \in Tokens |-> IF done /\ t \in TokensOf(o.user) THEN Marked(token[t]) ELSE token[t]]
      /\ Overtake(o.user)
      /\ Proceed(a, AtRest)
      /\ UNCHANGED account

ClientStep(c) ==
  \/ \E u \in Accounts, s \in 1..MaxSecret, k \in {"login", "basic"} : Verify(c, u, s, k)
  \/ \E t \in Tokens : Refresh(c, t)
  \/ CachePut(c) \/ Issue(c) \/ RefreshUser(c) \/ RefreshRotate(c)

AdminStep(a) ==
  \/ \E who, u \in Accounts : \/ \E b \in BOOLEAN : CreateUser(a, who, u, b)
                              \/ \E change \in Changes : Administer(a, who, u, change)
                              \/ DeleteUser(a, who, u)
  \/ CreateProfile(a) \/ WriteChange(a) \/ ForgetUser(a) \/ RevokeUserTokens(a)
  \/ DeleteUserRow(a) \/ HangsUp(a)

AccessNext ==
  \/ \E c \in Clients : ClientStep(c)
  \/ \E a \in Admins : AdminStep(a)
  \/ \E t \in Tokens : Logout(t)
  \/ \E v \in verified : CacheExpires(v)

AccessSpec == AccessInit /\ [][AccessNext]_accessVars

-----------------------------------------------------------------------------
UnderChange(u) == \E a \in Admins : admin[a] # AtRest /\ admin[a].user = u

\* "Disabling an account has to end its sessions too", and a new password ends
\* those of the old one: once the change is through, a session belongs to an
\* enabled account and its password.  Exempt (marked) are a session whose login
\* or refresh was under way while the account was changed, and those of an
\* account whose change was cut short by an administrator who hung up.
SessionsEnd ==
  \A t \in Tokens :
    LET k == token[t]
    IN  (Live(t) /\ ~k.marked /\ ~UnderChange(k.user)) =>
          Bearer(k.user) /\ account[k.user].secret = k.secret

\* A remembered credential agrees with a row, an older one but for permissions.
Tells(v, row) == v.row = row \/ (v.older /\ [v.row EXCEPT !.narrowed = row.narrowed] = row)

\* A remembered Basic credential is what the row says: its password, role,
\* flag and permissions, after every change of the account.  Exempt are one
\* whose check was under way during a change or whose change was cut short
\* (marked), and, for the permissions only, one that was remembered before
\* handleCreateUser wrote the profile (older).
RememberedIsCurrent ==
  \A v \in verified : (~v.marked /\ ~UnderChange(v.user)) => Tells(v, account[v.user])

\* A change of an account takes effect on its sessions and on what is
\* remembered of its password (the two invariants above, with what they exempt).
AccessSound == SessionsEnd /\ RememberedIsCurrent

\* What comments of the code say and the code does not keep.

\* "A deployment with no usable administrator cannot be repaired from inside
\* the WebUI" (api/users.go:196): one always remains.  Two requests may each
\* count the other's administrator before either writes.
AdminRemains == CountAdmins > 0

\* "Cached Basic credentials carry the old permissions" (api/users.go:248) and
\* are dropped when these change: none whose check no change overtook carries
\* others than the row.  handleCreateUser drops nothing behind the profile.
PermissionsAreCurrent ==
  \A v \in verified :
    (~v.marked /\ ~UnderChange(v.user)) => v.row.narrowed = account[v.user].narrowed

\* A new password "ends every existing session for that account, because the
\* old sessions were established under the old secret" (auth/service.go:316).
\* A refresh that read its session before the change issues it again after.
PasswordEndsSessions ==
  \A t \in Tokens :
    (Live(t) /\ ~UnderChange(token[t].user)) => token[t].secret = account[token[t].user].secret
=============================================================================
