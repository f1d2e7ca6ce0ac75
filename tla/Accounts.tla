------------------------------ MODULE Accounts ------------------------------
(***************************************************************************)
(* Accounts, refresh tokens and user administration: internal/application/ *)
(* auth/service.go and user/service.go over the user repository.           *)
(*                                                                         *)
(* Every repository call is a step of its own, so requests interleave      *)
(* between a check and the write it guards.  A session is named by the     *)
(* token its login issued, and every token rotated out of it carries that  *)
(* name (SessionStartedAt).  A password is its version number.  Time is    *)
(* not counted: whenever it is read a token may turn out expired, and its  *)
(* session past the absolute cap.  Requests that change nothing (a wrong   *)
(* password, an unknown token) are left out.                               *)
(***************************************************************************)
EXTENDS Naturals

CONSTANTS
  Users,            \* accounts that exist or may be created
  Followed,         \* bound: those whose logins and passwords are followed
  Requests,         \* requests in flight at once
  Tokens,           \* refresh tokens that may ever be issued
  NoToken,
  InitialRole,      \* accounts at start-up; seedAdminUser sees to one administrator
  MaxChanges,       \* bound on password changes
  DBMayFail         \* may a repository call return an error?

ASSUME AccountConstants ==
  /\ Followed \subseteq Users
  /\ NoToken \notin Tokens
  /\ InitialRole \in [Users -> {"none", "admin", "pentester"}]
  /\ \E u \in Users : InitialRole[u] = "admin"
  /\ MaxChanges \in Nat
  /\ DBMayFail \in BOOLEAN

VARIABLES
  role,      \* of each account; "none" before it exists, "gone" once deleted
  password,  \* version of each account's password
  changes,   \* password versions handed out
  tokens,    \* the refresh_tokens table
  req,       \* the requests in flight
  raced,     \* history: sessions with a token presented by two requests at once
  purged,    \* history: sessions that existed when their account was revoked
  unrevoked, \* history: accounts whose password changed and whose revocation failed
  outrun     \* history: removals past their count when the administrators changed

accounts == <<role, password, changes>>
history  == <<raced, purged, unrevoked, outrun>>
vars == <<accounts, tokens, req, history>>

(* Mutant: the requested role is not validated. *)
AnyRole == {"admin", "pentester", "owner"}

NewRoles == {"admin", "pentester"}

Present(u) == role[u] \in {"admin", "pentester"}

Absent == [status |-> "absent"]
Idle   == [pc |-> "idle"]

Init ==
  /\ role = InitialRole
  /\ password = [u \in Users |-> 0]
  /\ changes = 0
  /\ tokens = [t \in Tokens |-> Absent]
  /\ req = [r \in Requests |-> Idle]
  /\ raced = {}
  /\ purged = {}
  /\ unrevoked = {}
  /\ outrun = {}

-----------------------------------------------------------------------------
(* Requests.                                                               *)

(* A request that will issue a token holds what the token is made of, and  *)
(* whether a revocation has overtaken it; any other holds its account.     *)
Issuing(kind, pc, u) ==
  [kind |-> kind, pc |-> pc, user |-> u, token |-> NoToken,
   session |-> NoToken, pw |-> password[u], late |-> FALSE]

Acting(kind, pc, u) == [kind |-> kind, pc |-> pc, user |-> u]

Begin(r, request) ==
  /\ req[r].pc = "idle"
  /\ req' = [req EXCEPT ![r] = request]

At(r, pc) == req[r].pc = pc

Goto(r, pc) == req' = [req EXCEPT ![r].pc = pc]

Finish(r) == req' = [req EXCEPT ![r] = Idle]

(* A repository error ends the request with nothing written. *)
Fails(r) == DBMayFail /\ Finish(r)

-----------------------------------------------------------------------------
(* Revocation.                                                             *)

Issued(t) == tokens[t].status # "absent"

Of(t, u) == Issued(t) /\ tokens[t].user = u

Live(t) == tokens[t].status = "live"

(* Mutant: only the tokens issued by a login are revoked. *)
RevokedAtLogin(u) ==
  [t \in Tokens |->
     IF Of(t, u) /\ Live(t) /\ tokens[t].session = t
     THEN [tokens[t] EXCEPT !.status = "revoked"] ELSE tokens[t]]

(* RevokeUserRefreshTokens *)
Revoked(u) ==
  [t \in Tokens |->
     IF Of(t, u) /\ Live(t)
     THEN [tokens[t] EXCEPT !.status = "revoked"] ELSE tokens[t]]

SessionsOf(u) == {tokens[t].session : t \in {x \in Tokens : Of(x, u)}}

IsIssuing(q) ==
  req[q].pc # "idle" /\ req[q].kind \in {"login", "refresh", "change"}

(* History: the other requests in flight that will issue a token of u. *)
Overtaken(u, r) ==
  [q \in Requests |->
     IF q # r /\ IsIssuing(q)
     THEN [req[q] EXCEPT !.late = @ \/ req[q].user = u]
     ELSE req[q]]

(* The tokens of u are revoked by request r, which becomes `after`.  This  *)
(* makes up for an earlier failure, unless r itself goes on to issue a     *)
(* token for a password that has been replaced since.                      *)
RevokeAll(u, r, after) ==
  /\ tokens' = Revoked(u)
  /\ req' = [Overtaken(u, r) EXCEPT ![r] = after]
  /\ purged' = purged \cup SessionsOf(u)
  /\ unrevoked' = IF after.pc = "issue" /\ req[r].pw # password[u]
                  THEN unrevoked ELSE unrevoked \ {u}
  /\ UNCHANGED <<accounts, raced, outrun>>

-----------------------------------------------------------------------------
(* Sessions: Register, Login, RefreshToken, Logout.                        *)

(* Create, whose unique index decides between two registrations. *)
Register(r, u) ==
  /\ role[u] = "none"
  /\ role' = [role EXCEPT ![u] = "pentester"]
  /\ Begin(r, Issuing("login", "issue", u))
  /\ UNCHANGED <<password, changes, tokens, history>>

(* The right password for the record read. *)
Login(r, u) ==
  /\ Present(u)
  /\ Begin(r, Issuing("login", "issue", u))
  /\ UNCHANGED <<accounts, tokens, history>>

Presenting(t) ==
  {q \in Requests : /\ req[q].pc \in {"load", "rotate"}
                    /\ req[q].token = t}

(* FindRefreshTokenByHash and the three checks of the record it returns: a *)
(* revoked token and a session past its cap revoke everything, an expired  *)
(* token only itself.                                                      *)
RefreshRead(r, t) ==
  /\ tokens[t].status \in {"live", "revoked"}
  /\ \/ Begin(r, Acting("purge", "purge", tokens[t].user)) /\ UNCHANGED raced
     \/ /\ Live(t)
        /\ Begin(r, [kind |-> "retire", pc |-> "retire", token |-> t])
        /\ UNCHANGED raced
     \/ /\ Live(t)
        /\ Begin(r, [kind |-> "refresh", pc |-> "load", user |-> tokens[t].user,
                     token |-> t, session |-> tokens[t].session,
                     pw |-> tokens[t].pw, late |-> tokens[t].late])
        /\ raced' = IF Presenting(t) # {} THEN raced \cup {tokens[t].session}
                                         ELSE raced
  /\ UNCHANGED <<accounts, tokens, purged, unrevoked, outrun>>

RefreshPurge(r) ==
  /\ At(r, "purge")
  /\ \/ RevokeAll(req[r].user, r, Idle)
     \/ Fails(r) /\ UNCHANGED <<accounts, tokens, history>>

(* RevokeRefreshToken: only if the row is there and not yet revoked. *)
RevokeOne(t) ==
  tokens' = IF Live(t) THEN [tokens EXCEPT ![t].status = "revoked"]
                            ELSE tokens

RefreshRetire(r) ==
  /\ At(r, "retire")
  /\ RevokeOne(req[r].token) \/ (DBMayFail /\ UNCHANGED tokens)
  /\ Finish(r)
  /\ UNCHANGED <<accounts, history>>

(* FindByID *)
RefreshLoad(r) ==
  /\ At(r, "load")
  /\ IF Present(req[r].user)
     THEN Goto(r, "rotate") \/ Fails(r)
     ELSE Finish(r)
  /\ UNCHANGED <<accounts, tokens, history>>

(* Mutant: the presented token stays usable. *)
RotateKeeps(r) ==
  /\ At(r, "rotate")
  /\ req' = [req EXCEPT ![r].pc = "issue", ![r].token = NoToken]
  /\ UNCHANGED <<accounts, tokens, history>>

RefreshRotate(r) ==
  /\ At(r, "rotate")
  /\ \/ RevokeOne(req[r].token) /\ req' = [req EXCEPT ![r].pc = "issue",
                                                      ![r].token = NoToken]
     \/ Fails(r) /\ UNCHANGED tokens
  /\ UNCHANGED <<accounts, history>>

(* issueTokenPair: a fresh refresh token.  Nothing is asked of the account *)
(* again.                                                                  *)
Issue(r) ==
  /\ At(r, "issue")
  /\ \/ \E t \in Tokens :
          /\ ~ Issued(t)
          /\ tokens' = [tokens EXCEPT ![t] =
               [status  |-> "live", user |-> req[r].user, pw |-> req[r].pw,
                late    |-> req[r].late,
                session |-> IF req[r].session = NoToken THEN t ELSE req[r].session]]
          /\ Finish(r)
     \/ Fails(r) /\ UNCHANGED tokens
  /\ UNCHANGED <<accounts, history>>

(* The token presented with it is among those already revoked. *)
Logout(r, u) ==
  /\ req[r].pc = "idle"
  /\ RevokeAll(u, r, Idle)

-----------------------------------------------------------------------------
(* Passwords: ChangePassword and ResetPassword.                            *)

ChangeRead(r, u) ==
  /\ Present(u)
  /\ Begin(r, Issuing("change", "set", u))
  /\ UNCHANGED <<accounts, tokens, history>>

ResetRead(r, u) ==
  /\ Present(u)
  /\ Begin(r, Acting("reset", "set", u))
  /\ UNCHANGED <<accounts, tokens, history>>

(* What a request is once its password is set. *)
WithPassword(r, pc) ==
  IF req[r].kind = "change"
  THEN [req[r] EXCEPT !.pc = pc, !.pw = changes + 1]
  ELSE [req[r] EXCEPT !.pc = pc]

(* UPDATE ... WHERE id = ?, which is no error if the account is gone. *)
UpdatePassword(u) ==
  /\ changes < MaxChanges
  /\ changes' = changes + 1
  /\ password' = [password EXCEPT ![u] = IF Present(u) THEN changes + 1 ELSE @]

(* Mutant: a change goes straight on to its fresh session. *)
SetPasswordOnly(r) ==
  /\ At(r, "set")
  /\ UpdatePassword(req[r].user)
  /\ req' = [req EXCEPT ![r] =
       WithPassword(r, IF req[r].kind = "change" THEN "issue" ELSE "revoke")]
  /\ UNCHANGED <<role, tokens, history>>

SetPassword(r) ==
  /\ At(r, "set")
  /\ \/ /\ UpdatePassword(req[r].user)
        /\ req' = [req EXCEPT ![r] = WithPassword(r, "revoke")]
     \/ Fails(r) /\ UNCHANGED <<changes, password>>
  /\ UNCHANGED <<role, tokens, history>>

(* The sessions of the account are revoked after its password or role      *)
(* changed.  A change goes on to a fresh session for this device; its      *)
(* failure is an error, the others' is ignored.                            *)
RevokeAfterChange(r) ==
  /\ At(r, "revoke")
  /\ \/ RevokeAll(req[r].user, r,
          IF req[r].kind = "change" THEN [req[r] EXCEPT !.pc = "issue"] ELSE Idle)
     \/ /\ Fails(r)
        /\ unrevoked' = IF req[r].kind = "role" THEN unrevoked
                        ELSE unrevoked \cup {req[r].user}
        /\ UNCHANGED <<accounts, tokens, raced, purged, outrun>>

-----------------------------------------------------------------------------
(* Administration: Create, UpdateRole, Delete.  Whoever acts is known by   *)
(* the role in an access token, which outlives a change of the role: any   *)
(* other account may be it.                                                *)

Removals == {q \in Requests : /\ req[q].pc # "idle"
                              /\ req[q].kind \in {"role", "delete"}}

Admins == {a \in Users : role[a] = "admin"}

(* History: r writes its removal.  Where that changes who is an            *)
(* administrator, it outruns the others that are past their count.         *)
Outrun(r) ==
  outrun' = IF Admins' = Admins THEN outrun \ {r}
            ELSE {q \in Removals : At(q, "write")} \ {r}

CreateUser(u) ==
  /\ role[u] = "none"
  /\ \E new \in NewRoles : role' = [role EXCEPT ![u] = new]
  /\ UNCHANGED <<password, changes, tokens, req, history>>

RoleRead(r, a, u, new) ==
  /\ a # u
  /\ Present(u)
  /\ role[u] # new
  /\ Begin(r, [kind |-> "role", user |-> u, new |-> new,
               pc   |-> IF role[u] = "admin" THEN "count" ELSE "write"])
  /\ UNCHANGED <<accounts, tokens, history>>

DeleteRead(r, a, u) ==
  /\ a # u
  /\ Present(u)
  /\ Begin(r, Acting("delete", IF role[u] = "admin" THEN "count" ELSE "write", u))
  /\ UNCHANGED <<accounts, tokens, history>>

(* Mutant: the count may reach zero. *)
AnyAdmin == \E a \in Users : role[a] = "admin"

(* CountByRole(admin) > 1 *)
TwoAdmins == \E a, b \in Users : a # b /\ role[a] = "admin" /\ role[b] = "admin"

(* ensureNotLastAdmin *)
CountAdmins(r) ==
  /\ At(r, "count")
  /\ IF TwoAdmins THEN Goto(r, "write") \/ Fails(r) ELSE Finish(r)
  /\ UNCHANGED <<accounts, tokens, history>>

WriteRole(r) ==
  /\ At(r, "write")
  /\ req[r].kind = "role"
  /\ \/ /\ Present(req[r].user)
        /\ role' = [role EXCEPT ![req[r].user] = req[r].new]
        /\ Goto(r, "revoke")
     \/ /\ ~ Present(req[r].user) \/ DBMayFail
        /\ Finish(r)
        /\ UNCHANGED role
  /\ Outrun(r)
  /\ UNCHANGED <<password, changes, tokens, raced, purged, unrevoked>>

(* One transaction removes the tokens and the account. *)
DeleteUser(r) ==
  /\ At(r, "write")
  /\ req[r].kind = "delete"
  /\ LET u == req[r].user IN
       \/ /\ Present(u)
          /\ role' = [role EXCEPT ![u] = "gone"]
          /\ tokens' = [t \in Tokens |->
               IF Of(t, u) THEN [tokens[t] EXCEPT !.status = "deleted"] ELSE tokens[t]]
          /\ req' = [Overtaken(u, r) EXCEPT ![r] = Idle]
          /\ purged' = purged \cup SessionsOf(u)
       \/ /\ ~ Present(u) \/ DBMayFail
          /\ Finish(r)
          /\ UNCHANGED <<role, tokens, purged>>
  /\ Outrun(r)
  /\ UNCHANGED <<password, changes, raced, unrevoked>>

-----------------------------------------------------------------------------

Sessions(r) ==
  \/ \E u \in Followed : Register(r, u) \/ Login(r, u) \/ Logout(r, u)
  \/ \E t \in Tokens : RefreshRead(r, t)
  \/ RefreshPurge(r) \/ RefreshRetire(r) \/ RefreshLoad(r)
  \/ RefreshRotate(r) \/ Issue(r)

Passwords(r) ==
  \/ \E u \in Followed : ChangeRead(r, u) \/ ResetRead(r, u)
  \/ SetPassword(r) \/ RevokeAfterChange(r)

Administration(r) ==
  \/ \E u \in Users : CreateUser(u)
  \/ \E a, u \in Users :
       \/ DeleteRead(r, a, u)
       \/ \E new \in NewRoles : RoleRead(r, a, u, new)
  \/ CountAdmins(r) \/ WriteRole(r) \/ DeleteUser(r)

Next ==
  \E r \in Requests : Sessions(r) \/ Passwords(r) \/ Administration(r)

Spec == Init /\ [][Next]_vars

-----------------------------------------------------------------------------
(* Properties.                                                             *)

Token ==
  [status : {"live", "revoked", "deleted"}, user : Users,
   pw : Nat, late : BOOLEAN, session : Tokens]

Issuer(kind, pcs, held, sessions) ==
  [kind : {kind}, pc : pcs, user : Users, token : held, session : sessions,
   pw : Nat, late : BOOLEAN]

Actor(kind, pcs) == [kind : {kind}, pc : pcs, user : Users]

RoleChange ==
  [kind : {"role"}, pc : {"count", "write", "revoke"}, user : Users, new : NewRoles]

Retirement == [kind : {"retire"}, pc : {"retire"}, token : Tokens]

Request ==
  Issuer("login", {"issue"}, {NoToken}, {NoToken})
  \cup Issuer("change", {"set", "revoke", "issue"}, {NoToken}, {NoToken})
  \cup Issuer("refresh", {"load", "rotate"}, Tokens, Tokens)
  \cup Issuer("refresh", {"issue"}, {NoToken}, Tokens)
  \cup Actor("purge", {"purge"})
  \cup Actor("reset", {"set", "revoke"})
  \cup Actor("delete", {"count", "write"})
  \cup RoleChange
  \cup Retirement

(* The type invariant. *)
TypeOK ==
  /\ role \in [Users -> {"none", "admin", "pentester", "gone"}]
  /\ password \in [Users -> Nat]
  /\ changes \in Nat
  /\ tokens \in [Tokens -> Token \cup {Absent}]
  /\ req \in [Requests -> Request \cup {Idle}]
  /\ raced \subseteq Tokens
  /\ purged \subseteq Tokens
  /\ unrevoked \subseteq Users
  /\ outrun \subseteq Requests

(* Rotation: a session has one usable refresh token at most, unless one of *)
(* its tokens was presented by two requests that both read it before       *)
(* either revoked it.                                                      *)
OneLiveTokenPerSession ==
  \A t, x \in Tokens :
    (Live(t) /\ Live(x) /\ tokens[t].session = tokens[x].session)
      => t = x \/ tokens[t].session \in raced

(* A logout, a reused or over-age token, a password or role change and a   *)
(* deletion end every session the account had: what is usable afterwards   *)
(* descends from a request that was already past its check.                *)
RevocationEndsSessions ==
  \A t \in Tokens :
    (Live(t) /\ (tokens[t].session \in purged \/ role[tokens[t].user] = "gone"))
      => tokens[t].late

(* The password of u changed, and the revocation due is still to come or   *)
(* has failed.                                                             *)
RevocationDue(u, r) ==
  At(r, "revoke") /\ req[r].kind # "role" /\ req[r].user = u

Excused(u) == u \in unrevoked \/ \E r \in Requests : RevocationDue(u, r)

(* Every usable token was obtained with the password now in force, except  *)
(* while the change is about to revoke, where its revocation failed, and   *)
(* for requests the revocation overtook.                                   *)
PasswordChangeEndsSessions ==
  \A t \in Tokens :
    Live(t) =>
      \/ tokens[t].pw = password[tokens[t].user]
      \/ tokens[t].late
      \/ Excused(tokens[t].user)

(* Somebody can administer the system.                                    *)
AdminRemains == Admins # {}

(* A removal that another one outran takes an administrator.               *)
OutrunRemoval ==
  \E r \in outrun : /\ At(r, "write")
                    /\ role[req[r].user] = "admin"
                    /\ role'[req[r].user] # "admin"

(* "The last admin cannot be demoted" (user/service.go:108-110), nor       *)
(* deleted: the only step that leaves no administrator writes a removal    *)
(* that was past its count when another removal changed who they are.      *)
LastAdminGoesOnlyByOverlap ==
  [][AdminRemains /\ ~ AdminRemains' => OutrunRemoval]_role

-----------------------------------------------------------------------------
(* The inductive invariant.                                                *)

Refreshing(r) == req[r].pc # "idle" /\ req[r].kind = "refresh"

(* Tokens, requests and sessions agree on whose they are. *)
Lineage ==
  /\ \A t \in Tokens : Issued(t) =>
       /\ Issued(tokens[t].session)
       /\ tokens[tokens[t].session].user = tokens[t].user
       /\ role[tokens[t].user] # "none"
  /\ \A r \in Requests : IsIssuing(r) => role[req[r].user] # "none"
  /\ \A r \in Requests : Refreshing(r) =>
       /\ Issued(req[r].session)
       /\ tokens[req[r].session].user = req[r].user
       /\ \/ req[r].pc = "issue"
          \/ Issued(req[r].token) /\ tokens[req[r].token].session = req[r].session

(* A session that was never raced for has one usable token or one request  *)
(* about to replace it.                                                    *)
OneHeir ==
  /\ \A q, r \in Requests :
       (Refreshing(q) /\ Refreshing(r) /\ req[q].session = req[r].session)
         => q = r \/ req[r].session \in raced
  /\ \A r \in Requests, t \in Tokens :
       (Refreshing(r) /\ Live(t) /\ tokens[t].session = req[r].session)
         => t = req[r].token \/ req[r].session \in raced

(* Requests under way when their account was revoked or deleted are late. *)
OvertakenAreLate ==
  /\ \A s \in purged : Issued(s)
  /\ \A r \in Requests : IsIssuing(r) =>
       \/ req[r].session \notin purged /\ role[req[r].user] # "gone"
       \/ req[r].late

(* Requests that are past their check hold the password in force. *)
RequestsHoldPassword ==
  \A r \in Requests : IsIssuing(r) =>
    \/ req[r].pw = password[req[r].user]
    \/ req[r].late
    \/ req[r].user \in unrevoked
    \/ \E q \in Requests \ {r} : RevocationDue(req[r].user, q)

(* The count of a removal stands until another removal outruns it.         *)
CountStands ==
  \A r \in Removals :
    /\ role[req[r].user] # "none"
    /\ (At(r, "write") /\ r \notin outrun /\ role[req[r].user] = "admin") => TwoAdmins

(* The inductive invariant of the sessions: each rotated token has one heir,*)
(* and whatever opens or keeps a session past a revocation, or past a       *)
(* change of password, was already under way when that happened.            *)
SessionInv ==
  /\ TypeOK /\ Lineage /\ OneHeir /\ OneLiveTokenPerSession
  /\ OvertakenAreLate /\ RevocationEndsSessions
  /\ RequestsHoldPassword /\ PasswordChangeEndsSessions
=============================================================================
