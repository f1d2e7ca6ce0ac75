--------------------------- MODULE AccountsProofs ---------------------------
(***************************************************************************)
(* Proofs about Accounts: what holds of accounts and sessions for every    *)
(* set of users, requests and tokens and any number of password changes.   *)
(***************************************************************************)
EXTENDS Accounts, TLAPS

USE DEF accounts, history, vars

(* What the program counter says of a request. *)
LEMMA RequestShapes ==
  ASSUME TypeOK, NEW r \in Requests
  PROVE  /\ req[r].pc = "idle" => req[r] = Idle
         /\ req[r].pc # "idle" => req[r] \in Request
         /\ At(r, "purge") => req[r] \in Actor("purge", {"purge"})
         /\ At(r, "retire") => req[r] \in Retirement
         /\ (At(r, "load") \/ At(r, "rotate"))
              => req[r] \in Issuer("refresh", {"load", "rotate"}, Tokens, Tokens)
         /\ At(r, "issue") =>
              \/ req[r] \in Issuer("login", {"issue"}, {NoToken}, {NoToken})
              \/ req[r] \in Issuer("change", {"set", "revoke", "issue"}, {NoToken}, {NoToken})
              \/ req[r] \in Issuer("refresh", {"issue"}, {NoToken}, Tokens)
         /\ At(r, "set") =>
              \/ req[r] \in Issuer("change", {"set", "revoke", "issue"}, {NoToken}, {NoToken})
              \/ req[r] \in Actor("reset", {"set", "revoke"})
         /\ At(r, "revoke") =>
              \/ req[r] \in Issuer("change", {"set", "revoke", "issue"}, {NoToken}, {NoToken})
              \/ req[r] \in Actor("reset", {"set", "revoke"})
              \/ req[r] \in RoleChange
         /\ At(r, "count") =>
              req[r] \in Actor("delete", {"count", "write"}) \/ req[r] \in RoleChange
         /\ At(r, "write") =>
              req[r] \in Actor("delete", {"count", "write"}) \/ req[r] \in RoleChange
<1> req[r] \in Request \/ req[r] = Idle
  BY DEF TypeOK
<1>1. CASE req[r] = Idle
  BY <1>1 DEF Idle, At
<1>2. CASE req[r] \in Issuer("login", {"issue"}, {NoToken}, {NoToken})
  BY <1>2 DEF Request, Issuer, At
<1>3. CASE req[r] \in Issuer("change", {"set", "revoke", "issue"}, {NoToken}, {NoToken})
  BY <1>3 DEF Request, Issuer, At
<1>4. CASE req[r] \in Issuer("refresh", {"load", "rotate"}, Tokens, Tokens)
  BY <1>4 DEF Request, Issuer, At
<1>5. CASE req[r] \in Issuer("refresh", {"issue"}, {NoToken}, Tokens)
  BY <1>5 DEF Request, Issuer, At
<1>6. CASE req[r] \in Actor("purge", {"purge"})
  BY <1>6 DEF Request, Actor, At
<1>7. CASE req[r] \in Actor("reset", {"set", "revoke"})
  BY <1>7 DEF Request, Actor, At
<1>8. CASE req[r] \in Actor("delete", {"count", "write"})
  BY <1>8 DEF Request, Actor, At
<1>9. CASE req[r] \in RoleChange
  BY <1>9 DEF Request, RoleChange, At
<1>10. CASE req[r] \in Retirement
  BY <1>10 DEF Request, Retirement, At
<1> QED
  BY <1>1, <1>2, <1>3, <1>4, <1>5, <1>6, <1>7, <1>8, <1>9, <1>10 DEF Request

(* Requests overtaken by a revocation change in nothing but that. *)
LEMMA OvertakenShapes ==
  ASSUME TypeOK, NEW u \in Users, NEW r \in Requests
  PROVE  Overtaken(u, r) \in [Requests -> Request \cup {Idle}]
<1>. SUFFICES ASSUME NEW q \in Requests, q # r, IsIssuing(q)
              PROVE  [req[q] EXCEPT !.late = @ \/ req[q].user = u] \in Request
  BY DEF Overtaken, TypeOK
<1>. DEFINE x == [req[q] EXCEPT !.late = @ \/ req[q].user = u]
<1>1. CASE req[q] \in Issuer("login", {"issue"}, {NoToken}, {NoToken})
  BY <1>1 DEF Request, Issuer
<1>2. CASE req[q] \in Issuer("change", {"set", "revoke", "issue"}, {NoToken}, {NoToken})
  BY <1>2 DEF Request, Issuer
<1>3. CASE req[q] \in Issuer("refresh", {"load", "rotate"}, Tokens, Tokens)
  BY <1>3 DEF Request, Issuer
<1>4. CASE req[q] \in Issuer("refresh", {"issue"}, {NoToken}, Tokens)
  BY <1>4 DEF Request, Issuer
<1>5. req[q] \in Request
  BY RequestShapes DEF IsIssuing
<1>. QED
  BY <1>1, <1>2, <1>3, <1>4, <1>5
  DEF IsIssuing, Request, Actor, RoleChange, Retirement

LEMMA OvertakenFields ==
  ASSUME TypeOK, NEW u \in Users, NEW r \in Requests, NEW q \in Requests, q # r
  PROVE  /\ ~ IsIssuing(q) => Overtaken(u, r)[q] = req[q]
         /\ IsIssuing(q) =>
              /\ Overtaken(u, r)[q].kind = req[q].kind
              /\ Overtaken(u, r)[q].pc = req[q].pc
              /\ Overtaken(u, r)[q].user = req[q].user
              /\ Overtaken(u, r)[q].token = req[q].token
              /\ Overtaken(u, r)[q].session = req[q].session
              /\ Overtaken(u, r)[q].pw = req[q].pw
              /\ req[q].late \/ req[q].user = u => Overtaken(u, r)[q].late
<1>1. ~ IsIssuing(q) => Overtaken(u, r)[q] = req[q]
  BY DEF Overtaken
<1>2. ASSUME IsIssuing(q)
      PROVE  /\ Overtaken(u, r)[q].kind = req[q].kind
             /\ Overtaken(u, r)[q].pc = req[q].pc
             /\ Overtaken(u, r)[q].user = req[q].user
             /\ Overtaken(u, r)[q].token = req[q].token
             /\ Overtaken(u, r)[q].session = req[q].session
             /\ Overtaken(u, r)[q].pw = req[q].pw
             /\ req[q].late \/ req[q].user = u => Overtaken(u, r)[q].late
  <2>1. Overtaken(u, r)[q] = [req[q] EXCEPT !.late = @ \/ req[q].user = u]
    BY <1>2 DEF Overtaken
  <2>2. req[q] \in Request
    BY <1>2, RequestShapes DEF IsIssuing
  <2>3. \E kind, pcs, held, sessions : req[q] \in Issuer(kind, pcs, held, sessions)
    BY <1>2, <2>2 DEF IsIssuing, Request, Actor, RoleChange, Retirement
  <2>. QED
    BY <2>1, <2>3 DEF Issuer
<1>. QED
  BY <1>1, <1>2

LEMMA TypeOKInit == Init => TypeOK
BY AccountConstants DEF Init, TypeOK

LEMMA RevokeAllTyped ==
  ASSUME TypeOK, NEW u \in Users, NEW r \in Requests,
         NEW after \in Request \cup {Idle}, RevokeAll(u, r, after)
  PROVE  TypeOK'
<1>1. Revoked(u) \in [Tokens -> Token \cup {Absent}]
  BY DEF TypeOK, Revoked, Token, Absent, Live, Of, Issued
<1>2. SessionsOf(u) \subseteq Tokens
  BY DEF TypeOK, SessionsOf, Of, Issued, Token, Absent
<1>3. req' \in [Requests -> Request \cup {Idle}]
  BY OvertakenShapes DEF RevokeAll
<1>. QED
  BY <1>1, <1>2, <1>3 DEF TypeOK, RevokeAll

LEMMA TypeOKStep == TypeOK /\ [Next]_vars => TypeOK'
<1>. SUFFICES ASSUME TypeOK, [Next]_vars PROVE TypeOK'
  OBVIOUS
<1>0. CASE UNCHANGED vars
  BY <1>0 DEF TypeOK
<1>1. ASSUME NEW r \in Requests, NEW u \in Followed, Register(r, u) PROVE TypeOK'
  BY <1>1, AccountConstants
  DEF TypeOK, Register, Begin, Issuing, Request, Issuer
<1>2. ASSUME NEW r \in Requests, NEW u \in Followed, Login(r, u) PROVE TypeOK'
  BY <1>2, AccountConstants
  DEF TypeOK, Login, Begin, Issuing, Request, Issuer
<1>3. ASSUME NEW r \in Requests, NEW u \in Followed, Logout(r, u) PROVE TypeOK'
  BY <1>3, AccountConstants, RevokeAllTyped DEF Logout
<1>4. ASSUME NEW r \in Requests, NEW t \in Tokens, RefreshRead(r, t) PROVE TypeOK'
  <2>1. tokens[t] \in Token
    BY <1>4 DEF TypeOK, RefreshRead, Absent
  <2>2. raced' \subseteq Tokens
    BY <1>4, <2>1 DEF TypeOK, RefreshRead, Token
  <2>3. req' \in [Requests -> Request \cup {Idle}]
    BY <1>4, <2>1
    DEF TypeOK, RefreshRead, Begin, Acting, Token, Request, Issuer, Actor, Retirement
  <2>. QED
    BY <1>4, <2>2, <2>3 DEF TypeOK, RefreshRead
<1>5. ASSUME NEW r \in Requests, RefreshPurge(r) PROVE TypeOK'
  <2>1. req[r].user \in Users
    BY <1>5, RequestShapes DEF RefreshPurge, Actor
  <2>2. CASE RevokeAll(req[r].user, r, Idle)
    BY <2>1, <2>2, RevokeAllTyped
  <2>3. CASE Fails(r) /\ UNCHANGED <<accounts, tokens, history>>
    BY <2>3 DEF TypeOK, Fails, Finish
  <2>. QED
    BY <1>5, <2>2, <2>3 DEF RefreshPurge
<1>6. ASSUME NEW r \in Requests, RefreshRetire(r) PROVE TypeOK'
  <2>1. req[r].token \in Tokens
    BY <1>6, RequestShapes DEF RefreshRetire, Retirement
  <2>. QED
    BY <1>6, <2>1 DEF TypeOK, RefreshRetire, RevokeOne, Live, Finish, Token, Absent
<1>7. ASSUME NEW r \in Requests, RefreshLoad(r) PROVE TypeOK'
  <2>1. req[r] \in Issuer("refresh", {"load", "rotate"}, Tokens, Tokens)
    BY <1>7, RequestShapes DEF RefreshLoad
  <2>2. [req[r] EXCEPT !.pc = "rotate"] \in Request
    BY <2>1 DEF Issuer, Request
  <2>. QED
    BY <1>7, <2>2 DEF TypeOK, RefreshLoad, Goto, Fails, Finish
<1>8. ASSUME NEW r \in Requests, RefreshRotate(r) PROVE TypeOK'
  <2>1. req[r] \in Issuer("refresh", {"load", "rotate"}, Tokens, Tokens)
    BY <1>8, RequestShapes DEF RefreshRotate
  <2>2. [req[r] EXCEPT !.pc = "issue", !.token = NoToken] \in Request
    BY <2>1 DEF Issuer, Request
  <2>3. tokens' \in [Tokens -> Token \cup {Absent}]
    BY <1>8, <2>1 DEF TypeOK, RefreshRotate, RevokeOne, Live, Token, Absent, Issuer
  <2>. QED
    BY <1>8, <2>2, <2>3 DEF TypeOK, RefreshRotate, Fails, Finish
<1>9. ASSUME NEW r \in Requests, Issue(r) PROVE TypeOK'
  <2>1. /\ req[r].user \in Users
        /\ req[r].session \in Tokens \cup {NoToken}
        /\ req[r].pw \in Nat
        /\ req[r].late \in BOOLEAN
    BY <1>9, RequestShapes DEF Issue, Issuer
  <2>2. tokens' \in [Tokens -> Token \cup {Absent}]
    BY <1>9, <2>1 DEF TypeOK, Issue, Token, Fails
  <2>. QED
    BY <1>9, <2>2 DEF TypeOK, Issue, Fails, Finish
<1>10. ASSUME NEW r \in Requests, NEW u \in Followed, ChangeRead(r, u) PROVE TypeOK'
  BY <1>10, AccountConstants
  DEF TypeOK, ChangeRead, Begin, Issuing, Request, Issuer
<1>11. ASSUME NEW r \in Requests, NEW u \in Followed, ResetRead(r, u) PROVE TypeOK'
  BY <1>11, AccountConstants
  DEF TypeOK, ResetRead, Begin, Acting, Request, Actor
<1>12. ASSUME NEW r \in Requests, SetPassword(r) PROVE TypeOK'
  <2>1. CASE req[r] \in Issuer("change", {"set", "revoke", "issue"}, {NoToken}, {NoToken})
    <3>1. WithPassword(r, "revoke")
            \in Issuer("change", {"set", "revoke", "issue"}, {NoToken}, {NoToken})
      <4>. changes + 1 \in Nat
        BY DEF TypeOK
      <4>. WithPassword(r, "revoke") = [req[r] EXCEPT !.pc = "revoke", !.pw = changes + 1]
        BY <2>1 DEF WithPassword, Issuer
      <4>. QED
        BY <2>1 DEF Issuer
    <3>. WithPassword(r, "revoke") \in Request
      BY <3>1 DEF Request
    <3>. QED
      BY <1>12, <2>1, <3>1
      DEF TypeOK, SetPassword, UpdatePassword, Issuer, Fails, Finish
  <2>2. CASE req[r] \in Actor("reset", {"set", "revoke"})
    <3>1. WithPassword(r, "revoke") \in Request
      BY <2>2 DEF TypeOK, WithPassword, Actor, Request
    <3>. QED
      BY <1>12, <2>2, <3>1
      DEF TypeOK, SetPassword, UpdatePassword, Actor, Fails, Finish
  <2>. QED
    BY <1>12, <2>1, <2>2, RequestShapes DEF SetPassword
<1>13. ASSUME NEW r \in Requests, RevokeAfterChange(r) PROVE TypeOK'
  <2>. DEFINE after == IF req[r].kind = "change" THEN [req[r] EXCEPT !.pc = "issue"]
                                                 ELSE Idle
  <2>1. req[r].user \in Users
    BY <1>13, RequestShapes DEF RevokeAfterChange, Issuer, Actor, RoleChange
  <2>2. after \in Request \cup {Idle}
    BY <1>13, RequestShapes
    DEF RevokeAfterChange, Issuer, Actor, RoleChange, Request
  <2>3. CASE RevokeAll(req[r].user, r, after)
    <3>. HIDE DEF after
    <3>. QED
      BY <2>1, <2>2, <2>3, RevokeAllTyped
  <2>4. CASE /\ Fails(r)
             /\ unrevoked' = IF req[r].kind = "role" THEN unrevoked
                             ELSE unrevoked \cup {req[r].user}
             /\ UNCHANGED <<accounts, tokens, raced, purged, outrun>>
    BY <2>1, <2>4 DEF TypeOK, Fails, Finish
  <2>. QED
    BY <1>13, <2>3, <2>4 DEF RevokeAfterChange
<1>14. ASSUME NEW r \in Requests, NEW u \in Users, CreateUser(u) PROVE TypeOK'
  BY <1>14 DEF TypeOK, CreateUser, NewRoles
<1>15. ASSUME NEW r \in Requests, NEW a \in Users, NEW u \in Users, DeleteRead(r, a, u)
       PROVE TypeOK'
  BY <1>15 DEF TypeOK, DeleteRead, Begin, Acting, Request, Actor
<1>16. ASSUME NEW r \in Requests, NEW a \in Users, NEW u \in Users, NEW new \in NewRoles,
              RoleRead(r, a, u, new)
       PROVE TypeOK'
  BY <1>16 DEF TypeOK, RoleRead, Begin, Request, RoleChange
<1>17. ASSUME NEW r \in Requests, CountAdmins(r) PROVE TypeOK'
  <2>1. [req[r] EXCEPT !.pc = "write"] \in Request
    BY <1>17, RequestShapes DEF CountAdmins, Actor, RoleChange, Request
  <2>. QED
    BY <1>17, <2>1 DEF TypeOK, CountAdmins, Goto, Fails, Finish
<1>18. ASSUME NEW r \in Requests, WriteRole(r) PROVE TypeOK'
  <2>1. req[r] \in RoleChange
    BY <1>18, RequestShapes DEF WriteRole, Actor
  <2>2. [req[r] EXCEPT !.pc = "revoke"] \in Request
    BY <2>1 DEF RoleChange, Request
  <2>. QED
    BY <1>18, <2>1, <2>2
    DEF TypeOK, WriteRole, RoleChange, NewRoles, Goto, Finish, Outrun, Removals
<1>19. ASSUME NEW r \in Requests, DeleteUser(r) PROVE TypeOK'
  <2>1. req[r].user \in Users
    BY <1>19, RequestShapes DEF DeleteUser, Actor, RoleChange
  <2>2. tokens' \in [Tokens -> Token \cup {Absent}]
    BY <1>19 DEF TypeOK, DeleteUser, Of, Issued, Token, Absent
  <2>3. purged' \subseteq Tokens
    BY <1>19 DEF TypeOK, DeleteUser, SessionsOf, Of, Issued, Token, Absent
  <2>4. req' \in [Requests -> Request \cup {Idle}]
    <3>. Overtaken(req[r].user, r) \in [Requests -> Request \cup {Idle}]
      BY <2>1, OvertakenShapes
    <3>. QED
      BY <1>19 DEF TypeOK, DeleteUser, Finish
  <2>5. role' \in [Users -> {"none", "admin", "pentester", "gone"}]
    BY <1>19 DEF TypeOK, DeleteUser
  <2>. QED
    BY <1>19, <2>2, <2>3, <2>4, <2>5 DEF TypeOK, DeleteUser, Outrun, Removals
<1>. QED
  BY <1>0, <1>1, <1>2, <1>3, <1>4, <1>5, <1>6, <1>7, <1>8, <1>9, <1>10, <1>11,
     <1>12, <1>13, <1>14, <1>15, <1>16, <1>17, <1>18, <1>19
  DEF Next, Sessions, Passwords, Administration

(* Every variable keeps a value the code can give it. *)
THEOREM AccountsTyped == Spec => []TypeOK
BY TypeOKInit, TypeOKStep, PTL DEF Spec

-----------------------------------------------------------------------------
(* The last administrator.                                                 *)

(* A step that removes no administrator keeps two of them. *)
LEMMA AdminsKept ==
  ASSUME \A u \in Users : role[u] = "admin" => role'[u] = "admin"
  PROVE  /\ TwoAdmins => TwoAdmins'
         /\ AdminRemains => AdminRemains'
BY DEF TwoAdmins, AdminRemains, Admins

(* Requests overtaken by a revocation remain the removals they were. *)
LEMMA RemovalsOvertaken ==
  ASSUME TypeOK, NEW u \in Users, NEW r \in Requests, NEW after,
         after.pc = "idle" \/ after.kind \notin {"role", "delete"},
         req' = [Overtaken(u, r) EXCEPT ![r] = after]
  PROVE  /\ Removals' \subseteq Removals
         /\ \A q \in Removals' : req'[q] = req[q]
<1>. SUFFICES ASSUME NEW q \in Removals' PROVE q \in Removals /\ req'[q] = req[q]
  OBVIOUS
<1>1. q # r /\ req'[q] = Overtaken(u, r)[q]
  BY DEF Removals, Overtaken
<1>2. ~ IsIssuing(q)
  BY <1>1, OvertakenFields DEF Removals, IsIssuing
<1>. QED
  BY <1>1, <1>2, OvertakenFields DEF Removals

(* The last administrator leaves by a removal that was outrun, or stays.   *)
LEMMA AdminStep ==
  TypeOK /\ CountStands /\ [Next]_vars
    => CountStands' /\ (AdminRemains /\ ~ AdminRemains' => OutrunRemoval)
<1>. DEFINE LastStep == AdminRemains /\ ~ AdminRemains' => OutrunRemoval
<1>. SUFFICES ASSUME TypeOK, CountStands, [Next]_vars
              PROVE  CountStands' /\ LastStep
  OBVIOUS
<1>c. ASSUME role' = role, outrun' = outrun,
             Removals' \subseteq Removals,
             \A q \in Removals' : req'[q] = req[q]
      PROVE  CountStands' /\ LastStep
  BY <1>c DEF CountStands, At, TwoAdmins, AdminRemains, Admins
<1>d. ASSUME role' = role, outrun' = outrun,
             NEW r \in Requests, NEW x, req' = [req EXCEPT ![r] = x],
             x.pc = "idle" \/ x.kind \notin {"role", "delete"}
      PROVE  CountStands' /\ LastStep
  <2>. /\ Removals' \subseteq Removals
       /\ \A q \in Removals' : req'[q] = req[q]
    BY <1>d DEF Removals, TypeOK
  <2>. QED
    BY <1>c, <1>d
<1>e. ASSUME NEW u \in Users, NEW r \in Requests, NEW after,
             after.pc = "idle" \/ after.kind \notin {"role", "delete"},
             RevokeAll(u, r, after)
      PROVE  CountStands' /\ LastStep
  <2>. /\ Removals' \subseteq Removals
       /\ \A q \in Removals' : req'[q] = req[q]
    BY <1>e, RemovalsOvertaken DEF RevokeAll
  <2>. QED
    BY <1>c, <1>e DEF RevokeAll
<1>f. ASSUME role' = role, outrun' = outrun, NEW r \in Requests, Finish(r)
      PROVE  CountStands' /\ LastStep
  BY <1>d, <1>f DEF Finish, Idle
<1>0. CASE UNCHANGED vars
  BY <1>0, <1>c DEF Removals
<1>1. ASSUME NEW r \in Requests, NEW u \in Followed, Register(r, u)
      PROVE  CountStands' /\ LastStep
  <2>1. /\ Removals' \subseteq Removals
        /\ \A q \in Removals' : req'[q] = req[q]
    BY <1>1 DEF Register, Begin, Issuing, Removals, TypeOK
  <2>2. \A a \in Users : /\ role[a] = "admin" <=> role'[a] = "admin"
                         /\ role'[a] = "none" => role[a] = "none"
    BY <1>1, AccountConstants DEF Register, TypeOK
  <2>3. \A q \in Removals' : req[q].user \in Users
    BY <2>1, RequestShapes DEF Removals, Request, Issuer, Actor, RoleChange, Retirement
  <2>4. outrun' = outrun
    BY <1>1 DEF Register
  <2>. QED
    BY <2>1, <2>2, <2>3, <2>4, AdminsKept DEF CountStands, At
<1>2. ASSUME NEW r \in Requests, NEW u \in Followed, Login(r, u)
      PROVE  CountStands' /\ LastStep
  BY <1>2, <1>d DEF Login, Begin, Issuing
<1>3. ASSUME NEW r \in Requests, NEW u \in Followed, Logout(r, u)
      PROVE  CountStands' /\ LastStep
  BY <1>3, <1>e, AccountConstants DEF Logout, Idle
<1>4. ASSUME NEW r \in Requests, NEW t \in Tokens, RefreshRead(r, t)
      PROVE  CountStands' /\ LastStep
  BY <1>4, <1>d DEF RefreshRead, Begin, Acting
<1>5. ASSUME NEW r \in Requests, RefreshPurge(r)
      PROVE  CountStands' /\ LastStep
  <2>. req[r].user \in Users
    BY <1>5, RequestShapes DEF RefreshPurge, Actor
  <2>. QED
    BY <1>5, <1>e, <1>f DEF RefreshPurge, Fails, Idle
<1>6. ASSUME NEW r \in Requests, RefreshRetire(r)
      PROVE  CountStands' /\ LastStep
  BY <1>6, <1>f DEF RefreshRetire
<1>7. ASSUME NEW r \in Requests, RefreshLoad(r)
      PROVE  CountStands' /\ LastStep
  <2>1. req[r] \in Issuer("refresh", {"load", "rotate"}, Tokens, Tokens)
    BY <1>7, RequestShapes DEF RefreshLoad
  <2>2. [req[r] EXCEPT !.pc = "rotate"].kind = "refresh"
    BY <2>1 DEF Issuer
  <2>. QED
    BY <1>7, <1>d, <1>f, <2>2 DEF RefreshLoad, Goto, Fails
<1>8. ASSUME NEW r \in Requests, RefreshRotate(r)
      PROVE  CountStands' /\ LastStep
  <2>1. req[r] \in Issuer("refresh", {"load", "rotate"}, Tokens, Tokens)
    BY <1>8, RequestShapes DEF RefreshRotate
  <2>2. [req[r] EXCEPT !.pc = "issue", !.token = NoToken].kind = "refresh"
    BY <2>1 DEF Issuer
  <2>3. [req EXCEPT ![r].pc = "issue", ![r].token = NoToken]
          = [req EXCEPT ![r] = [req[r] EXCEPT !.pc = "issue", !.token = NoToken]]
    BY DEF TypeOK
  <2>4. role' = role /\ outrun' = outrun
    BY <1>8 DEF RefreshRotate
  <2>5. CASE req' = [req EXCEPT ![r] = [req[r] EXCEPT !.pc = "issue", !.token = NoToken]]
    BY <1>d, <2>2, <2>4, <2>5
  <2>. QED
    BY <1>8, <1>f, <2>3, <2>4, <2>5 DEF RefreshRotate, Fails
<1>9. ASSUME NEW r \in Requests, Issue(r)
      PROVE  CountStands' /\ LastStep
  BY <1>9, <1>f DEF Issue, Fails
<1>10. ASSUME NEW r \in Requests, NEW u \in Followed, ChangeRead(r, u)
       PROVE  CountStands' /\ LastStep
  BY <1>10, <1>d DEF ChangeRead, Begin, Issuing
<1>11. ASSUME NEW r \in Requests, NEW u \in Followed, ResetRead(r, u)
       PROVE  CountStands' /\ LastStep
  BY <1>11, <1>d DEF ResetRead, Begin, Acting
<1>12. ASSUME NEW r \in Requests, SetPassword(r)
       PROVE  CountStands' /\ LastStep
  <2>1. WithPassword(r, "revoke").kind \notin {"role", "delete"}
    BY <1>12, RequestShapes DEF SetPassword, WithPassword, Issuer, Actor
  <2>. QED
    BY <1>12, <1>d, <1>f, <2>1 DEF SetPassword, Fails
<1>13. ASSUME NEW r \in Requests, RevokeAfterChange(r)
       PROVE  CountStands' /\ LastStep
  <2>. DEFINE after == IF req[r].kind = "change" THEN [req[r] EXCEPT !.pc = "issue"]
                                                 ELSE Idle
  <2>1. req[r].user \in Users
    BY <1>13, RequestShapes DEF RevokeAfterChange, Issuer, Actor, RoleChange
  <2>2. after.pc = "idle" \/ after.kind \notin {"role", "delete"}
    BY <1>13, RequestShapes
    DEF RevokeAfterChange, Issuer, Actor, RoleChange, Idle
  <2>3. \/ RevokeAll(req[r].user, r, after)
        \/ Fails(r) /\ role' = role /\ outrun' = outrun
    BY <1>13 DEF RevokeAfterChange
  <2>. HIDE DEF after
  <2>. QED
    BY <1>e, <1>f, <2>1, <2>2, <2>3 DEF Fails
<1>14. ASSUME NEW r \in Requests, NEW u \in Users, CreateUser(u)
       PROVE  CountStands' /\ LastStep
  <2>1. Removals' = Removals /\ req' = req /\ outrun' = outrun
    BY <1>14 DEF CreateUser, Removals
  <2>2. \A a \in Users : /\ role[a] = "admin" => role'[a] = "admin"
                         /\ role[a] # "none" => role'[a] = role[a]
    BY <1>14 DEF CreateUser, TypeOK
  <2>3. \A q \in Removals' : req[q].user \in Users
    BY <2>1, RequestShapes DEF Removals, Request, Issuer, Actor, RoleChange, Retirement
  <2>. QED
    BY <2>1, <2>2, <2>3, AdminsKept DEF CountStands, At
<1>15. ASSUME NEW r \in Requests, NEW a \in Users, NEW u \in Users, DeleteRead(r, a, u)
       PROVE  CountStands' /\ LastStep
  <2>1. Removals' \subseteq Removals \cup {r}
    BY <1>15 DEF DeleteRead, Begin, Removals, TypeOK
  <2>2. \A q \in Removals' \ {r} : req'[q] = req[q]
    BY <1>15, <2>1 DEF DeleteRead, Begin, Removals, TypeOK
  <2>3. /\ req'[r].user = u
        /\ At(r, "write")' => role[u] # "admin"
        /\ role[u] # "none"
    BY <1>15 DEF DeleteRead, Begin, Acting, At, TypeOK, Present
  <2>4. role' = role /\ outrun' = outrun
    BY <1>15 DEF DeleteRead
  <2>5. CountStands'
    <3>. SUFFICES ASSUME NEW q \in Removals'
                  PROVE  /\ role[req'[q].user] # "none"
                         /\ (At(q, "write")' /\ q \notin outrun /\ role[req'[q].user] = "admin")
                              => TwoAdmins
      BY <2>4 DEF CountStands, TwoAdmins
    <3>1. CASE q = r
      BY <2>3, <3>1
    <3>2. CASE q # r
      BY <2>1, <2>2, <3>2 DEF CountStands, At
    <3>. QED
      BY <3>1, <3>2
  <2>. QED
    BY <2>4, <2>5 DEF AdminRemains, Admins
<1>16. ASSUME NEW r \in Requests, NEW a \in Users, NEW u \in Users, NEW new \in NewRoles,
              RoleRead(r, a, u, new)
       PROVE  CountStands' /\ LastStep
  <2>1. Removals' \subseteq Removals \cup {r}
    BY <1>16 DEF RoleRead, Begin, Removals, TypeOK
  <2>2. \A q \in Removals' \ {r} : req'[q] = req[q]
    BY <1>16, <2>1 DEF RoleRead, Begin, Removals, TypeOK
  <2>3. /\ req'[r].user = u
        /\ At(r, "write")' => role[u] # "admin"
        /\ role[u] # "none"
    BY <1>16 DEF RoleRead, Begin, Acting, At, TypeOK, Present
  <2>4. role' = role /\ outrun' = outrun
    BY <1>16 DEF RoleRead
  <2>5. CountStands'
    <3>. SUFFICES ASSUME NEW q \in Removals'
                  PROVE  /\ role[req'[q].user] # "none"
                         /\ (At(q, "write")' /\ q \notin outrun /\ role[req'[q].user] = "admin")
                              => TwoAdmins
      BY <2>4 DEF CountStands, TwoAdmins
    <3>1. CASE q = r
      BY <2>3, <3>1
    <3>2. CASE q # r
      BY <2>1, <2>2, <3>2 DEF CountStands, At
    <3>. QED
      BY <3>1, <3>2
  <2>. QED
    BY <2>4, <2>5 DEF AdminRemains, Admins
<1>17. ASSUME NEW r \in Requests, CountAdmins(r)
       PROVE  CountStands' /\ LastStep
  <2>0. role' = role /\ outrun' = outrun
    BY <1>17 DEF CountAdmins
  <2>1. CASE TwoAdmins /\ Goto(r, "write")
    <3>1. /\ Removals' \subseteq Removals
          /\ \A q \in Removals' : req'[q].user = req[q].user
      BY <1>17, <2>1, RequestShapes
      DEF CountAdmins, Goto, Removals, TypeOK, At, Actor, RoleChange
    <3>2. TwoAdmins'
      BY <2>0, <2>1 DEF TwoAdmins
    <3>. QED
      BY <2>0, <3>1, <3>2 DEF CountStands, AdminRemains, Admins
  <2>. QED
    BY <1>17, <1>f, <2>0, <2>1 DEF CountAdmins, Fails
<1>g. ASSUME NEW r \in Removals, At(r, "write"), ~ At(r, "write")', Outrun(r),
             Removals' \subseteq Removals,
             \A q \in Removals' \ {r} : req'[q] = req[q],
             req'[r].pc = "idle" \/ req'[r].user = req[r].user,
             role' = role \/ role'[req[r].user] # "none",
             \A b \in Users \ {req[r].user} : role'[b] = role[b]
      PROVE  CountStands' /\ LastStep
  <2>0. \A q \in Removals : req[q].user \in Users
    BY RequestShapes DEF Removals, Request, Issuer, Actor, RoleChange, Retirement
  <2>1. LastStep
    <3>. SUFFICES ASSUME AdminRemains, ~ AdminRemains' PROVE OutrunRemoval
      OBVIOUS
    <3>1. PICK a \in Users : role[a] = "admin" /\ role'[a] # "admin"
      BY DEF AdminRemains, Admins
    <3>2. a = req[r].user
      BY <1>g, <3>1
    <3>3. ~ TwoAdmins
      <4>. SUFFICES ASSUME NEW b \in Users, NEW c \in Users, b # c,
                           role[b] = "admin", role[c] = "admin"
                    PROVE  FALSE
        BY DEF TwoAdmins
      <4>. PICK d \in {b, c} : d # req[r].user
        OBVIOUS
      <4>. role'[d] = "admin"
        BY <1>g
      <4>. QED
        BY DEF AdminRemains, Admins
    <3>4. r \in outrun
      BY <1>g, <3>1, <3>2, <3>3 DEF CountStands
    <3>. QED
      BY <1>g, <3>1, <3>2, <3>4 DEF OutrunRemoval
  <2>2. CountStands'
    <3>. SUFFICES ASSUME NEW q \in Removals'
                  PROVE  /\ role'[req'[q].user] # "none"
                         /\ (At(q, "write")' /\ q \notin outrun' /\ role'[req'[q].user] = "admin")
                              => TwoAdmins'
      BY DEF CountStands
    <3>1. req'[q].user = req[q].user /\ q \in Removals
      BY <1>g DEF Removals
    <3>2. role'[req[q].user] # "none"
      BY <1>g, <2>0, <3>1 DEF CountStands
    <3>3. ASSUME At(q, "write")', q \notin outrun', role'[req[q].user] = "admin"
          PROVE  TwoAdmins'
      <4>1. q # r /\ At(q, "write")
        BY <1>g, <3>3 DEF At
      <4>2. Admins' = Admins /\ q \notin outrun
        BY <1>g, <3>1, <3>3, <4>1 DEF Outrun
      <4>3. role[req[q].user] = "admin"
        BY <2>0, <3>1, <3>3, <4>2 DEF Admins
      <4>4. TwoAdmins
        BY <3>1, <4>1, <4>2, <4>3 DEF CountStands
      <4>. QED
        BY <4>2, <4>4 DEF TwoAdmins, Admins
    <3>. QED
      BY <3>1, <3>2, <3>3
  <2>. QED
    BY <2>1, <2>2
<1>18. ASSUME NEW r \in Requests, WriteRole(r)
       PROVE  CountStands' /\ LastStep
  <2>1. req[r] \in RoleChange /\ r \in Removals
    BY <1>18, RequestShapes DEF WriteRole, Actor, Removals, At
  <2>2. CASE Finish(r) /\ UNCHANGED role
    <3>1. /\ Removals' \subseteq Removals
          /\ \A q \in Removals' \ {r} : req'[q] = req[q]
          /\ req'[r].pc = "idle"
      BY <2>2 DEF Finish, Idle, Removals, TypeOK
    <3>. QED
      BY <1>18, <1>g, <2>1, <2>2, <3>1 DEF WriteRole, At
  <2>3. CASE Goto(r, "revoke") /\ role' = [role EXCEPT ![req[r].user] = req[r].new]
    <3>1. req'[r].pc = "revoke" /\ req'[r].user = req[r].user
      BY <2>1, <2>3 DEF Goto, TypeOK, RoleChange
    <3>2. /\ Removals' \subseteq Removals
          /\ \A q \in Removals' \ {r} : req'[q] = req[q]
      BY <2>1, <2>3 DEF Goto, Removals, TypeOK
    <3>3. /\ \A b \in Users \ {req[r].user} : role'[b] = role[b]
          /\ role'[req[r].user] # "none"
      BY <2>1, <2>3 DEF TypeOK, RoleChange, NewRoles
    <3>. QED
      BY <1>18, <1>g, <2>1, <3>1, <3>2, <3>3 DEF WriteRole, At
  <2>. QED
    BY <1>18, <2>2, <2>3 DEF WriteRole
<1>19. ASSUME NEW r \in Requests, DeleteUser(r)
       PROVE  CountStands' /\ LastStep
  <2>1. r \in Removals /\ req[r].user \in Users
    BY <1>19, RequestShapes DEF DeleteUser, Actor, RoleChange, Removals, At
  <2>2. CASE Finish(r) /\ UNCHANGED role
    <3>1. /\ Removals' \subseteq Removals
          /\ \A q \in Removals' \ {r} : req'[q] = req[q]
          /\ req'[r].pc = "idle"
      BY <2>2 DEF Finish, Idle, Removals, TypeOK
    <3>. QED
      BY <1>19, <1>g, <2>1, <2>2, <3>1 DEF DeleteUser, At
  <2>3. CASE /\ role' = [role EXCEPT ![req[r].user] = "gone"]
             /\ req' = [Overtaken(req[r].user, r) EXCEPT ![r] = Idle]
    <3>1. req'[r].pc = "idle"
      BY <2>3 DEF Overtaken, Idle
    <3>2. /\ Removals' \subseteq Removals
          /\ \A q \in Removals' : req'[q] = req[q]
      BY <2>1, <2>3, RemovalsOvertaken DEF Idle
    <3>3. /\ \A b \in Users \ {req[r].user} : role'[b] = role[b]
          /\ role'[req[r].user] # "none"
      BY <2>1, <2>3 DEF TypeOK
    <3>. QED
      BY <1>19, <1>g, <2>1, <3>1, <3>2, <3>3 DEF DeleteUser, At
  <2>. QED
    BY <1>19, <2>2, <2>3 DEF DeleteUser
<1>. QED
  BY <1>0, <1>1, <1>2, <1>3, <1>4, <1>5, <1>6, <1>7, <1>8, <1>9, <1>10, <1>11,
     <1>12, <1>13, <1>14, <1>15, <1>16, <1>17, <1>18, <1>19
  DEF Next, Sessions, Passwords, Administration

(* The last administrator is demoted or deleted only by a removal that     *)
(* another one outran, however many overlap and whichever call fails.      *)
THEOREM LastAdministratorStays == Spec => LastAdminGoesOnlyByOverlap
<1>1. Init => TypeOK /\ CountStands
  BY TypeOKInit DEF Init, CountStands, Removals, Idle
<1>2. TypeOK /\ CountStands /\ [Next]_vars
        => /\ (TypeOK /\ CountStands)'
           /\ [AdminRemains /\ ~ AdminRemains' => OutrunRemoval]_role
  BY TypeOKStep, AdminStep
<1>. QED
  BY <1>1, <1>2, PTL DEF Spec, LastAdminGoesOnlyByOverlap

-----------------------------------------------------------------------------
(* Sessions.  A step keeps the invariant of the sessions if, of what the   *)
(* invariant reads, it changes nothing but the following.                  *)

(* Requests end, or come nearer to their end without issuing. *)
RequestKept(q) ==
  IsIssuing(q)' =>
    /\ IsIssuing(q)
    /\ req'[q].kind = req[q].kind
    /\ req'[q].user = req[q].user
    /\ req'[q].token = req[q].token
    /\ req'[q].session = req[q].session
    /\ req'[q].pw = req[q].pw
    /\ req[q].late => req'[q].late
    /\ req'[q].pc = "issue" <=> req[q].pc = "issue"

(* Tokens may be revoked. *)
TokenKept(t) ==
  /\ Issued(t)' <=> Issued(t)
  /\ Live(t)' => Live(t)
  /\ Issued(t) => /\ tokens'[t].user = tokens[t].user
                  /\ tokens'[t].session = tokens[t].session
                  /\ tokens'[t].pw = tokens[t].pw
                  /\ tokens[t].late => tokens'[t].late

(* Accounts may be created and change their roles. *)
AccountKept(u) ==
  /\ role'[u] = "gone" <=> role[u] = "gone"
  /\ role[u] # "none" => role'[u] # "none"

(* Only the password whose revocation r owes may change. *)
PasswordKept(u, r) == password'[u] = password[u] \/ RevocationDue(u, r)'

HistoryKept ==
  /\ raced \subseteq raced'
  /\ purged' = purged
  /\ unrevoked \subseteq unrevoked'

(* A revocation that is due stays due or fails. *)
DueKept ==
  \A q \in Requests, u \in Users :
    RevocationDue(u, q) => RevocationDue(u, q)' \/ u \in unrevoked'

RequestTokens == TypeOK =>
  /\ \A t \in Tokens : Issued(t) => tokens[t].user \in Users /\ tokens[t].session \in Tokens
  /\ \A r \in Requests : IsIssuing(r) =>
       /\ req[r].user \in Users
       /\ req[r].session \in Tokens \cup {NoToken}
       /\ req[r].token \in Tokens \cup {NoToken}
       /\ req[r].kind = "refresh" => req[r].session \in Tokens
       /\ (req[r].kind = "refresh" /\ req[r].pc # "issue") => req[r].token \in Tokens
       /\ req[r].pc = "issue" => req[r].token = NoToken
       /\ req[r].kind # "refresh" => req[r].session = NoToken /\ req[r].token = NoToken

LEMMA Ranges == RequestTokens
<1>. SUFFICES ASSUME TypeOK
              PROVE  /\ \A t \in Tokens : Issued(t) =>
                          tokens[t].user \in Users /\ tokens[t].session \in Tokens
                     /\ \A r \in Requests : IsIssuing(r) =>
                          /\ req[r].user \in Users
                          /\ req[r].session \in Tokens \cup {NoToken}
                          /\ req[r].token \in Tokens \cup {NoToken}
                          /\ req[r].kind = "refresh" => req[r].session \in Tokens
                          /\ (req[r].kind = "refresh" /\ req[r].pc # "issue")
                               => req[r].token \in Tokens
                          /\ req[r].pc = "issue" => req[r].token = NoToken
                          /\ req[r].kind # "refresh" =>
                               req[r].session = NoToken /\ req[r].token = NoToken
  BY DEF RequestTokens
<1>1. \A t \in Tokens : Issued(t) =>
        tokens[t].user \in Users /\ tokens[t].session \in Tokens
  BY DEF TypeOK, Issued, Token, Absent
<1>2. ASSUME NEW r \in Requests, IsIssuing(r)
      PROVE  \/ req[r] \in Issuer("login", {"issue"}, {NoToken}, {NoToken})
             \/ req[r] \in Issuer("change", {"set", "revoke", "issue"}, {NoToken}, {NoToken})
             \/ req[r] \in Issuer("refresh", {"load", "rotate"}, Tokens, Tokens)
             \/ req[r] \in Issuer("refresh", {"issue"}, {NoToken}, Tokens)
  <2>. req[r] \in Request
    BY <1>2, RequestShapes DEF IsIssuing
  <2>. QED
    BY <1>2 DEF IsIssuing, Request, Actor, RoleChange, Retirement
<1>. QED
  BY <1>1, <1>2 DEF Issuer

LEMMA QuietStep ==
  ASSUME SessionInv, TypeOK',
         \A q \in Requests : RequestKept(q),
         \A t \in Tokens : TokenKept(t),
         \A u \in Users : AccountKept(u),
         password' = password, HistoryKept, DueKept
  PROVE  SessionInv'
<1>. USE DEF HistoryKept
<1>0. TypeOK
  BY DEF SessionInv
<1>a. /\ \A t \in Tokens : Issued(t) =>
           tokens[t].user \in Users /\ tokens[t].session \in Tokens
      /\ \A r \in Requests : IsIssuing(r) =>
           req[r].user \in Users /\ req[r].session \in Tokens \cup {NoToken}
      /\ \A r \in Requests : Refreshing(r) =>
           /\ req[r].session \in Tokens
           /\ req[r].pc # "issue" => req[r].token \in Tokens
  BY <1>0, Ranges DEF RequestTokens, Refreshing, IsIssuing
<1>b. \A r \in Requests : Refreshing(r)' => Refreshing(r) /\ IsIssuing(r) /\ IsIssuing(r)'
  BY DEF Refreshing, IsIssuing, RequestKept
<1>1. Lineage'
  BY <1>a, <1>b DEF SessionInv, Lineage, RequestKept, TokenKept, AccountKept
<1>2. OneHeir'
  BY <1>a, <1>b DEF SessionInv, OneHeir, RequestKept, TokenKept, Live, Issued
<1>3. OneLiveTokenPerSession'
  BY <1>a DEF SessionInv, OneLiveTokenPerSession, TokenKept, Live, Issued
<1>4. OvertakenAreLate'
  <2>1. \A x \in purged' : Issued(x)'
    BY <1>0 DEF SessionInv, OvertakenAreLate, TokenKept, TypeOK
  <2>2. ASSUME NEW r \in Requests, IsIssuing(r)',
               ~ (req[r].session \notin purged /\ role'[req[r].user] # "gone")
        PROVE  req'[r].late
    BY <1>a, <2>2 DEF SessionInv, OvertakenAreLate, RequestKept, AccountKept
  <2>. QED
    BY <2>1, <2>2 DEF OvertakenAreLate, RequestKept
<1>5. RevocationEndsSessions'
  BY <1>a DEF SessionInv, RevocationEndsSessions, TokenKept, AccountKept, Live, Issued
<1>6. RequestsHoldPassword'
  BY <1>a DEF SessionInv, RequestsHoldPassword, RequestKept, AccountKept, DueKept
<1>7. PasswordChangeEndsSessions'
  BY <1>a DEF SessionInv, PasswordChangeEndsSessions, Excused, TokenKept, AccountKept, DueKept, Live, Issued
<1>. QED
  BY <1>1, <1>2, <1>3, <1>4, <1>5, <1>6, <1>7 DEF SessionInv

(* What the invariant says of one request. *)
CheckSound(r) ==
  IsIssuing(r) =>
    /\ role[req[r].user] # "none"
    /\ \/ req[r].session \notin purged /\ role[req[r].user] # "gone"
       \/ req[r].late
    /\ \/ req[r].pw = password[req[r].user]
       \/ req[r].late
       \/ req[r].user \in unrevoked
       \/ \E q \in Requests \ {r} : RevocationDue(req[r].user, q)

FamilySound(r) ==
  Refreshing(r) =>
    /\ Issued(req[r].session)
    /\ tokens[req[r].session].user = req[r].user
    /\ \/ req[r].pc = "issue"
       \/ Issued(req[r].token) /\ tokens[req[r].token].session = req[r].session
    /\ \A q \in Requests \ {r} :
         (Refreshing(q) /\ req[q].session = req[r].session) => req[r].session \in raced
    /\ \A t \in Tokens :
         (Live(t) /\ tokens[t].session = req[r].session)
           => t = req[r].token \/ req[r].session \in raced

RequestSound(r) == CheckSound(r) /\ FamilySound(r)

(* One request goes its way and the others are kept. *)
LEMMA RequestStep ==
  ASSUME SessionInv, TypeOK',
         NEW r \in Requests, RequestSound(r)',
         \A q \in Requests \ {r} : RequestKept(q),
         \A t \in Tokens : TokenKept(t),
         \A u \in Users : AccountKept(u) /\ PasswordKept(u, r),
         HistoryKept, DueKept
  PROVE  SessionInv'
<1>. USE DEF HistoryKept
<1>0. TypeOK
  BY DEF SessionInv
<1>a. /\ \A t \in Tokens : Issued(t) =>
           tokens[t].user \in Users /\ tokens[t].session \in Tokens
      /\ \A q \in Requests : IsIssuing(q) =>
           req[q].user \in Users /\ req[q].session \in Tokens \cup {NoToken}
      /\ \A q \in Requests : Refreshing(q) =>
           /\ req[q].session \in Tokens
           /\ req[q].pc # "issue" => req[q].token \in Tokens
  BY <1>0, Ranges DEF RequestTokens, Refreshing, IsIssuing
<1>b. \A q \in Requests : Refreshing(q)' => IsIssuing(q)'
  BY DEF Refreshing, IsIssuing
<1>c. \A q \in Requests \ {r} : Refreshing(q)' => Refreshing(q) /\ IsIssuing(q)
  BY DEF Refreshing, IsIssuing, RequestKept
<1>1. Lineage'
  <2>1. \A t \in Tokens : Issued(t)' =>
          /\ Issued(tokens[t].session)'
          /\ (tokens[tokens[t].session].user = tokens[t].user)'
          /\ (role[tokens[t].user] # "none")'
    BY <1>a DEF SessionInv, Lineage, TokenKept, AccountKept
  <2>2. \A q \in Requests : IsIssuing(q)' => role'[req'[q].user] # "none"
    BY <1>a DEF SessionInv, Lineage, RequestKept, AccountKept, RequestSound, CheckSound
  <2>3. \A q \in Requests : Refreshing(q)' =>
          /\ Issued(req[q].session)'
          /\ (tokens[req[q].session].user = req[q].user)'
          /\ \/ (req[q].pc = "issue")'
             \/ (Issued(req[q].token) /\ tokens[req[q].token].session = req[q].session)'
    BY <1>a, <1>b, <1>c DEF SessionInv, Lineage, RequestKept, TokenKept, RequestSound, FamilySound
  <2>. QED
    BY <2>1, <2>2, <2>3 DEF Lineage
<1>2. OneHeir'
  <2>1. \A q \in Requests \ {r}, x \in Requests \ {r} :
          (Refreshing(q)' /\ Refreshing(x)' /\ req'[q].session = req'[x].session)
            => q = x \/ req'[x].session \in raced'
    BY <1>a, <1>b, <1>c DEF SessionInv, OneHeir, RequestKept
  <2>2. ASSUME NEW q \in Requests \ {r}, NEW t \in Tokens,
               Refreshing(q)', Live(t)', tokens'[t].session = req'[q].session
        PROVE  t = req'[q].token \/ req'[q].session \in raced'
    <3>1. /\ Refreshing(q)
          /\ req'[q].session = req[q].session
          /\ req'[q].token = req[q].token
      BY <1>b, <1>c, <2>2 DEF RequestKept
    <3>2. Live(t) /\ tokens'[t].session = tokens[t].session
      BY <2>2 DEF TokenKept, Live, Issued
    <3>. QED
      BY <2>2, <3>1, <3>2 DEF SessionInv, OneHeir
  <2>3. ASSUME NEW q \in Requests, NEW x \in Requests,
               Refreshing(q)', Refreshing(x)', req'[q].session = req'[x].session
        PROVE  q = x \/ req'[x].session \in raced'
    BY <2>1, <2>3 DEF RequestSound, FamilySound
  <2>4. ASSUME NEW q \in Requests, NEW t \in Tokens,
               Refreshing(q)', Live(t)', tokens'[t].session = req'[q].session
        PROVE  t = req'[q].token \/ req'[q].session \in raced'
    BY <2>2, <2>4 DEF RequestSound, FamilySound
  <2>. QED
    BY <2>3, <2>4 DEF OneHeir
<1>3. OneLiveTokenPerSession'
  BY <1>a DEF SessionInv, OneLiveTokenPerSession, TokenKept, Live, Issued
<1>4. OvertakenAreLate'
  <2>1. \A x \in purged' : Issued(x)'
    BY <1>0 DEF SessionInv, OvertakenAreLate, TokenKept, TypeOK
  <2>2. ASSUME NEW q \in Requests \ {r}, IsIssuing(q)',
               ~ (req[q].session \notin purged /\ role'[req[q].user] # "gone")
        PROVE  req'[q].late
    BY <1>a, <2>2 DEF SessionInv, OvertakenAreLate, RequestKept, AccountKept
  <2>. QED
    BY <2>1, <2>2 DEF OvertakenAreLate, RequestKept, RequestSound, CheckSound
<1>5. RevocationEndsSessions'
  BY <1>a DEF SessionInv, RevocationEndsSessions, TokenKept, AccountKept, Live, Issued
<1>6. RequestsHoldPassword'
  <2>1. ASSUME NEW q \in Requests \ {r}, IsIssuing(q)'
        PROVE  \/ req'[q].pw = password'[req'[q].user]
               \/ req'[q].late
               \/ req'[q].user \in unrevoked'
               \/ \E x \in Requests \ {q} : RevocationDue(req[q].user, x)'
    <3>1. /\ IsIssuing(q)
          /\ req'[q].user = req[q].user
          /\ req'[q].pw = req[q].pw
          /\ req[q].late => req'[q].late
          /\ req[q].user \in Users
      BY <1>a, <2>1 DEF RequestKept
    <3>2. \/ req[q].pw = password[req[q].user]
          \/ req[q].late
          \/ req[q].user \in unrevoked
          \/ \E x \in Requests \ {q} : RevocationDue(req[q].user, x)
      BY <3>1 DEF SessionInv, RequestsHoldPassword
    <3>3. CASE \E x \in Requests \ {q} : RevocationDue(req[q].user, x)
      <4>. PICK x \in Requests \ {q} : RevocationDue(req[q].user, x)
        BY <3>3
      <4>. DEFINE u == req[q].user
      <4>1. u \in Users /\ RevocationDue(u, x)
        BY <3>1
      <4>2. (At(x, "revoke") /\ req[x].kind # "role" /\ req[x].user = u)'
              \/ u \in unrevoked'
        BY <3>1, <4>1 DEF DueKept, RevocationDue
      <4>. QED
        BY <3>1, <4>2 DEF RevocationDue
    <3>4. CASE password'[req[q].user] # password[req[q].user]
      BY <3>1, <3>4 DEF PasswordKept, RevocationDue
    <3>. QED
      BY <3>1, <3>2, <3>3, <3>4
  <2>2. \A q \in Requests : IsIssuing(q)' =>
               \/ req'[q].pw = password'[req'[q].user]
               \/ req'[q].late
               \/ req'[q].user \in unrevoked'
               \/ \E x \in Requests \ {q} : RevocationDue(req[q].user, x)'
    BY <2>1 DEF RequestSound, CheckSound
  <2>. QED
    BY <2>2 DEF RequestsHoldPassword
<1>7. PasswordChangeEndsSessions'
  <2>. SUFFICES ASSUME NEW t \in Tokens, Live(t)'
                PROVE  \/ tokens'[t].pw = password'[tokens'[t].user]
                       \/ tokens'[t].late
                       \/ Excused(tokens[t].user)'
    BY DEF PasswordChangeEndsSessions
  <2>1. /\ Live(t) /\ tokens[t].user \in Users
        /\ tokens'[t].user = tokens[t].user
        /\ tokens'[t].pw = tokens[t].pw
        /\ tokens[t].late => tokens'[t].late
    BY <1>a DEF TokenKept, Live, Issued
  <2>2. CASE \E x \in Requests : RevocationDue(tokens[t].user, x)
    BY <2>1, <2>2 DEF DueKept, Excused, RevocationDue
  <2>3. CASE password'[tokens[t].user] # password[tokens[t].user]
    BY <2>1, <2>3 DEF PasswordKept, Excused, RevocationDue
  <2>4. \/ tokens[t].pw = password[tokens[t].user]
        \/ tokens[t].late
        \/ tokens[t].user \in unrevoked
        \/ \E x \in Requests : RevocationDue(tokens[t].user, x)
    BY <2>1 DEF SessionInv, PasswordChangeEndsSessions, Excused
  <2>. QED
    BY <2>1, <2>2, <2>3, <2>4 DEF Excused
<1>. QED
  BY <1>1, <1>2, <1>3, <1>4, <1>5, <1>6, <1>7 DEF SessionInv

(* All that was usable of u is cut off by request r. *)
LEMMA SeveringStep ==
  ASSUME SessionInv, TypeOK', NEW r \in Requests, NEW u \in Users,
         \A t \in Tokens : TokenKept(t) /\ (Of(t, u) => ~ Live(t)'),
         \A q \in Requests \ {r} : req'[q] = Overtaken(u, r)[q],
         ~ Refreshing(r)', CheckSound(r)',
         \A a \in Users \ {u} : ~ RevocationDue(a, r),
         purged' = purged \cup SessionsOf(u),
         raced' = raced, password' = password, unrevoked \ {u} \subseteq unrevoked',
         \A a \in Users \ {u} : role'[a] = role[a],
         role'[u] = role[u] \/ role'[u] = "gone"
  PROVE  SessionInv'
<1>0. TypeOK
  BY DEF SessionInv
<1>a. /\ \A t \in Tokens : Issued(t) =>
           tokens[t].user \in Users /\ tokens[t].session \in Tokens
      /\ \A q \in Requests : IsIssuing(q) =>
           req[q].user \in Users /\ req[q].session \in Tokens \cup {NoToken}
      /\ \A q \in Requests : Refreshing(q) =>
           /\ req[q].session \in Tokens
           /\ req[q].pc # "issue" => req[q].token \in Tokens
      /\ \A q \in Requests : (IsIssuing(q) /\ ~ Refreshing(q)) => req[q].session = NoToken
  BY <1>0, Ranges DEF RequestTokens, Refreshing, IsIssuing
<1>b. \A q \in Requests \ {r} :
        /\ RequestKept(q)
        /\ IsIssuing(q)' /\ req[q].user = u => req'[q].late
        /\ \A a \in Users : RevocationDue(a, q) => RevocationDue(a, q)'
  <2>. SUFFICES ASSUME NEW q \in Requests \ {r}
                PROVE  /\ RequestKept(q)
                       /\ IsIssuing(q)' /\ req[q].user = u => req'[q].late
                       /\ \A a \in Users : RevocationDue(a, q) => RevocationDue(a, q)'
    OBVIOUS
  <2>1. CASE ~ IsIssuing(q)
    <3>. req'[q] = req[q]
      BY <1>0, <2>1, OvertakenFields
    <3>. QED
      BY <2>1 DEF RequestKept, IsIssuing, RevocationDue, At
  <2>2. CASE IsIssuing(q)
    BY <1>0, <2>2, OvertakenFields DEF RequestKept, IsIssuing, RevocationDue, At
  <2>. QED
    BY <2>1, <2>2
<1>c. \A q \in Requests \ {r} : Refreshing(q)' => Refreshing(q) /\ IsIssuing(q) /\ IsIssuing(q)'
  BY <1>b DEF Refreshing, IsIssuing, RequestKept
<1>d. \A a \in Users : role[a] # "none" => role'[a] # "none"
  OBVIOUS
<1>e. \A t \in Tokens : Issued(t) /\ tokens[t].session \in SessionsOf(u) => tokens[t].user = u
  BY DEF SessionInv, Lineage, SessionsOf, Of, Issued
<1>f. \A q \in Requests : IsIssuing(q) /\ req[q].session \in SessionsOf(u) => req[q].user = u
  <2>. SUFFICES ASSUME NEW q \in Requests, IsIssuing(q), req[q].session \in SessionsOf(u)
                PROVE  req[q].user = u
    OBVIOUS
  <2>1. PICK t \in Tokens : Of(t, u) /\ req[q].session = tokens[t].session
    BY DEF SessionsOf
  <2>2. Refreshing(q)
    BY <1>a, <2>1, AccountConstants DEF Of
  <2>. QED
    BY <2>1, <2>2 DEF SessionInv, Lineage, Of
<1>1. Lineage'
  <2>1. \A t \in Tokens : Issued(t)' =>
          /\ Issued(tokens[t].session)'
          /\ (tokens[tokens[t].session].user = tokens[t].user)'
          /\ (role[tokens[t].user] # "none")'
    BY <1>a, <1>d DEF SessionInv, Lineage, TokenKept
  <2>2. \A q \in Requests \ {r} : IsIssuing(q)' => role'[req'[q].user] # "none"
    BY <1>a, <1>b, <1>d DEF SessionInv, Lineage, RequestKept
  <2>3. \A q \in Requests : Refreshing(q)' =>
          /\ Issued(req[q].session)'
          /\ (tokens[req[q].session].user = req[q].user)'
          /\ \/ (req[q].pc = "issue")'
             \/ (Issued(req[q].token) /\ tokens[req[q].token].session = req[q].session)'
    BY <1>a, <1>b, <1>c DEF SessionInv, Lineage, RequestKept, TokenKept
  <2>. QED
    BY <2>1, <2>2, <2>3 DEF Lineage, CheckSound
<1>2. OneHeir'
  <2>1. \A q \in Requests : Refreshing(q)' =>
          /\ q # r
          /\ Refreshing(q)
          /\ req'[q].session = req[q].session
          /\ req'[q].token = req[q].token
    BY <1>b, <1>c DEF RequestKept
  <2>2. \A t \in Tokens : Live(t)' =>
          Live(t) /\ tokens'[t].session = tokens[t].session
    BY DEF TokenKept, Live, Issued
  <2>. QED
    BY <2>1, <2>2 DEF SessionInv, OneHeir
<1>3. OneLiveTokenPerSession'
  BY <1>a DEF SessionInv, OneLiveTokenPerSession, TokenKept, Live, Issued
<1>4. OvertakenAreLate'
  <2>1. \A x \in purged' : Issued(x)'
    BY <1>0 DEF SessionInv, OvertakenAreLate, Lineage, TokenKept, TypeOK, SessionsOf, Of
  <2>2. ASSUME NEW q \in Requests \ {r}, IsIssuing(q)',
               ~ (req[q].session \notin purged' /\ role'[req[q].user] # "gone")
        PROVE  req'[q].late
    <3>1. IsIssuing(q) /\ req[q].user \in Users /\ (req[q].late => req'[q].late)
      BY <1>a, <1>b, <2>2 DEF RequestKept
    <3>2. CASE req[q].user = u
      BY <1>b, <2>2, <3>2
    <3>3. CASE req[q].user # u
      <4>. ~ (req[q].session \notin purged /\ role[req[q].user] # "gone")
        BY <1>f, <2>2, <3>1, <3>3
      <4>. QED
        BY <3>1 DEF SessionInv, OvertakenAreLate
    <3>. QED
      BY <3>2, <3>3
  <2>. QED
    BY <1>b, <2>1, <2>2 DEF OvertakenAreLate, RequestKept, CheckSound
<1>5. RevocationEndsSessions'
  <2>1. \A t \in Tokens : Live(t)' =>
          /\ Live(t) /\ Issued(t) /\ ~ Of(t, u)
          /\ tokens'[t].session = tokens[t].session
          /\ tokens'[t].user = tokens[t].user
          /\ tokens[t].late => tokens'[t].late
    BY DEF TokenKept, Live, Issued
  <2>. QED
    BY <1>a, <1>e, <2>1 DEF SessionInv, RevocationEndsSessions, Of
<1>6. RequestsHoldPassword'
  <2>1. ASSUME NEW q \in Requests \ {r}, IsIssuing(q)'
        PROVE  \/ req'[q].pw = password'[req'[q].user]
               \/ req'[q].late
               \/ req'[q].user \in unrevoked'
               \/ \E x \in Requests \ {q} : RevocationDue(req[q].user, x)'
    <3>1. /\ IsIssuing(q)
          /\ req'[q].user = req[q].user
          /\ req'[q].pw = req[q].pw
          /\ req[q].late => req'[q].late
          /\ req[q].user \in Users
      BY <1>a, <1>b, <2>1 DEF RequestKept
    <3>2. CASE req[q].user = u
      BY <1>b, <2>1, <3>2
    <3>3. CASE req[q].user # u /\ \E x \in Requests \ {q} : RevocationDue(req[q].user, x)
      <4>1. PICK x \in Requests \ {q} : RevocationDue(req[q].user, x)
        BY <3>3
      <4>. DEFINE a == req[q].user
      <4>2. a \in Users \ {u} /\ RevocationDue(a, x)
        BY <3>1, <3>3, <4>1
      <4>3. x # r
        BY <4>2
      <4>4. (At(x, "revoke") /\ req[x].kind # "role" /\ req[x].user = a)'
        BY <1>b, <3>1, <4>2, <4>3 DEF RevocationDue
      <4>. QED
        BY <3>1, <4>4 DEF RevocationDue
    <3>4. \/ req[q].pw = password[req[q].user]
          \/ req[q].late
          \/ req[q].user \in unrevoked
          \/ \E x \in Requests \ {q} : RevocationDue(req[q].user, x)
      BY <3>1 DEF SessionInv, RequestsHoldPassword
    <3>. QED
      BY <3>1, <3>2, <3>3, <3>4
  <2>. QED
    BY <2>1 DEF RequestsHoldPassword, CheckSound
<1>7. PasswordChangeEndsSessions'
  <2>. SUFFICES ASSUME NEW t \in Tokens, Live(t)'
                PROVE  \/ tokens'[t].pw = password'[tokens'[t].user]
                       \/ tokens'[t].late
                       \/ Excused(tokens[t].user)'
    BY DEF PasswordChangeEndsSessions
  <2>1. /\ Live(t) /\ tokens[t].user \in Users \ {u}
        /\ tokens'[t].user = tokens[t].user
        /\ tokens'[t].pw = tokens[t].pw
        /\ tokens[t].late => tokens'[t].late
    BY <1>a DEF TokenKept, Live, Issued, Of
  <2>2. CASE \E x \in Requests : RevocationDue(tokens[t].user, x)
    <3>1. PICK x \in Requests : RevocationDue(tokens[t].user, x)
      BY <2>2
    <3>. DEFINE a == tokens[t].user
    <3>2. x # r /\ RevocationDue(a, x) /\ a \in Users
      BY <2>1, <3>1
    <3>3. (At(x, "revoke") /\ req[x].kind # "role" /\ req[x].user = a)'
      BY <1>b, <2>1, <3>2 DEF RevocationDue
    <3>. QED
      BY <2>1, <3>3 DEF RevocationDue, Excused
  <2>3. \/ tokens[t].pw = password[tokens[t].user]
        \/ tokens[t].late
        \/ tokens[t].user \in unrevoked
        \/ \E x \in Requests : RevocationDue(tokens[t].user, x)
    BY <2>1 DEF SessionInv, PasswordChangeEndsSessions, Excused
  <2>. QED
    BY <2>1, <2>2, <2>3 DEF Excused
<1>. QED
  BY <1>1, <1>2, <1>3, <1>4, <1>5, <1>6, <1>7 DEF SessionInv

(* A token is stored. *)
LEMMA IssueStep ==
  ASSUME SessionInv, TypeOK', NEW r \in Requests, At(r, "issue"),
         NEW t \in Tokens, ~ Issued(t),
         tokens' = [tokens EXCEPT ![t] =
           [status  |-> "live", user |-> req[r].user, pw |-> req[r].pw,
            late    |-> req[r].late,
            session |-> IF req[r].session = NoToken THEN t ELSE req[r].session]],
         Finish(r), UNCHANGED <<accounts, history>>
  PROVE  SessionInv'
<1>. DEFINE s == IF req[r].session = NoToken THEN t ELSE req[r].session
<1>0. TypeOK
  BY DEF SessionInv
<1>a. /\ \A x \in Tokens : Issued(x) =>
           tokens[x].user \in Users /\ tokens[x].session \in Tokens
      /\ \A q \in Requests : Refreshing(q) =>
           /\ req[q].session \in Tokens
           /\ req[q].pc # "issue" => req[q].token \in Tokens
  BY <1>0, Ranges DEF RequestTokens, Refreshing, IsIssuing
<1>b. /\ IsIssuing(r) /\ req[r].user \in Users /\ req[r].token = NoToken
      /\ Refreshing(r) \/ req[r].session = NoToken
      /\ Refreshing(r) => req[r].session # NoToken
      /\ s \in Tokens
  BY <1>0, RequestShapes, AccountConstants DEF IsIssuing, Refreshing, At, Issuer
<1>c. /\ \A q \in Requests \ {r} : req'[q] = req[q]
      /\ req'[r] = Idle
  BY <1>0 DEF Finish, TypeOK
<1>d. /\ \A x \in Tokens \ {t} : tokens'[x] = tokens[x]
      /\ Issued(t)' /\ Live(t)'
      /\ tokens'[t].user = req[r].user
      /\ tokens'[t].session = s
      /\ tokens'[t].pw = req[r].pw
      /\ req[r].late => tokens'[t].late
  BY <1>0, <1>b DEF TypeOK, Issued, Live
<1>e. \A x \in Tokens : Issued(x) => x # t /\ Issued(x)' /\ tokens[x].session # t
  BY <1>a, <1>d DEF SessionInv, Lineage, Issued
<1>f. \A q \in Requests : Refreshing(q)' => q # r /\ Refreshing(q)
  BY <1>c DEF Refreshing, Idle
<1>g. \A q \in Requests : IsIssuing(q)' => q # r /\ IsIssuing(q)
  BY <1>c DEF IsIssuing, Idle
<1>h. s = t \/ (Refreshing(r) /\ req[r].session = s /\ s # t /\ Issued(s))
  BY <1>b, <1>e DEF SessionInv, Lineage
<1>1. Lineage'
  <2>1. ASSUME NEW x \in Tokens \ {t}, Issued(x)'
        PROVE  /\ Issued(tokens[x].session)'
               /\ (tokens[tokens[x].session].user = tokens[x].user)'
               /\ (role[tokens[x].user] # "none")'
    <3>1. Issued(x) /\ tokens'[x] = tokens[x]
      BY <1>d, <2>1 DEF Issued
    <3>2. tokens'[tokens[x].session] = tokens[tokens[x].session]
      BY <1>a, <1>d, <1>e, <3>1
    <3>. QED
      BY <1>a, <3>1, <3>2 DEF SessionInv, Lineage, Issued
  <2>2. /\ Issued(tokens[t].session)'
        /\ (tokens[tokens[t].session].user = tokens[t].user)'
        /\ (role[tokens[t].user] # "none")'
    <3>1. CASE s = t
      BY <1>b, <1>d, <3>1 DEF SessionInv, Lineage, Issued
    <3>2. CASE s # t
      <4>1. tokens'[s] = tokens[s] /\ Issued(s)
        BY <1>b, <1>d, <1>h, <3>2
      <4>. QED
        BY <1>b, <1>d, <1>h, <3>2, <4>1 DEF SessionInv, Lineage, Issued
    <3>. QED
      BY <3>1, <3>2
  <2>3. \A q \in Requests : IsIssuing(q)' => role'[req'[q].user] # "none"
    BY <1>c, <1>g DEF SessionInv, Lineage
  <2>4. ASSUME NEW q \in Requests, Refreshing(q)'
        PROVE  /\ Issued(req[q].session)'
               /\ (tokens[req[q].session].user = req[q].user)'
               /\ \/ (req[q].pc = "issue")'
                  \/ (Issued(req[q].token) /\ tokens[req[q].token].session = req[q].session)'
    <3>1. Refreshing(q) /\ req'[q] = req[q]
      BY <1>c, <1>f, <2>4
    <3>2. Issued(req[q].session) /\ tokens[req[q].session].user = req[q].user
      BY <3>1 DEF SessionInv, Lineage
    <3>3. Issued(req[q].session)' /\ (tokens[req[q].session].user = req[q].user)'
      BY <1>a, <1>d, <1>e, <3>1, <3>2 DEF Issued
    <3>4. \/ req[q].pc = "issue"
          \/ /\ req[q].token \in Tokens /\ Issued(req[q].token)
             /\ tokens[req[q].token].session = req[q].session
      BY <1>a, <3>1 DEF SessionInv, Lineage
    <3>. QED
      BY <1>d, <1>e, <3>1, <3>3, <3>4 DEF Issued
  <2>. QED
    BY <1>d, <2>1, <2>2, <2>3, <2>4 DEF Lineage
<1>2. OneHeir'
  <2>1. ASSUME NEW q \in Requests, NEW x \in Tokens,
               Refreshing(q)', Live(x)', tokens'[x].session = req'[q].session
        PROVE  x = req'[q].token \/ req'[q].session \in raced'
    <3>1. Refreshing(q) /\ req'[q] = req[q] /\ q # r
      BY <1>c, <1>f, <2>1
    <3>2. CASE x = t
      <4>1. Issued(req[q].session) /\ req[q].session \in Tokens
        BY <1>a, <3>1 DEF SessionInv, Lineage
      <4>2. req[q].session = s /\ s # t
        BY <1>d, <1>e, <2>1, <3>1, <3>2, <4>1
      <4>. QED
        BY <1>h, <3>1, <4>2 DEF SessionInv, OneHeir
    <3>3. CASE x # t
      BY <1>d, <2>1, <3>1, <3>3 DEF SessionInv, OneHeir, Live
    <3>. QED
      BY <3>2, <3>3
  <2>2. \A q, x \in Requests :
          (Refreshing(q)' /\ Refreshing(x)' /\ req'[q].session = req'[x].session)
            => q = x \/ req'[x].session \in raced'
    BY <1>c, <1>f DEF SessionInv, OneHeir
  <2>. QED
    BY <2>1, <2>2 DEF OneHeir
<1>3. OneLiveTokenPerSession'
  <2>1. ASSUME NEW x \in Tokens \ {t}, Live(x)', tokens'[x].session = s
        PROVE  s \in raced
    <3>1. Live(x) /\ tokens[x].session = s /\ Issued(x)
      BY <1>d, <2>1 DEF Live, Issued
    <3>2. Refreshing(r) /\ req[r].session = s
      BY <1>e, <1>h, <3>1
    <3>. QED
      BY <1>b, <3>1, <3>2, AccountConstants DEF SessionInv, OneHeir
  <2>2. \A x, y \in Tokens \ {t} :
          (Live(x)' /\ Live(y)' /\ tokens'[x].session = tokens'[y].session)
            => x = y \/ tokens'[x].session \in raced'
    BY <1>d DEF SessionInv, OneLiveTokenPerSession, Live
  <2>. QED
    BY <1>d, <2>1, <2>2 DEF OneLiveTokenPerSession
<1>4. OvertakenAreLate'
  <2>1. \A x \in purged : x \in Tokens /\ Issued(x)
    BY <1>0 DEF SessionInv, OvertakenAreLate, TypeOK
  <2>2. \A q \in Requests : IsIssuing(q)' => IsIssuing(q) /\ req'[q] = req[q]
    BY <1>c, <1>g
  <2>. QED
    BY <1>e, <2>1, <2>2 DEF SessionInv, OvertakenAreLate
<1>5. RevocationEndsSessions'
  <2>1. ASSUME s \in purged \/ role[req[r].user] = "gone" PROVE tokens'[t].late
    <3>1. t \notin purged
      BY DEF SessionInv, OvertakenAreLate
    <3>2. req[r].session \in purged \/ role[req[r].user] = "gone"
      BY <1>h, <2>1, <3>1
    <3>. QED
      BY <1>b, <1>d, <3>2 DEF SessionInv, OvertakenAreLate
  <2>2. ASSUME NEW x \in Tokens \ {t}, Live(x)',
               (tokens[x].session \in purged \/ role[tokens[x].user] = "gone")'
        PROVE  tokens'[x].late
    BY <1>d, <2>2 DEF SessionInv, RevocationEndsSessions, Live
  <2>. QED
    BY <1>d, <2>1, <2>2 DEF RevocationEndsSessions
<1>i. \A x \in Requests, a \in Users : RevocationDue(a, x) => x # r /\ RevocationDue(a, x)'
  BY <1>c DEF RevocationDue, At
<1>6. RequestsHoldPassword'
  <2>. SUFFICES ASSUME NEW q \in Requests, IsIssuing(q)'
                PROVE  \/ req'[q].pw = password'[req'[q].user]
                       \/ req'[q].late
                       \/ req'[q].user \in unrevoked'
                       \/ \E x \in Requests \ {q} : RevocationDue(req[q].user, x)'
    BY DEF RequestsHoldPassword
  <2>1. IsIssuing(q) /\ req'[q] = req[q] /\ req[q].user \in Users
    BY <1>0, <1>c, <1>g, Ranges DEF RequestTokens
  <2>2. CASE \E x \in Requests \ {q} : RevocationDue(req[q].user, x)
    BY <1>c, <2>1, <2>2 DEF RevocationDue, At
  <2>3. \/ req[q].pw = password[req[q].user]
        \/ req[q].late
        \/ req[q].user \in unrevoked
        \/ \E x \in Requests \ {q} : RevocationDue(req[q].user, x)
    BY <2>1 DEF SessionInv, RequestsHoldPassword
  <2>. QED
    BY <2>1, <2>2, <2>3
<1>7. PasswordChangeEndsSessions'
  <2>. SUFFICES ASSUME NEW x \in Tokens, Live(x)'
                PROVE  \/ tokens'[x].pw = password'[tokens'[x].user]
                       \/ tokens'[x].late
                       \/ Excused(tokens[x].user)'
    BY DEF PasswordChangeEndsSessions
  <2>. DEFINE a == tokens'[x].user
  <2>1. CASE x = t
    <3>1. \/ req[r].pw = password[req[r].user]
          \/ req[r].late
          \/ req[r].user \in unrevoked
          \/ \E q \in Requests \ {r} : RevocationDue(req[r].user, q)
      BY <1>b DEF SessionInv, RequestsHoldPassword
    <3>2. CASE \E q \in Requests \ {r} : RevocationDue(req[r].user, q)
      BY <1>c, <1>d, <2>1, <3>2 DEF RevocationDue, At, Excused
    <3>. QED
      BY <1>d, <2>1, <3>1, <3>2 DEF Excused
  <2>2. CASE x # t
    <3>1. Live(x) /\ tokens'[x] = tokens[x]
      BY <1>d, <2>2 DEF Live
    <3>2. \/ tokens[x].pw = password[tokens[x].user]
          \/ tokens[x].late
          \/ tokens[x].user \in unrevoked
          \/ \E q \in Requests : RevocationDue(tokens[x].user, q)
      BY <3>1 DEF SessionInv, PasswordChangeEndsSessions, Excused
    <3>3. CASE \E q \in Requests : RevocationDue(tokens[x].user, q)
      <4>1. PICK q \in Requests : RevocationDue(tokens[x].user, q)
        BY <3>3
      <4>2. q # r /\ req'[q] = req[q]
        BY <1>c, <4>1 DEF RevocationDue, At
      <4>. QED
        BY <3>1, <4>1, <4>2 DEF RevocationDue, At, Excused
    <3>. QED
      BY <3>1, <3>2, <3>3 DEF Excused
  <2>. QED
    BY <2>1, <2>2
<1>. QED
  BY <1>1, <1>2, <1>3, <1>4, <1>5, <1>6, <1>7 DEF SessionInv

(* The shapes the actions have. *)
LEMMA OneMoves ==
  ASSUME SessionInv, TypeOK', NEW r \in Requests, NEW x,
         req' = [req EXCEPT ![r] = x],
         ~ At(r, "revoke"), RequestSound(r)',
         \A t \in Tokens : TokenKept(t),
         \A u \in Users : AccountKept(u) /\ PasswordKept(u, r),
         HistoryKept
  PROVE  SessionInv'
<1>1. \A q \in Requests \ {r} : req'[q] = req[q]
  BY DEF SessionInv, TypeOK
<1>2. \A q \in Requests \ {r} : RequestKept(q)
  BY <1>1 DEF RequestKept, IsIssuing
<1>3. DueKept
  BY <1>1 DEF DueKept, RevocationDue, At
<1>. QED
  BY <1>2, <1>3, RequestStep

LEMMA OneRests ==
  ASSUME SessionInv, TypeOK', NEW r \in Requests, NEW x,
         req' = [req EXCEPT ![r] = x],
         x.pc = "idle" \/ x.kind \notin {"login", "refresh", "change"},
         ~ At(r, "revoke"),
         \A t \in Tokens : TokenKept(t),
         \A u \in Users : AccountKept(u),
         password' = password, HistoryKept
  PROVE  SessionInv'
<1>1. req'[r] = x
  BY DEF SessionInv, TypeOK
<1>2. ~ IsIssuing(r)' /\ ~ Refreshing(r)'
  BY <1>1 DEF IsIssuing, Refreshing
<1>3. RequestSound(r)'
  BY <1>2 DEF RequestSound, CheckSound, FamilySound
<1>. QED
  BY <1>3, OneMoves DEF PasswordKept

LEMMA OneStarts ==
  ASSUME SessionInv, TypeOK', NEW r \in Requests, NEW u \in Users,
         NEW kind \in {"login", "change"}, NEW pc \in {"issue", "set"},
         Begin(r, Issuing(kind, pc, u)),
         Present(u)', tokens' = tokens,
         \A a \in Users : AccountKept(a),
         password' = password, UNCHANGED history
  PROVE  SessionInv'
<1>1. req'[r] = Issuing(kind, pc, u)
  BY DEF SessionInv, TypeOK, Begin
<1>2. ~ Refreshing(r)'
  BY <1>1 DEF Refreshing, Issuing
<1>3. /\ req'[r].user = u
      /\ req'[r].session = NoToken
      /\ req'[r].pw = password'[u]
  BY <1>1 DEF Issuing
<1>4. NoToken \notin purged'
  BY AccountConstants DEF TypeOK
<1>5. RequestSound(r)'
  BY <1>2, <1>3, <1>4 DEF RequestSound, CheckSound, FamilySound, Present
<1>. QED
  BY <1>5, OneMoves DEF Begin, At, TokenKept, Issued, Live, PasswordKept, HistoryKept

LEMMA RevokeAllStep ==
  ASSUME SessionInv, TypeOK', NEW r \in Requests, NEW u \in Users, NEW after,
         RevokeAll(u, r, after), CheckSound(r)', ~ Refreshing(r)',
         \A a \in Users \ {u} : ~ RevocationDue(a, r)
  PROVE  SessionInv'
<1>1. \A t \in Tokens : TokenKept(t) /\ (Of(t, u) => ~ Live(t)')
  <2>. SUFFICES ASSUME NEW t \in Tokens PROVE TokenKept(t) /\ (Of(t, u) => ~ Live(t)')
    OBVIOUS
  <2>1. tokens[t] \in Token \cup {Absent}
    BY DEF SessionInv, TypeOK
  <2>2. tokens'[t] = IF Of(t, u) /\ Live(t)
                     THEN [tokens[t] EXCEPT !.status = "revoked"] ELSE tokens[t]
    BY DEF RevokeAll, Revoked
  <2>. QED
    BY <2>1, <2>2 DEF TokenKept, Of, Live, Issued, Token, Absent
<1>2. \A q \in Requests \ {r} : req'[q] = Overtaken(u, r)[q]
  BY DEF RevokeAll, Overtaken
<1>3. unrevoked \ {u} \subseteq unrevoked'
  BY DEF RevokeAll
<1>. QED
  BY <1>1, <1>2, <1>3, SeveringStep DEF RevokeAll

LEMMA SessionStep == SessionInv /\ [Next]_vars => SessionInv'
<1>. SUFFICES ASSUME SessionInv, [Next]_vars PROVE SessionInv'
  OBVIOUS
<1>a. TypeOK /\ TypeOK'
  BY TypeOKStep DEF SessionInv
<1>b. ASSUME tokens' = tokens PROVE \A t \in Tokens : TokenKept(t)
  BY <1>b DEF TokenKept, Issued, Live
<1>c. ASSUME role' = role PROVE \A u \in Users : AccountKept(u)
  BY <1>c DEF AccountKept
<1>d. ASSUME UNCHANGED <<raced, purged, unrevoked>> PROVE HistoryKept
  BY <1>d DEF HistoryKept
<1>e. ASSUME NEW r \in Requests, Finish(r), ~ At(r, "revoke"),
             UNCHANGED <<accounts, raced, purged, unrevoked>>, \A t \in Tokens : TokenKept(t)
      PROVE  SessionInv'
  BY <1>a, <1>c, <1>d, <1>e, OneRests DEF Finish, Idle
<1>0. CASE UNCHANGED vars
  <2>. \A q \in Requests : RequestKept(q)
    BY <1>0 DEF RequestKept, IsIssuing
  <2>. DueKept
    BY <1>0 DEF DueKept, RevocationDue, At
  <2>. QED
    BY <1>0, <1>a, <1>b, <1>c, <1>d, QuietStep
<1>1. ASSUME NEW r \in Requests, NEW u \in Followed, Register(r, u) PROVE SessionInv'
  <2>1. u \in Users /\ Present(u)' /\ \A a \in Users : AccountKept(a)
    BY <1>1, <1>a, AccountConstants DEF Register, Present, AccountKept, TypeOK
  <2>. QED
    BY <1>1, <1>a, <2>1, OneStarts DEF Register
<1>2. ASSUME NEW r \in Requests, NEW u \in Followed, Login(r, u) PROVE SessionInv'
  <2>1. u \in Users /\ Present(u)' /\ \A a \in Users : AccountKept(a)
    BY <1>2, <1>c, AccountConstants DEF Login, Present
  <2>. QED
    BY <1>2, <1>a, <2>1, OneStarts DEF Login
<1>3. ASSUME NEW r \in Requests, NEW u \in Followed, Logout(r, u) PROVE SessionInv'
  <2>1. u \in Users /\ req'[r].pc = "idle"
    BY <1>3, AccountConstants DEF Logout, RevokeAll, Overtaken, Idle
  <2>2. CheckSound(r)' /\ ~ Refreshing(r)'
    BY <2>1 DEF CheckSound, IsIssuing, Refreshing
  <2>3. \A a \in Users \ {u} : ~ RevocationDue(a, r)
    BY <1>3 DEF Logout, RevocationDue, At
  <2>. QED
    BY <1>3, <1>a, <2>1, <2>2, <2>3, RevokeAllStep DEF Logout
<1>10. ASSUME NEW r \in Requests, NEW u \in Followed, ChangeRead(r, u) PROVE SessionInv'
  <2>1. u \in Users /\ Present(u)' /\ \A a \in Users : AccountKept(a)
    BY <1>10, <1>c, AccountConstants DEF ChangeRead, Present
  <2>. QED
    BY <1>10, <1>a, <2>1, OneStarts DEF ChangeRead
<1>5. ASSUME NEW r \in Requests, RefreshPurge(r) PROVE SessionInv'
  <2>1. CASE RevokeAll(req[r].user, r, Idle)
    <3>1. req[r].user \in Users /\ req'[r].pc = "idle"
      BY <1>5, <1>a, <2>1, RequestShapes DEF RefreshPurge, Actor, RevokeAll, Overtaken, Idle
    <3>2. CheckSound(r)' /\ ~ Refreshing(r)'
      BY <3>1 DEF CheckSound, IsIssuing, Refreshing
    <3>3. \A a \in Users : ~ RevocationDue(a, r)
      BY <1>5 DEF RefreshPurge, RevocationDue, At
    <3>. QED
      BY <1>a, <2>1, <3>1, <3>2, <3>3, RevokeAllStep
  <2>2. CASE Fails(r) /\ UNCHANGED <<accounts, tokens, history>>
    BY <1>5, <1>b, <1>e, <2>2 DEF RefreshPurge, Fails, At
  <2>. QED
    BY <1>5, <2>1, <2>2 DEF RefreshPurge
<1>6. ASSUME NEW r \in Requests, RefreshRetire(r) PROVE SessionInv'
  <2>1. req[r].token \in Tokens
    BY <1>6, <1>a, RequestShapes DEF RefreshRetire, Retirement
  <2>2. tokens[req[r].token] \in Token \cup {Absent}
    BY <1>a, <2>1 DEF TypeOK
  <2>3. \A t \in Tokens : TokenKept(t)
    BY <1>6, <1>a, <2>1, <2>2
    DEF RefreshRetire, RevokeOne, TokenKept, Live, Issued, TypeOK, Token, Absent
  <2>. QED
    BY <1>6, <1>e, <2>3 DEF RefreshRetire, At
<1>9. ASSUME NEW r \in Requests, Issue(r) PROVE SessionInv'
  <2>1. CASE Fails(r) /\ UNCHANGED tokens
    BY <1>9, <1>b, <1>e, <2>1 DEF Issue, Fails, At
  <2>. QED
    BY <1>9, <1>a, <2>1, IssueStep DEF Issue
<1>11. ASSUME NEW r \in Requests, NEW u \in Followed, ResetRead(r, u) PROVE SessionInv'
  BY <1>11, <1>a, <1>b, <1>c, <1>d, OneRests DEF ResetRead, Begin, Acting, At
<1>14. ASSUME NEW r \in Requests, NEW u \in Users, CreateUser(u) PROVE SessionInv'
  <2>. \A q \in Requests : RequestKept(q)
    BY <1>14 DEF CreateUser, RequestKept, IsIssuing
  <2>. DueKept
    BY <1>14 DEF CreateUser, DueKept, RevocationDue, At
  <2>. \A a \in Users : AccountKept(a)
    BY <1>14, <1>a DEF CreateUser, AccountKept, NewRoles, TypeOK
  <2>. QED
    BY <1>14, <1>a, <1>b, <1>d, QuietStep DEF CreateUser
<1>15. ASSUME NEW r \in Requests, NEW a \in Users, NEW u \in Users, DeleteRead(r, a, u)
       PROVE  SessionInv'
  BY <1>15, <1>a, <1>b, <1>c, <1>d, OneRests DEF DeleteRead, Begin, Acting, At
<1>16. ASSUME NEW r \in Requests, NEW a \in Users, NEW u \in Users, NEW new \in NewRoles,
              RoleRead(r, a, u, new)
       PROVE  SessionInv'
  BY <1>16, <1>a, <1>b, <1>c, <1>d, OneRests DEF RoleRead, Begin, At
<1>17. ASSUME NEW r \in Requests, CountAdmins(r) PROVE SessionInv'
  <2>1. [req[r] EXCEPT !.pc = "write"].kind \notin {"login", "refresh", "change"}
    BY <1>17, <1>a, RequestShapes DEF CountAdmins, Actor, RoleChange
  <2>2. CASE Goto(r, "write")
    BY <1>17, <1>a, <1>b, <1>c, <1>d, <2>1, <2>2, OneRests DEF CountAdmins, Goto, At
  <2>. QED
    BY <1>17, <1>b, <1>e, <2>2 DEF CountAdmins, Fails, At
<1>18. ASSUME NEW r \in Requests, WriteRole(r) PROVE SessionInv'
  <2>1. req[r] \in RoleChange
    BY <1>18, <1>a, RequestShapes DEF WriteRole, Actor
  <2>2. CASE Finish(r) /\ UNCHANGED role
    BY <1>18, <1>b, <1>e, <2>2 DEF WriteRole, At
  <2>3. CASE /\ Present(req[r].user)
             /\ role' = [role EXCEPT ![req[r].user] = req[r].new]
             /\ Goto(r, "revoke")
    <3>1. [req[r] EXCEPT !.pc = "revoke"].kind = "role"
      BY <2>1 DEF RoleChange
    <3>2. \A a \in Users : AccountKept(a)
      BY <1>a, <2>1, <2>3 DEF AccountKept, TypeOK, RoleChange, NewRoles, Present
    <3>. QED
      BY <1>18, <1>a, <1>b, <1>d, <2>3, <3>1, <3>2, OneRests DEF WriteRole, Goto, At
  <2>. QED
    BY <1>18, <2>2, <2>3 DEF WriteRole
<1>4. ASSUME NEW r \in Requests, NEW t \in Tokens, RefreshRead(r, t) PROVE SessionInv'
  <2>1. CASE Begin(r, Acting("purge", "purge", tokens[t].user)) /\ UNCHANGED raced
    BY <1>4, <1>a, <1>b, <1>c, <1>d, <2>1, OneRests DEF RefreshRead, Begin, Acting, At
  <2>2. CASE /\ Begin(r, [kind |-> "retire", pc |-> "retire", token |-> t])
             /\ UNCHANGED raced
    BY <1>4, <1>a, <1>b, <1>c, <1>d, <2>2, OneRests DEF RefreshRead, Begin, At
  <2>. DEFINE s == tokens[t].session
              x == [kind |-> "refresh", pc |-> "load", user |-> tokens[t].user,
                    token |-> t, session |-> tokens[t].session,
                    pw |-> tokens[t].pw, late |-> tokens[t].late]
  <2>3. CASE /\ Live(t)
             /\ Begin(r, x)
             /\ raced' = IF Presenting(t) # {} THEN raced \cup {s} ELSE raced
    <3>0. req[r].pc = "idle" /\ req' = [req EXCEPT ![r] = x] /\ req'[r] = x
      BY <1>a, <2>3 DEF Begin, TypeOK
    <3>1. Issued(t) /\ tokens[t].user \in Users /\ s \in Tokens /\ s # NoToken
      BY <1>a, <2>3, Ranges, AccountConstants DEF Live, Issued, RequestTokens
    <3>2. HistoryKept /\ raced \subseteq raced'
      BY <1>4, <2>3 DEF RefreshRead, HistoryKept
    <3>3. UNCHANGED <<accounts, tokens, purged, unrevoked>>
      BY <1>4 DEF RefreshRead
    <3>4. CheckSound(r)'
      <4>1. role[tokens[t].user] # "none"
        BY <3>1 DEF SessionInv, Lineage
      <4>2. ASSUME s \in purged \/ role[tokens[t].user] = "gone" PROVE tokens[t].late
        BY <2>3, <4>2 DEF SessionInv, RevocationEndsSessions
      <4>3. CASE \E q \in Requests : RevocationDue(tokens[t].user, q)
        <5>1. PICK q \in Requests : RevocationDue(tokens[t].user, q)
          BY <4>3
        <5>2. q # r /\ req'[q] = req[q]
          BY <1>a, <3>0, <5>1 DEF RevocationDue, At, TypeOK
        <5>3. /\ req'[q].pc = "revoke" /\ req'[q].kind # "role"
              /\ req'[q].user = req'[r].user
          BY <3>0, <5>1, <5>2 DEF RevocationDue, At
        <5>. QED
          BY <3>0, <3>3, <4>1, <4>2, <5>2, <5>3 DEF CheckSound, RevocationDue, At
      <4>4. \/ tokens[t].pw = password[tokens[t].user]
            \/ tokens[t].late
            \/ tokens[t].user \in unrevoked
            \/ \E q \in Requests : RevocationDue(tokens[t].user, q)
        BY <2>3 DEF SessionInv, PasswordChangeEndsSessions, Excused
      <4>. QED
        BY <3>0, <3>3, <4>1, <4>2, <4>3, <4>4 DEF CheckSound
    <3>5. FamilySound(r)'
      <4>1. Issued(s) /\ tokens[s].user = tokens[t].user
        BY <3>1 DEF SessionInv, Lineage
      <4>2. ASSUME NEW q \in Requests \ {r}, Refreshing(q)', req'[q].session = s
            PROVE  s \in raced'
        <5>1. Refreshing(q) /\ req[q].session = s
          BY <1>a, <3>0, <4>2 DEF Refreshing, TypeOK
        <5>2. t = req[q].token \/ s \in raced
          BY <2>3, <5>1 DEF SessionInv, OneHeir
        <5>3. ASSUME t = req[q].token PROVE Presenting(t) # {}
          <6>1. req[q] \in Request /\ t # NoToken
            BY <1>a, <5>1, RequestShapes, AccountConstants DEF Refreshing
          <6>2. req[q].pc \in {"load", "rotate"}
            BY <5>1, <5>3, <6>1
            DEF Refreshing, Request, Issuer, Actor, RoleChange, Retirement
          <6>. QED
            BY <5>3, <6>2 DEF Presenting
        <5>. QED
          BY <2>3, <5>2, <5>3
      <4>3. ASSUME NEW y \in Tokens, Live(y), tokens[y].session = s
            PROVE  y = t \/ s \in raced'
        BY <2>3, <3>2, <4>3 DEF SessionInv, OneLiveTokenPerSession
      <4>4. Issued(s)' /\ Issued(t)' /\ \A y \in Tokens : Live(y)' <=> Live(y)
        BY <3>1, <3>3, <4>1 DEF Issued, Live
      <4>. QED
        BY <3>0, <3>1, <3>3, <4>1, <4>2, <4>3, <4>4 DEF FamilySound, Issued, Live
    <3>6. \A u \in Users : AccountKept(u) /\ PasswordKept(u, r)
      BY <1>c, <3>3 DEF PasswordKept
    <3>. HIDE DEF x
    <3>. QED
      BY <1>a, <1>b, <3>0, <3>2, <3>3, <3>4, <3>5, <3>6, OneMoves DEF RequestSound, At
  <2>. QED
    BY <1>4, <2>1, <2>2, <2>3 DEF RefreshRead
<1>7. ASSUME NEW r \in Requests, RefreshLoad(r) PROVE SessionInv'
  <2>1. req[r] \in Issuer("refresh", {"load", "rotate"}, Tokens, Tokens)
    BY <1>7, <1>a, RequestShapes DEF RefreshLoad
  <2>2. CASE Goto(r, "rotate")
    <3>1. \A q \in Requests : RequestKept(q)
      BY <1>7, <1>a, <2>1, <2>2
      DEF RefreshLoad, At, Goto, RequestKept, IsIssuing, Issuer, TypeOK
    <3>2. DueKept
      BY <1>7, <1>a, <2>1, <2>2 DEF RefreshLoad, Goto, DueKept, RevocationDue, At, TypeOK
    <3>. QED
      BY <1>7, <1>a, <1>b, <1>c, <1>d, <3>1, <3>2, QuietStep DEF RefreshLoad
  <2>. QED
    BY <1>7, <1>b, <1>e, <2>2 DEF RefreshLoad, Fails, At
<1>8. ASSUME NEW r \in Requests, RefreshRotate(r) PROVE SessionInv'
  <2>1. req[r] \in Issuer("refresh", {"load", "rotate"}, Tokens, Tokens)
    BY <1>8, <1>a, RequestShapes DEF RefreshRotate
  <2>. DEFINE x == [req[r] EXCEPT !.pc = "issue", !.token = NoToken]
              s == req[r].session
  <2>2. CASE RevokeOne(req[r].token) /\ req' = [req EXCEPT ![r].pc = "issue",
                                                           ![r].token = NoToken]
    <3>0. /\ req' = [req EXCEPT ![r] = x] /\ req'[r] = x
          /\ \A q \in Requests \ {r} : req'[q] = req[q]
      BY <1>a, <2>2 DEF TypeOK
    <3>1. /\ x.kind = "refresh" /\ x.pc = "issue" /\ x.user = req[r].user
          /\ x.session = s /\ x.pw = req[r].pw /\ x.late = req[r].late
          /\ Refreshing(r) /\ IsIssuing(r) /\ s \in Tokens
          /\ req[r].token \in Tokens
      BY <2>1 DEF Issuer, Refreshing, IsIssuing
    <3>. HIDE DEF x
    <3>2. \A t \in Tokens : TokenKept(t) /\ (Live(t)' => Live(t) /\ t # req[r].token)
      <4>. tokens[req[r].token] \in Token \cup {Absent}
        BY <1>a, <3>1 DEF TypeOK
      <4>. QED
        BY <1>a, <2>2, <3>1 DEF RevokeOne, TokenKept, Live, Issued, TypeOK, Token, Absent
    <3>3. UNCHANGED <<accounts, history>>
      BY <1>8 DEF RefreshRotate
    <3>4. CheckSound(r)'
      <4>1. \/ req[r].pw = password[req[r].user]
            \/ req[r].late
            \/ req[r].user \in unrevoked
            \/ \E q \in Requests \ {r} : RevocationDue(req[r].user, q)
        BY <3>1 DEF SessionInv, RequestsHoldPassword
      <4>2. (\E q \in Requests \ {r} : RevocationDue(req[r].user, q))
              => (\E q \in Requests \ {r} : RevocationDue(req[r].user, q))'
        BY <3>0, <3>1 DEF RevocationDue, At
      <4>3. role[req[r].user] # "none"
        BY <3>1 DEF SessionInv, Lineage
      <4>4. (req[r].session \notin purged /\ role[req[r].user] # "gone") \/ req[r].late
        BY <3>1 DEF SessionInv, OvertakenAreLate
      <4>. QED
        BY <3>0, <3>1, <3>3, <4>1, <4>2, <4>3, <4>4 DEF CheckSound
    <3>5. FamilySound(r)'
      <4>1. (Issued(req[r].session) /\ tokens[req[r].session].user = req[r].user)'
        BY <3>0, <3>1, <3>2 DEF SessionInv, Lineage, TokenKept, Issued
      <4>2. \A q \in Requests \ {r} :
              (Refreshing(q)' /\ req'[q].session = req'[r].session) => req'[r].session \in raced'
        BY <3>0, <3>1, <3>3 DEF SessionInv, OneHeir, Refreshing
      <4>3. ASSUME NEW t \in Tokens, Live(t)', tokens'[t].session = req'[r].session
            PROVE  req'[r].session \in raced'
        <5>1. Live(t) /\ t # req[r].token /\ tokens[t].session = s
          BY <3>0, <3>1, <3>2, <4>3 DEF TokenKept, Live, Issued
        <5>. QED
          BY <3>0, <3>1, <3>3, <5>1 DEF SessionInv, OneHeir
      <4>. QED
        BY <3>0, <3>1, <4>1, <4>2, <4>3 DEF FamilySound
    <3>. QED
      BY <1>8, <1>a, <1>c, <1>d, <3>0, <3>2, <3>3, <3>4, <3>5, OneMoves
      DEF RefreshRotate, RequestSound, At, PasswordKept
  <2>. QED
    BY <1>8, <1>b, <1>e, <2>2 DEF RefreshRotate, Fails, At
<1>12. ASSUME NEW r \in Requests, SetPassword(r) PROVE SessionInv'
  <2>. DEFINE x == WithPassword(r, "revoke")
              u == req[r].user
  <2>1. CASE UpdatePassword(u) /\ req' = [req EXCEPT ![r] = x]
    <3>0. req'[r] = x /\ \A q \in Requests \ {r} : req'[q] = req[q]
      BY <1>a, <2>1 DEF TypeOK
    <3>1. UNCHANGED <<role, tokens, history>>
      BY <1>12 DEF SetPassword
    <3>2. /\ u \in Users /\ x.user = u /\ x.pc = "revoke" /\ x.kind \in {"change", "reset"}
          /\ x.kind = "change" =>
               /\ IsIssuing(r) /\ x.pw = changes + 1 /\ x.session = NoToken
               /\ x.late = req[r].late
      BY <1>12, <1>a, RequestShapes DEF SetPassword, WithPassword, Issuer, Actor, IsIssuing
    <3>. HIDE DEF x
    <3>3. \A a \in Users : PasswordKept(a, r)
      <4>1. \A a \in Users : password'[a] = password[a] \/ a = u
        BY <1>a, <2>1 DEF UpdatePassword, TypeOK
      <4>. QED
        BY <3>0, <3>2, <4>1 DEF PasswordKept, RevocationDue, At
    <3>4. CheckSound(r)'
      <4>. SUFFICES ASSUME x.kind = "change" PROVE CheckSound(r)'
        BY <3>0, <3>2 DEF CheckSound, IsIssuing
      <4>1. role[u] # "none" /\ (role[u] # "gone" \/ req[r].late)
        BY <3>2 DEF SessionInv, Lineage, OvertakenAreLate
      <4>2. NoToken \notin purged
        BY <1>a, AccountConstants DEF TypeOK
      <4>3. password'[u] = changes + 1 \/ req[r].late
        BY <1>a, <2>1, <3>2, <4>1 DEF UpdatePassword, Present, TypeOK
      <4>. QED
        BY <3>0, <3>1, <3>2, <4>1, <4>2, <4>3 DEF CheckSound
    <3>5. FamilySound(r)'
      BY <3>0, <3>2 DEF FamilySound, Refreshing
    <3>. QED
      BY <1>12, <1>a, <1>b, <1>c, <1>d, <2>1, <3>1, <3>3, <3>4, <3>5, OneMoves
      DEF SetPassword, RequestSound, At
  <2>2. CASE Fails(r) /\ UNCHANGED <<changes, password>>
    BY <1>12, <1>b, <1>e, <2>2 DEF SetPassword, Fails, At
  <2>. QED
    BY <1>12, <2>1, <2>2 DEF SetPassword
<1>13. ASSUME NEW r \in Requests, RevokeAfterChange(r) PROVE SessionInv'
  <2>. DEFINE u == req[r].user
              after == IF req[r].kind = "change" THEN [req[r] EXCEPT !.pc = "issue"]
                                                 ELSE Idle
  <2>1. /\ u \in Users
        /\ req[r].kind \in {"change", "reset", "role"}
        /\ req[r].kind # "change" => after.pc = "idle"
        /\ req[r].kind = "change" =>
             /\ IsIssuing(r) /\ after.kind = "change" /\ after.pc = "issue"
             /\ after.user = u /\ after.session = NoToken
             /\ after.pw = req[r].pw /\ after.late = req[r].late
    BY <1>13, <1>a, RequestShapes
    DEF RevokeAfterChange, Issuer, Actor, RoleChange, Idle, IsIssuing
  <2>2. CASE RevokeAll(u, r, after)
    <3>. HIDE DEF after
    <3>0. req'[r] = after /\ \A q \in Requests \ {r} : req'[q] = Overtaken(u, r)[q]
      BY <2>2 DEF RevokeAll, Overtaken
    <3>1. ~ Refreshing(r)'
      BY <2>1, <3>0 DEF Refreshing
    <3>2. \A a \in Users \ {u} : ~ RevocationDue(a, r)
      BY DEF RevocationDue
    <3>3. CheckSound(r)'
      <4>. SUFFICES ASSUME req[r].kind = "change" PROVE CheckSound(r)'
        BY <2>1, <3>0 DEF CheckSound, IsIssuing
      <4>1. role[u] # "none" /\ (role[u] # "gone" \/ req[r].late)
        BY <2>1 DEF SessionInv, Lineage, OvertakenAreLate
      <4>2. NoToken \notin purged' /\ role' = role /\ password' = password
        BY <1>a, <2>2, AccountConstants DEF TypeOK, RevokeAll
      <4>3. CASE req[r].pw = password[u]
        BY <2>1, <3>0, <4>1, <4>2, <4>3 DEF CheckSound
      <4>4. CASE req[r].pw # password[u]
        <5>1. unrevoked' = unrevoked
          BY <2>1, <2>2, <4>4 DEF RevokeAll
        <5>2. CASE \E q \in Requests \ {r} : RevocationDue(u, q)
          <6>1. PICK q \in Requests \ {r} : RevocationDue(u, q)
            BY <5>2
          <6>2. /\ req'[q].pc = "revoke" /\ req'[q].kind # "role" /\ req'[q].user = u
            BY <1>a, <2>1, <3>0, <6>1, OvertakenFields DEF RevocationDue, At
          <6>. QED
            BY <2>1, <3>0, <4>1, <4>2, <6>2 DEF CheckSound, RevocationDue, At
        <5>3. req[r].late \/ u \in unrevoked \/ \E q \in Requests \ {r} : RevocationDue(u, q)
          BY <2>1, <4>4 DEF SessionInv, RequestsHoldPassword
        <5>. QED
          BY <2>1, <3>0, <4>1, <4>2, <5>1, <5>2, <5>3 DEF CheckSound
      <4>. QED
        BY <4>3, <4>4
    <3>. QED
      BY <1>a, <2>1, <2>2, <3>1, <3>2, <3>3, RevokeAllStep
  <2>3. CASE /\ Fails(r)
             /\ unrevoked' = IF req[r].kind = "role" THEN unrevoked
                             ELSE unrevoked \cup {req[r].user}
             /\ UNCHANGED <<accounts, tokens, raced, purged>>
    <3>0. /\ \A q \in Requests \ {r} : req'[q] = req[q]
          /\ req'[r].pc = "idle"
      BY <1>a, <2>3 DEF Fails, Finish, TypeOK, Idle
    <3>1. \A q \in Requests : RequestKept(q)
      BY <3>0 DEF RequestKept, IsIssuing
    <3>2. DueKept
      BY <2>3, <3>0 DEF DueKept, RevocationDue, At
    <3>3. HistoryKept
      BY <2>3 DEF HistoryKept
    <3>. QED
      BY <1>a, <1>b, <1>c, <2>3, <3>1, <3>2, <3>3, QuietStep
  <2>. QED
    BY <1>13, <2>2, <2>3 DEF RevokeAfterChange
<1>19. ASSUME NEW r \in Requests, DeleteUser(r) PROVE SessionInv'
  <2>. DEFINE u == req[r].user
  <2>1. u \in Users
    BY <1>19, <1>a, RequestShapes DEF DeleteUser, Actor, RoleChange
  <2>2. CASE Finish(r) /\ UNCHANGED <<role, tokens, purged>>
    BY <1>19, <1>b, <1>e, <2>2 DEF DeleteUser, At
  <2>3. CASE /\ role' = [role EXCEPT ![u] = "gone"]
             /\ tokens' = [t \in Tokens |->
                  IF Of(t, u) THEN [tokens[t] EXCEPT !.status = "deleted"] ELSE tokens[t]]
             /\ req' = [Overtaken(u, r) EXCEPT ![r] = Idle]
             /\ purged' = purged \cup SessionsOf(u)
    <3>1. \A t \in Tokens : TokenKept(t) /\ (Of(t, u) => ~ Live(t)')
      <4>. SUFFICES ASSUME NEW t \in Tokens PROVE TokenKept(t) /\ (Of(t, u) => ~ Live(t)')
        OBVIOUS
      <4>1. tokens[t] \in Token \cup {Absent}
        BY <1>a DEF TypeOK
      <4>. QED
        BY <2>3, <4>1 DEF TokenKept, Of, Live, Issued, Token, Absent
    <3>2. /\ req'[r].pc = "idle"
          /\ \A q \in Requests \ {r} : req'[q] = Overtaken(u, r)[q]
      BY <2>3 DEF Overtaken, Idle
    <3>3. CheckSound(r)' /\ ~ Refreshing(r)'
      BY <3>2 DEF CheckSound, IsIssuing, Refreshing
    <3>4. \A a \in Users : ~ RevocationDue(a, r)
      BY <1>19 DEF DeleteUser, RevocationDue, At
    <3>5. /\ \A a \in Users \ {u} : role'[a] = role[a]
          /\ role'[u] = "gone"
      BY <1>a, <2>1, <2>3 DEF TypeOK
    <3>. QED
      BY <1>19, <1>a, <2>1, <2>3, <3>1, <3>2, <3>3, <3>4, <3>5, SeveringStep DEF DeleteUser
  <2>. QED
    BY <1>19, <2>2, <2>3 DEF DeleteUser
<1>. QED
  BY <1>0, <1>1, <1>2, <1>3, <1>4, <1>5, <1>6, <1>7, <1>8, <1>9, <1>10, <1>11,
     <1>12, <1>13, <1>14, <1>15, <1>16, <1>17, <1>18, <1>19
  DEF Next, Sessions, Passwords, Administration

LEMMA SessionInit == Init => SessionInv
BY TypeOKInit
DEF Init, SessionInv, Lineage, OneHeir, OneLiveTokenPerSession, OvertakenAreLate,
    RevocationEndsSessions, RequestsHoldPassword, PasswordChangeEndsSessions,
    IsIssuing, Refreshing, Issued, Live, Absent, Idle

(* The inductive invariant of the sessions. *)
THEOREM SessionInvariant == Spec => []SessionInv
BY SessionInit, SessionStep, PTL DEF Spec

(* A session has one usable refresh token, unless one of its tokens was    *)
(* presented by two requests at once.                                      *)
THEOREM RotationLeavesOneToken == Spec => []OneLiveTokenPerSession
<1>. SessionInv => OneLiveTokenPerSession
  BY DEF SessionInv
<1>. QED
  BY SessionInvariant, PTL

(* Revoking or deleting an account ends every session it had, except for   *)
(* the requests it overtakes.                                              *)
THEOREM RevocationIsComplete == Spec => []RevocationEndsSessions
<1>. SessionInv => RevocationEndsSessions
  BY DEF SessionInv
<1>. QED
  BY SessionInvariant, PTL

(* A usable token was obtained with the password in force, unless its      *)
(* revocation is still due, has failed or overtook the request.            *)
THEOREM PasswordChangeIsComplete == Spec => []PasswordChangeEndsSessions
<1>. SessionInv => PasswordChangeEndsSessions
  BY DEF SessionInv
<1>. QED
  BY SessionInvariant, PTL
=============================================================================
