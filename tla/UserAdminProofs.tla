-------------------------- MODULE UserAdminProofs --------------------------
(* Proofs about UserAdmin: for any users, and any number of edits in       *)
(* progress, the last active admin is lost only to an edit that read its   *)
(* row before the user became an admin.                                    *)
EXTENDS UserAdmin, FiniteSetTheorems, TLAPS

-----------------------------------------------------------------------------
(* Types: every row, cookie and edit in progress is of its kind, and an    *)
(* edit that has a row to write finds it there.                            *)
THEOREM TypeCorrect == Spec => []TypeOK
<1>1. Init => TypeOK
  BY ConstantsOK DEF Init, TypeOK, NoRequest, Roles
<1>2. TypeOK /\ [Next]_vars => TypeOK'
  <2>. SUFFICES ASSUME TypeOK, [Next]_vars PROVE TypeOK'
    OBVIOUS
  <2>. USE DEF TypeOK, Roles
  <2>1. CASE LogInFromEnv
    <3>1. sessions' \subseteq Users \X Roles
      BY <2>1, ConstantsOK DEF LogInFromEnv
    <3>2. CASE role[EnvAdmin] = "none"
      BY <2>1, <3>1, <3>2, ConstantsOK DEF LogInFromEnv, Insert
    <3>3. CASE role[EnvAdmin] # "none"
      BY <2>1, <3>1, <3>3 DEF LogInFromEnv
    <3>. QED
      BY <3>2, <3>3
  <2>2. ASSUME NEW u \in Users, LogIn(u) PROVE TypeOK'
    <3>1. role[u] \in {"admin", "member"}
      BY <2>2 DEF LogIn
    <3>2. sessions' \subseteq Users \X Roles
      BY <2>2, <3>1 DEF LogIn
    <3>. QED
      BY <2>2, <3>2 DEF LogIn
  <2>3. ASSUME NEW s \in Users \X Roles, EndSession(s) PROVE TypeOK'
    BY <2>3 DEF EndSession
  <2>4. ASSUME NEW s \in Users \X Roles, NEW u \in Users, DeleteUser(s, u)
        PROVE TypeOK'
    <3>1. request' = [r \in Requests |->
              IF request[r] # NoRequest /\ request[r].target = u
              THEN [request[r] EXCEPT !.read = "gone"]
              ELSE request[r]]
      BY <2>4 DEF DeleteUser
    <3>2. request' \in [Requests -> [target : Users, admin : BOOLEAN,
                                     read : Roles \cup {"none", "gone"}]]
      BY <3>1
    <3>3. ASSUME NEW r \in Requests, request'[r].read = "none"
          PROVE request'[r] = NoRequest
      BY <3>1, <3>3
    <3>4. ASSUME NEW r \in Requests, request'[r].read \in Roles
          PROVE role'[request'[r].target] \in Roles
      <4>1. request'[r] = request[r]
        BY <3>1, <3>4
      <4>2. request[r] = NoRequest \/ request[r].target # u
        BY <3>1, <3>4
      <4>3. request[r].target # u
        BY <4>1, <4>2, <3>4 DEF NoRequest
      <4>. QED
        BY <2>4, <3>4, <4>1, <4>3 DEF DeleteUser
    <3>. QED
      BY <2>4, <3>2, <3>3, <3>4 DEF DeleteUser
  <2>5. ASSUME NEW s \in Users \X Roles, NEW u \in Users, NEW as \in Roles,
               AddUser(s, u, as)
        PROVE TypeOK'
    BY <2>5 DEF AddUser, Insert
  <2>6. ASSUME NEW s \in Users \X Roles, NEW u \in Users, NEW r \in Requests,
               StartPatch(r, s, u)
        PROVE TypeOK'
    BY <2>6 DEF StartPatch
  <2>7. ASSUME NEW r \in Requests, NEW ask \in Asks, EndPatch(r, ask)
        PROVE TypeOK'
    <3>. DEFINE u == request[r].target
    <3>1. u \in Users
      OBVIOUS
    <3>2. role' \in [Users -> Roles \cup {"none"}]
      BY <2>7, <3>1 DEF EndPatch, Asks
    <3>3. active' \in [Users -> BOOLEAN]
      BY <2>7, <3>1 DEF EndPatch, Asks
    <3>4. \A v \in Users : role[v] \in Roles => role'[v] \in Roles
      BY <2>7, <3>1 DEF EndPatch, Asks
    <3>5. request' = [request EXCEPT ![r] = NoRequest] /\ NoRequest.read = "none"
      BY <2>7 DEF EndPatch, NoRequest
    <3>6. NoRequest \in [target : Users, admin : BOOLEAN,
                         read : Roles \cup {"none", "gone"}]
      BY ConstantsOK DEF NoRequest
    <3>. QED
      BY <2>7, <3>2, <3>3, <3>4, <3>5, <3>6 DEF EndPatch
  <2>8. CASE UNCHANGED vars
    BY <2>8 DEF vars, NoRequest
  <2>. QED
    BY <2>1, <2>2, <2>3, <2>4, <2>5, <2>6, <2>7, <2>8 DEF Next
<1>. QED
  BY <1>1, <1>2, PTL DEF Spec

(* No other active admin is counted exactly if there is none.              *)
LEMMA NoOthers ==
    ASSUME NEW u PROVE CountOtherActiveAdmins(u) = 0 <=> ActiveAdmins \subseteq {u}
<1>1. IsFiniteSet(ActiveAdmins \ {u})
  BY ConstantsOK, FS_Subset DEF ActiveAdmins
<1>. QED
  BY <1>1, FS_EmptySet DEF CountOtherActiveAdmins

(* The last active admin is lost only to an edit that read the row of its  *)
(* user before that user was made an admin: the others are counted when    *)
(* the write is made (src/frontend/app/api/users/[id]/route.ts:8-14), but  *)
(* the role they are compared with is the one that was read.               *)
THEOREM LastAdmin == Spec => AdminIsKept
<1>. DEFINE Lost ==
        ActiveAdmins # {} /\ ActiveAdmins' = {} =>
          \E r \in Requests :
             /\ request[r] # NoRequest /\ request'[r] = NoRequest
             /\ request[r].read = "member" /\ role[request[r].target] = "admin"
<1>1. TypeOK /\ [Next]_vars => [Lost]_vars
  <2>. SUFFICES ASSUME TypeOK, Next, ActiveAdmins # {}, ActiveAdmins' = {}
                PROVE \E r \in Requests :
                         /\ request[r] # NoRequest /\ request'[r] = NoRequest
                         /\ request[r].read = "member"
                         /\ role[request[r].target] = "admin"
    OBVIOUS
  <2>. USE DEF TypeOK, Roles
  <2>1. CASE LogInFromEnv
    BY <2>1, ConstantsOK DEF LogInFromEnv, Insert, ActiveAdmins
  <2>2. ASSUME NEW u \in Users, LogIn(u) PROVE FALSE
    BY <2>2 DEF LogIn, ActiveAdmins
  <2>3. ASSUME NEW s \in Users \X Roles, EndSession(s) PROVE FALSE
    BY <2>3 DEF EndSession, ActiveAdmins
  <2>4. ASSUME NEW s \in Users \X Roles, NEW u \in Users, DeleteUser(s, u)
        PROVE FALSE
    <3>1. ActiveAdmins \subseteq {u}
      BY <2>4 DEF DeleteUser, ActiveAdmins
    <3>2. role[u] = "admin"
      BY <3>1 DEF ActiveAdmins
    <3>. QED
      BY <2>4, <3>1, <3>2, NoOthers DEF DeleteUser
  <2>5. ASSUME NEW s \in Users \X Roles, NEW u \in Users, NEW as \in Roles,
               AddUser(s, u, as)
        PROVE FALSE
    BY <2>5 DEF AddUser, Insert, ActiveAdmins
  <2>6. ASSUME NEW s \in Users \X Roles, NEW u \in Users, NEW r \in Requests,
               StartPatch(r, s, u)
        PROVE FALSE
    BY <2>6 DEF StartPatch, ActiveAdmins
  <2>7. ASSUME NEW r \in Requests, NEW ask \in Asks, EndPatch(r, ask)
        PROVE /\ request[r] # NoRequest /\ request'[r] = NoRequest
              /\ request[r].read = "member"
              /\ role[request[r].target] = "admin"
    <3>. DEFINE u == request[r].target
    <3>1. request[r] # NoRequest /\ request'[r] = NoRequest /\ u \in Users
      BY <2>7 DEF EndPatch
    <3>2. /\ request[r].read # "gone" /\ ~Refused(request[r], ask)
          /\ role' = [role EXCEPT ![u] = IF ask[1] = "same" THEN @ ELSE ask[1]]
          /\ active' = [active EXCEPT ![u] =
                IF ask[2] = "same" THEN @ ELSE ask[2] = "active"]
      BY <2>7 DEF EndPatch, ActiveAdmins
    <3>3. ActiveAdmins \subseteq {u}
      BY <3>1, <3>2 DEF ActiveAdmins
    <3>4. role[u] = "admin" /\ active[u]
      BY <3>3 DEF ActiveAdmins
    <3>5. ask[1] = "member" \/ ask[2] = "disabled"
      BY <2>7, <3>1, <3>2, <3>4 DEF ActiveAdmins, Asks
    <3>6. CountOtherActiveAdmins(u) = 0
      BY <3>3, NoOthers
    <3>7. request[r].read # "admin"
      BY <3>2, <3>5, <3>6 DEF Refused
    <3>. QED
      BY <3>1, <3>2, <3>4, <3>7
  <2>. QED
    BY <2>1, <2>2, <2>3, <2>4, <2>5, <2>6, <2>7 DEF Next
<1>. QED
  BY <1>1, TypeCorrect, PTL DEF Spec, AdminIsKept

-----------------------------------------------------------------------------
(* No two edits of one user are in progress at once.                       *)
OneEditPerUser ==
    \A r, s \in Requests :
        /\ request[r] # NoRequest /\ request[s] # NoRequest
        /\ request[r].target = request[s].target
        => r = s

(* An edit finds the role it has read, unless the row is gone.             *)
SeesItsRow ==
    \A r \in Requests :
        request[r].read \in Roles => role[request[r].target] = request[r].read

LEMMA SeesItsRowStep ==
    ASSUME TypeOK, OneEditPerUser, SeesItsRow, [Next]_vars
    PROVE  SeesItsRow'
<1>. USE DEF TypeOK, Roles, SeesItsRow
<1>0. NoRequest.read = "none"
  BY DEF NoRequest
<1>1. CASE LogInFromEnv
  BY <1>1, ConstantsOK DEF LogInFromEnv, Insert
<1>2. ASSUME NEW u \in Users, LogIn(u) PROVE SeesItsRow'
  BY <1>2 DEF LogIn
<1>3. ASSUME NEW s \in Users \X Roles, EndSession(s) PROVE SeesItsRow'
  BY <1>3 DEF EndSession
<1>4. ASSUME NEW s \in Users \X Roles, NEW u \in Users, DeleteUser(s, u)
      PROVE  SeesItsRow'
  <2>. SUFFICES ASSUME NEW r \in Requests, request'[r].read \in Roles
                PROVE  role'[request'[r].target] = request'[r].read
    OBVIOUS
  <2>1. request'[r] = request[r] /\ (request[r] = NoRequest \/ request[r].target # u)
    BY <1>4 DEF DeleteUser
  <2>. QED
    BY <1>0, <1>4, <2>1 DEF DeleteUser
<1>5. ASSUME NEW s \in Users \X Roles, NEW u \in Users, NEW as \in Roles,
             AddUser(s, u, as)
      PROVE  SeesItsRow'
  BY <1>5 DEF AddUser, Insert
<1>6. ASSUME NEW s \in Users \X Roles, NEW u \in Users, NEW r \in Requests,
             StartPatch(r, s, u)
      PROVE  SeesItsRow'
  BY <1>6 DEF StartPatch
<1>7. ASSUME NEW r \in Requests, NEW ask \in Asks, EndPatch(r, ask)
      PROVE  SeesItsRow'
  <2>. SUFFICES ASSUME NEW s \in Requests, request'[s].read \in Roles
                PROVE  role'[request'[s].target] = request'[s].read
    OBVIOUS
  <2>1. /\ request[r] # NoRequest /\ request' = [request EXCEPT ![r] = NoRequest]
        /\ \A u \in Users \ {request[r].target} : role'[u] = role[u]
    BY <1>7 DEF EndPatch
  <2>2. s # r /\ request'[s] = request[s] /\ request[s] # NoRequest
    BY <1>0, <2>1
  <2>3. request[s].target # request[r].target
    BY <2>1, <2>2 DEF OneEditPerUser
  <2>. QED
    BY <2>1, <2>2, <2>3
<1>8. CASE UNCHANGED vars
  BY <1>8 DEF vars
<1>. QED
  BY <1>1, <1>2, <1>3, <1>4, <1>5, <1>6, <1>7, <1>8 DEF Next

(* The race is the only way: as long as no two edits of one user overlap,  *)
(* an active admin is never lost, however edits of others, deletions and   *)
(* logins interleave with an edit between its read and its write           *)
(* (src/frontend/app/api/users/[id]/route.ts:16-77).                       *)
THEOREM SerialEditsKeepAdmin ==
    Spec /\ []OneEditPerUser => [][ActiveAdmins # {} => ActiveAdmins' # {}]_vars
<1>. DEFINE Kept == ActiveAdmins # {} => ActiveAdmins' # {}
            Lost ==
              ActiveAdmins # {} /\ ActiveAdmins' = {} =>
                \E r \in Requests :
                   /\ request[r] # NoRequest /\ request'[r] = NoRequest
                   /\ request[r].read = "member" /\ role[request[r].target] = "admin"
<1>1. Init => SeesItsRow
  BY DEF Init, SeesItsRow, NoRequest, Roles
<1>2. TypeOK /\ OneEditPerUser /\ SeesItsRow /\ [Next]_vars => SeesItsRow'
  BY SeesItsRowStep
<1>3. SeesItsRow /\ [Lost]_vars => [Kept]_vars
  BY DEF SeesItsRow, Roles
<1>4. Spec => [][Lost]_vars
  BY LastAdmin DEF AdminIsKept
<1>. QED
  BY <1>1, <1>2, <1>3, <1>4, TypeCorrect, PTL DEF Spec
=============================================================================
