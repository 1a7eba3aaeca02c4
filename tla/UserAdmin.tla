----------------------------- MODULE UserAdmin -----------------------------
(***************************************************************************)
(* The users of the frontend (src/frontend/app/api/users, lib/auth.ts).    *)
(* A session is a signed cookie that holds the name and the role the user  *)
(* had at login; the rows of table users may change under it.  The route   *)
(* that edits a user reads the row, waits for the body of the request, and *)
(* then decides with the role it read whether the last active admin would  *)
(* go; the other routes read and write in one step.                        *)
(***************************************************************************)
EXTENDS Naturals, FiniteSets

CONSTANTS
    Users,      \* user names
    EnvAdmin,   \* AUTH_USERNAME, whose AUTH_PASSWORD is set
    Requests    \* requests to edit a user that may be in progress at once

ASSUME ConstantsOK == EnvAdmin \in Users /\ IsFiniteSet(Users)

VARIABLES
    role,       \* the role of each user's row, or "none" without a row
    active,     \* its is_active
    sessions,   \* cookies that are valid: a user, and a role
    request     \* what each edit in progress has read, "gone" once its row is

vars == <<role, active, sessions, request>>

Roles     == {"admin", "member"}
NoRequest == [target |-> EnvAdmin, read |-> "none", admin |-> FALSE]

TypeOK ==
    /\ role \in [Users -> Roles \cup {"none"}]
    /\ active \in [Users -> BOOLEAN]
    /\ sessions \subseteq Users \X Roles
    /\ request \in [Requests -> [target : Users, admin : BOOLEAN,
                                 read : Roles \cup {"none", "gone"}]]
    /\ \A r \in Requests : request[r].read = "none" => request[r] = NoRequest
    /\ \A r \in Requests : request[r].read \in Roles => role[request[r].target] \in Roles

Init ==
    /\ role = [u \in Users |-> "none"]
    /\ active = [u \in Users |-> FALSE]
    /\ sessions = {}
    /\ request = [r \in Requests |-> NoRequest]

ActiveAdmins == {u \in Users : role[u] = "admin" /\ active[u]}

-----------------------------------------------------------------------------
(* lib/auth.ts: sessions.                                                  *)

Insert(u, as) ==
    /\ role' = [role EXCEPT ![u] = as]
    /\ active' = [active EXCEPT ![u] = TRUE]

(* The pair of the environment is an admin's, whatever its row says, and   *)
(* makes the row if there is none.                                         *)
LogInFromEnv ==
    /\ sessions' = sessions \cup {<<EnvAdmin, "admin">>}
    /\ IF role[EnvAdmin] = "none"
       THEN Insert(EnvAdmin, "admin")
       ELSE UNCHANGED <<role, active>>
    /\ UNCHANGED request

LogIn(u) ==
    /\ role[u] # "none" /\ active[u]
    /\ sessions' = sessions \cup {<<u, role[u]>>}
    /\ UNCHANGED <<role, active, request>>

(* A log-out, or seven days have passed.                                   *)
EndSession(s) ==
    /\ s \in sessions
    /\ sessions' = sessions \ {s}
    /\ UNCHANGED <<role, active, request>>

-----------------------------------------------------------------------------
(* users/route.ts and users/[id]/route.ts.                                 *)

AddUser(s, u, as) ==
    /\ s \in sessions /\ s[2] = "admin"
    /\ role[u] = "none"
    /\ Insert(u, as)
    /\ UNCHANGED <<sessions, request>>

(* Mutant: the user counts as one of the others.                           *)
CountAllActiveAdmins(u) == Cardinality(ActiveAdmins)

CountOtherActiveAdmins(u) == Cardinality(ActiveAdmins \ {u})

StartPatch(r, s, u) ==
    /\ request[r] = NoRequest
    /\ s \in sessions /\ (s[2] = "admin" \/ s[1] = u)
    /\ role[u] # "none"
    /\ request' = [request EXCEPT ![r] =
          [target |-> u, read |-> role[u], admin |-> s[2] = "admin"]]
    /\ UNCHANGED <<role, active, sessions>>

(* The body may ask for a role, to be active or not, or neither.  It is    *)
(* refused if the row that was read is an admin's, who would not be one or *)
(* not be active any more, and no other active admin is left.              *)
Asks == (Roles \cup {"same"}) \X {"active", "disabled", "same"}

Refused(q, ask) ==
    /\ q.read = "admin"
    /\ ask[1] = "member" \/ ask[2] = "disabled"
    /\ CountOtherActiveAdmins(q.target) = 0

EndPatch(r, ask) ==
    LET q == request[r]
        u == q.target
    IN  /\ q # NoRequest
        /\ request' = [request EXCEPT ![r] = NoRequest]
        /\ IF q.admin /\ q.read # "gone" /\ ~Refused(q, ask)
           THEN /\ role' = [role EXCEPT ![u] = IF ask[1] = "same" THEN @ ELSE ask[1]]
                /\ active' = [active EXCEPT ![u] =
                      IF ask[2] = "same" THEN @ ELSE ask[2] = "active"]
           ELSE UNCHANGED <<role, active>>
        /\ UNCHANGED sessions

(* The row is gone for the edits that have read it, though a row with the  *)
(* same name may come back: they write by the id.                          *)
DeleteUser(s, u) ==
    /\ s \in sessions /\ s[2] = "admin"
    /\ role[u] # "none"
    /\ role[u] = "admin" => CountOtherActiveAdmins(u) # 0
    /\ role' = [role EXCEPT ![u] = "none"]
    /\ active' = [active EXCEPT ![u] = FALSE]
    /\ request' = [r \in Requests |->
          IF request[r] # NoRequest /\ request[r].target = u
          THEN [request[r] EXCEPT !.read = "gone"]
          ELSE request[r]]
    /\ UNCHANGED sessions

-----------------------------------------------------------------------------
Next ==
    \/ LogInFromEnv
    \/ \E u \in Users : LogIn(u)
    \/ \E s \in Users \X Roles :
          \/ EndSession(s)
          \/ \E u \in Users :
                \/ DeleteUser(s, u)
                \/ \E as \in Roles : AddUser(s, u, as)
                \/ \E r \in Requests : StartPatch(r, s, u)
    \/ \E r \in Requests, ask \in Asks : EndPatch(r, ask)

Spec == Init /\ [][Next]_vars

-----------------------------------------------------------------------------
(* Properties.                                                             *)

(* The last active admin is not lost, except to an edit whose user was     *)
(* made an admin after the edit had read the row.                          *)
AdminIsKept ==
    [][ActiveAdmins # {} /\ ActiveAdmins' = {} =>
          \E r \in Requests :
             /\ request[r] # NoRequest /\ request'[r] = NoRequest
             /\ request[r].read = "member" /\ role[request[r].target] = "admin"]_vars
=============================================================================
