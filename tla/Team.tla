-------------------------------- MODULE Team --------------------------------
(***************************************************************************)
(* The members of a team and their roles: internal/handler/team_member.go, *)
(* handler/auth.go, middleware/auth.go and model/team_member.go.           *)
(*                                                                         *)
(* One team.  A request passes AuthMiddleware and PermissionMiddleware     *)
(* with the role its sender has then, reads the row it is about, checks    *)
(* and writes; each is a statement of its own, and Save writes the whole   *)
(* row as it was read.  Of a row the model keeps whether it exists and the *)
(* role; requests that only change a name, an address or a password still  *)
(* save the rest.  The router leads to no handler that makes an            *)
(* invitation, so AcceptInvite never finds one.                            *)
(***************************************************************************)
EXTENDS Naturals, FiniteSets

CONSTANTS
    Members,      \* members the owner's team can get
    Clerks,       \* requests of members at the same time
    MaxAsks       \* bound: requests

ASSUME TeamAssumption == IsFiniteSet(Members) /\ "owner" \notin Members /\ MaxAsks \in Nat

Everyone == Members \cup {"owner"}

\* What Create and UpdateRole accept as a role.
GivenRoles == {"admin", "developer", "viewer"}

\* The roles that have member:invite, member:update and member:delete; the other two only
\* have member:read.
ManagingRoles == {"owner", "admin"}

\* The members' own operation, open to every role, and those under /team.
OwnOperations  == {"ChangePassword"}
TeamOperations == {"Create", "Update", "ResetPassword", "UpdateRole", "Remove"}

VARIABLES
    member,       \* table team_members
    asking,       \* the request of each clerk
    asks,         \* number of requests so far
    granted       \* members whom a request of an owner made admin

teamVars == <<member, asking, asks, granted>>

Silent == [at |-> "idle"]

\* Register makes the team with its owner.
TeamInit ==
    /\ member  = [m \in Everyone |-> IF m = "owner" THEN [state |-> "live", role |-> "owner"]
                                                    ELSE [state |-> "new"]]
    /\ asking  = [a \in Clerks |-> Silent]
    /\ asks    = 0
    /\ granted = {}

Works(m) == member[m].state = "live"

\* AuthMiddleware reads the sender's row, PermissionMiddleware uses what it read.
HasPermission(role, op) == op \in OwnOperations \/ role \in ManagingRoles

Authenticate(a) ==
    \E u \in Everyone, m \in Everyone, op \in TeamOperations \cup OwnOperations, r \in GivenRoles :
        /\ asking[a] = Silent /\ asks < MaxAsks
        /\ Works(u) /\ HasPermission(member[u].role, op)
        /\ op \in OwnOperations => m = u
        /\ op \in {"Create", "UpdateRole"} \/ r = "viewer"
        /\ asking' = [asking EXCEPT ![a] = [at |-> "entered", by |-> u, role |-> member[u].role,
                                            op |-> op, on |-> m, to |-> r]]
        /\ asks' = asks + 1
        /\ UNCHANGED <<member, granted>>

Entered(a, op) == asking[a].at = "entered" /\ asking[a].op = op

\* Mistake: an admin may make others admin, which the check's "not owner" was meant to stop.
MUTMayGrant(role, r) == r = "admin" => role \in ManagingRoles

\* The rule of Create and UpdateRole: only an owner makes an admin.
MayGrant(role, r) == r = "admin" => role = "owner"

Grants(w, r) ==
    granted' = IF w.op \in {"Create", "UpdateRole"} /\ w.role = "owner" /\ r = "admin"
               THEN granted \cup {w.on} ELSE granted

\* The request's answer is an error; nothing was written.
Refused(a) == asking' = [asking EXCEPT ![a] = Silent] /\ UNCHANGED <<member, asks, granted>>

\* Create looks for the address among the members that are not removed and inserts, where
\* the unique index also counts those that are.
Create(a) ==
    LET w == asking[a] IN
    /\ Entered(a, "Create")
    /\ IF member[w.on].state = "new" /\ MayGrant(w.role, w.to)
       THEN /\ member' = [member EXCEPT ![w.on] = [state |-> "live", role |-> w.to]]
            /\ asking' = [asking EXCEPT ![a] = Silent]
            /\ Grants(w, w.to)
            /\ UNCHANGED asks
       ELSE Refused(a)

\* The row was read and the checks passed: what is left is to write it.
Writes(a, write, row) ==
    /\ asking' = [asking EXCEPT ![a] = [at |-> write, op |-> @.op, by |-> @.by, role |-> @.role,
                                        on |-> @.on, row |-> row]]
    /\ UNCHANGED <<member, asks, granted>>

\* Name, address, phone of a member: an owner's only by an owner.
Update(a) ==
    LET w == asking[a] IN
    /\ Entered(a, "Update")
    /\ IF Works(w.on) /\ (member[w.on].role = "owner" => w.role = "owner")
       THEN Writes(a, "save", member[w.on])
       ELSE Refused(a)

ResetPassword(a) ==
    LET w == asking[a] IN
    /\ Entered(a, "ResetPassword")
    /\ IF Works(w.on) /\ (member[w.on].role = "owner" => w.on = w.by \/ w.role = "owner")
       THEN Writes(a, "save", member[w.on])
       ELSE Refused(a)

ChangePassword(a) ==
    LET w == asking[a] IN
    /\ Entered(a, "ChangePassword")
    /\ IF Works(w.on) THEN Writes(a, "save", member[w.on]) ELSE Refused(a)

\* Nobody's own role, nobody's role who is owner, and an admin's only by an owner.
MaySetRole(w) ==
    /\ w.on # w.by /\ Works(w.on) /\ member[w.on].role # "owner"
    /\ member[w.on].role = "admin" => w.role = "owner"
    /\ MayGrant(w.role, w.to)

UpdateRole(a) ==
    LET w == asking[a] IN
    /\ Entered(a, "UpdateRole")
    /\ IF MaySetRole(w) THEN Writes(a, "save", [member[w.on] EXCEPT !.role = w.to]) ELSE Refused(a)

MayRemove(w) ==
    /\ w.on # w.by /\ Works(w.on) /\ member[w.on].role # "owner"
    /\ member[w.on].role = "admin" => w.role = "owner"

Remove(a) ==
    LET w == asking[a] IN
    /\ Entered(a, "Remove")
    /\ IF MayRemove(w) THEN Writes(a, "delete", member[w.on]) ELSE Refused(a)

\* Save updates the row with that id; where it was removed meanwhile the database layer
\* inserts it again.
SaveMember(a) ==
    LET w == asking[a] IN
    /\ w.at = "save"
    /\ member' = [member EXCEPT ![w.on] = w.row]
    /\ asking' = [asking EXCEPT ![a] = Silent]
    /\ Grants(w, w.row.role)
    /\ UNCHANGED asks

\* Delete is soft: it marks the row, which keeps what it holds.
DeleteMember(a) ==
    LET w == asking[a] IN
    /\ w.at = "delete"
    /\ member' = [member EXCEPT ![w.on].state = "deleted"]
    /\ asking' = [asking EXCEPT ![a] = Silent]
    /\ UNCHANGED <<asks, granted>>

TeamNext == \E a \in Clerks :
    \/ Authenticate(a)
    \/ Create(a) \/ Update(a) \/ ResetPassword(a) \/ ChangePassword(a) \/ UpdateRole(a)
    \/ Remove(a) \/ SaveMember(a) \/ DeleteMember(a)

TeamSpec == TeamInit /\ [][TeamNext]_teamVars

-----------------------------------------------------------------------------

\* Whatever requests overlap, with roles that changed since they were authenticated and
\* with rows saved from older copies, the owner stays and nobody is an admin whom no owner
\* made one.
OnlyOwnersMakeAdmins ==
    /\ member["owner"] = [state |-> "live", role |-> "owner"]
    /\ \A m \in Members : Works(m) /\ member[m].role \in ManagingRoles => m \in granted
=============================================================================
