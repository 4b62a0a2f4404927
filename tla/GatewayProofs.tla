--------------------------- MODULE GatewayProofs ----------------------------
(***************************************************************************)
(* Theorems on what administrators set up, for any number of them whose    *)
(* requests overlap: who becomes an administrator (Team), and that what is *)
(* announced of channels, models and routes is served, and requests leave  *)
(* nothing behind (Channels).  What makes the invariants inductive is, in  *)
(* both, a promise about the rows that requests hold: they were read       *)
(* before others wrote, and are still going to be saved.                   *)
(* Then on the tasks that requests leave to the poller: each is asked      *)
(* about, and leaves, in time (PollQueue), by counting those before it.    *)
(* Last, that a price is what its formula means (Formula), by induction    *)
(* on the formula.                                                         *)
(***************************************************************************)
EXTENDS Team, Channels, PollQueue, Formula, FiniteSetTheorems, TLAPS

-----------------------------------------------------------------------------
(* The members of the team.                                                *)


Roles      == GivenRoles \cup {"owner"}
Operations == TeamOperations \cup OwnOperations
LiveRows   == [state : {"live"}, role : Roles]
Rows       == [state : {"new"}] \cup [state : {"live", "deleted"}, role : Roles]

EnteredRequests == [at : {"entered"}, by : Everyone, role : Roles, op : Operations,
                    on : Everyone, to : GivenRoles]
WritingRequests == [at : {"save", "delete"}, op : Operations, by : Everyone, role : Roles,
                    on : Everyone, row : LiveRows]

TeamTypeOK ==
    /\ member \in [Everyone -> Rows]
    /\ asking \in [Clerks -> {Silent} \cup EnteredRequests \cup WritingRequests]
    /\ asks \in Nat
    /\ granted \subseteq Everyone

\* What the copy of a row says stays true of the owner, and makes a member an admin only
\* who was one before or whom this request of an owner makes one.  A row to remove is
\* there.
Backed(w) ==
    /\ w.at = "save" =>
        /\ w.on = "owner" => w.row.role = "owner"
        /\ w.on # "owner" /\ w.row.role \in ManagingRoles =>
              \/ w.on \in granted
              \/ w.op = "UpdateRole" /\ w.role = "owner" /\ w.row.role = "admin"
    /\ w.at = "delete" => w.on # "owner" /\ member[w.on].state # "new"

TeamInv ==
    /\ TeamTypeOK
    /\ OnlyOwnersMakeAdmins
    /\ \A a \in Clerks : Backed(asking[a])

-----------------------------------------------------------------------------

\* Nobody is asking when the tenant is registered, so no old copy is about to be saved
\* (auth.go makes the owner alone).
THEOREM TeamStarts == TeamInit => TeamInv
  <1> SUFFICES ASSUME TeamInit PROVE TeamInv
    OBVIOUS
  <1> USE TeamAssumption DEF TeamInit, Everyone
  <1>1. TeamTypeOK
    BY DEF TeamTypeOK, Rows, Roles, GivenRoles, Silent
  <1>2. OnlyOwnersMakeAdmins
    BY DEF OnlyOwnersMakeAdmins, Works
  <1>3. \A a \in Clerks : Backed(asking[a])
    BY DEF Backed, Silent
  <1> QED
    BY <1>1, <1>2, <1>3 DEF TeamInv

\* A step that changes one request and no row keeps the invariant, provided the request is
\* well formed and backed.
LEMMA RequestMoves ==
    ASSUME TeamInv, NEW a \in Clerks,
           NEW w \in {Silent} \cup EnteredRequests \cup WritingRequests, Backed(w),
           asking' = [asking EXCEPT ![a] = w], asks' \in Nat, UNCHANGED <<member, granted>>
    PROVE  TeamInv'
  <1>1. TeamTypeOK'
    BY DEF TeamInv, TeamTypeOK
  <1>2. OnlyOwnersMakeAdmins'
    BY DEF TeamInv, OnlyOwnersMakeAdmins, Works
  <1>3. ASSUME NEW b \in Clerks PROVE Backed(asking[b])'
    <2>1. CASE b = a
      BY <2>1 DEF TeamInv, TeamTypeOK, Backed
    <2>2. CASE b # a
      BY <2>2 DEF TeamInv, TeamTypeOK, Backed
    <2> QED
      BY <2>1, <2>2
  <1> QED
    BY <1>1, <1>2, <1>3 DEF TeamInv

LEMMA RefusedKeeps ==
    ASSUME TeamInv, NEW a \in Clerks, Refused(a)
    PROVE  TeamInv'
  <1>1. Backed(Silent)
    BY DEF Backed, Silent
  <1>2. asks' \in Nat
    BY DEF TeamInv, TeamTypeOK, Refused
  <1> QED
    BY <1>1, <1>2, RequestMoves DEF Refused

\* A request that starts to write the row it read, changed or not.
LEMMA WritesKeeps ==
    ASSUME TeamInv, NEW a \in Clerks, NEW op \in Operations, Entered(a, op),
           NEW write \in {"save", "delete"}, NEW row \in LiveRows, Writes(a, write, row),
           write = "delete" => asking[a].on # "owner" /\ member[asking[a].on].state # "new",
           write = "save" =>
               /\ asking[a].on = "owner" => row.role = "owner"
               /\ asking[a].on # "owner" /\ row.role \in ManagingRoles =>
                     \/ asking[a].on \in granted
                     \/ op = "UpdateRole" /\ asking[a].role = "owner" /\ row.role = "admin"
    PROVE  TeamInv'
  <1> DEFINE w == [at |-> write, op |-> asking[a].op, by |-> asking[a].by,
                   role |-> asking[a].role, on |-> asking[a].on, row |-> row]
  <1>1. asking[a] \in EnteredRequests
    BY DEF TeamInv, TeamTypeOK, Entered, Silent, WritingRequests
  <1>2. w \in WritingRequests
    BY <1>1 DEF EnteredRequests, WritingRequests
  <1>3. Backed(w)
    BY <1>1 DEF Backed, Entered
  <1>4. asking' = [asking EXCEPT ![a] = w]
    BY DEF Writes, TeamInv, TeamTypeOK
  <1>5. asks' \in Nat /\ UNCHANGED <<member, granted>>
    BY DEF Writes, TeamInv, TeamTypeOK
  <1> HIDE DEF w
  <1> QED
    BY <1>2, <1>3, <1>4, <1>5, RequestMoves

\* The row of someone who works, copied by a request that does not change the role.
LEMMA CopyKeeps ==
    ASSUME TeamInv, NEW a \in Clerks, NEW op \in Operations, Entered(a, op),
           Works(asking[a].on), Writes(a, "save", member[asking[a].on])
    PROVE  TeamInv'
  <1>1. asking[a] \in EnteredRequests
    BY DEF TeamInv, TeamTypeOK, Entered, Silent, WritingRequests
  <1>2. asking[a].on \in Everyone
    BY <1>1 DEF EnteredRequests
  <1>3. member[asking[a].on] \in LiveRows
    BY <1>2 DEF TeamInv, TeamTypeOK, Works, Rows, LiveRows
  <1>4. asking[a].on = "owner" => member[asking[a].on].role = "owner"
    BY DEF TeamInv, OnlyOwnersMakeAdmins
  <1>5. asking[a].on # "owner" /\ member[asking[a].on].role \in ManagingRoles
           => asking[a].on \in granted
    BY <1>2 DEF TeamInv, OnlyOwnersMakeAdmins, Everyone
  <1> QED
    BY <1>3, <1>4, <1>5, WritesKeeps

-----------------------------------------------------------------------------

LEMMA AuthenticateKeeps ==
    ASSUME TeamInv, NEW a \in Clerks, Authenticate(a)
    PROVE  TeamInv'
  <1>1. PICK u \in Everyone, m \in Everyone, op \in Operations, r \in GivenRoles :
           /\ Works(u)
           /\ asking' = [asking EXCEPT ![a] = [at |-> "entered", by |-> u, role |-> member[u].role,
                                               op |-> op, on |-> m, to |-> r]]
    BY DEF Authenticate, Operations
  <1> DEFINE w == [at |-> "entered", by |-> u, role |-> member[u].role, op |-> op, on |-> m,
                   to |-> r]
  <1>2. member[u].role \in Roles
    BY <1>1 DEF TeamInv, TeamTypeOK, Works, Rows
  <1>3. w \in EnteredRequests
    BY <1>2 DEF EnteredRequests
  <1>4. Backed(w)
    BY DEF Backed
  <1>5. asks' \in Nat /\ UNCHANGED <<member, granted>>
    BY DEF Authenticate, TeamInv, TeamTypeOK
  <1>6. asking' = [asking EXCEPT ![a] = w]
    BY <1>1
  <1> HIDE DEF w
  <1> QED
    BY <1>3, <1>4, <1>5, <1>6, RequestMoves

LEMMA CreateKeeps ==
    ASSUME TeamInv, NEW a \in Clerks, Create(a)
    PROVE  TeamInv'
  <1> DEFINE w == asking[a]
  <1>1. w \in EnteredRequests
    BY DEF TeamInv, TeamTypeOK, Create, Entered, Silent, WritingRequests
  <1>2. CASE member[w.on].state = "new" /\ MayGrant(w.role, w.to)
    <2>1. /\ w.on \in Members /\ w.on # "owner" /\ w.op = "Create"
      BY <1>1, <1>2, TeamAssumption
      DEF TeamInv, OnlyOwnersMakeAdmins, EnteredRequests, Everyone, Create, Entered
    <2>2. /\ member' = [member EXCEPT ![w.on] = [state |-> "live", role |-> w.to]]
          /\ asking' = [asking EXCEPT ![a] = Silent]
          /\ Grants(w, w.to)
          /\ UNCHANGED asks
      BY <1>2 DEF Create
    <2>3. granted \subseteq granted' /\ granted' \subseteq Everyone
          /\ (w.to = "admin" => w.on \in granted')
      BY <1>1, <1>2, <2>1, <2>2 DEF Grants, MayGrant, TeamInv, TeamTypeOK, EnteredRequests
    <2>4. TeamTypeOK'
      BY <1>1, <2>2, <2>3 DEF TeamInv, TeamTypeOK, EnteredRequests, Rows, Roles
    <2>5. OnlyOwnersMakeAdmins'
      BY <1>1, <2>1, <2>2, <2>3
      DEF TeamInv, TeamTypeOK, OnlyOwnersMakeAdmins, Works, Everyone, EnteredRequests,
          GivenRoles, ManagingRoles
    <2>6. ASSUME NEW b \in Clerks PROVE Backed(asking[b])'
      BY <2>2, <2>3 DEF TeamInv, TeamTypeOK, Backed, Silent
    <2> QED
      BY <2>4, <2>5, <2>6 DEF TeamInv
  <1>3. CASE ~(member[w.on].state = "new" /\ MayGrant(w.role, w.to))
    BY <1>3, RefusedKeeps DEF Create
  <1> QED
    BY <1>2, <1>3

LEMMA UpdateRoleKeeps ==
    ASSUME TeamInv, NEW a \in Clerks, UpdateRole(a)
    PROVE  TeamInv'
  <1> DEFINE w == asking[a]
             row == [member[w.on] EXCEPT !.role = w.to]
  <1>1. w \in EnteredRequests /\ Entered(a, "UpdateRole")
    BY DEF TeamInv, TeamTypeOK, UpdateRole, Entered, Silent, WritingRequests
  <1>2. CASE MaySetRole(w)
    <2>1. member[w.on] \in LiveRows /\ w.to \in GivenRoles
      BY <1>1, <1>2 DEF TeamInv, TeamTypeOK, MaySetRole, Works, Rows, LiveRows, EnteredRequests
    <2>2. row \in LiveRows /\ row.role = w.to
      BY <2>1 DEF LiveRows, Roles
    <2>3. w.on # "owner"
      BY <1>2 DEF MaySetRole, TeamInv, OnlyOwnersMakeAdmins
    <2>4. row.role \in ManagingRoles => w.role = "owner" /\ row.role = "admin"
      BY <1>2, <2>1, <2>2 DEF MaySetRole, MayGrant, ManagingRoles, GivenRoles
    <2>5. Writes(a, "save", row)
      BY <1>2 DEF UpdateRole
    <2>6. "UpdateRole" \in Operations
      BY DEF Operations, TeamOperations
    <2> HIDE DEF row
    <2> QED
      BY <1>1, <2>2, <2>3, <2>4, <2>5, <2>6, WritesKeeps
  <1>3. CASE ~MaySetRole(w)
    BY <1>3, RefusedKeeps DEF UpdateRole
  <1> QED
    BY <1>2, <1>3

LEMMA RemoveKeeps ==
    ASSUME TeamInv, NEW a \in Clerks, Remove(a)
    PROVE  TeamInv'
  <1> DEFINE w == asking[a]
  <1>1. w \in EnteredRequests /\ Entered(a, "Remove")
    BY DEF TeamInv, TeamTypeOK, Remove, Entered, Silent, WritingRequests
  <1>2. CASE MayRemove(w)
    <2>1. member[w.on] \in LiveRows
      BY <1>1, <1>2 DEF TeamInv, TeamTypeOK, MayRemove, Works, Rows, LiveRows, EnteredRequests
    <2>2. w.on # "owner"
      BY <1>2 DEF MayRemove, TeamInv, OnlyOwnersMakeAdmins
    <2>3. Writes(a, "delete", member[w.on])
      BY <1>2 DEF Remove
    <2>4. "Remove" \in Operations
      BY DEF Operations, TeamOperations
    <2> QED
      BY <1>1, <2>1, <2>2, <2>3, <2>4, WritesKeeps DEF LiveRows
  <1>3. CASE ~MayRemove(w)
    BY <1>3, RefusedKeeps DEF Remove
  <1> QED
    BY <1>2, <1>3

LEMMA SaveMemberKeeps ==
    ASSUME TeamInv, NEW a \in Clerks, SaveMember(a)
    PROVE  TeamInv'
  <1> DEFINE w == asking[a]
  <1>1. w \in WritingRequests /\ w.at = "save" /\ Backed(w)
    BY DEF TeamInv, TeamTypeOK, SaveMember, EnteredRequests, Silent
  <1>2. /\ member' = [member EXCEPT ![w.on] = w.row]
        /\ asking' = [asking EXCEPT ![a] = Silent]
        /\ Grants(w, w.row.role)
        /\ UNCHANGED asks
    BY DEF SaveMember
  <1>3. granted \subseteq granted' /\ granted' \subseteq Everyone
    BY <1>1, <1>2 DEF Grants, TeamInv, TeamTypeOK, WritingRequests
  <1>4. w.on # "owner" /\ w.row.role \in ManagingRoles => w.on \in granted'
    BY <1>1, <1>2 DEF Backed, Grants
  <1>5. TeamTypeOK'
    BY <1>1, <1>2, <1>3 DEF TeamInv, TeamTypeOK, WritingRequests, LiveRows, Rows
  <1>6. member'["owner"] = [state |-> "live", role |-> "owner"]
    BY <1>1, <1>2
    DEF TeamInv, TeamTypeOK, OnlyOwnersMakeAdmins, Backed, WritingRequests, LiveRows, Everyone
  <1>7. ASSUME NEW m \in Members, Works(m)', member'[m].role \in ManagingRoles
        PROVE  m \in granted'
    <2>1. CASE m = w.on
      <3>1. m # "owner" /\ member'[m] = w.row
        BY <1>2, <2>1, TeamAssumption DEF TeamInv, TeamTypeOK, Everyone
      <3> QED
        BY <1>4, <1>7, <2>1, <3>1
    <2>2. CASE m # w.on
      BY <1>2, <1>3, <1>7, <2>2
      DEF TeamInv, TeamTypeOK, OnlyOwnersMakeAdmins, Works, Everyone
    <2> QED
      BY <2>1, <2>2
  <1>8. ASSUME NEW b \in Clerks PROVE Backed(asking[b])'
    BY <1>1, <1>2, <1>3 DEF TeamInv, TeamTypeOK, Backed, Silent, WritingRequests, LiveRows
  <1> QED
    BY <1>5, <1>6, <1>7, <1>8 DEF TeamInv, OnlyOwnersMakeAdmins

LEMMA DeleteMemberKeeps ==
    ASSUME TeamInv, NEW a \in Clerks, DeleteMember(a)
    PROVE  TeamInv'
  <1> DEFINE w == asking[a]
  <1>1. w \in WritingRequests /\ w.on \in Everyone /\ w.on # "owner" /\ member[w.on].state # "new"
    BY DEF TeamInv, TeamTypeOK, DeleteMember, EnteredRequests, WritingRequests, Silent, Backed
  <1>2. /\ member' = [member EXCEPT ![w.on].state = "deleted"]
        /\ asking' = [asking EXCEPT ![a] = Silent]
        /\ UNCHANGED <<asks, granted>>
    BY DEF DeleteMember
  <1>3. ASSUME NEW b \in Clerks PROVE Backed(asking[b])'
    BY <1>2 DEF TeamInv, TeamTypeOK, Backed, Silent
  <1>4. TeamTypeOK'
    <2>1. member[w.on] \in [state : {"live", "deleted"}, role : Roles]
      BY <1>1 DEF TeamInv, TeamTypeOK, Rows
    <2> DEFINE row == [member[w.on] EXCEPT !.state = "deleted"]
    <2>2. row \in Rows
      BY <2>1 DEF Rows
    <2>3. member' = [member EXCEPT ![w.on] = row]
      BY <1>2
    <2> HIDE DEF row
    <2> QED
      BY <1>1, <1>2, <2>2, <2>3 DEF TeamInv, TeamTypeOK
  <1>5. OnlyOwnersMakeAdmins'
    BY <1>1, <1>2 DEF TeamInv, TeamTypeOK, OnlyOwnersMakeAdmins, Works, Everyone
  <1> QED
    BY <1>3, <1>4, <1>5 DEF TeamInv

\* Every step keeps the invariant.
THEOREM TeamStepKeepsInv == TeamInv /\ [TeamNext]_teamVars => TeamInv'
  <1> SUFFICES ASSUME TeamInv, [TeamNext]_teamVars PROVE TeamInv'
    OBVIOUS
  <1>1. ASSUME NEW a \in Clerks, Update(a) PROVE TeamInv'
    <2>1. CASE Works(asking[a].on)
               /\ (member[asking[a].on].role = "owner" => asking[a].role = "owner")
      BY <1>1, <2>1, CopyKeeps DEF Update, Operations, TeamOperations
    <2> QED
      BY <1>1, <2>1, RefusedKeeps DEF Update
  <1>2. ASSUME NEW a \in Clerks, ResetPassword(a) PROVE TeamInv'
    <2>1. CASE Refused(a)
      BY <2>1, RefusedKeeps
    <2>2. CASE ~Refused(a)
      BY <1>2, <2>2, CopyKeeps DEF ResetPassword, Operations, TeamOperations
    <2> QED
      BY <2>1, <2>2
  <1>3. ASSUME NEW a \in Clerks, ChangePassword(a) PROVE TeamInv'
    <2>1. CASE Works(asking[a].on)
      BY <1>3, <2>1, CopyKeeps DEF ChangePassword, Operations, OwnOperations
    <2> QED
      BY <1>3, <2>1, RefusedKeeps DEF ChangePassword
  <1>4. ASSUME NEW a \in Clerks,
               Authenticate(a) \/ Create(a) \/ UpdateRole(a) \/ Remove(a) \/ SaveMember(a)
               \/ DeleteMember(a)
        PROVE  TeamInv'
    BY <1>4, AuthenticateKeeps, CreateKeeps, UpdateRoleKeeps, RemoveKeeps, SaveMemberKeeps,
       DeleteMemberKeeps
  <1>5. CASE UNCHANGED teamVars
    BY <1>5 DEF teamVars, TeamInv, TeamTypeOK, OnlyOwnersMakeAdmins, Works, Backed
  <1> QED
    BY <1>1, <1>2, <1>3, <1>4, <1>5 DEF TeamNext

\* However many requests overlap, and whatever older copies they save: the owner stays, and
\* an admin is someone whom an owner made one (team_member.go's checks of roles).
THEOREM AdminsAreMadeByOwners == TeamSpec => []OnlyOwnersMakeAdmins
  <1>1. TeamInv => OnlyOwnersMakeAdmins
    BY DEF TeamInv
  <1> QED
    BY <1>1, TeamStarts, TeamStepKeepsInv, PTL DEF TeamSpec

-----------------------------------------------------------------------------
(* Channels, client models and routes.                                     *)

CredRows  == [state : {"live", "deleted"}, provider : Providers, mode : AnyMode,
              enabled : BOOLEAN, default : BOOLEAN, up : BOOLEAN]
ModelRows == [state : {"live", "deleted"}, provider : Providers, enabled : BOOLEAN,
              offer : {NewModel(p).offer : p \in Providers}]
RouteRows == [state : {"live", "deleted"}, cred : Credentials, enabled : BOOLEAN,
              default : BOOLEAN, shape : Shapes]

RouteEdits == {"unsetRoutes", "saveRoute"}
UnsetWork  == [at : {"unset"}, cred : Credentials, provider : Providers, mode : AnyMode]
CredWork   == [at : {"save"}, cred : Credentials, makeDefault : BOOLEAN, row : CredRows]
ModelWork  == [at : {"saveModel"}, row : ModelRows]
RouteWork  == [at : RouteEdits, route : Routes, row : RouteRows]

RowsTypeOK ==
    /\ creds \in [Credentials -> {Unused} \cup CredRows]
    /\ model \in {Unused} \cup ModelRows
    /\ routes \in [Routes -> {Unused} \cup RouteRows]
EditsTypeOK ==
    editing \in [Admins -> {NoEdit} \cup UnsetWork \cup CredWork \cup ModelWork \cup RouteWork]

\* The channel of a route is, or was, one of the model's provider; unless the model moved.
Fits(row) ==
    /\ model.state # "new"
    /\ moved \/ (creds[row.cred].state # "new" /\ creds[row.cred].provider = model.provider)

\* What a request is about to save keeps the provider of its channel, or fits as a route.
EditFits(w) ==
    /\ w.at = "save" => /\ creds[w.cred].state # "new"
                        /\ creds[w.cred].provider = w.row.provider
    /\ w.at = "saveModel" => model.state # "new"
    /\ w.at \in RouteEdits => Fits(w.row)

RoutesFit == \A r \in Routes : routes[r].state # "new" => Fits(routes[r])
EditsFit  == \A a \in Admins : EditFits(editing[a])

ChannelsInv == RowsTypeOK /\ EditsTypeOK /\ RoutesFit /\ EditsFit

-----------------------------------------------------------------------------
\* Any step in which no channel changes its provider or goes back to a new one, nor the
\* model unless it moved, leaves what fitted fitting.
LEMMA FitsStay ==
    ASSUME NEW row \in RouteRows, Fits(row),
           model.state # "new" => model'.state # "new",
           moved => moved',
           ~moved' => model'.provider = model.provider,
           \A c \in Credentials : creds[c].state # "new" =>
               creds'[c].state # "new" /\ creds'[c].provider = creds[c].provider
    PROVE  Fits(row)'
  <1>1. row.cred \in Credentials
    BY DEF RouteRows
  <1> QED
    BY <1>1 DEF Fits

\* Every route keeps its channel or fits anew, and so does every request.
LEMMA RowsStep ==
    ASSUME ChannelsInv, RowsTypeOK', EditsTypeOK',
           \A r \in Routes : \/ routes'[r] = routes[r]
                             \/ routes[r].state # "new" /\ routes'[r].cred = routes[r].cred
                             \/ Fits(routes[r])',
           \A a \in Admins : editing'[a] = editing[a] \/ EditFits(editing[a])',
           model.state # "new" => model'.state # "new",
           moved => moved',
           ~moved' => model.state = "new" \/ model'.provider = model.provider,
           \A c \in Credentials : creds[c].state # "new" =>
               creds'[c].state # "new" /\ creds'[c].provider = creds[c].provider
    PROVE  ChannelsInv'
  <1>1. ASSUME NEW row \in RouteRows, Fits(row) PROVE Fits(row)'
    BY <1>1, FitsStay DEF Fits
  <1>2. RoutesFit'
    <2> SUFFICES ASSUME NEW r \in Routes, routes'[r].state # "new" PROVE Fits(routes[r])'
      BY DEF RoutesFit
    <2>1. CASE routes[r].state # "new" /\ routes'[r].cred = routes[r].cred
      <3>1. PICK row \in RouteRows : row = routes[r]
        BY <2>1 DEF ChannelsInv, RowsTypeOK, Unused
      <3>2. Fits(row)'
        BY <1>1, <2>1, <3>1 DEF ChannelsInv, RoutesFit
      <3> QED
        BY <2>1, <3>1, <3>2 DEF Fits
    <2> QED
      BY <2>1
  <1>3. ASSUME NEW a \in Admins, editing'[a] = editing[a] PROVE EditFits(editing[a])'
    <2>1. PICK w : w = editing[a] /\ w = editing'[a]
      BY <1>3
    <2>2. /\ w \in {NoEdit} \cup UnsetWork \cup CredWork \cup ModelWork \cup RouteWork
          /\ EditFits(w)
      BY <2>1 DEF ChannelsInv, EditsTypeOK, EditsFit
    <2>3. w.at = "save" => w \in CredWork /\ w.cred \in Credentials
      BY <2>2 DEF NoEdit, UnsetWork, CredWork, ModelWork, RouteWork, RouteEdits
    <2>4. w.at \in RouteEdits => w \in RouteWork /\ w.row \in RouteRows
      BY <2>2 DEF NoEdit, UnsetWork, CredWork, ModelWork, RouteWork, RouteEdits
    <2>5. w.at \in RouteEdits => Fits(w.row)'
      BY <1>1, <2>2, <2>4 DEF EditFits
    <2>6. EditFits(w)'
      BY <2>2, <2>3, <2>5 DEF EditFits
    <2> QED
      BY <2>1, <2>6 DEF EditFits, Fits
  <1>4. EditsFit'
    BY <1>3 DEF EditsFit
  <1> QED
    BY <1>2, <1>4 DEF ChannelsInv

\* Steps that also leave the requests but one; w is the request it leaves behind.
LEMMA RowsMove ==
    ASSUME ChannelsInv, NEW a \in Admins,
           NEW w \in {NoEdit} \cup UnsetWork \cup CredWork \cup ModelWork \cup RouteWork,
           editing' = [editing EXCEPT ![a] = w], EditFits(w)',
           RowsTypeOK', UNCHANGED routes,
           model.state # "new" => model'.state # "new",
           moved => moved',
           ~moved' => model.state = "new" \/ model'.provider = model.provider,
           \A c \in Credentials : creds[c].state # "new" =>
               creds'[c].state # "new" /\ creds'[c].provider = creds[c].provider
    PROVE  ChannelsInv'
  <1>1. EditsTypeOK'
    BY DEF ChannelsInv, EditsTypeOK
  <1>2. ASSUME NEW b \in Admins PROVE editing'[b] = editing[b] \/ EditFits(editing[b])'
    <2>1. editing'[b] = editing[b] \/ editing'[b] = w
      BY DEF ChannelsInv, EditsTypeOK
    <2> QED
      BY <2>1 DEF EditFits, Fits
  <1> QED
    BY <1>1, <1>2, RowsStep

-----------------------------------------------------------------------------
(* What administrators save is well formed.                                *)

LEMMA ModesKnown ==
    ASSUME NEW p \in Providers, NEW m
    PROVE  NormalizeMode(p, m) \in AnyMode
  <1>1. p \in {"gemini", "gpt", "veo", "sora", "grok"}
    <2>1. DOMAIN Offer = {"gemini", "gpt", "veo", "sora", "grok"}
      BY DEF Offer
    <2> QED
      BY <2>1, ChannelsAssumption
  <1>2. DefaultMode[p] \in ModesOf(p)
    <2>1. CASE p = "gemini"
      BY <2>1 DEF DefaultMode, ModesOf, Offer
    <2>2. CASE p = "gpt"
      BY <2>2 DEF DefaultMode, ModesOf, Offer
    <2>3. CASE p = "veo"
      BY <2>3 DEF DefaultMode, ModesOf, Offer
    <2>4. CASE p = "sora"
      BY <2>4 DEF DefaultMode, ModesOf, Offer
    <2>5. CASE p = "grok"
      BY <2>5 DEF DefaultMode, ModesOf, Offer
    <2> QED
      BY <1>1, <2>1, <2>2, <2>3, <2>4, <2>5
  <1>3. NormalizeMode(p, m) \in ModesOf(p)
    BY <1>2 DEF NormalizeMode
  <1> QED
    BY <1>3 DEF AnyMode

LEMMA CredentialTyped ==
    ASSUME NEW p \in Providers, NEW m, NEW d \in BOOLEAN
    PROVE  /\ NewCredential(p, m, d) \in CredRows
           /\ NewCredential(p, m, d).state # "new"
  <1>1. PICK n \in AnyMode : n = NormalizeMode(p, m)
    BY ModesKnown
  <1>2. NewCredential(p, m, d) = [state |-> "live", provider |-> p, mode |-> n, enabled |-> TRUE,
                                  default |-> d, up |-> TRUE]
    BY <1>1 DEF NewCredential
  <1> QED
    BY <1>2 DEF CredRows

LEMMA ModelTyped ==
    ASSUME NEW p \in Providers, NEW e \in BOOLEAN
    PROVE  /\ NewModel(p) \in ModelRows /\ NewModel(p).state = "live"
           /\ [NewModel(p) EXCEPT !.enabled = e] \in ModelRows
  <1>1. PICK o : o = NewModel(p).offer
    OBVIOUS
  <1>2. NewModel(p) = [state |-> "live", provider |-> p, enabled |-> TRUE, offer |-> o]
    BY <1>1 DEF NewModel
  <1>3. o \in {NewModel(q).offer : q \in Providers}
    BY <1>1
  <1> QED
    BY <1>2, <1>3 DEF ModelRows

LEMMA RouteTyped ==
    ASSUME NEW c \in Credentials, NEW d \in BOOLEAN, NEW shape \in Shapes, NEW e \in BOOLEAN
    PROVE  /\ NewRoute(c, d, shape) \in RouteRows /\ NewRoute(c, d, shape).cred = c
           /\ [NewRoute(c, d, shape) EXCEPT !.enabled = e] \in RouteRows
           /\ [NewRoute(c, d, shape) EXCEPT !.enabled = e].cred = c
  BY DEF NewRoute, RouteRows

\* What a request is at says what it holds.
LEMMA WorkTyped ==
    ASSUME EditsTypeOK, NEW a \in Admins
    PROVE  /\ editing[a].at = "save" => editing[a] \in CredWork
           /\ editing[a].at = "unset" => editing[a] \in UnsetWork
           /\ editing[a].at = "saveModel" => editing[a] \in ModelWork
           /\ editing[a].at \in RouteEdits => editing[a] \in RouteWork
  BY DEF EditsTypeOK, NoEdit, UnsetWork, CredWork, ModelWork, RouteWork, RouteEdits

LEMMA RestTyped ==
    /\ NoEdit.at = "idle"
    /\ \A w \in UnsetWork : w.at = "unset"
  BY DEF NoEdit, UnsetWork

LEMMA StatesTyped ==
    /\ Unused.state = "new"
    /\ \A row \in CredRows \cup ModelRows \cup RouteRows : row.state \in {"live", "deleted"}
  BY DEF Unused, CredRows, ModelRows, RouteRows

-----------------------------------------------------------------------------
(* Requests about channels.                                                *)

LEMMA CreateCredentialKeeps ==
    ASSUME ChannelsInv, NEW a \in Admins, CreateCredential(a)
    PROVE  ChannelsInv'
  <1>1. PICK c \in Credentials, p \in Providers, m \in AnyMode, d \in BOOLEAN :
        /\ creds[c] = Unused
        /\ Begins(a, IF d THEN [at |-> "unset", cred |-> c, provider |-> p,
                                mode |-> NormalizeMode(p, m)] ELSE NoEdit)
        /\ creds' = [creds EXCEPT ![c] = NewCredential(p, m, d)]
        /\ UNCHANGED <<model, routes, moved>>
    BY DEF CreateCredential
  <1>2. PICK w : /\ w = IF d THEN [at |-> "unset", cred |-> c, provider |-> p,
                                   mode |-> NormalizeMode(p, m)] ELSE NoEdit
                 /\ editing' = [editing EXCEPT ![a] = w]
    BY <1>1 DEF Begins
  <1>3. w \in {NoEdit} \cup UnsetWork
    BY <1>2, ModesKnown DEF UnsetWork
  <1>4. EditFits(w)'
    BY <1>3, RestTyped DEF EditFits, RouteEdits
  <1>5. RowsTypeOK'
    BY <1>1, CredentialTyped DEF ChannelsInv, RowsTypeOK
  <1>6. \A b \in Credentials : creds[b].state # "new" =>
               creds'[b].state # "new" /\ creds'[b].provider = creds[b].provider
    BY <1>1, StatesTyped DEF ChannelsInv, RowsTypeOK
  <1> QED
    BY <1>1, <1>2, <1>3, <1>4, <1>5, <1>6, RowsMove

LEMMA UpdateCredentialKeeps ==
    ASSUME ChannelsInv, NEW a \in Admins, UpdateCredential(a)
    PROVE  ChannelsInv'
  <1>1. PICK c \in Credentials, m \in AnyMode, d \in {"set", "clear", "keep"},
             e \in BOOLEAN, newKey \in BOOLEAN :
        /\ IsLive(creds[c])
        /\ Begins(a, [at |-> "save", cred |-> c, makeDefault |-> d = "set",
                   row |-> [creds[c] EXCEPT
                       !.mode    = NormalizeMode(creds[c].provider, m),
                       !.enabled = e,
                       !.default = d = "set" \/ (d = "keep" /\ @),
                       !.up      = @ \/ newKey]])
        /\ UNCHANGED <<creds, model, routes, moved, overlapped, requestVars>>
    BY Zenon DEF UpdateCredential
  <1>2. creds[c] \in CredRows /\ creds[c].state = "live"
    BY <1>1, StatesTyped DEF ChannelsInv, RowsTypeOK, IsLive
  <1>3. creds[c].provider \in Providers /\ creds[c].default \in BOOLEAN /\ creds[c].up \in BOOLEAN
    BY <1>2 DEF CredRows
  <1>4. PICK n \in AnyMode, makes \in BOOLEAN, default \in BOOLEAN, up \in BOOLEAN :
            /\ n = NormalizeMode(creds[c].provider, m) /\ makes = (d = "set")
            /\ default = (d = "set" \/ (d = "keep" /\ creds[c].default))
            /\ up = (creds[c].up \/ newKey)
    BY <1>3, ModesKnown
  <1>5. PICK row : row = [creds[c] EXCEPT !.mode = n, !.enabled = e, !.default = default, !.up = up]
    OBVIOUS
  <1>6. row \in CredRows /\ row.provider = creds[c].provider
    BY <1>2, <1>5 DEF CredRows
  <1>7. PICK w : w = [at |-> "save", cred |-> c, makeDefault |-> makes, row |-> row]
    OBVIOUS
  <1>8. editing' = [editing EXCEPT ![a] = w]
    BY <1>1, <1>4, <1>5, <1>7 DEF Begins
  <1>9. w \in CredWork /\ w.at = "save" /\ w.cred = c /\ w.row = row
    BY <1>6, <1>7 DEF CredWork
  <1>10. EditFits(w)'
    BY <1>1, <1>2, <1>6, <1>9 DEF EditFits, RouteEdits
  <1>11. RowsTypeOK'
    BY <1>1 DEF ChannelsInv, RowsTypeOK
  <1> QED
    BY <1>1, <1>8, <1>9, <1>10, <1>11, RowsMove

LEMMA SaveCredentialKeeps ==
    ASSUME ChannelsInv, NEW a \in Admins, SaveCredential(a)
    PROVE  ChannelsInv'
  <1>1. /\ editing[a] \in CredWork /\ EditFits(editing[a]) /\ editing[a].at = "save"
        /\ creds' = [creds EXCEPT ![editing[a].cred] = editing[a].row]
        /\ UNCHANGED <<model, routes, moved>>
    BY WorkTyped DEF SaveCredential, ChannelsInv, EditsFit
  <1>2. /\ editing[a].cred \in Credentials /\ editing[a].row \in CredRows
        /\ editing[a].row.provider \in Providers /\ editing[a].row.mode \in AnyMode
        /\ creds[editing[a].cred].provider = editing[a].row.provider
    BY <1>1 DEF CredWork, CredRows, EditFits
  <1>3. PICK w : /\ w = IF editing[a].makeDefault
                        THEN [at |-> "unset", cred |-> editing[a].cred,
                              provider |-> editing[a].row.provider, mode |-> editing[a].row.mode]
                        ELSE NoEdit
                 /\ editing' = [editing EXCEPT ![a] = w]
    BY DEF SaveCredential, Goes
  <1>4. w \in {NoEdit} \cup UnsetWork
    BY <1>2, <1>3 DEF UnsetWork
  <1>5. EditFits(w)'
    BY <1>4, RestTyped DEF EditFits, RouteEdits
  <1>6. RowsTypeOK'
    BY <1>1, <1>2 DEF ChannelsInv, RowsTypeOK
  <1>7. \A b \in Credentials : creds[b].state # "new" =>
               creds'[b].state # "new" /\ creds'[b].provider = creds[b].provider
    BY <1>1, <1>2, StatesTyped DEF ChannelsInv, RowsTypeOK
  <1> QED
    BY <1>1, <1>3, <1>4, <1>5, <1>6, <1>7, RowsMove

\* A step that ends a request and changes but flags and states of channels.
LEMMA FlagsMove ==
    ASSUME ChannelsInv, NEW a \in Admins, editing' = [editing EXCEPT ![a] = NoEdit],
           RowsTypeOK', UNCHANGED <<model, routes, moved>>,
           \A c \in Credentials : creds[c].state # "new" =>
               creds'[c].state # "new" /\ creds'[c].provider = creds[c].provider
    PROVE  ChannelsInv'
  <1>1. EditFits(NoEdit)'
    BY RestTyped DEF EditFits, RouteEdits
  <1> QED
    BY <1>1, RowsMove

LEMMA UnsetOtherDefaultsKeeps ==
    ASSUME ChannelsInv, NEW a \in Admins, UnsetOtherDefaults(a)
    PROVE  ChannelsInv'
  <1>1. /\ editing' = [editing EXCEPT ![a] = NoEdit] /\ UNCHANGED <<model, routes, moved>>
        /\ creds' = [c \in Credentials |-> creds'[c]]
    BY DEF UnsetOtherDefaults, Ends, Goes
  <1>2. ASSUME NEW c \in Credentials
        PROVE  creds'[c] = creds[c] \/ (creds[c].state = "live"
                                        /\ creds'[c] = [creds[c] EXCEPT !.default = FALSE])
    BY DEF UnsetOtherDefaults, IsLive
  <1>3. ASSUME NEW c \in Credentials
        PROVE  /\ creds'[c] \in {Unused} \cup CredRows
               /\ creds[c].state # "new" =>
                      creds'[c].state # "new" /\ creds'[c].provider = creds[c].provider
    <2>1. CASE creds'[c] = creds[c]
      BY <2>1 DEF ChannelsInv, RowsTypeOK
    <2>2. CASE creds[c].state = "live" /\ creds'[c] = [creds[c] EXCEPT !.default = FALSE]
      <3>1. creds[c] \in CredRows
        BY <2>2, StatesTyped DEF ChannelsInv, RowsTypeOK
      <3> QED
        BY <2>2, <3>1 DEF CredRows
    <2> QED
      BY <1>2, <2>1, <2>2
  <1>4. RowsTypeOK'
    BY <1>1, <1>3 DEF ChannelsInv, RowsTypeOK
  <1> QED
    BY <1>1, <1>3, <1>4, FlagsMove

LEMMA DeleteCredentialKeeps ==
    ASSUME ChannelsInv, NEW a \in Admins, DeleteCredential(a)
    PROVE  ChannelsInv'
  <1>1. PICK c \in Credentials : IsLive(creds[c]) /\ creds' = [creds EXCEPT ![c].state = "deleted"]
    BY DEF DeleteCredential
  <1>2. editing' = [editing EXCEPT ![a] = NoEdit] /\ UNCHANGED <<model, routes, moved>>
    BY DEF DeleteCredential, Begins
  <1>3. PICK row \in CredRows : row = creds[c]
    BY <1>1, StatesTyped DEF ChannelsInv, RowsTypeOK, IsLive
  <1>4. /\ [row EXCEPT !.state = "deleted"] \in CredRows
        /\ [row EXCEPT !.state = "deleted"].provider = row.provider
    BY <1>3 DEF CredRows
  <1>5. creds' = [creds EXCEPT ![c] = [row EXCEPT !.state = "deleted"]]
    BY <1>1, <1>3
  <1>6. RowsTypeOK'
    BY <1>2, <1>4, <1>5 DEF ChannelsInv, RowsTypeOK
  <1>7. \A b \in Credentials : creds[b].state # "new" =>
               creds'[b].state # "new" /\ creds'[b].provider = creds[b].provider
    BY <1>3, <1>4, <1>5, StatesTyped DEF ChannelsInv, RowsTypeOK
  <1> QED
    BY <1>2, <1>6, <1>7, FlagsMove

\* Health is a flag too, and what does not touch the administrators' state keeps it.
LEMMA MarkHealthKeeps ==
    ASSUME ChannelsInv, NEW c \in Credentials, MarkHealth(c)
    PROVE  ChannelsInv'
  <1>1. /\ IsLive(creds[c]) /\ creds' = [creds EXCEPT ![c].up = ~@]
        /\ UNCHANGED <<model, routes, moved, editing>>
    BY DEF MarkHealth
  <1>2. PICK row \in CredRows : row = creds[c]
    BY <1>1, StatesTyped DEF ChannelsInv, RowsTypeOK, IsLive
  <1>3. PICK up \in BOOLEAN : up = ~row.up
    OBVIOUS
  <1>4. PICK row2 : row2 = [row EXCEPT !.up = up]
    OBVIOUS
  <1>5. row2 \in CredRows /\ row2.provider = row.provider
    BY <1>2, <1>4 DEF CredRows
  <1>6. creds' = [creds EXCEPT ![c] = row2]
    BY <1>1, <1>2, <1>3, <1>4
  <1>7. RowsTypeOK'
    BY <1>1, <1>5, <1>6 DEF ChannelsInv, RowsTypeOK
  <1>8. \A b \in Credentials : creds[b].state # "new" =>
               creds'[b].state # "new" /\ creds'[b].provider = creds[b].provider
    BY <1>2, <1>5, <1>6, StatesTyped DEF ChannelsInv, RowsTypeOK
  <1>9. EditsTypeOK' /\ \A a \in Admins : editing'[a] = editing[a]
    BY <1>1 DEF ChannelsInv, EditsTypeOK
  <1> QED
    BY <1>1, <1>7, <1>8, <1>9, RowsStep

-----------------------------------------------------------------------------
(* Requests about the client model and its routes.                         *)

LEMMA CreateModelKeeps ==
    ASSUME ChannelsInv, NEW a \in Admins, CreateModel(a)
    PROVE  ChannelsInv'
  <1>1. PICK p \in Providers : model' = NewModel(p)
    BY DEF CreateModel
  <1>2. /\ model.state = "new" /\ editing' = [editing EXCEPT ![a] = NoEdit]
        /\ UNCHANGED <<creds, routes, moved>>
    BY StatesTyped DEF CreateModel, Begins
  <1>3. RowsTypeOK' /\ model'.state # "new"
    BY <1>1, <1>2, ModelTyped DEF ChannelsInv, RowsTypeOK
  <1>4. EditFits(NoEdit)'
    BY RestTyped DEF EditFits, RouteEdits
  <1> QED
    BY <1>2, <1>3, <1>4, RowsMove

LEMMA UpdateModelKeeps ==
    ASSUME ChannelsInv, NEW a \in Admins, UpdateModel(a)
    PROVE  ChannelsInv'
  <1>1. /\ model.state = "live" /\ UNCHANGED <<creds, model, routes, moved>>
    BY DEF UpdateModel, IsLive
  <1>2. PICK p \in Providers, e \in BOOLEAN :
           Begins(a, [at |-> "saveModel", row |-> [NewModel(p) EXCEPT !.enabled = e]])
    BY DEF UpdateModel
  <1>3. PICK row \in ModelRows : row = [NewModel(p) EXCEPT !.enabled = e]
    BY ModelTyped
  <1>4. PICK w \in ModelWork : w = [at |-> "saveModel", row |-> row]
    BY DEF ModelWork
  <1>5. editing' = [editing EXCEPT ![a] = w] /\ w.at = "saveModel"
    BY <1>2, <1>3, <1>4 DEF Begins
  <1>6. EditFits(w)'
    BY <1>1, <1>5 DEF EditFits, RouteEdits
  <1>7. RowsTypeOK'
    BY <1>1 DEF ChannelsInv, RowsTypeOK
  <1> QED
    BY <1>1, <1>5, <1>6, <1>7, RowsMove

LEMMA SaveModelKeeps ==
    ASSUME ChannelsInv, NEW a \in Admins, SaveModel(a)
    PROVE  ChannelsInv'
  <1>1. /\ editing[a] \in ModelWork /\ model' = editing[a].row
        /\ moved' = (moved \/ model'.provider # model.provider)
        /\ editing' = [editing EXCEPT ![a] = NoEdit] /\ UNCHANGED <<creds, routes>>
    BY WorkTyped DEF SaveModel, ChannelsInv, Ends, Goes
  <1>2. model' \in ModelRows
    BY <1>1 DEF ModelWork
  <1>3. RowsTypeOK' /\ model'.state # "new"
    BY <1>1, <1>2, StatesTyped DEF ChannelsInv, RowsTypeOK
  <1>4. EditFits(NoEdit)'
    BY RestTyped DEF EditFits, RouteEdits
  <1>5. (moved => moved') /\ (~moved' => model'.provider = model.provider)
    BY <1>1
  <1> QED
    BY <1>1, <1>3, <1>4, <1>5, RowsMove

\* A route that is switched off, on or deleted.
LEMMA RouteFlagged ==
    ASSUME NEW row \in RouteRows
    PROVE  /\ [row EXCEPT !.state = "deleted"] \in RouteRows
           /\ [row EXCEPT !.state = "deleted"].cred = row.cred
           /\ [row EXCEPT !.default = FALSE] \in RouteRows
           /\ [row EXCEPT !.default = FALSE].cred = row.cred
  BY DEF RouteRows

\* A step that ends a request, or moves one about a route on, and changes flags of routes.
LEMMA RoutesMove ==
    ASSUME ChannelsInv, NEW a \in Admins,
           NEW w \in {NoEdit} \cup RouteWork, editing' = [editing EXCEPT ![a] = w], EditFits(w)',
           UNCHANGED <<creds, moved>>,
           model' = model \/ (model.state = "live" /\ model' = [model EXCEPT !.state = "deleted"]),
           routes' = [r \in Routes |-> routes'[r]],
           \A r \in Routes :
               \/ routes'[r] = routes[r]
               \/ /\ routes[r].state = "live"
                  /\ routes'[r] \in {[routes[r] EXCEPT !.state = "deleted"],
                                     [routes[r] EXCEPT !.default = FALSE]}
    PROVE  ChannelsInv'
  <1>1. /\ model' \in {Unused} \cup ModelRows /\ (model.state # "new" => model'.state # "new")
        /\ (model.state # "new" => model'.provider = model.provider)
    <2>1. model \in {Unused} \cup ModelRows
      BY DEF ChannelsInv, RowsTypeOK
    <2>2. CASE model.state = "live" /\ model' = [model EXCEPT !.state = "deleted"]
      <3>1. model \in ModelRows
        BY <2>1, <2>2, StatesTyped
      <3> QED
        BY <2>2, <3>1 DEF ModelRows
    <2> QED
      BY <2>1, <2>2
  <1>2. ASSUME NEW r \in Routes
        PROVE  /\ routes'[r] \in {Unused} \cup RouteRows
               /\ \/ routes'[r] = routes[r]
                  \/ routes[r].state # "new" /\ routes'[r].cred = routes[r].cred
    <2>1. routes[r] \in {Unused} \cup RouteRows
      BY DEF ChannelsInv, RowsTypeOK
    <2>2. CASE routes[r].state = "live"
      <3>1. PICK row \in RouteRows : row = routes[r]
        BY <2>1, <2>2, StatesTyped
      <3> QED
        BY <2>2, <3>1, RouteFlagged
    <2>3. CASE routes[r].state # "live"
      BY <2>1, <2>3
    <2> QED
      BY <2>2, <2>3
  <1>3. RowsTypeOK'
    BY <1>1, <1>2 DEF ChannelsInv, RowsTypeOK
  <1>4. EditsTypeOK'
    BY DEF ChannelsInv, EditsTypeOK
  <1>5. ASSUME NEW b \in Admins PROVE editing'[b] = editing[b] \/ EditFits(editing[b])'
    <2>1. editing'[b] = editing[b] \/ editing'[b] = w
      BY DEF ChannelsInv, EditsTypeOK
    <2> QED
      BY <2>1 DEF EditFits, Fits
  <1> QED
    BY <1>1, <1>2, <1>3, <1>4, <1>5, RowsStep

LEMMA DeleteModelKeeps ==
    ASSUME ChannelsInv, NEW a \in Admins, DeleteModel(a)
    PROVE  ChannelsInv'
  <1>1. /\ model.state = "live" /\ model' = [model EXCEPT !.state = "deleted"]
        /\ editing' = [editing EXCEPT ![a] = NoEdit] /\ UNCHANGED <<creds, moved>>
        /\ routes' = [r \in Routes |-> routes'[r]]
    BY DEF DeleteModel, IsLive, Begins
  <1>2. \A r \in Routes : \/ routes'[r] = routes[r]
                          \/ /\ routes[r].state = "live"
                             /\ routes'[r] = [routes[r] EXCEPT !.state = "deleted"]
    BY DEF DeleteModel, IsLive
  <1>3. EditFits(NoEdit)'
    BY RestTyped DEF EditFits, RouteEdits
  <1> QED
    BY <1>1, <1>2, <1>3, RoutesMove

LEMMA DeleteRouteKeeps ==
    ASSUME ChannelsInv, NEW a \in Admins, DeleteRoute(a)
    PROVE  ChannelsInv'
  <1>1. PICK r \in Routes : IsLive(routes[r]) /\ routes' = [routes EXCEPT ![r].state = "deleted"]
    BY DEF DeleteRoute
  <1>2. editing' = [editing EXCEPT ![a] = NoEdit] /\ UNCHANGED <<creds, model, moved>>
    BY DEF DeleteRoute, Begins
  <1>3. routes' = [s \in Routes |-> routes'[s]]
    BY <1>1 DEF ChannelsInv, RowsTypeOK
  <1>4. \A s \in Routes : \/ routes'[s] = routes[s]
                          \/ /\ routes[s].state = "live"
                             /\ routes'[s] = [routes[s] EXCEPT !.state = "deleted"]
    BY <1>1 DEF IsLive, ChannelsInv, RowsTypeOK
  <1>5. EditFits(NoEdit)'
    BY RestTyped DEF EditFits, RouteEdits
  <1> QED
    BY <1>2, <1>3, <1>4, <1>5, RoutesMove

LEMMA UnsetOtherRouteDefaultsKeeps ==
    ASSUME ChannelsInv, NEW a \in Admins, UnsetOtherRouteDefaults(a)
    PROVE  ChannelsInv'
  <1>1. /\ editing[a] \in RouteWork /\ EditFits(editing[a]) /\ editing[a].at \in RouteEdits
        /\ editing' = [editing EXCEPT ![a] = [editing[a] EXCEPT !.at = "saveRoute"]]
        /\ UNCHANGED <<creds, model, moved>>
        /\ routes' = [r \in Routes |-> routes'[r]]
    BY WorkTyped DEF UnsetOtherRouteDefaults, Goes, ChannelsInv, EditsFit, RouteEdits
  <1>2. \A r \in Routes : \/ routes'[r] = routes[r]
                          \/ /\ routes[r].state = "live"
                             /\ routes'[r] = [routes[r] EXCEPT !.default = FALSE]
    BY DEF UnsetOtherRouteDefaults, IsLive
  <1>3. PICK w : w = [editing[a] EXCEPT !.at = "saveRoute"]
    OBVIOUS
  <1>4. w \in RouteWork /\ w.at = "saveRoute" /\ w.row = editing[a].row
    BY <1>1, <1>3 DEF RouteWork, RouteEdits
  <1>5. PICK row : row = w.row
    OBVIOUS
  <1>6. Fits(row)
    BY <1>1, <1>4, <1>5 DEF EditFits
  <1>7. Fits(row)'
    BY <1>1, <1>6 DEF Fits
  <1>8. EditFits(w)'
    BY <1>4, <1>5, <1>7 DEF EditFits, RouteEdits
  <1> QED
    BY <1>1, <1>2, <1>3, <1>4, <1>8, RoutesMove

LEMMA EditRouteKeeps ==
    ASSUME ChannelsInv, NEW a \in Admins, EditRoute(a)
    PROVE  ChannelsInv'
  <1>1. UNCHANGED <<creds, model, routes, moved>>
    BY DEF EditRoute
  <1>2. PICK r \in Routes, c \in Credentials, d \in BOOLEAN, e \in BOOLEAN, shape \in Shapes :
        LET row == [NewRoute(c, d, shape) EXCEPT !.enabled = (routes[r] = Unused) \/ e] IN
        /\ IsLive(routes[r]) \/ Fresh(r)
        /\ ValidRouteCredential(c)
        /\ Begins(a, [at |-> IF d THEN "unsetRoutes" ELSE "saveRoute", route |-> r, row |-> row])
        /\ overlapped' = (overlapped \/ (d /\ \E b \in Admins \ {a} : MakesDefault(editing[b])))
        /\ UNCHANGED <<creds, model, routes, moved, requestVars>>
    BY Zenon DEF EditRoute
  <1>3. PICK f \in BOOLEAN, at \in RouteEdits :
            f = ((routes[r] = Unused) \/ e) /\ at = IF d THEN "unsetRoutes" ELSE "saveRoute"
    BY DEF RouteEdits
  <1>4. PICK row \in RouteRows : row = [NewRoute(c, d, shape) EXCEPT !.enabled = f] /\ row.cred = c
    BY RouteTyped
  <1>5. PICK w \in RouteWork : w = [at |-> at, route |-> r, row |-> row]
    BY DEF RouteWork
  <1>6. editing' = [editing EXCEPT ![a] = w]
    BY <1>2, <1>3, <1>4, <1>5 DEF Begins
  <1>7. Fits(row)'
    BY <1>1, <1>2, <1>4 DEF Fits, ValidRouteCredential, IsLive
  <1>8. w.at \in RouteEdits /\ w.row = row
    BY <1>5
  <1>9. EditFits(w)'
    BY <1>7, <1>8 DEF EditFits, RouteEdits
  <1>10. RowsTypeOK'
    BY <1>1 DEF ChannelsInv, RowsTypeOK
  <1> QED
    BY <1>1, <1>6, <1>9, <1>10, RowsMove

LEMMA SaveRouteKeeps ==
    ASSUME ChannelsInv, NEW a \in Admins, SaveRoute(a)
    PROVE  ChannelsInv'
  <1>1. /\ editing[a] \in RouteWork /\ EditFits(editing[a]) /\ editing[a].at \in RouteEdits
        /\ editing' = [editing EXCEPT ![a] = NoEdit] /\ UNCHANGED <<creds, model, moved>>
    BY WorkTyped DEF SaveRoute, Ends, Goes, ChannelsInv, EditsFit, RouteEdits
  <1>2. PICK r \in Routes, row \in RouteRows : r = editing[a].route /\ row = editing[a].row
    BY <1>1 DEF RouteWork
  <1>3. routes' = [routes EXCEPT ![r] = row]
    BY <1>2 DEF SaveRoute
  <1>4. Fits(row)
    BY <1>1, <1>2 DEF EditFits
  <1>5. Fits(row)'
    BY <1>1, <1>4 DEF Fits
  <1>6. RowsTypeOK' /\ EditsTypeOK'
    BY <1>1, <1>3 DEF ChannelsInv, RowsTypeOK, EditsTypeOK
  <1>7. ASSUME NEW s \in Routes PROVE routes'[s] = routes[s] \/ Fits(routes[s])'
    <2>1. routes'[s] = routes[s] \/ routes'[s] = row
      BY <1>3 DEF ChannelsInv, RowsTypeOK
    <2> QED
      BY <1>5, <2>1 DEF Fits
  <1>8. EditFits(NoEdit)'
    BY RestTyped DEF EditFits, RouteEdits
  <1>9. ASSUME NEW b \in Admins PROVE editing'[b] = editing[b] \/ EditFits(editing[b])'
    <2>1. editing'[b] = editing[b] \/ editing'[b] = NoEdit
      BY <1>1 DEF ChannelsInv, EditsTypeOK
    <2> QED
      BY <1>8, <2>1 DEF EditFits, Fits
  <1> QED
    BY <1>1, <1>6, <1>7, <1>9, RowsStep

-----------------------------------------------------------------------------
(* All steps, and what requests are promised.                              *)

LEMMA AdminStepKeeps ==
    ASSUME ChannelsInv, NEW a \in Admins, AdminStep(a)
    PROVE  ChannelsInv'
  BY CreateCredentialKeeps, UpdateCredentialKeeps, SaveCredentialKeeps, UnsetOtherDefaultsKeeps,
     DeleteCredentialKeeps, CreateModelKeeps, UpdateModelKeeps, SaveModelKeeps, DeleteModelKeeps,
     EditRouteKeeps, UnsetOtherRouteDefaultsKeeps, SaveRouteKeeps, DeleteRouteKeeps DEF AdminStep

\* Requests leave the administrators alone.
RequestStep ==
    Generate \/ StoreUpload \/ UploadRefused \/ SelectRoute \/ NoRoute
    \/ UseCredential \/ CredentialUnavailable \/ TaskStarted

LEMMA RequestsLeave ==
    ASSUME RequestStep
    PROVE  UNCHANGED <<creds, model, routes, editing, moved, crashed>>
  BY DEF RequestStep, Generate, StoreUpload, UploadRefused, SelectRoute, NoRoute, UseCredential,
         CredentialUnavailable, TaskStarted, adminVars

LEMMA ChannelsStepKeeps == ChannelsInv /\ [ChannelsNext]_channelVars => ChannelsInv'
  <1> SUFFICES ASSUME ChannelsInv, [ChannelsNext]_channelVars PROVE ChannelsInv'
    OBVIOUS
  <1>1. CASE RequestStep \/ UNCHANGED channelVars
    <2>1. UNCHANGED <<creds, model, routes, editing, moved>>
      BY <1>1, RequestsLeave DEF channelVars
    <2> QED
      BY <2>1 DEF ChannelsInv, RowsTypeOK, EditsTypeOK, RoutesFit, EditsFit, EditFits, Fits
  <1>2. CASE ServerRestarts
    <2>1. editing' = [a \in Admins |-> NoEdit] /\ UNCHANGED <<creds, model, routes, moved>>
      BY <1>2 DEF ServerRestarts
    <2>2. RowsTypeOK' /\ EditsTypeOK' /\ RoutesFit'
      BY <2>1 DEF ChannelsInv, RowsTypeOK, EditsTypeOK, RoutesFit, Fits
    <2>3. EditsFit'
      BY <2>1, RestTyped DEF EditsFit, EditFits, RouteEdits
    <2> QED
      BY <2>2, <2>3 DEF ChannelsInv
  <1> QED
    BY <1>1, <1>2, AdminStepKeeps, MarkHealthKeeps DEF ChannelsNext, RequestStep

LEMMA ChannelsStart == ChannelsInit => ChannelsInv
  <1> SUFFICES ASSUME ChannelsInit PROVE ChannelsInv
    OBVIOUS
  <1>1. PICK c \in Credentials, p \in Providers, r \in Routes, shape \in Shapes :
           /\ creds  = [d \in Credentials |-> IF d = c
                           THEN NewCredential(p, DefaultMode[p], TRUE) ELSE Unused]
           /\ \/ /\ model = Unused /\ routes = [s \in Routes |-> Unused]
              \/ /\ model = NewModel(p)
                 /\ routes = [s \in Routes |-> IF s = r THEN NewRoute(c, TRUE, shape) ELSE Unused]
    BY Zenon DEF ChannelsInit
  <1>2. editing = [a \in Admins |-> NoEdit] /\ moved = FALSE
    BY DEF ChannelsInit
  <1>3. PICK row \in CredRows : row = NewCredential(p, DefaultMode[p], TRUE) /\ row.provider = p
    <2>1. NewCredential(p, DefaultMode[p], TRUE) \in CredRows
      BY CredentialTyped
    <2> QED
      BY <2>1 DEF NewCredential
  <1>4. PICK route \in RouteRows : route = NewRoute(c, TRUE, shape) /\ route.cred = c
    BY RouteTyped
  <1>5. NewModel(p) \in ModelRows /\ NewModel(p).provider = p
    <2>1. NewModel(p) \in ModelRows
      BY ModelTyped
    <2> QED
      BY <2>1 DEF NewModel
  <1>6. RowsTypeOK
    BY <1>1, <1>3, <1>4, <1>5 DEF RowsTypeOK
  <1>7. EditsTypeOK
    BY <1>2 DEF EditsTypeOK
  <1>8. RoutesFit
    BY <1>1, <1>3, <1>4, <1>5, StatesTyped DEF RoutesFit, Fits
  <1>9. EditsFit
    BY <1>2, RestTyped DEF EditsFit, EditFits, RouteEdits
  <1> QED
    BY <1>6, <1>7, <1>8, <1>9 DEF ChannelsInv

\* Rows are well formed, and unless the model was moved, its routes and those that are about
\* to be saved use channels of its provider.
THEOREM ChannelsInvariant == ChannelsSpec => []ChannelsInv
  BY ChannelsStart, ChannelsStepKeeps, PTL DEF ChannelsSpec

\* Preferring the default never leaves nothing.
LEMMA SomeRoute ==
    ASSUME NEW q, MatchingRoutes(q) # {} \/ MatchingChannels(q) # {}
    PROVE  RoutedTo(q) # {}
  <1>1. CASE MatchingRoutes(q) # {}
    <2>1. PICK S : S = MatchingRoutes(q) /\ S # {}
      BY <1>1
    <2>2. \/ RoutedTo(q) = {routes[r].cred : r \in S}
          \/ /\ \E r \in S : routes[r].default
             /\ RoutedTo(q) = {routes[r].cred : r \in {x \in S : routes[x].default}}
      BY <2>1 DEF RoutedTo, DefaultsFirst
    <2> QED
      BY <2>1, <2>2
  <1>2. CASE MatchingRoutes(q) = {}
    <2>1. PICK S : S = MatchingChannels(q) /\ S # {}
      BY <1>2
    <2>2. RoutedTo(q) = S \/ (/\ \E c \in S : creds[c].default
                              /\ RoutedTo(q) = {c \in S : creds[c].default})
      BY <1>2, <2>1 DEF RoutedTo, DefaultsFirst
    <2> QED
      BY <2>1, <2>2
  <1> QED
    BY <1>1, <1>2

\* Whatever administrators configure, in any overlap of their requests, a request with what
\* Capabilities announces, of one parameter at most, some channel can serve, unless the model
\* was moved to another provider (proxy.go, buildProxyCapabilities; client_model.go,
\* SelectRouteForParams).
THEOREM AnnouncedIsServedAlways == ChannelsSpec => []AnnouncedIsServed
  <1>1. ChannelsInv => AnnouncedIsServed
    <2> SUFFICES ASSUME ChannelsInv, ~moved, NEW q \in Announced, NamesAtMostOne(q)
                 PROVE  RoutedTo(q) # {}
      BY DEF AnnouncedIsServed
    <2>1. CASE ModelAnnounced
      <3>1. /\ q.provider = model.provider /\ q.key = model.offer.key
            /\ q.scope = model.offer.scope
            /\ q.names.aspect_ratio \in MayName("aspect_ratio")
            /\ q.names.resolution \in MayName("resolution")
            /\ q.names.duration_seconds \in MayName("duration_seconds")
        BY <2>1 DEF Announced
      <3>2. ASSUME NEW j \in Choices PROVE q.names[j] \in MayName(j)
        BY <3>1 DEF Choices
      <3>3. PICK k \in Choices : \A j \in Choices \ {k} : q.names[j] = "any"
        BY DEF NamesAtMostOne
      <3>4. PICK r \in LiveRoutes : q.names[k] = "any" \/ q.names[k] \in Resolved(r, k)
        BY <2>1, <3>2 DEF ModelAnnounced, MayName, AnnouncedValues
      <3>5. Accepts(r, q.names)
        BY <3>3, <3>4 DEF Accepts
      <3>6. r \in Routes /\ creds[routes[r].cred].provider = model.provider
        BY <3>4, StatesTyped DEF LiveRoutes, IsLive, ChannelsInv, RoutesFit, Fits
      <3>7. r \in MatchingRoutes(q)
        BY <2>1, <3>1, <3>4, <3>5, <3>6 DEF MatchingRoutes, ModelAnnounced
      <3> QED
        BY <3>7, SomeRoute
    <2>2. CASE ~ModelAnnounced
      <3>1. PICK o \in ChannelsAnnounced :
                q = [provider |-> o.provider, key |-> o.key, scope |-> o.scope, names |-> Nothing]
        BY <2>2 DEF Announced
      <3>2. PICK c \in AnnouncedChannels : o \in OfferedBy(c)
        BY <3>1 DEF ChannelsAnnounced
      <3>3. PICK p, k, s : o = [provider |-> p, key |-> k, scope |-> s]
        BY <3>2 DEF OfferedBy
      <3>4. [provider |-> q.provider, key |-> q.key, scope |-> q.scope] = o
        BY <3>1, <3>3
      <3>5. c \in MatchingChannels(q)
        BY <3>2, <3>4 DEF MatchingChannels
      <3> QED
        BY <3>5, SomeRoute
    <2> QED
      BY <2>1, <2>2
  <1> QED
    BY <1>1, ChannelsInvariant, PTL

-----------------------------------------------------------------------------
(* The request: its images.                                                *)

\* A request knows how many images it stored.
RequestOK ==
    request # NoRequest =>
        /\ {"at", "stored"} \subseteq DOMAIN request
        /\ request.at \in {"storing", "routed", "submitting"} /\ request.stored \in Nat

\* The images in the directory are those of the request there is.
ImagesCounted ==
    ~crashed => uploads = IF request = NoRequest THEN 0 ELSE request.stored

RequestInv == RequestOK /\ ImagesCounted

LEMMA AnsweredKeeps ==
    ASSUME RequestInv, request # NoRequest, Answered, UNCHANGED crashed
    PROVE  RequestInv'
  <1>1. request' = NoRequest /\ uploads' = uploads - request.stored
    BY DEF Answered
  <1>2. ~crashed => uploads = request.stored /\ request.stored \in Nat
    BY DEF RequestInv, RequestOK, ImagesCounted
  <1>3. ~crashed' => uploads' = 0
    BY <1>1, <1>2
  <1> QED
    BY <1>1, <1>3 DEF RequestInv, RequestOK, ImagesCounted

\* Administrators leave the request alone.
LEMMA AdminsLeave ==
    ASSUME NEW a \in Admins, AdminStep(a)
    PROVE  UNCHANGED requestVars
  <1>1. CreateCredential(a) => UNCHANGED requestVars
    BY DEF CreateCredential
  <1>2. UpdateCredential(a) => UNCHANGED requestVars
    BY DEF UpdateCredential
  <1>3. SaveCredential(a) => UNCHANGED requestVars
    BY DEF SaveCredential
  <1>4. UnsetOtherDefaults(a) => UNCHANGED requestVars
    BY DEF UnsetOtherDefaults
  <1>5. DeleteCredential(a) => UNCHANGED requestVars
    BY DEF DeleteCredential
  <1>6. CreateModel(a) => UNCHANGED requestVars
    BY DEF CreateModel
  <1>7. UpdateModel(a) => UNCHANGED requestVars
    BY DEF UpdateModel
  <1>8. SaveModel(a) => UNCHANGED requestVars
    BY DEF SaveModel
  <1>9. DeleteModel(a) => UNCHANGED requestVars
    BY DEF DeleteModel
  <1>10. EditRoute(a) => UNCHANGED requestVars
    BY DEF EditRoute
  <1>11. UnsetOtherRouteDefaults(a) => UNCHANGED requestVars
    BY DEF UnsetOtherRouteDefaults
  <1>12. SaveRoute(a) => UNCHANGED requestVars
    BY DEF SaveRoute
  <1>13. DeleteRoute(a) => UNCHANGED requestVars
    BY DEF DeleteRoute
  <1> QED
    BY <1>1, <1>2, <1>3, <1>4, <1>5, <1>6, <1>7, <1>8, <1>9, <1>10, <1>11, <1>12, <1>13 DEF AdminStep

LEMMA RequestStepKeeps == RequestInv /\ [ChannelsNext]_channelVars => RequestInv'
  <1> SUFFICES ASSUME RequestInv, [ChannelsNext]_channelVars PROVE RequestInv'
    OBVIOUS
  <1>0. NoRequest.at = "idle" /\ RequestOK
    BY DEF NoRequest, RequestInv
  <1>1. CASE \/ \E a \in Admins : AdminStep(a)
             \/ \E c \in Credentials : MarkHealth(c)
             \/ UNCHANGED channelVars
    <2>1. ASSUME NEW a \in Admins, AdminStep(a) PROVE UNCHANGED requestVars
      BY <2>1, AdminsLeave
    <2>2. UNCHANGED <<request, uploads, crashed>>
      BY <1>1, <2>1 DEF MarkHealth, requestVars, channelVars
    <2> QED
      BY <2>2 DEF RequestInv, RequestOK, ImagesCounted
  <1>2. CASE Generate
    <2>1. /\ request = NoRequest /\ UNCHANGED <<uploads, crashed>>
          /\ \E q : request' = [at |-> "storing", wants |-> q, stored |-> 0]
      BY <1>2 DEF Generate, RequestFor
    <2>2. request' # NoRequest /\ request'.at = "storing" /\ request'.stored = 0
             /\ {"at", "stored"} \subseteq DOMAIN request'
      BY <1>0, <2>1
    <2> QED
      BY <2>1, <2>2 DEF RequestInv, RequestOK, ImagesCounted
  <1>3. CASE StoreUpload
    <2>1. /\ request # NoRequest /\ UNCHANGED crashed /\ uploads' = uploads + 1
          /\ request' = [request EXCEPT !.stored = @ + 1]
      BY <1>0, <1>3 DEF StoreUpload
    <2>2. PICK n \in Nat : n = request.stored
      BY <2>1, <1>0 DEF RequestOK
    <2>3. /\ request'.stored = n + 1 /\ request'.at = request.at
          /\ {"at", "stored"} \subseteq DOMAIN request'
      BY <1>0, <2>1, <2>2 DEF RequestOK
    <2> QED
      BY <1>0, <2>1, <2>2, <2>3 DEF RequestInv, RequestOK, ImagesCounted
  <1>4. CASE UploadRefused \/ NoRoute \/ CredentialUnavailable \/ TaskStarted
    <2>1. request # NoRequest /\ Answered /\ UNCHANGED crashed
      BY <1>0, <1>4 DEF UploadRefused, NoRoute, CredentialUnavailable, TaskStarted
    <2> QED
      BY <2>1, AnsweredKeeps
  <1>5. CASE SelectRoute
    <2>1. /\ request # NoRequest /\ UNCHANGED <<uploads, crashed>>
          /\ \E c : request' = [at |-> "routed", provider |-> request.wants.provider,
                                stored |-> request.stored, cred |-> c, mode |-> creds[c].mode]
      BY <1>0, <1>5 DEF SelectRoute
    <2>2. /\ request'.at = "routed" /\ request'.stored = request.stored /\ request' # NoRequest
          /\ {"at", "stored"} \subseteq DOMAIN request'
      BY <1>0, <2>1
    <2> QED
      BY <1>0, <2>1, <2>2 DEF RequestInv, RequestOK, ImagesCounted
  <1>6. CASE UseCredential
    <2>1. /\ request # NoRequest /\ UNCHANGED <<uploads, crashed>>
          /\ request' = [request EXCEPT !.at = "submitting"]
      BY <1>0, <1>6 DEF UseCredential
    <2>2. /\ request'.at = "submitting" /\ request'.stored = request.stored
          /\ {"at", "stored"} \subseteq DOMAIN request' /\ request' # NoRequest
      BY <1>0, <2>1 DEF RequestOK
    <2> QED
      BY <1>0, <2>1, <2>2 DEF RequestInv, RequestOK, ImagesCounted
  <1>7. CASE ServerRestarts
    BY <1>7 DEF ServerRestarts, RequestInv, RequestOK, ImagesCounted
  <1> QED
    BY <1>1, <1>2, <1>3, <1>4, <1>5, <1>6, <1>7 DEF ChannelsNext

\* The images stored are those of the request there is, until the server is restarted.
THEOREM RequestInvariant == ChannelsSpec => []RequestInv
  <1>1. ChannelsInit => RequestInv
    BY DEF ChannelsInit, RequestInv, RequestOK, ImagesCounted
  <1> QED
    BY <1>1, RequestStepKeeps, PTL DEF ChannelsSpec

\* Uploaded images outlive their request only when the server was stopped during one,
\* whichever way the request ends (proxy_generate_upload.go).
THEOREM UploadsRemovedAlways == ChannelsSpec => []UploadsRemoved
  <1>1. RequestInv => UploadsRemoved
    <2> SUFFICES ASSUME RequestInv, request = NoRequest, ~crashed PROVE ~(uploads > 0)
      BY DEF UploadsRemoved
    <2>1. uploads = 0
      BY DEF RequestInv, ImagesCounted
    <2> QED
      BY <2>1
  <1> QED
    BY <1>1, RequestInvariant, PTL

-----------------------------------------------------------------------------
(* The poller's queue.                                                     *)

QueueTypeOK ==
    /\ born \subseteq Tasks /\ queued \subseteq born
    /\ due \in [Tasks -> Int] /\ age \in [Tasks -> Nat] /\ silent \in [Tasks -> Nat]
    /\ \A t \in Tasks \ born : silent[t] = 0

\* The tasks that may still be asked about before t: those due no later, and those not
\* submitted yet, whose create call may have begun long ago.
Ahead(t) == {s \in Sound \ {t} : s \notin born \/ (s \in queued /\ due[s] <= due[t])}

\* A task that is not due was asked about lately.  One that is has waited for w ticks, and at
\* each of them Room others went before it for good.
WaitsItsTurn(t) ==
    /\ due[t] > 0 => silent[t] + due[t] <= IdleDelay
    /\ due[t] <= 0 =>
          \E w \in Nat : /\ silent[t] <= IdleDelay + w
                         /\ w * Room + Cardinality(Ahead(t)) <= Cardinality(Sound) - 1

QueueInv == QueueTypeOK /\ (Room > 0 => \A t \in queued \ Stuck : WaitsItsTurn(t))

\* The numbers of the poller are numbers.
LEMMA QueueNumbers ==
    /\ PollBatch \in Nat \ {0} /\ ProgressDelay \in Nat \ {0} /\ IdleDelay \in Nat \ {0}
    /\ ProgressDelay <= IdleDelay /\ MaxCreate \in Nat
    /\ Cardinality(Stuck) \in Nat /\ IsFiniteSet(Stuck)
    /\ IsFiniteSet(Sound) /\ Cardinality(Sound) \in Nat
    /\ Room \in Int
<1>1. Stuck \in SUBSET Tasks /\ Sound \in SUBSET Tasks /\ IsFiniteSet(Tasks)
  BY TasksAssumption DEF Sound
<1>2. IsFiniteSet(Stuck) /\ IsFiniteSet(Sound)
  BY <1>1, FS_Subset
<1>3. Cardinality(Stuck) \in Nat /\ Cardinality(Sound) \in Nat
  BY <1>2, FS_CardinalityType
<1>4. PollBatch \in Nat \ {0} /\ ProgressDelay \in Nat \ {0} /\ IdleDelay \in Nat \ {0}
      /\ ProgressDelay <= IdleDelay /\ MaxCreate \in Nat
  BY DelaysAssumption
<1> QED BY <1>2, <1>3, <1>4 DEF Room

\* Of the sound tasks, all but the one that waits may be ahead of it.
LEMMA AheadIsSmall ==
    ASSUME NEW t \in Sound, NEW A, A \subseteq Sound \ {t}
    PROVE  IsFiniteSet(A) /\ Cardinality(A) \in Nat /\ Cardinality(A) <= Cardinality(Sound) - 1
<1>1. /\ IsFiniteSet(Sound \ {t})
      /\ Cardinality(Sound \ {t}) = Cardinality(Sound) - 1
  BY QueueNumbers, FS_RemoveElement
<1>2. A \in SUBSET (Sound \ {t})
  OBVIOUS
<1>3. IsFiniteSet(A) /\ Cardinality(A) <= Cardinality(Sound \ {t})
  BY <1>1, <1>2, FS_Subset
<1> QED BY <1>1, <1>3, FS_CardinalityType

\* A part of what was ahead is no more than that.
LEMMA AheadShrinks ==
    ASSUME NEW t \in Sound, NEW A, A \subseteq Sound \ {t}, NEW B, B \subseteq A
    PROVE  Cardinality(B) \in Nat /\ Cardinality(B) <= Cardinality(A)
<1>1. IsFiniteSet(A) /\ B \in SUBSET A
  BY AheadIsSmall
<1> QED BY <1>1, FS_Subset, FS_CardinalityType

\* A tick moves the clocks, and asks about the sound tasks of its batch.
LEMMA TickClocks ==
    ASSUME QueueTypeOK, NEW batch \in SUBSET queued, NEW ended \in SUBSET batch,
           NEW delay \in [batch -> Delays], Tick(batch, ended, delay), NEW t \in Tasks
    PROVE  /\ born' = born
           /\ queued' \subseteq queued
           /\ t \in queued =>
                \/ /\ t \in batch /\ t \notin Stuck /\ t \in queued'
                   /\ due'[t] = delay[t] /\ due'[t] \in 1..IdleDelay /\ silent'[t] = 0
                \/ /\ t \notin queued'
                \/ /\ t \notin batch \/ t \in Stuck
                   /\ t \in queued'
                   /\ due'[t] = due[t] - 1 /\ silent'[t] = silent[t] + 1
<1>1. t \in queued => DueIn(t) = due[t] - 1 /\ SilentIn(t) = silent[t] + 1
  BY DEF DueIn, SilentIn
<1> DEFINE asked == {u \in batch : ~Expired(u) /\ u \notin Stuck}
<1>2. /\ ended \subseteq asked
      /\ queued' = queued \ (ended \cup {u \in batch : Expired(u)})
      /\ due'    = [u \in Tasks |-> IF u \in asked \cap queued' THEN delay[u] ELSE DueIn(u)]
      /\ silent' = [u \in Tasks |-> IF u \in asked THEN 0 ELSE SilentIn(u)]
      /\ born' = born
  BY DEF Tick
<1>3. due'[t] = IF t \in asked \cap queued' THEN delay[t] ELSE DueIn(t)
  BY <1>2
<1>4. silent'[t] = IF t \in asked THEN 0 ELSE SilentIn(t)
  BY <1>2
<1>5. t \in batch => delay[t] \in 1..IdleDelay
  <2>1. Delays \subseteq 1..IdleDelay
    BY QueueNumbers DEF Delays
  <2> QED BY <2>1
<1>6. queued' \subseteq queued
  BY <1>2
<1>7. ASSUME t \in queued' PROVE t \in asked \/ t \notin batch \/ t \in Stuck
  BY <1>2, <1>7
<1>8. t \in asked => t \in batch /\ t \notin Stuck
  OBVIOUS
<1> HIDE DEF asked
<1>9. CASE t \in asked
  <2>1. t \in queued' => due'[t] = delay[t] /\ silent'[t] = 0
    BY <1>3, <1>4, <1>9
  <2> QED BY <2>1, <1>2, <1>5, <1>6, <1>8, <1>9
<1>10. CASE t \notin asked
  <2>1. due'[t] = DueIn(t) /\ silent'[t] = SilentIn(t)
    BY <1>3, <1>4, <1>10
  <2> QED BY <2>1, <1>1, <1>2, <1>6, <1>7, <1>10
<1> QED BY <1>9, <1>10

\* A tick keeps the types.
LEMMA TickTyped ==
    ASSUME QueueTypeOK, NEW batch \in SUBSET queued, NEW ended \in SUBSET batch,
           NEW delay \in [batch -> Delays], Tick(batch, ended, delay)
    PROVE  QueueTypeOK'
<1> DEFINE asked == {u \in batch : ~Expired(u) /\ u \notin Stuck}
<1>1. /\ queued' = queued \ (ended \cup {u \in batch : Expired(u)})
      /\ due'    = [u \in Tasks |-> IF u \in asked \cap queued' THEN delay[u] ELSE DueIn(u)]
      /\ age'    = [u \in Tasks |-> AgeIn(u)]
      /\ silent' = [u \in Tasks |-> IF u \in asked THEN 0 ELSE SilentIn(u)]
      /\ born' = born
  BY DEF Tick
<1>2. asked \subseteq batch /\ asked \subseteq born
  BY DEF QueueTypeOK
<1>3. \A u \in asked : delay[u] \in Int
  BY <1>2, QueueNumbers DEF Delays
<1>4. \A u \in Tasks : DueIn(u) \in Int /\ AgeIn(u) \in Nat /\ SilentIn(u) \in Nat
  BY DEF QueueTypeOK, DueIn, AgeIn, SilentIn
<1>5. \A u \in Tasks \ born : SilentIn(u) = 0 /\ u \notin asked
  BY <1>2 DEF QueueTypeOK, SilentIn
<1> HIDE DEF asked
<1>6. due' \in [Tasks -> Int]
  BY <1>1, <1>3, <1>4
<1>7. age' \in [Tasks -> Nat]
  BY <1>1, <1>4
<1>8. silent' \in [Tasks -> Nat]
  BY <1>1, <1>4
<1>9. \A u \in Tasks \ born' : silent'[u] = 0
  BY <1>1, <1>5
<1>10. born' \subseteq Tasks /\ queued' \subseteq born'
  BY <1>1 DEF QueueTypeOK
<1> QED BY <1>6, <1>7, <1>8, <1>9, <1>10 DEF QueueTypeOK

\* What was behind a task that waits stays behind: its own place only comes nearer.
LEMMA TickOvertakesNone ==
    ASSUME QueueTypeOK, NEW batch \in SUBSET queued, NEW ended \in SUBSET batch,
           NEW delay \in [batch -> Delays], Tick(batch, ended, delay),
           NEW t \in queued' \ Stuck, t \notin batch, due[t] <= 1
    PROVE  Ahead(t)' \subseteq Ahead(t) \ (batch \ Stuck)
<1>1. t \in queued /\ t \in Tasks /\ queued \subseteq Tasks
  BY TickClocks DEF QueueTypeOK, Tick
<1>2. due'[t] = due[t] - 1
  BY <1>1, TickClocks
<1>3. SUFFICES ASSUME NEW s \in Sound \ {t}, s \notin born' \/ (s \in queued' /\ due'[s] <= due'[t])
               PROVE  /\ s \notin born \/ (s \in queued /\ due[s] <= due[t])
                      /\ s \notin batch
  BY DEF Ahead, Sound
<1>4. s \in Tasks /\ s \notin Stuck
  BY DEF Sound
<1>5. CASE s \notin born'
  <2>1. s \notin born
    BY <1>1, <1>5, TickClocks
  <2> QED BY <2>1 DEF QueueTypeOK
<1>6. CASE s \in queued' /\ due'[s] <= due'[t]
  <2>1. s \in queued
    BY <1>1, <1>6, TickClocks
  <2>2. due[t] \in Int /\ due[s] \in Int
    BY <1>1, <1>4 DEF QueueTypeOK
  <2>3. \/ s \in batch /\ due'[s] \in 1..IdleDelay
        \/ s \notin batch /\ due'[s] = due[s] - 1
    BY <1>4, <1>6, <2>1, TickClocks
  <2>4. ~(s \in batch /\ due'[s] \in 1..IdleDelay)
    BY <1>2, <1>6, <2>2, QueueNumbers
  <2> QED BY <1>2, <1>6, <2>1, <2>2, <2>3, <2>4
<1> QED BY <1>3, <1>5, <1>6

\* When a sound task whose time has come is left out, Room others that were ahead of it
\* are asked.
LEMMA BatchIsFull ==
    ASSUME QueueTypeOK, Room > 0, NEW batch \in SUBSET queued, IsBatch(batch),
           NEW t \in queued \ Stuck, t \notin batch, due[t] <= 0
    PROVE  /\ batch \ Stuck \subseteq Ahead(t)
           /\ Cardinality(batch \ Stuck) \in Nat
           /\ Cardinality(batch \ Stuck) >= Room
<1> DEFINE dueNow == {u \in queued : DueIn(u) <= 0}
<1>1. /\ batch \subseteq dueNow
      /\ Cardinality(batch) = (IF Cardinality(dueNow) < PollBatch THEN Cardinality(dueNow)
                                                                 ELSE PollBatch)
      /\ \A u \in batch, s \in dueNow \ batch : DueIn(u) <= DueIn(s)
  BY DEF IsBatch
<1>2. queued \subseteq Tasks /\ due \in [Tasks -> Int]
  BY DEF QueueTypeOK
<1>3. \A u \in queued : DueIn(u) = due[u] - 1 /\ due[u] \in Int
  BY <1>2 DEF DueIn
<1>4. t \in dueNow \ batch
  BY <1>3
<1>5. IsFiniteSet(dueNow) /\ IsFiniteSet(batch)
  <2>1. dueNow \in SUBSET Tasks /\ batch \in SUBSET Tasks /\ IsFiniteSet(Tasks)
    BY <1>2, TasksAssumption
  <2> HIDE DEF dueNow
  <2> QED BY <2>1, FS_Subset
<1>6. Cardinality(batch) = PollBatch
  <2>1. Cardinality(batch) # Cardinality(dueNow)
    <3> HIDE DEF dueNow
    <3> SUFFICES ASSUME Cardinality(dueNow) = Cardinality(batch) PROVE FALSE
      OBVIOUS
    <3>1. batch \in SUBSET dueNow
      BY <1>1
    <3>2. dueNow = batch
      BY <1>5, <3>1, FS_Subset
    <3> QED BY <1>4, <3>2
  <2> QED BY <1>1, <2>1
<1>7. \A u \in batch : due[u] <= due[t]
  BY <1>1, <1>3, <1>4
<1>8. batch \ Stuck \subseteq Ahead(t)
  BY <1>2, <1>7 DEF Ahead, Sound
<1>9. /\ IsFiniteSet(batch \ Stuck)
      /\ Cardinality(batch \ Stuck) = Cardinality(batch) - Cardinality(batch \cap Stuck)
  BY <1>5, FS_Difference
<1>10. Cardinality(batch \cap Stuck) \in Nat /\ Cardinality(batch \cap Stuck) <= Cardinality(Stuck)
  BY QueueNumbers, FS_Intersection, FS_CardinalityType
<1>11. Cardinality(batch \ Stuck) \in Nat
  BY <1>9, FS_CardinalityType
<1>12. Cardinality(batch \ Stuck) >= Room
  BY <1>6, <1>9, <1>10, QueueNumbers DEF Room
<1> QED BY <1>8, <1>11, <1>12

\* A tick brings a task that waits its turn nearer to it.
LEMMA TickKeeps ==
    ASSUME QueueInv, NEW batch \in SUBSET queued, NEW ended \in SUBSET batch,
           NEW delay \in [batch -> Delays], Tick(batch, ended, delay)
    PROVE  QueueInv'
<1>1. QueueTypeOK /\ QueueTypeOK'
  BY TickTyped DEF QueueInv
<1>2. IsBatch(batch)
  BY DEF Tick
<1>3. SUFFICES ASSUME Room > 0, NEW t \in queued' \ Stuck
               PROVE  WaitsItsTurn(t)'
  BY <1>1 DEF QueueInv, Room
<1>4. t \in queued /\ t \in Tasks /\ t \in Sound
  BY <1>1, TickClocks DEF QueueTypeOK, Sound, Tick
<1>5. WaitsItsTurn(t)
  BY <1>3, <1>4 DEF QueueInv
<1>6. due[t] \in Int /\ silent[t] \in Nat
  BY <1>1, <1>4 DEF QueueTypeOK
<1>7. CASE t \in batch
  <2>1. due'[t] \in 1..IdleDelay /\ silent'[t] = 0
    BY <1>1, <1>4, <1>7, TickClocks
  <2> QED BY <2>1, QueueNumbers DEF WaitsItsTurn
<1>8. CASE t \notin batch
  <2>1. due'[t] = due[t] - 1 /\ silent'[t] = silent[t] + 1
    BY <1>1, <1>4, <1>8, TickClocks
  <2>2. Ahead(t)' \subseteq Sound \ {t} /\ Ahead(t) \subseteq Sound \ {t}
    BY DEF Ahead, Sound
  <2>3. Cardinality(Ahead(t)') \in Nat /\ Cardinality(Ahead(t)') <= Cardinality(Sound) - 1
    BY <1>4, <2>2, AheadIsSmall
  <2>4. CASE due[t] > 1
    BY <1>5, <1>6, <2>1, <2>4, QueueNumbers DEF WaitsItsTurn
  <2>5. CASE due[t] = 1
    <3>1. silent'[t] <= IdleDelay + 0
      BY <1>5, <1>6, <2>1, <2>5, QueueNumbers DEF WaitsItsTurn
    <3>2. 0 * Room + Cardinality(Ahead(t)') <= Cardinality(Sound) - 1
      BY <2>3, QueueNumbers
    <3>3. due'[t] <= 0 /\ ~(due'[t] > 0) /\ 0 \in Nat
      BY <2>1, <2>5
    <3> QED BY <3>1, <3>2, <3>3 DEF WaitsItsTurn, Room, Sound
  <2>6. CASE due[t] <= 0
    <3>1. PICK w \in Nat : /\ silent[t] <= IdleDelay + w
                           /\ w * Room + Cardinality(Ahead(t)) <= Cardinality(Sound) - 1
      BY <1>5, <2>6 DEF WaitsItsTurn
    <3>2. /\ batch \ Stuck \subseteq Ahead(t)
          /\ Cardinality(batch \ Stuck) \in Nat
          /\ Cardinality(batch \ Stuck) >= Room
      BY <1>1, <1>2, <1>3, <1>4, <1>8, <2>6, BatchIsFull
    <3>3. Ahead(t)' \subseteq Ahead(t) \ (batch \ Stuck)
      BY <1>1, <1>6, <1>8, <2>6, TickOvertakesNone
    <3>4. IsFiniteSet(Ahead(t)) /\ Cardinality(Ahead(t)) \in Nat
      BY <1>4, <2>2, AheadIsSmall
    <3>5. /\ IsFiniteSet(Ahead(t) \ (batch \ Stuck))
          /\ Cardinality(Ahead(t) \ (batch \ Stuck))
               = Cardinality(Ahead(t)) - Cardinality(Ahead(t) \cap (batch \ Stuck))
      BY <3>4, FS_Difference
    <3>6. Ahead(t) \cap (batch \ Stuck) = batch \ Stuck
      BY <3>2
    <3>7. Cardinality(Ahead(t)') <= Cardinality(Ahead(t)) - Cardinality(batch \ Stuck)
      <4>1. Cardinality(Ahead(t)') <= Cardinality(Ahead(t) \ (batch \ Stuck))
        BY <3>3, <3>5, FS_Subset
      <4> QED BY <4>1, <3>5, <3>6
    <3>8. Cardinality(Ahead(t)') <= Cardinality(Ahead(t)) - Room
      BY <2>3, <3>2, <3>4, <3>7, QueueNumbers
    <3>9. (w + 1) * Room = w * Room + Room /\ w * Room \in Int
      BY <3>1, QueueNumbers
    <3>10. (w + 1) * Room + Cardinality(Ahead(t)') <= Cardinality(Sound) - 1
      BY <2>3, <3>1, <3>4, <3>8, <3>9, QueueNumbers
    <3>11. w + 1 \in Nat /\ silent'[t] <= IdleDelay + (w + 1)
      BY <1>6, <2>1, <3>1, QueueNumbers
    <3>12. due'[t] <= 0 /\ ~(due'[t] > 0)
      BY <1>6, <2>1, <2>6
    <3> QED BY <3>10, <3>11, <3>12 DEF WaitsItsTurn, Room, Sound
  <2> QED BY <1>6, <2>4, <2>5, <2>6
<1> QED BY <1>7, <1>8

\* A task that is submitted was counted ahead of the others already.
LEMMA EnqueueKeeps ==
    ASSUME QueueInv, NEW new \in Tasks, NEW took \in 0..MaxCreate, Enqueue(new, took)
    PROVE  QueueInv'
<1>1. QueueTypeOK
  BY DEF QueueInv
<1>2. /\ new \notin born
      /\ born'   = born \cup {new}
      /\ queued' = queued \cup {new}
      /\ due'    = [due EXCEPT ![new] = 1 - took]
      /\ age'    = [age EXCEPT ![new] = took]
      /\ silent' = silent
  BY DEF Enqueue
<1>3. took \in Nat
  BY QueueNumbers
<1>4. QueueTypeOK'
  BY <1>1, <1>2, <1>3 DEF QueueTypeOK
<1>5. SUFFICES ASSUME Room > 0, NEW t \in queued' \ Stuck
               PROVE  WaitsItsTurn(t)'
  BY <1>4 DEF QueueInv, Room
<1>6. t \in Tasks /\ t \in Sound
  BY <1>4 DEF QueueTypeOK, Sound
<1>7. due'[t] \in Int /\ silent'[t] = silent[t] /\ silent[t] \in Nat
  BY <1>1, <1>2, <1>4, <1>6 DEF QueueTypeOK
<1>8. Ahead(t)' \subseteq Sound \ {t} /\ Ahead(t) \subseteq Sound \ {t}
  BY DEF Ahead, Sound
<1>9. Cardinality(Ahead(t)') \in Nat /\ Cardinality(Ahead(t)') <= Cardinality(Sound) - 1
  BY <1>6, <1>8, AheadIsSmall
<1>10. CASE t = new
  <2>1. silent'[t] = 0 /\ due'[t] = 1 - took
    BY <1>1, <1>2, <1>10 DEF QueueTypeOK
  <2>2. silent'[t] <= IdleDelay + 0 /\ 0 * Room + Cardinality(Ahead(t)') <= Cardinality(Sound) - 1
    BY <1>9, <2>1, QueueNumbers
  <2>3. due'[t] > 0 => silent'[t] + due'[t] <= IdleDelay
    BY <1>3, <2>1, QueueNumbers
  <2> QED BY <2>2, <2>3 DEF WaitsItsTurn, Room, Sound
<1>11. CASE t # new
  <2>1. t \in queued /\ due'[t] = due[t]
    BY <1>1, <1>2, <1>6, <1>11 DEF QueueTypeOK
  <2>2. WaitsItsTurn(t)
    BY <1>5, <2>1 DEF QueueInv
  <2>3. Ahead(t)' \subseteq Ahead(t)
    <3> SUFFICES ASSUME NEW s \in Sound \ {t}, s \notin born' \/ (s \in queued' /\ due'[s] <= due'[t])
                 PROVE  s \notin born \/ (s \in queued /\ due[s] <= due[t])
      BY DEF Ahead, Sound
    <3>1. CASE s = new
      BY <1>2, <3>1
    <3>2. CASE s # new
      <4>1. s \in Tasks
        BY DEF Sound
      <4>2. due'[s] = due[s]
        BY <1>1, <1>2, <3>2, <4>1 DEF QueueTypeOK
      <4> QED BY <1>2, <2>1, <3>2, <4>2
    <3> QED BY <3>1, <3>2
  <2>4. Cardinality(Ahead(t)') <= Cardinality(Ahead(t)) /\ Cardinality(Ahead(t)) \in Nat
    BY <1>6, <1>8, <2>3, AheadShrinks
  <2>5. due'[t] > 0 => silent'[t] + due'[t] <= IdleDelay
    BY <1>7, <2>1, <2>2 DEF WaitsItsTurn
  <2>6. ASSUME due'[t] <= 0
        PROVE  \E w \in Nat : /\ silent'[t] <= IdleDelay + w
                              /\ w * Room + Cardinality(Ahead(t)') <= Cardinality(Sound) - 1
    <3>1. PICK w \in Nat : /\ silent[t] <= IdleDelay + w
                           /\ w * Room + Cardinality(Ahead(t)) <= Cardinality(Sound) - 1
      BY <2>1, <2>2, <2>6 DEF WaitsItsTurn
    <3>2. w * Room \in Int
      BY QueueNumbers
    <3>3. w * Room + Cardinality(Ahead(t)') <= Cardinality(Sound) - 1
      BY <1>9, <2>4, <3>1, <3>2, QueueNumbers
    <3> QED BY <1>7, <3>1, <3>3
  <2> QED BY <2>5, <2>6 DEF WaitsItsTurn, Room, Sound
<1> QED BY <1>10, <1>11

\* At every moment a task that waits has let no more than Room others pass at each tick.
THEOREM QueueInvariant == Spec => []QueueInv
<1>1. Init => QueueInv
  BY DEF Init, QueueInv, QueueTypeOK
<1>2. QueueInv /\ [Next]_queueVars => QueueInv'
  <2> SUFFICES ASSUME QueueInv, [Next]_queueVars PROVE QueueInv'
    OBVIOUS
  <2>1. CASE PollOnce
    BY <2>1, TickKeeps DEF PollOnce
  <2>2. CASE \E t \in Tasks, took \in 0..MaxCreate : Enqueue(t, took)
    BY <2>2, EnqueueKeeps
  <2>3. CASE UNCHANGED queueVars
    BY <2>3 DEF queueVars, QueueInv, QueueTypeOK, WaitsItsTurn, Ahead
  <2> QED BY <2>1, <2>2, <2>3 DEF Next
<1> QED BY <1>1, <1>2, PTL DEF Spec

\* How often a number goes into another.
LEMMA QuotientBound ==
    ASSUME NEW w \in Nat, NEW n \in Nat, NEW k \in Nat \ {0}, w * k <= n
    PROVE  w <= n \div k
<1>1. n < k * (n \div k + 1) /\ n \div k \in Nat
  OBVIOUS
<1>2. \A q \in Nat : n < k * (q + 1) => w <= q
  <2> SUFFICES ASSUME NEW q \in Nat, n < k * (q + 1), w >= q + 1 PROVE FALSE
    OBVIOUS
  <2>1. w * k >= (q + 1) * k
    OBVIOUS
  <2> QED BY <2>1
<1> QED BY <1>1, <1>2

\* However many tasks are queued and whatever the stuck ones do, the provider is asked about
\* each sound one within that many ticks (PollOnce, scheduleNextPoll).
THEOREM AskedInTimeAlways == Spec => []AskedInTime
<1>1. QueueInv => AskedInTime
  <2> SUFFICES ASSUME QueueInv, Room > 0, NEW t \in queued \ Stuck
               PROVE  silent[t] <= IdleDelay + (Cardinality(Sound) - 1) \div Room
    BY DEF AskedInTime
  <2>1. t \in Tasks /\ t \in Sound /\ silent[t] \in Nat /\ due[t] \in Int
    BY DEF QueueInv, QueueTypeOK, Sound
  <2>2. WaitsItsTurn(t)
    BY DEF QueueInv
  <2>3. Ahead(t) \subseteq Sound \ {t}
    BY DEF Ahead
  <2>4. Cardinality(Ahead(t)) \in Nat /\ Cardinality(Ahead(t)) <= Cardinality(Sound) - 1
    BY <2>1, <2>3, AheadIsSmall
  <2>5. ASSUME NEW w \in Nat, w * Room <= Cardinality(Sound) - 1
        PROVE  w <= (Cardinality(Sound) - 1) \div Room
    <3>1. Room \in Nat \ {0} /\ Cardinality(Sound) - 1 \in Nat
      BY <2>4, QueueNumbers
    <3> QED BY <2>5, <3>1, QuotientBound
  <2>6. CASE due[t] > 0
    <3>1. silent[t] <= IdleDelay
      BY <2>1, <2>2, <2>6, QueueNumbers DEF WaitsItsTurn
    <3>2. 0 <= (Cardinality(Sound) - 1) \div Room
      BY <2>4, <2>5, QueueNumbers
    <3>3. (Cardinality(Sound) - 1) \div Room \in Int
      BY QueueNumbers
    <3> QED BY <2>1, <3>1, <3>2, <3>3, QueueNumbers
  <2>7. CASE due[t] <= 0
    <3>1. PICK w \in Nat : /\ silent[t] <= IdleDelay + w
                           /\ w * Room + Cardinality(Ahead(t)) <= Cardinality(Sound) - 1
      BY <2>2, <2>7 DEF WaitsItsTurn
    <3>2. w * Room <= Cardinality(Sound) - 1
      BY <2>4, <3>1, QueueNumbers
    <3>3. w <= (Cardinality(Sound) - 1) \div Room
      BY <2>5, <3>2
    <3>4. (Cardinality(Sound) - 1) \div Room \in Int
      BY QueueNumbers
    <3> QED BY <2>1, <3>1, <3>3, <3>4, QueueNumbers
  <2> QED BY <2>1, <2>6, <2>7
<1> QED BY <1>1, QueueInvariant, PTL

\* The tasks that may still be taken before t, stuck ones included.
Before(t) == {s \in Tasks \ {t} : s \notin born \/ (s \in queued /\ due[s] <= due[t])}

\* An answer moves the time of a task at most IdleDelay beyond its timeout, and nothing moves
\* that of a stuck one.  When its time is Latest past, all that is before it leaves, or goes
\* behind it, when its turn comes, a batch at each tick.
EndsInTurn(t) ==
    /\ age[t] + due[t] <= Timeout + IdleDelay
    /\ t \in Stuck => age[t] + due[t] = 1
    /\ due[t] <= 1 - Latest =>
          (1 - Latest - due[t]) * PollBatch + Cardinality(Before(t)) <= Cardinality(Tasks) - 1

EndInv == QueueTypeOK /\ \A t \in queued : EndsInTurn(t)

LEMMA EndNumbers ==
    /\ PollBatch \in Nat \ {0} /\ IdleDelay \in Nat \ {0} /\ Timeout \in Nat \ {0}
    /\ Latest \in Nat /\ Latest >= Timeout /\ \A took \in 0..MaxCreate : took <= Latest
    /\ IsFiniteSet(Tasks) /\ Cardinality(Tasks) \in Nat
<1>1. PollBatch \in Nat \ {0} /\ IdleDelay \in Nat \ {0} /\ Timeout \in Nat \ {0} /\ MaxCreate \in Nat
  BY DelaysAssumption
<1>2. IsFiniteSet(Tasks) /\ Cardinality(Tasks) \in Nat
  BY TasksAssumption, FS_CardinalityType
<1> QED BY <1>1, <1>2 DEF Latest

LEMMA BeforeIsSmall ==
    ASSUME NEW t \in Tasks, NEW B, B \subseteq Tasks \ {t}
    PROVE  IsFiniteSet(B) /\ Cardinality(B) \in Nat /\ Cardinality(B) <= Cardinality(Tasks) - 1
<1>1. /\ IsFiniteSet(Tasks \ {t})
      /\ Cardinality(Tasks \ {t}) = Cardinality(Tasks) - 1
  BY EndNumbers, FS_RemoveElement
<1>2. B \in SUBSET (Tasks \ {t})
  OBVIOUS
<1>3. IsFiniteSet(B) /\ Cardinality(B) <= Cardinality(Tasks \ {t})
  BY <1>1, <1>2, FS_Subset
<1> QED BY <1>1, <1>3, FS_CardinalityType

\* What a tick makes of a task that stays: asked about before its timeout and rescheduled, or
\* only older.
LEMMA TickAges ==
    ASSUME QueueTypeOK, NEW batch \in SUBSET queued, NEW ended \in SUBSET batch,
           NEW delay \in [batch -> Delays], Tick(batch, ended, delay), NEW t \in queued'
    PROVE  /\ t \in queued /\ t \in Tasks /\ age'[t] = age[t] + 1
           /\ t \in batch => age[t] + 1 <= Timeout
           /\ t \in batch \ Stuck => due'[t] \in 1..IdleDelay
           /\ t \notin batch \ Stuck => due'[t] = due[t] - 1
<1> DEFINE asked == {u \in batch : ~Expired(u) /\ u \notin Stuck}
<1>1. /\ queued' = queued \ (ended \cup {u \in batch : Expired(u)})
      /\ due'    = [u \in Tasks |-> IF u \in asked \cap queued' THEN delay[u] ELSE DueIn(u)]
      /\ age'    = [u \in Tasks |-> AgeIn(u)]
  BY DEF Tick
<1>2. t \in queued /\ t \in Tasks
  BY <1>1 DEF QueueTypeOK
<1>3. AgeIn(t) = age[t] + 1 /\ DueIn(t) = due[t] - 1 /\ age[t] \in Nat
  BY <1>2 DEF AgeIn, DueIn, QueueTypeOK
<1>4. age'[t] = age[t] + 1
  BY <1>1, <1>2, <1>3
<1>5. t \in batch => ~Expired(t)
  BY <1>1
<1>6. t \in batch => age[t] + 1 <= Timeout
  BY <1>3, <1>5, EndNumbers DEF Expired
<1>7. t \in asked <=> t \in batch \ Stuck
  BY <1>5
<1>8. due'[t] = IF t \in asked THEN delay[t] ELSE DueIn(t)
  BY <1>1, <1>2
<1>9. t \in batch => delay[t] \in 1..IdleDelay
  <2>1. Delays \subseteq 1..IdleDelay
    BY QueueNumbers DEF Delays
  <2> QED BY <2>1
<1> HIDE DEF asked
<1> QED BY <1>2, <1>3, <1>4, <1>6, <1>7, <1>8, <1>9

\* With a task left out whose time is Latest past, the batch is full of tasks before it, and
\* none of them is before it afterwards: those that are stuck have timed out as well.
LEMMA TickClearsBatch ==
    ASSUME EndInv, NEW batch \in SUBSET queued, NEW ended \in SUBSET batch,
           NEW delay \in [batch -> Delays], Tick(batch, ended, delay),
           NEW t \in queued', t \notin batch, due[t] <= 1 - Latest
    PROVE  /\ batch \subseteq Before(t) /\ Cardinality(batch) = PollBatch
           /\ Before(t)' \subseteq Before(t) \ batch
<1>1. QueueTypeOK /\ QueueTypeOK'
  BY TickTyped DEF EndInv
<1>2. t \in queued /\ t \in Tasks /\ due'[t] = due[t] - 1
  BY <1>1, TickAges
<1>3. due[t] \in Int /\ due[t] <= 0
  BY <1>1, <1>2, EndNumbers DEF QueueTypeOK
<1> DEFINE dueNow == {u \in queued : DueIn(u) <= 0}
<1>4. /\ batch \subseteq dueNow
      /\ Cardinality(batch) = (IF Cardinality(dueNow) < PollBatch THEN Cardinality(dueNow)
                                                                 ELSE PollBatch)
      /\ \A u \in batch, s \in dueNow \ batch : DueIn(u) <= DueIn(s)
  BY DEF Tick, IsBatch
<1>5. \A u \in queued : u \in Tasks /\ DueIn(u) = due[u] - 1 /\ due[u] \in Int
  BY <1>1 DEF DueIn, QueueTypeOK
<1>6. t \in dueNow \ batch
  BY <1>2, <1>3, <1>5
<1>7. \A u \in batch : due[u] <= due[t]
  BY <1>2, <1>4, <1>5, <1>6
<1>8. Cardinality(batch) = PollBatch
  <2>1. IsFiniteSet(dueNow) /\ batch \in SUBSET dueNow
    <3>1. dueNow \in SUBSET Tasks
      BY <1>5
    <3> QED BY <1>4, <3>1, EndNumbers, FS_Subset
  <2>2. Cardinality(batch) # Cardinality(dueNow)
    <3> HIDE DEF dueNow
    <3> SUFFICES ASSUME Cardinality(dueNow) = Cardinality(batch) PROVE FALSE
      OBVIOUS
    <3>1. dueNow = batch
      BY <2>1, FS_Subset
    <3> QED BY <1>6, <3>1
  <2> QED BY <1>4, <2>2
<1>9. batch \subseteq Before(t)
  BY <1>5, <1>7 DEF Before
<1>10. ASSUME NEW u \in batch, u \in queued' PROVE due'[u] >= 1
  <2>1. age[u] + 1 <= Timeout /\ (u \notin Stuck => due'[u] \in 1..IdleDelay)
    BY <1>1, <1>10, TickAges
  <2>2. u \notin Stuck
    <3> SUFFICES ASSUME u \in Stuck PROVE FALSE
      OBVIOUS
    <3>1. age[u] + due[u] = 1 /\ age[u] \in Nat /\ due[u] \in Int
      BY <1>1 DEF EndInv, EndsInTurn, QueueTypeOK
    <3> QED BY <1>3, <1>7, <2>1, <3>1, EndNumbers
  <2> QED BY <2>1, <2>2, EndNumbers
<1>11. ASSUME NEW s \in Tasks \ {t}, s \notin born' \/ (s \in queued' /\ due'[s] <= due'[t])
       PROVE  (s \notin born \/ (s \in queued /\ due[s] <= due[t])) /\ s \notin batch
  <2>1. born' = born /\ batch \subseteq born
    BY <1>1 DEF Tick, QueueTypeOK
  <2>2. CASE s \notin born'
    BY <2>1, <2>2
  <2>3. CASE s \in queued' /\ due'[s] <= due'[t]
    <3>1. s \notin batch
      <4>1. due'[s] \in Int /\ due'[t] \in Int
        BY <1>1, <2>3 DEF QueueTypeOK
      <4>2. due'[s] < 1
        BY <1>2, <1>3, <2>3, <4>1
      <4>3. ~(due'[s] >= 1)
        BY <4>1, <4>2
      <4> QED BY <1>10, <2>3, <4>3
    <3>2. s \in queued /\ due'[s] = due[s] - 1
      BY <1>1, <2>3, <3>1, TickAges
    <3> QED BY <1>2, <1>3, <1>5, <2>3, <3>1, <3>2
  <2> QED BY <1>11, <2>2, <2>3
<1>12. Before(t)' \subseteq Before(t) \ batch
  BY <1>11 DEF Before
<1> QED BY <1>8, <1>9, <1>12

\* A tick brings every task that stays nearer to its end.
LEMMA TickEnds ==
    ASSUME EndInv, NEW batch \in SUBSET queued, NEW ended \in SUBSET batch,
           NEW delay \in [batch -> Delays], Tick(batch, ended, delay)
    PROVE  EndInv'
<1>1. QueueTypeOK /\ QueueTypeOK'
  BY TickTyped DEF EndInv
<1>2. SUFFICES ASSUME NEW t \in queued'
               PROVE  /\ age'[t] + due'[t] <= Timeout + IdleDelay
                      /\ t \in Stuck => age'[t] + due'[t] = 1
                      /\ due'[t] <= 1 - Latest =>
                           (1 - Latest - due'[t]) * PollBatch + Cardinality(Before(t)')
                              <= Cardinality(Tasks) - 1
  BY <1>1 DEF EndInv, EndsInTurn, Latest
<1>3. /\ t \in queued /\ t \in Tasks /\ age'[t] = age[t] + 1
      /\ t \in batch => age[t] + 1 <= Timeout
      /\ t \in batch \ Stuck => due'[t] \in 1..IdleDelay
      /\ t \notin batch \ Stuck => due'[t] = due[t] - 1
  BY <1>1, TickAges
<1>4. /\ age[t] + due[t] <= Timeout + IdleDelay
      /\ t \in Stuck => age[t] + due[t] = 1
      /\ due[t] <= 1 - Latest =>
            (1 - Latest - due[t]) * PollBatch + Cardinality(Before(t)) <= Cardinality(Tasks) - 1
  BY <1>3 DEF EndInv, EndsInTurn
<1>5. age[t] \in Nat /\ due[t] \in Int
  BY <1>1, <1>3 DEF QueueTypeOK
<1>6. Before(t)' \subseteq Tasks \ {t} /\ Before(t) \subseteq Tasks \ {t}
  BY DEF Before
<1>7. Cardinality(Before(t)') \in Nat /\ Cardinality(Before(t)') <= Cardinality(Tasks) - 1
  BY <1>3, <1>6, BeforeIsSmall
<1>8. CASE t \in batch \ Stuck
  BY <1>3, <1>5, <1>8, EndNumbers
<1>9. CASE t \notin batch \ Stuck
  <2>1. due'[t] = due[t] - 1
    BY <1>3, <1>9
  <2>2. ASSUME due'[t] <= 1 - Latest
        PROVE  (1 - Latest - due'[t]) * PollBatch + Cardinality(Before(t)')
                  <= Cardinality(Tasks) - 1
    <3>1. CASE due'[t] = 1 - Latest
      <4>1. 1 - Latest - due'[t] = 0
        BY <3>1, EndNumbers
      <4> QED BY <1>7, <4>1, EndNumbers
    <3>2. CASE due'[t] # 1 - Latest
      <4>1. due[t] <= 1 - Latest
        BY <1>5, <2>1, <2>2, <3>2, EndNumbers
      <4>2. t \notin batch
        BY <1>3, <1>4, <1>5, <1>9, <4>1, EndNumbers
      <4>3. /\ batch \subseteq Before(t) /\ Cardinality(batch) = PollBatch
            /\ Before(t)' \subseteq Before(t) \ batch
        BY <4>1, <4>2, TickClearsBatch
      <4>4. IsFiniteSet(Before(t)) /\ Cardinality(Before(t)) \in Nat
        BY <1>3, <1>6, BeforeIsSmall
      <4>5. /\ IsFiniteSet(Before(t) \ batch)
            /\ Cardinality(Before(t) \ batch)
                 = Cardinality(Before(t)) - Cardinality(Before(t) \cap batch)
        BY <4>4, FS_Difference
      <4>6. Before(t) \cap batch = batch
        BY <4>3
      <4>7. Cardinality(Before(t)') <= Cardinality(Before(t) \ batch)
        BY <4>3, <4>5, FS_Subset
      <4>8. Cardinality(Before(t)') <= Cardinality(Before(t)) - PollBatch
        BY <4>3, <4>5, <4>6, <4>7
      <4> DEFINE w == 1 - Latest - due[t]
      <4>9. w \in Int /\ 1 - Latest - due'[t] = w + 1
        BY <1>5, <2>1, EndNumbers
      <4>10. w * PollBatch + Cardinality(Before(t)) <= Cardinality(Tasks) - 1
        BY <1>4, <4>1
      <4> HIDE DEF w
      <4>11. (w + 1) * PollBatch = w * PollBatch + PollBatch /\ w * PollBatch \in Int
        BY <4>9, EndNumbers
      <4> QED BY <1>7, <4>4, <4>8, <4>9, <4>10, <4>11, EndNumbers
    <3> QED BY <3>1, <3>2
  <2> QED BY <1>3, <1>4, <1>5, <2>1, <2>2, EndNumbers
<1> QED BY <1>8, <1>9

LEMMA EnqueueEnds ==
    ASSUME EndInv, NEW new \in Tasks, NEW took \in 0..MaxCreate, Enqueue(new, took)
    PROVE  EndInv'
<1>1. QueueTypeOK
  BY DEF EndInv
<1>2. /\ new \notin born
      /\ born'   = born \cup {new}
      /\ queued' = queued \cup {new}
      /\ due'    = [due EXCEPT ![new] = 1 - took]
      /\ age'    = [age EXCEPT ![new] = took]
      /\ silent' = silent
  BY DEF Enqueue
<1>3. took \in Nat /\ took <= Latest
  BY QueueNumbers, EndNumbers
<1>4. QueueTypeOK'
  BY <1>1, <1>2, <1>3 DEF QueueTypeOK
<1>5. SUFFICES ASSUME NEW t \in queued'
               PROVE  /\ age'[t] + due'[t] <= Timeout + IdleDelay
                      /\ t \in Stuck => age'[t] + due'[t] = 1
                      /\ due'[t] <= 1 - Latest =>
                           (1 - Latest - due'[t]) * PollBatch + Cardinality(Before(t)')
                              <= Cardinality(Tasks) - 1
  BY <1>4 DEF EndInv, EndsInTurn, Latest
<1>6. t \in Tasks
  BY <1>4 DEF QueueTypeOK
<1>7. Before(t)' \subseteq Tasks \ {t} /\ Before(t) \subseteq Tasks \ {t}
  BY DEF Before
<1>8. Cardinality(Before(t)') \in Nat /\ Cardinality(Before(t)') <= Cardinality(Tasks) - 1
  BY <1>6, <1>7, BeforeIsSmall
<1>9. CASE t = new
  <2>1. age'[t] = took /\ due'[t] = 1 - took
    BY <1>1, <1>2, <1>9 DEF QueueTypeOK
  <2>2. age'[t] + due'[t] = 1
    BY <1>3, <2>1
  <2>3. due'[t] <= 1 - Latest => 1 - Latest - due'[t] = 0
    BY <1>3, <2>1, EndNumbers
  <2>4. 0 * PollBatch + Cardinality(Before(t)') <= Cardinality(Tasks) - 1
    BY <1>8, EndNumbers
  <2> QED BY <2>2, <2>3, <2>4, EndNumbers
<1>10. CASE t # new
  <2>1. t \in queued /\ due'[t] = due[t] /\ age'[t] = age[t]
    BY <1>1, <1>2, <1>6, <1>10 DEF QueueTypeOK
  <2>2. /\ age[t] + due[t] <= Timeout + IdleDelay
        /\ t \in Stuck => age[t] + due[t] = 1
        /\ due[t] <= 1 - Latest =>
              (1 - Latest - due[t]) * PollBatch + Cardinality(Before(t)) <= Cardinality(Tasks) - 1
    BY <2>1 DEF EndInv, EndsInTurn
  <2>3. Before(t)' \subseteq Before(t)
    <3> SUFFICES ASSUME NEW s \in Tasks \ {t}, s \notin born' \/ (s \in queued' /\ due'[s] <= due'[t])
                 PROVE  s \notin born \/ (s \in queued /\ due[s] <= due[t])
      BY DEF Before
    <3>1. CASE s = new
      BY <1>2, <3>1
    <3>2. CASE s # new
      <4>1. due'[s] = due[s]
        BY <1>1, <1>2, <3>2 DEF QueueTypeOK
      <4> QED BY <1>2, <2>1, <3>2, <4>1
    <3> QED BY <3>1, <3>2
  <2>4. IsFiniteSet(Before(t)) /\ Cardinality(Before(t)) \in Nat
    BY <1>6, <1>7, BeforeIsSmall
  <2>5. Cardinality(Before(t)') <= Cardinality(Before(t))
    BY <2>3, <2>4, FS_Subset
  <2>6. (1 - Latest - due[t]) * PollBatch \in Int
    <3>1. due[t] \in Int
      BY <1>1, <1>6 DEF QueueTypeOK
    <3> QED BY <3>1, EndNumbers
  <2> QED BY <1>8, <2>1, <2>2, <2>4, <2>5, <2>6, EndNumbers
<1> QED BY <1>9, <1>10

\* At every moment, who is Latest behind its time has let a whole batch pass at each tick.
THEOREM EndInvariant == Spec => []EndInv
<1>1. Init => EndInv
  BY DEF Init, EndInv, QueueTypeOK
<1>2. EndInv /\ [Next]_queueVars => EndInv'
  <2> SUFFICES ASSUME EndInv, [Next]_queueVars PROVE EndInv'
    OBVIOUS
  <2>1. CASE PollOnce
    BY <2>1, TickEnds DEF PollOnce
  <2>2. CASE \E t \in Tasks, took \in 0..MaxCreate : Enqueue(t, took)
    BY <2>2, EnqueueEnds
  <2>3. CASE UNCHANGED queueVars
    BY <2>3 DEF queueVars, EndInv, QueueTypeOK, EndsInTurn, Before
  <2> QED BY <2>1, <2>2, <2>3 DEF Next
<1> QED BY <1>1, <1>2, PTL DEF Spec

\* However many tasks there are, stuck or not, each has left the queue after that time
\* (advanceOne, PollOnce).
THEOREM EndsInTimeAlways == Spec => []EndsInTime
<1>1. EndInv => EndsInTime
  <2> SUFFICES ASSUME EndInv, NEW t \in queued
               PROVE  age[t] < Timeout + IdleDelay + Latest + (Cardinality(Tasks) - 1) \div PollBatch
    BY DEF EndsInTime
  <2> DEFINE w == 1 - Latest - due[t]
             q == (Cardinality(Tasks) - 1) \div PollBatch
  <2>1. t \in Tasks /\ age[t] \in Nat /\ due[t] \in Int
    BY DEF EndInv, QueueTypeOK
  <2>2. EndsInTurn(t)
    BY DEF EndInv
  <2>3. Before(t) \subseteq Tasks \ {t}
    BY DEF Before
  <2>4. Cardinality(Before(t)) \in Nat /\ Cardinality(Before(t)) <= Cardinality(Tasks) - 1
    BY <2>1, <2>3, BeforeIsSmall
  <2>5. Cardinality(Tasks) - 1 \in Nat
    BY <2>4, EndNumbers
  <2>6. q \in Nat
    BY <2>5, EndNumbers
  <2>7. w \in Int
    BY <2>1, EndNumbers
  <2>8. w <= q
    <3>1. CASE w < 0
      BY <2>6, <2>7, <3>1
    <3>2. CASE w >= 0
      <4>1. due[t] <= 1 - Latest
        BY <2>1, <3>2, EndNumbers
      <4>2. w * PollBatch + Cardinality(Before(t)) <= Cardinality(Tasks) - 1
        BY <2>2, <4>1 DEF EndsInTurn
      <4>3. w \in Nat
        BY <2>7, <3>2
      <4> HIDE DEF w
      <4>4. w * PollBatch \in Int
        BY <2>7, EndNumbers
      <4>5. w * PollBatch <= Cardinality(Tasks) - 1
        BY <2>4, <2>5, <4>2, <4>4
      <4> QED BY <2>5, <4>3, <4>5, QuotientBound, EndNumbers
    <3> QED BY <2>7, <3>1, <3>2
  <2>9. age[t] + due[t] <= Timeout + IdleDelay
    BY <2>2 DEF EndsInTurn
  <2> HIDE DEF q
  <2>10. age[t] < Timeout + IdleDelay + Latest + q
    BY <2>1, <2>6, <2>8, <2>9, EndNumbers
  <2> QED BY <2>10 DEF q
<1> QED BY <1>1, EndInvariant, PTL

-----------------------------------------------------------------------------
(* Formulas of prices.  The parser and what formulas mean are functions    *)
(* that refer to themselves; each is shown to satisfy its equation,        *)
(* because a result depends only on results of calls further behind, and   *)
(* a meaning on meanings of fewer tokens.  Then the parser is complete,    *)
(* by induction on the number of tokens: what tokens mean is what it makes *)
(* of them.  And it is sound, by induction on the tokens left: what it     *)
(* returns is what they mean.                                              *)

\* Strong induction, stated of a set: who contains each number below which it contains
\* all is the set of all.
LEMMA InductionOnSet ==
    ASSUME NEW S \in SUBSET Nat,
           \A n \in Nat : (\A k \in 0..(n - 1) : k \in S) => n \in S
    PROVE  S = Nat
  <1> DEFINE Less == OpToRel(<, Nat)
             T    == Nat \ S
  <1>1. CASE T # {}
    <2>1. IsWellFoundedOn(Less, Nat)
      BY NatLessThanWellFounded
    <2>2. T \subseteq Nat
      OBVIOUS
    <2> HIDE DEF Less
    <2>3. \E n \in T : \A k \in T : ~ (<<k, n>> \in Less)
      BY <1>1, <2>1, <2>2, WFMin, Zenon
    <2>4. PICK n \in T : \A k \in T : <<k, n>> \notin Less
      BY <2>3
    <2> USE DEF Less
    <2>5. \A k \in 0..(n - 1) : k \in S
      <3> SUFFICES ASSUME NEW k \in 0..(n - 1), k \notin S PROVE FALSE
        OBVIOUS
      <3>1. n \in Nat /\ k \in Nat /\ k \in T /\ k < n
        OBVIOUS
      <3>2. <<k, n>> \in Less
        BY <3>1 DEF OpToRel
      <3> QED
        BY <2>4, <3>1, <3>2
    <2> QED
      BY <2>5
  <1> QED
    BY <1>1

\* A formula is a sequence of tokens of the lexer.
FormulaTypeOK == formula \in Seq(Tokens)

\* How far a call has read at the least when it returns.
Behind(call) == IF call.rule = "factor" THEN call.cur + 1 ELSE call.cur

\* What a call may return that has read up to position i.
Outcomes(i) == {Error} \cup [v : Int, cur : i..(Len(formula) + 1)]

\* The table p has outcomes for all calls that start at position i or behind it.
TypedFrom(p, i) == \A c \in Calls : i <= c.cur => p[c] \in Outcomes(Behind(c))

\* Facts of records and positions that all proofs below use.
LEMMA OutcomeMono ==
    ASSUME FormulaTypeOK, NEW i \in Nat, NEW j \in Nat, i <= j, NEW r \in Outcomes(j)
    PROVE  r \in Outcomes(i)
  BY DEF Outcomes, FormulaTypeOK

LEMMA IsOutcome ==
    ASSUME FormulaTypeOK, NEW i \in Nat, NEW j \in i..(Len(formula) + 1), NEW v \in Int
    PROVE  Read(v, j) \in Outcomes(i)
  BY DEF Outcomes, FormulaTypeOK, Read

LEMMA OutcomeFields ==
    ASSUME FormulaTypeOK, NEW i \in Nat, NEW r \in Outcomes(i), r # Error
    PROVE  r.v \in Int /\ r.cur \in i..(Len(formula) + 1) /\ r = Read(r.v, r.cur)
  BY DEF Outcomes, FormulaTypeOK, Read

LEMMA ReadFields ==
    ASSUME NEW v, NEW i
    PROVE  Read(v, i).v = v /\ Read(v, i).cur = i
  BY DEF Read

LEMMA IsNoError ==
    ASSUME NEW v, NEW i, i # 0
    PROVE  Read(v, i) # Error
  BY DEF Read, Error

LEMMA IsCall ==
    ASSUME NEW v \in Int, NEW i \in 1..(Len(formula) + 1)
    PROVE  /\ Factor(i) \in Calls /\ Factor(i).cur = i /\ Factor(i).rule = "factor"
           /\ \A left : left = Read(v, i) =>
                 /\ Factors(left) \in Calls /\ Factors(left).cur = i
                 /\ Factors(left).rule = "factors" /\ Factors(left).v = v
                 /\ Terms(left) \in Calls /\ Terms(left).cur = i
                 /\ Terms(left).rule = "terms" /\ Terms(left).v = v
  BY DEF Factor, Factors, Terms, Calls, Read

\* The parser moves forward and never beyond the end: first its loops, its calls, and then
\* what any call returns.
LEMMA ContinueType ==
    ASSUME FormulaTypeOK, NEW p, NEW i \in Nat, i # 0, TypedFrom(p, i), NEW left \in Outcomes(i)
    PROVE  MoreFactors(p, left) \in Outcomes(i) /\ MoreTerms(p, left) \in Outcomes(i)
  <1>1. CASE left = Error
    BY <1>1 DEF MoreFactors, MoreTerms, Outcomes
  <1>2. CASE left # Error
    <2>1. left.v \in Int /\ left.cur \in i..(Len(formula) + 1) /\ left = Read(left.v, left.cur)
      BY <1>2, OutcomeFields
    <2>2. left.cur \in 1..(Len(formula) + 1)
      BY <2>1 DEF FormulaTypeOK
    <2>3. /\ Factors(left) \in Calls /\ Factors(left).cur = left.cur
          /\ Factors(left).rule = "factors"
          /\ Terms(left) \in Calls /\ Terms(left).cur = left.cur /\ Terms(left).rule = "terms"
      BY <2>1, <2>2, IsCall
    <2>4. p[Factors(left)] \in Outcomes(left.cur) /\ p[Terms(left)] \in Outcomes(left.cur)
      BY <2>1, <2>3 DEF TypedFrom, Behind
    <2>5. p[Factors(left)] \in Outcomes(i) /\ p[Terms(left)] \in Outcomes(i)
      BY <2>1, <2>4, OutcomeMono
    <2> QED
      BY <1>2, <2>5 DEF MoreFactors, MoreTerms
  <1> QED
    BY <1>1, <1>2

LEMMA TypedLater ==
    ASSUME FormulaTypeOK, NEW p, NEW i \in Nat, NEW j \in Nat, i <= j, TypedFrom(p, i)
    PROVE  TypedFrom(p, j)
  <1> SUFFICES ASSUME NEW c \in Calls, j <= c.cur PROVE p[c] \in Outcomes(Behind(c))
    BY DEF TypedFrom
  <1>1. c.cur \in Int
    BY DEF Calls
  <1> QED
    BY <1>1 DEF TypedFrom

LEMMA ParseType ==
    ASSUME FormulaTypeOK, NEW p, NEW i \in 1..(Len(formula) + 1), TypedFrom(p, i)
    PROVE  /\ p[Factor(i)] \in Outcomes(i + 1)
           /\ ParseTerm(p, i) \in Outcomes(i + 1)
           /\ ParseExpr(p, i) \in Outcomes(i + 1)
  <1>1. i \in Nat /\ i + 1 \in Nat /\ i + 1 # 0 /\ i <= i + 1
    BY DEF FormulaTypeOK
  <1>2. p[Factor(i)] \in Outcomes(i + 1)
    BY <1>1, IsCall, 0 \in Int DEF TypedFrom, Behind
  <1>3. TypedFrom(p, i + 1)
    BY <1>1, TypedLater
  <1>4. ParseTerm(p, i) \in Outcomes(i + 1)
    BY <1>1, <1>2, <1>3, ContinueType DEF ParseTerm
  <1>5. ParseExpr(p, i) \in Outcomes(i + 1)
    BY <1>1, <1>3, <1>4, ContinueType DEF ParseExpr
  <1> QED
    BY <1>2, <1>4, <1>5

LEMMA WrappedType == ASSUME NEW n \in Int PROVE Wrapped(n) \in Int
  BY FormulaAssumption DEF Wrapped

LEMMA ArithmeticType ==
    ASSUME NEW a \in Int, NEW b \in Int, NEW kind
    PROVE  Added(kind, a, b) \in Int /\ (kind = "*" \/ b # 0 => Multiplied(kind, a, b) \in Int)
  <1>1. a + b \in Int /\ a - b \in Int /\ a * b \in Int
    OBVIOUS
  <1>2. Added(kind, a, b) \in Int
    BY <1>1, WrappedType DEF Added
  <1>3. ASSUME b # 0 PROVE Quotient(a, b) \in Int
    <2>1. Abs(a) \in Nat /\ Abs(b) \in Nat \ {0}
      BY <1>3 DEF Abs
    <2>2. Abs(a) \div Abs(b) \in Int
      BY <2>1
    <2>3. -(Abs(a) \div Abs(b)) \in Int
      BY <2>2
    <2> QED
      BY <2>2, <2>3, WrappedType DEF Quotient
  <1> QED
    BY <1>1, <1>2, <1>3, WrappedType DEF Multiplied

LEMMA TokenTypes ==
    ASSUME FormulaTypeOK, NEW i \in 1..(Len(formula) + 1)
    PROVE  /\ Kind(i) \in Signs \cup {"num", "ident", "eof"}
           /\ Kind(i) # "eof" <=> i <= Len(formula)
           /\ Kind(i) = "num" => formula[i].num \in Int
           /\ Kind(i) = "ident" /\ formula[i].id \in DOMAIN Params => Params[formula[i].id] \in Int
  <1>1. Len(formula) \in Nat
    BY DEF FormulaTypeOK
  <1>2. CASE i <= Len(formula)
    <2>1. formula[i] \in Tokens /\ Kind(i) = formula[i].kind
      BY <1>1, <1>2 DEF FormulaTypeOK, Kind
    <2>2. Kind(i) \in Signs \cup {"num", "ident"}
      BY <2>1 DEF Tokens
    <2>3. Kind(i) = "num" => formula[i].num \in Numbers
      BY <2>1 DEF Tokens, Signs
    <2>4. \A n \in Numbers : n \in Int
      BY FormulaAssumption
    <2>5. \A x \in DOMAIN Params : Params[x] \in Int
      BY FormulaAssumption
    <2>6. Kind(i) # "eof"
      BY <2>2 DEF Signs
    <2> QED
      BY <1>2, <2>2, <2>3, <2>4, <2>5, <2>6
  <1>3. CASE ~(i <= Len(formula))
    BY <1>1, <1>3 DEF Kind
  <1> QED
    BY <1>2, <1>3


LEMMA FactorType ==
    ASSUME FormulaTypeOK, NEW p, NEW i \in 1..(Len(formula) + 1), TypedFrom(p, i + 1)
    PROVE  FactorAt(p, i) \in Outcomes(i + 1)
  <1>0. i \in Nat /\ i + 1 \in Nat /\ i + 1 # 0 /\ Len(formula) \in Nat
    BY DEF FormulaTypeOK
  <1>1. Error \in Outcomes(i + 1)
    BY DEF Outcomes
  <1>2. CASE Kind(i) = "eof"
    BY <1>1, <1>2 DEF FactorAt
  <1>3. CASE Kind(i) # "eof"
    <2>1. i + 1 \in 1..(Len(formula) + 1) /\ i + 1 \in (i + 1)..(Len(formula) + 1)
      BY <1>0, <1>3, TokenTypes
    <2>2. CASE Kind(i) = "num"
      <3>1. formula[i].num \in Int
        BY <2>2, TokenTypes
      <3> QED
        BY <1>0, <2>1, <2>2, <3>1, IsOutcome DEF FactorAt
    <2>3. CASE Kind(i) = "ident"
      <3>1. formula[i].id \in DOMAIN Params =>
               Read(Params[formula[i].id], i + 1) \in Outcomes(i + 1)
        BY <1>0, <2>1, <2>3, TokenTypes, IsOutcome
      <3> QED
        BY <1>1, <2>3, <3>1 DEF FactorAt
    <2>4. CASE Kind(i) = "("
      <3> DEFINE e == ParseExpr(p, i + 1)
      <3>1. e \in Outcomes(i + 2) /\ i + 2 \in Nat
        BY <1>0, <2>1, ParseType
      <3> HIDE DEF e
      <3>2. ASSUME e # Error, Kind(e.cur) = ")" PROVE Read(e.v, e.cur + 1) \in Outcomes(i + 1)
        <4>1. e.v \in Int /\ e.cur \in (i + 2)..(Len(formula) + 1)
          BY <3>1, <3>2, OutcomeFields
        <4>2. e.cur \in 1..(Len(formula) + 1) /\ Kind(e.cur) # "eof"
          BY <1>0, <3>2, <4>1
        <4>3. e.cur <= Len(formula)
          BY <4>2, TokenTypes
        <4>4. e.cur + 1 \in (i + 1)..(Len(formula) + 1)
          BY <1>0, <4>1, <4>3
        <4> QED
          BY <1>0, <4>1, <4>4, IsOutcome
      <3>3. FactorAt(p, i) = IF e # Error /\ Kind(e.cur) = ")" THEN Read(e.v, e.cur + 1) ELSE Error
        BY <2>4 DEF FactorAt, e
      <3> QED
        BY <1>1, <3>2, <3>3
    <2>5. CASE Kind(i) = "-"
      <3> DEFINE f == p[Factor(i + 1)]
      <3>1. f \in Outcomes(i + 2) /\ i + 2 \in Nat
        BY <1>0, <2>1, ParseType
      <3> HIDE DEF f
      <3>2. ASSUME f # Error PROVE Read(Wrapped(-f.v), f.cur) \in Outcomes(i + 1)
        <4>1. f.v \in Int /\ f.cur \in (i + 2)..(Len(formula) + 1)
          BY <3>1, <3>2, OutcomeFields
        <4>2. f.cur \in (i + 1)..(Len(formula) + 1) /\ -f.v \in Int
          BY <1>0, <4>1
        <4> QED
          BY <1>0, <4>2, WrappedType, IsOutcome
      <3>3. FactorAt(p, i) = IF f # Error THEN Read(Wrapped(-f.v), f.cur) ELSE Error
        BY <2>5 DEF FactorAt, f
      <3> QED
        BY <1>1, <3>2, <3>3
    <2> QED
      BY <1>1, <2>2, <2>3, <2>4, <2>5 DEF FactorAt
  <1> QED
    BY <1>2, <1>3

LEMMA LoopTypes ==
    ASSUME FormulaTypeOK, NEW p, NEW i \in 1..(Len(formula) + 1), NEW v \in Int,
           TypedFrom(p, i + 1)
    PROVE  /\ FactorsAfter(p, Read(v, i)) \in Outcomes(i)
           /\ TermsAfter(p, Read(v, i)) \in Outcomes(i)
  <1>0. i \in Nat /\ i + 1 \in Nat /\ i + 1 # 0 /\ Len(formula) \in Nat /\ i <= i + 1
    BY DEF FormulaTypeOK
  <1>1. Error \in Outcomes(i) /\ Read(v, i) \in Outcomes(i)
    BY <1>0, IsOutcome DEF Outcomes
  <1>2. Read(v, i).v = v /\ Read(v, i).cur = i
    BY ReadFields
  <1>3. CASE Kind(i) \in {"*", "/"}
    <2>1. i + 1 \in 1..(Len(formula) + 1)
      BY <1>0, <1>3, TokenTypes
    <2> DEFINE right == p[Factor(i + 1)]
               next  == Read(Multiplied(Kind(i), v, right.v), right.cur)
    <2>2. right \in Outcomes(i + 2) /\ i + 2 \in Nat
      BY <1>0, <2>1, ParseType
    <2> HIDE DEF right
    <2>3. ASSUME right # Error, ~(Kind(i) = "/" /\ right.v = 0)
          PROVE  MoreFactors(p, next) \in Outcomes(i)
      <3>1. right.v \in Int /\ right.cur \in (i + 2)..(Len(formula) + 1)
        BY <2>2, <2>3, OutcomeFields
      <3>2. Multiplied(Kind(i), v, right.v) \in Int
        BY <1>3, <2>3, <3>1, ArithmeticType
      <3>3. right.cur \in (i + 1)..(Len(formula) + 1)
        BY <1>0, <3>1
      <3>4. next \in Outcomes(i + 1)
        BY <1>0, <3>2, <3>3, IsOutcome
      <3> HIDE DEF next
      <3>5. MoreFactors(p, next) \in Outcomes(i + 1)
        BY <1>0, <3>4, ContinueType
      <3> QED
        BY <1>0, <3>5, OutcomeMono
    <2>4. FactorsAfter(p, Read(v, i)) =
             IF right = Error \/ (Kind(i) = "/" /\ right.v = 0) THEN Error
             ELSE MoreFactors(p, next)
      BY <1>2, <1>3 DEF FactorsAfter, right
    <2>5. TermsAfter(p, Read(v, i)) = Read(v, i)
      BY <1>2, <1>3 DEF TermsAfter
    <2> QED
      BY <1>1, <2>3, <2>4, <2>5
  <1>4. CASE Kind(i) \in {"+", "-"}
    <2>1. i + 1 \in 1..(Len(formula) + 1)
      BY <1>0, <1>4, TokenTypes
    <2> DEFINE right == ParseTerm(p, i + 1)
               next  == Read(Added(Kind(i), v, right.v), right.cur)
    <2>2. right \in Outcomes(i + 2) /\ i + 2 \in Nat
      BY <1>0, <2>1, ParseType
    <2> HIDE DEF right
    <2>3. ASSUME right # Error PROVE MoreTerms(p, next) \in Outcomes(i)
      <3>1. right.v \in Int /\ right.cur \in (i + 2)..(Len(formula) + 1)
        BY <2>2, <2>3, OutcomeFields
      <3>2. Added(Kind(i), v, right.v) \in Int
        BY <3>1, ArithmeticType
      <3>3. right.cur \in (i + 1)..(Len(formula) + 1)
        BY <1>0, <3>1
      <3>4. next \in Outcomes(i + 1)
        BY <1>0, <3>2, <3>3, IsOutcome
      <3> HIDE DEF next
      <3>5. MoreTerms(p, next) \in Outcomes(i + 1)
        BY <1>0, <3>4, ContinueType
      <3> QED
        BY <1>0, <3>5, OutcomeMono
    <2>4. TermsAfter(p, Read(v, i)) = IF right = Error THEN Error ELSE MoreTerms(p, next)
      BY <1>2, <1>4 DEF TermsAfter, right
    <2>5. FactorsAfter(p, Read(v, i)) = Read(v, i)
      BY <1>2, <1>4 DEF FactorsAfter
    <2> QED
      BY <1>1, <2>3, <2>4, <2>5
  <1>5. CASE Kind(i) \notin {"*", "/"} /\ Kind(i) \notin {"+", "-"}
    BY <1>1, <1>2, <1>5 DEF FactorsAfter, TermsAfter
  <1> QED
    BY <1>3, <1>4, <1>5

LEMMA ResultType ==
    ASSUME FormulaTypeOK, NEW p, NEW c \in Calls, TypedFrom(p, c.cur + 1)
    PROVE  Result(p, c) \in Outcomes(Behind(c))
  <1>1. c.rule \in {"factor", "factors", "terms"} /\ c.v \in Int /\ c.cur \in 1..(Len(formula) + 1)
    BY DEF Calls
  <1>2. /\ FactorAt(p, c.cur) \in Outcomes(c.cur + 1)
        /\ FactorsAfter(p, Read(c.v, c.cur)) \in Outcomes(c.cur)
        /\ TermsAfter(p, Read(c.v, c.cur)) \in Outcomes(c.cur)
    BY <1>1, FactorType, LoopTypes
  <1> QED
    BY <1>1, <1>2 DEF Result, Behind

\* A call asks only for what calls behind it return.
AgreeFrom(p, q, i) == \A c \in Calls : i <= c.cur => p[c] = q[c]

LEMMA ParseAgrees ==
    ASSUME FormulaTypeOK, NEW p, NEW q, NEW i \in Nat, i # 0, TypedFrom(p, i), AgreeFrom(p, q, i)
    PROVE  /\ \A left \in Outcomes(i) : /\ MoreFactors(p, left) = MoreFactors(q, left)
                                        /\ MoreTerms(p, left) = MoreTerms(q, left)
           /\ i <= Len(formula) + 1 => /\ p[Factor(i)] = q[Factor(i)]
                                       /\ ParseTerm(p, i) = ParseTerm(q, i)
                                       /\ ParseExpr(p, i) = ParseExpr(q, i)
  <1>1. ASSUME NEW left \in Outcomes(i)
        PROVE  MoreFactors(p, left) = MoreFactors(q, left) /\ MoreTerms(p, left) = MoreTerms(q, left)
    <2>1. CASE left = Error
      BY <2>1 DEF MoreFactors, MoreTerms
    <2>2. CASE left # Error
      <3>1. left.v \in Int /\ left.cur \in i..(Len(formula) + 1) /\ left = Read(left.v, left.cur)
        BY <2>2, OutcomeFields
      <3>2. left.cur \in 1..(Len(formula) + 1)
        BY <3>1 DEF FormulaTypeOK
      <3>3. /\ Factors(left) \in Calls /\ Factors(left).cur = left.cur
            /\ Terms(left) \in Calls /\ Terms(left).cur = left.cur
        BY <3>1, <3>2, IsCall
      <3>4. p[Factors(left)] = q[Factors(left)] /\ p[Terms(left)] = q[Terms(left)]
        BY <3>1, <3>3 DEF AgreeFrom
      <3> QED
        BY <2>2, <3>4 DEF MoreFactors, MoreTerms
    <2> QED
      BY <2>1, <2>2
  <1>2. ASSUME i <= Len(formula) + 1
        PROVE  /\ p[Factor(i)] = q[Factor(i)]
               /\ ParseTerm(p, i) = ParseTerm(q, i)
               /\ ParseExpr(p, i) = ParseExpr(q, i)
    <2>1. i \in 1..(Len(formula) + 1)
      BY <1>2 DEF FormulaTypeOK
    <2>2. p[Factor(i)] = q[Factor(i)]
      BY <2>1, IsCall, 0 \in Int DEF AgreeFrom
    <2>3. p[Factor(i)] \in Outcomes(i) /\ ParseTerm(p, i) \in Outcomes(i)
      <3>1. p[Factor(i)] \in Outcomes(i + 1) /\ ParseTerm(p, i) \in Outcomes(i + 1)
        BY <2>1, ParseType
      <3>2. i <= i + 1 /\ i + 1 \in Nat
        OBVIOUS
      <3> QED
        BY <3>1, <3>2, OutcomeMono
    <2>4. ParseTerm(p, i) = ParseTerm(q, i)
      BY <1>1, <2>2, <2>3 DEF ParseTerm
    <2> QED
      BY <1>1, <2>2, <2>3, <2>4 DEF ParseExpr
  <1> QED
    BY <1>1, <1>2

\* So two tables that agree on the calls behind it give a call the same result.
LEMMA ResultAgrees ==
    ASSUME FormulaTypeOK, NEW p, NEW q, NEW c \in Calls,
           TypedFrom(p, c.cur + 1), AgreeFrom(p, q, c.cur + 1)
    PROVE  Result(p, c) = Result(q, c)
  <1> DEFINE i == c.cur
  <1>1. c.rule \in {"factor", "factors", "terms"} /\ c.v \in Int /\ i \in 1..(Len(formula) + 1)
    BY DEF Calls
  <1>2. i \in Nat /\ i + 1 \in Nat /\ i + 1 # 0 /\ Len(formula) \in Nat
    BY <1>1 DEF FormulaTypeOK
  <1>3. Read(c.v, i).v = c.v /\ Read(c.v, i).cur = i
    BY ReadFields
  <1>4. CASE Kind(i) = "eof"
    <2>1. Result(p, c) = IF c.rule = "factor" THEN Error ELSE Read(c.v, i)
      BY <1>1, <1>3, <1>4 DEF Result, FactorAt, FactorsAfter, TermsAfter
    <2>2. Result(q, c) = IF c.rule = "factor" THEN Error ELSE Read(c.v, i)
      BY <1>1, <1>3, <1>4 DEF Result, FactorAt, FactorsAfter, TermsAfter
    <2> QED
      BY <2>1, <2>2
  <1>5. CASE Kind(i) # "eof"
    <2>1. i + 1 <= Len(formula) + 1 /\ i + 1 \in 1..(Len(formula) + 1)
      BY <1>1, <1>2, <1>5, TokenTypes
    <2> HIDE DEF i
    <2>2. /\ p[Factor(i + 1)] = q[Factor(i + 1)]
          /\ ParseTerm(p, i + 1) = ParseTerm(q, i + 1)
          /\ ParseExpr(p, i + 1) = ParseExpr(q, i + 1)
      BY <1>2, <2>1, ParseAgrees DEF i
    <2>3. FactorAt(p, i) = FactorAt(q, i)
      BY <2>2, Zenon DEF FactorAt
    <2>4. FactorsAfter(p, Read(c.v, i)) = FactorsAfter(q, Read(c.v, i))
      <3> DEFINE right == p[Factor(i + 1)]
                 next  == Read(Multiplied(Kind(i), c.v, right.v), right.cur)
      <3>1. ASSUME Kind(i) \in {"*", "/"}, right # Error, ~(Kind(i) = "/" /\ right.v = 0)
            PROVE  MoreFactors(p, next) = MoreFactors(q, next)
        <4>1. right \in Outcomes(i + 1 + 1) /\ i + 1 + 1 \in Nat
          BY <1>2, <2>1, ParseType DEF i
        <4> HIDE DEF right
        <4>2. right.v \in Int /\ right.cur \in (i + 1 + 1)..(Len(formula) + 1)
          BY <3>1, <4>1, OutcomeFields
        <4>3. Multiplied(Kind(i), c.v, right.v) \in Int
          BY <1>1, <3>1, <4>2, ArithmeticType
        <4>4. right.cur \in (i + 1)..(Len(formula) + 1)
          BY <1>2, <4>2
        <4>5. next \in Outcomes(i + 1)
          BY <1>2, <4>3, <4>4, IsOutcome
        <4> HIDE DEF next
        <4> QED
          BY <1>2, <4>5, ParseAgrees DEF i
      <3>2. q[Factor(i + 1)] = right
        BY <2>2
      <3>3. FactorsAfter(p, Read(c.v, i)) =
               IF Kind(i) \notin {"*", "/"} THEN Read(c.v, i)
               ELSE IF right = Error \/ (Kind(i) = "/" /\ right.v = 0) THEN Error
               ELSE MoreFactors(p, next)
        BY <1>3, Zenon DEF FactorsAfter, i
      <3>4. FactorsAfter(q, Read(c.v, i)) =
               IF Kind(i) \notin {"*", "/"} THEN Read(c.v, i)
               ELSE IF right = Error \/ (Kind(i) = "/" /\ right.v = 0) THEN Error
               ELSE MoreFactors(q, next)
        BY <1>3, <3>2, Zenon DEF FactorsAfter, i
      <3> HIDE DEF right, next
      <3> QED
        BY <3>1, <3>3, <3>4
    <2>5. TermsAfter(p, Read(c.v, i)) = TermsAfter(q, Read(c.v, i))
      <3> DEFINE right == ParseTerm(p, i + 1)
                 next  == Read(Added(Kind(i), c.v, right.v), right.cur)
      <3>1. ASSUME Kind(i) \in {"+", "-"}, right # Error
            PROVE  MoreTerms(p, next) = MoreTerms(q, next)
        <4>1. right \in Outcomes(i + 1 + 1) /\ i + 1 + 1 \in Nat
          BY <1>2, <2>1, ParseType DEF i
        <4> HIDE DEF right
        <4>2. right.v \in Int /\ right.cur \in (i + 1 + 1)..(Len(formula) + 1)
          BY <3>1, <4>1, OutcomeFields
        <4>3. Added(Kind(i), c.v, right.v) \in Int
          BY <1>1, <4>2, ArithmeticType
        <4>4. right.cur \in (i + 1)..(Len(formula) + 1)
          BY <1>2, <4>2
        <4>5. next \in Outcomes(i + 1)
          BY <1>2, <4>3, <4>4, IsOutcome
        <4> HIDE DEF next
        <4> QED
          BY <1>2, <4>5, ParseAgrees DEF i
      <3>2. ParseTerm(q, i + 1) = right
        BY <2>2
      <3>3. TermsAfter(p, Read(c.v, i)) =
               IF Kind(i) \notin {"+", "-"} THEN Read(c.v, i)
               ELSE IF right = Error THEN Error ELSE MoreTerms(p, next)
        BY <1>3, Zenon DEF TermsAfter, i
      <3>4. TermsAfter(q, Read(c.v, i)) =
               IF Kind(i) \notin {"+", "-"} THEN Read(c.v, i)
               ELSE IF right = Error THEN Error ELSE MoreTerms(q, next)
        BY <1>3, <3>2, Zenon DEF TermsAfter, i
      <3> HIDE DEF right, next
      <3> QED
        BY <3>1, <3>3, <3>4
    <2> QED
      BY <1>1, <2>3, <2>4, <2>5 DEF Result, i
  <1> QED
    BY <1>4, <1>5

\* There is a table of what all calls return.
LEMMA TableExists ==
    ASSUME FormulaTypeOK
    PROVE  \E p : p = [c \in Calls |-> Result(p, c)]
  <1> DEFINE end    == Len(formula) + 2
             Good(p, i) == TypedFrom(p, i) /\ \A c \in Calls : i <= c.cur => p[c] = Result(p, c)
             S      == {n \in Nat : n < end => \E p : Good(p, end - n)}
  <1>0. Len(formula) \in Nat /\ end \in Nat
    BY DEF FormulaTypeOK
  <1>1. 0 \in S
    <2>1. \A c \in Calls : ~(end - 0 <= c.cur)
      BY <1>0 DEF Calls
    <2>2. Good(0, end - 0)
      BY <2>1 DEF TypedFrom
    <2> QED
      BY <2>2
  <1>2. ASSUME NEW n \in Nat, n \in S, n + 1 < end PROVE \E p : Good(p, end - (n + 1))
    <2> DEFINE i == end - (n + 1)
    <2>1. i \in 1..(Len(formula) + 1) /\ i \in Nat /\ i + 1 = end - n /\ n < end
      BY <1>0, <1>2
    <2>2. PICK p : Good(p, i + 1)
      BY <1>2, <2>1
    <2> HIDE DEF i
    <2> DEFINE q == [c \in Calls |-> IF c.cur = i THEN Result(p, c) ELSE p[c]]
    <2>3. AgreeFrom(p, q, i + 1)
      <3> SUFFICES ASSUME NEW c \in Calls, i + 1 <= c.cur PROVE p[c] = q[c]
        BY DEF AgreeFrom
      <3> QED
        BY <2>1 DEF Calls
    <2>4. ASSUME NEW c \in Calls, i <= c.cur
          PROVE  q[c] \in Outcomes(Behind(c)) /\ q[c] = Result(q, c)
      <3>1. c.cur \in Nat /\ (c.cur = i \/ i + 1 <= c.cur) /\ c.cur + 1 \in Nat /\ i + 1 \in Nat
            /\ i + 1 <= c.cur + 1
        BY <2>1, <2>4 DEF Calls
      <3>2. TypedFrom(p, c.cur + 1)
        BY <2>2, <3>1, TypedLater
      <3>3. AgreeFrom(p, q, c.cur + 1)
        <4> SUFFICES ASSUME NEW d \in Calls, c.cur + 1 <= d.cur PROVE p[d] = q[d]
          BY Zenon DEF AgreeFrom
        <4>1. i + 1 <= d.cur
          BY <2>1, <3>1 DEF Calls
        <4> QED
          BY <2>3, <4>1, Zenon DEF AgreeFrom
      <3> HIDE DEF q
      <3>4. Result(p, c) = Result(q, c)
        BY <3>2, <3>3, ResultAgrees
      <3>5. q[c] = Result(p, c)
        BY <2>2, <3>1 DEF q
      <3>6. Result(p, c) \in Outcomes(Behind(c))
        BY <3>2, ResultType
      <3> QED
        BY <3>4, <3>5, <3>6
    <2> HIDE DEF q
    <2>5. Good(q, i)
      BY <2>4 DEF TypedFrom
    <2> QED
      BY <2>5 DEF i
  <1>3. ASSUME NEW n \in Nat, \A k \in 0..(n - 1) : k \in S PROVE n \in S
    <2>1. CASE n = 0
      BY <1>1, <2>1
    <2>2. CASE n # 0
      <3>1. n - 1 \in Nat /\ n - 1 \in S /\ (n - 1) + 1 = n
        BY <1>3, <2>2
      <3> HIDE DEF Good
      <3> DEFINE k == n - 1
      <3>2. k \in Nat /\ k \in S /\ k + 1 = n
        BY <3>1
      <3> HIDE DEF k
      <3>3. n < end => \E p : Good(p, end - n)
        BY <1>2, <3>2
      <3> QED
        BY <3>3
    <2> QED
      BY <2>1, <2>2
  <1>4. Len(formula) + 1 \in S
    <2> HIDE DEF S
    <2>1. S \in SUBSET Nat
      BY DEF S
    <2>2. \A n \in Nat : (\A k \in 0..(n - 1) : k \in S) => n \in S
      BY <1>3
    <2>3. S = Nat
      BY <2>1, <2>2, InductionOnSet, Zenon
    <2>4. Len(formula) + 1 \in Nat
      BY <1>0
    <2> QED
      BY <2>3, <2>4
  <1>5. PICK p : Good(p, 1)
    <2>1. end - (Len(formula) + 1) = 1 /\ Len(formula) + 1 < end
      BY <1>0
    <2> HIDE DEF Good, end
    <2> QED
      BY <1>4, <2>1
  <1> DEFINE q == [c \in Calls |-> p[c]]
  <1>6. AgreeFrom(p, q, 1) /\ TypedFrom(p, 1)
    BY <1>5 DEF AgreeFrom
  <1>7. ASSUME NEW c \in Calls PROVE Result(p, c) = Result(q, c) /\ p[c] = Result(p, c)
    <2>1. c.cur \in Nat /\ c.cur + 1 \in Nat /\ 1 <= c.cur + 1 /\ 1 <= c.cur
      BY DEF Calls
    <2>2. TypedFrom(p, c.cur + 1)
      BY <1>6, <2>1, TypedLater, 1 \in Nat
    <2>3. AgreeFrom(p, q, c.cur + 1)
      BY DEF AgreeFrom
    <2> HIDE DEF q
    <2> QED
      BY <1>5, <2>1, <2>2, <2>3, ResultAgrees
  <1>8. q = [c \in Calls |-> Result(q, c)]
    <2> SUFFICES ASSUME NEW c \in Calls PROVE p[c] = Result(q, c)
      BY Zenon
    <2> QED
      BY <1>7
  <1> HIDE DEF q
  <1> QED
    BY <1>8

\* The equation of the parser.
\* The equation of the parser: parse is such a table.
LEMMA Parse ==
    ASSUME FormulaTypeOK, NEW c \in Calls
    PROVE  parse[c] = Result(parse, c)
  <1>1. parse = [call \in Calls |-> Result(parse, call)]
    BY TableExists, Zenon DEF parse
  <1> HIDE DEF parse
  <1> QED
    BY <1>1, Zenon

\* Every call of the parser returns an outcome.
LEMMA ParserTyped == ASSUME FormulaTypeOK PROVE TypedFrom(parse, 1)
  <1> DEFINE end == Len(formula) + 2
             S   == {n \in Nat : n < end => TypedFrom(parse, end - n)}
  <1>0. Len(formula) \in Nat /\ end \in Nat
    BY DEF FormulaTypeOK
  <1>1. ASSUME NEW n \in Nat, \A k \in 0..(n - 1) : k \in S PROVE n \in S
    <2> SUFFICES ASSUME n < end, NEW c \in Calls, end - n <= c.cur
                 PROVE  parse[c] \in Outcomes(Behind(c))
      BY DEF TypedFrom
    <2> DEFINE k == end - (c.cur + 1)
    <2>1. c.cur \in 1..(Len(formula) + 1) /\ c.cur + 1 \in Nat
      BY DEF Calls
    <2>2. k \in 0..(n - 1) /\ k < end /\ end - k = c.cur + 1
      BY <1>0, <2>1
    <2>3. TypedFrom(parse, c.cur + 1)
      BY <1>1, <2>2
    <2> QED
      BY <2>3, ResultType, Parse
  <1>2. Len(formula) + 1 \in S
    <2> HIDE DEF S
    <2>1. S \in SUBSET Nat
      BY DEF S
    <2>2. \A n \in Nat : (\A k \in 0..(n - 1) : k \in S) => n \in S
      BY <1>1
    <2>3. S = Nat
      BY <2>1, <2>2, InductionOnSet, Zenon
    <2>4. Len(formula) + 1 \in Nat
      BY <1>0
    <2> QED
      BY <2>3, <2>4
  <1>3. end - (Len(formula) + 1) = 1 /\ Len(formula) + 1 < end
    BY <1>0
  <1> QED
    BY <1>2, <1>3

-----------------------------------------------------------------------------
(* What formulas mean.                                                     *)

\* The members of what tokens mean as a product, and as a sum.
LEMMA InProduct ==
    ASSUME NEW m, NEW i, NEW j, NEW v
    PROVE  v \in ProductMeans(m, i, j) <=>
              \/ v \in FactorMeans(m, i, j)
              \/ \E k \in Cuts(i, j, {"*", "/"}) :
                    \E a \in m[Span("product", i, k)], b \in m[Span("factor", k + 1, j)] :
                        (Kind(k) = "/" => b # 0) /\ v = Multiplied(Kind(k), a, b)
  <1> DEFINE Of(k) == {Multiplied(Kind(k), a, b) :
                          a \in m[Span("product", i, k)],
                          b \in {c \in m[Span("factor", k + 1, j)] : Kind(k) = "/" => c # 0}}
  <1>1. ProductMeans(m, i, j) =
           FactorMeans(m, i, j) \cup UNION {Of(k) : k \in Cuts(i, j, {"*", "/"})}
    BY DEF ProductMeans
  <1>2. \A k : v \in Of(k) <=>
           \E a \in m[Span("product", i, k)], b \in m[Span("factor", k + 1, j)] :
              (Kind(k) = "/" => b # 0) /\ v = Multiplied(Kind(k), a, b)
    OBVIOUS
  <1> HIDE DEF Of
  <1> QED
    BY <1>1, <1>2

LEMMA InSum ==
    ASSUME NEW m, NEW i, NEW j, NEW v
    PROVE  v \in SumMeans(m, i, j) <=>
              \/ v \in ProductMeans(m, i, j)
              \/ \E k \in Cuts(i, j, {"+", "-"}) :
                    \E a \in m[Span("sum", i, k)], b \in m[Span("product", k + 1, j)] :
                        v = Added(Kind(k), a, b)
  <1> DEFINE Of(k) == {Added(Kind(k), a, b) :
                          a \in m[Span("sum", i, k)], b \in m[Span("product", k + 1, j)]}
  <1>1. SumMeans(m, i, j) = ProductMeans(m, i, j) \cup UNION {Of(k) : k \in Cuts(i, j, {"+", "-"})}
    BY DEF SumMeans
  <1>2. \A k : v \in Of(k) <=>
           \E a \in m[Span("sum", i, k)], b \in m[Span("product", k + 1, j)] :
              v = Added(Kind(k), a, b)
    OBVIOUS
  <1> HIDE DEF Of
  <1> QED
    BY <1>1, <1>2

\* Facts of spans.
LEMMA IsSpan ==
    ASSUME FormulaTypeOK, NEW i \in 1..Len(formula), NEW j \in 2..(Len(formula) + 1), i < j,
           NEW rule \in {"factor", "product", "sum"}
    PROVE  /\ Span(rule, i, j) \in Spans
           /\ Span(rule, i, j).rule = rule
           /\ Span(rule, i, j).from = i
           /\ Span(rule, i, j).to = j
  BY DEF Span, Spans

LEMMA SpanFields ==
    ASSUME FormulaTypeOK, NEW s \in Spans
    PROVE  /\ s.rule \in {"factor", "product", "sum"}
           /\ s.from \in 1..Len(formula) /\ s.to \in 2..(Len(formula) + 1) /\ s.from < s.to
           /\ s.from \in Nat /\ s.to \in Nat /\ s.to - s.from \in 1..Len(formula)
  BY DEF Spans, FormulaTypeOK

\* What tokens mean depends on what fewer of them mean.
SameBelow(m, l, n) == \A s \in Spans : s.to - s.from < n => m[s] = l[s]

LEMMA MeaningsAgree ==
    ASSUME FormulaTypeOK, NEW m, NEW l, NEW s \in Spans, SameBelow(m, l, s.to - s.from)
    PROVE  Meanings(m, s) = Meanings(l, s)
  <1> DEFINE i == s.from
             j == s.to
  <1>0. /\ i \in 1..Len(formula) /\ j \in 2..(Len(formula) + 1) /\ i < j
        /\ i \in Nat /\ j \in Nat /\ Len(formula) \in Nat
    BY SpanFields DEF FormulaTypeOK
  <1>1. ASSUME NEW x \in 1..Len(formula), NEW y \in 2..(Len(formula) + 1), x < y, y - x < j - i,
               NEW rule \in {"factor", "product", "sum"}
        PROVE  m[Span(rule, x, y)] = l[Span(rule, x, y)]
    BY <1>1, IsSpan DEF SameBelow
  <1>2. s.rule \in {"factor", "product", "sum"}
    BY SpanFields
  <1> HIDE DEF i, j
  <1>3. FactorMeans(m, i, j) = FactorMeans(l, i, j)
    <2>1. CASE j = i + 1
      BY <2>1 DEF FactorMeans
    <2>2. CASE j # i + 1
      <3>1. i + 1 \in 1..Len(formula) /\ i + 1 < j /\ j - (i + 1) < j - i
        BY <1>0, <2>2
      <3>2. m[Span("factor", i + 1, j)] = l[Span("factor", i + 1, j)]
        BY <1>0, <1>1, <3>1
      <3>3. i + 1 < j - 1 => m[Span("sum", i + 1, j - 1)] = l[Span("sum", i + 1, j - 1)]
        <4> SUFFICES ASSUME i + 1 < j - 1
                     PROVE  m[Span("sum", i + 1, j - 1)] = l[Span("sum", i + 1, j - 1)]
          OBVIOUS
        <4>1. j - 1 \in 2..(Len(formula) + 1) /\ (j - 1) - (i + 1) < j - i
          BY <1>0, <3>1
        <4> QED
          BY <1>1, <3>1, <4>1
      <3> QED
        BY <2>2, <3>2, <3>3, Zenon DEF FactorMeans
    <2> QED
      BY <2>1, <2>2
  <1>4. ASSUME NEW k \in (i + 1)..(j - 2), NEW rule \in {"factor", "product", "sum"}
        PROVE  /\ m[Span(rule, i, k)] = l[Span(rule, i, k)]
               /\ m[Span(rule, k + 1, j)] = l[Span(rule, k + 1, j)]
    <2>1. k \in 2..(Len(formula) + 1) /\ i < k /\ k - i < j - i
      BY <1>0
    <2>2. k + 1 \in 1..Len(formula) /\ k + 1 < j /\ j - (k + 1) < j - i
      BY <1>0
    <2> QED
      BY <1>0, <1>1, <2>1, <2>2
  <1>5. ASSUME NEW signs, NEW k \in Cuts(i, j, signs), NEW rule \in {"factor", "product", "sum"}
        PROVE  /\ m[Span(rule, i, k)] = l[Span(rule, i, k)]
               /\ m[Span(rule, k + 1, j)] = l[Span(rule, k + 1, j)]
    BY <1>4, Zenon DEF Cuts
  <1>6. ProductMeans(m, i, j) = ProductMeans(l, i, j)
    <2>1. ASSUME NEW v PROVE v \in ProductMeans(m, i, j) <=> v \in ProductMeans(l, i, j)
      <3>1. \A k \in Cuts(i, j, {"*", "/"}) :
               /\ m[Span("product", i, k)] = l[Span("product", i, k)]
               /\ m[Span("factor", k + 1, j)] = l[Span("factor", k + 1, j)]
        BY <1>5
      <3>2. v \in ProductMeans(m, i, j) <=>
               \/ v \in FactorMeans(m, i, j)
               \/ \E k \in Cuts(i, j, {"*", "/"}) :
                     \E a \in m[Span("product", i, k)], b \in m[Span("factor", k + 1, j)] :
                         (Kind(k) = "/" => b # 0) /\ v = Multiplied(Kind(k), a, b)
        BY InProduct
      <3>3. v \in ProductMeans(l, i, j) <=>
               \/ v \in FactorMeans(l, i, j)
               \/ \E k \in Cuts(i, j, {"*", "/"}) :
                     \E a \in l[Span("product", i, k)], b \in l[Span("factor", k + 1, j)] :
                         (Kind(k) = "/" => b # 0) /\ v = Multiplied(Kind(k), a, b)
        BY InProduct
      <3> QED
        BY <1>3, <3>1, <3>2, <3>3
    <2> QED
      BY <2>1
  <1>7. SumMeans(m, i, j) = SumMeans(l, i, j)
    <2>1. ASSUME NEW v PROVE v \in SumMeans(m, i, j) <=> v \in SumMeans(l, i, j)
      <3>1. \A k \in Cuts(i, j, {"+", "-"}) :
               /\ m[Span("sum", i, k)] = l[Span("sum", i, k)]
               /\ m[Span("product", k + 1, j)] = l[Span("product", k + 1, j)]
        BY <1>5
      <3>2. v \in SumMeans(m, i, j) <=>
               \/ v \in ProductMeans(m, i, j)
               \/ \E k \in Cuts(i, j, {"+", "-"}) :
                     \E a \in m[Span("sum", i, k)], b \in m[Span("product", k + 1, j)] :
                         v = Added(Kind(k), a, b)
        BY InSum
      <3>3. v \in SumMeans(l, i, j) <=>
               \/ v \in ProductMeans(l, i, j)
               \/ \E k \in Cuts(i, j, {"+", "-"}) :
                     \E a \in l[Span("sum", i, k)], b \in l[Span("product", k + 1, j)] :
                         v = Added(Kind(k), a, b)
        BY InSum
      <3> QED
        BY <1>6, <3>1, <3>2, <3>3
    <2> QED
      BY <2>1
  <1> QED
    BY <1>2, <1>3, <1>6, <1>7 DEF Meanings, i, j

\* There is a table of what all spans of tokens mean.
LEMMA MeaningsExist ==
    ASSUME FormulaTypeOK
    PROVE  \E m : m = [s \in Spans |-> Meanings(m, s)]
  <1> DEFINE Good(m, n) == \A s \in Spans : s.to - s.from < n => m[s] = Meanings(m, s)
             S          == {n \in Nat : \E m : Good(m, n)}
  <1>0. Len(formula) \in Nat
    BY DEF FormulaTypeOK
  <1>1. 0 \in S
    <2>1. Good(0, 0)
      BY SpanFields
    <2> QED
      BY <2>1
  <1>2. ASSUME NEW n \in Nat, n \in S PROVE \E m : Good(m, n + 1)
    <2>1. PICK l : Good(l, n)
      BY <1>2
    <2> DEFINE m == [s \in Spans |-> IF s.to - s.from = n THEN Meanings(l, s) ELSE l[s]]
    <2>2. ASSUME NEW s \in Spans, s.to - s.from < n + 1 PROVE m[s] = Meanings(m, s)
      <3>1. s.to - s.from \in Nat /\ (s.to - s.from = n \/ s.to - s.from < n)
        BY <2>2, SpanFields
      <3>2. SameBelow(l, m, s.to - s.from)
        <4> SUFFICES ASSUME NEW t \in Spans, t.to - t.from < s.to - s.from PROVE l[t] = m[t]
          BY Zenon DEF SameBelow
        <4>1. t.to - t.from # n
          BY <3>1, SpanFields
        <4> QED
          BY <4>1
      <3>3. m[s] = Meanings(l, s)
        BY <2>1, <3>1
      <3> HIDE DEF m
      <3>4. Meanings(l, s) = Meanings(m, s)
        BY <3>2, MeaningsAgree
      <3> QED
        BY <3>3, <3>4
    <2> HIDE DEF m
    <2>3. Good(m, n + 1)
      BY <2>2
    <2> QED
      BY <2>3
  <1>3. ASSUME NEW n \in Nat, \A k \in 0..(n - 1) : k \in S PROVE n \in S
    <2>1. CASE n = 0
      BY <1>1, <2>1
    <2>2. CASE n # 0
      <3> HIDE DEF Good
      <3> DEFINE k == n - 1
      <3>1. k \in Nat /\ k \in S /\ k + 1 = n
        BY <1>3, <2>2
      <3> HIDE DEF k
      <3>2. \E m : Good(m, n)
        BY <1>2, <3>1
      <3> QED
        BY <3>2
    <2> QED
      BY <2>1, <2>2
  <1>4. Len(formula) + 1 \in S
    <2> HIDE DEF S
    <2>1. S \in SUBSET Nat
      BY DEF S
    <2>2. \A n \in Nat : (\A k \in 0..(n - 1) : k \in S) => n \in S
      BY <1>3
    <2>3. S = Nat
      BY <2>1, <2>2, InductionOnSet, Zenon
    <2> QED
      BY <1>0, <2>3
  <1>5. PICK l : Good(l, Len(formula) + 1)
    <2> HIDE DEF Good
    <2> QED
      BY <1>4
  <1> DEFINE m == [s \in Spans |-> l[s]]
  <1>6. ASSUME NEW s \in Spans PROVE l[s] = Meanings(l, s) /\ Meanings(l, s) = Meanings(m, s)
    <2>1. s.to - s.from < Len(formula) + 1
      BY <1>0, SpanFields
    <2>2. SameBelow(l, m, s.to - s.from)
      BY Zenon DEF SameBelow
    <2> HIDE DEF m
    <2> QED
      BY <1>5, <2>1, <2>2, MeaningsAgree
  <1>7. m = [s \in Spans |-> Meanings(m, s)]
    <2> SUFFICES ASSUME NEW s \in Spans PROVE l[s] = Meanings(m, s)
      BY Zenon
    <2> QED
      BY <1>6
  <1> HIDE DEF m
  <1> QED
    BY <1>7

\* The equation of the meanings.
LEMMA Means ==
    ASSUME FormulaTypeOK, NEW i \in 1..Len(formula), NEW j \in 2..(Len(formula) + 1), i < j
    PROVE  /\ means[Span("factor", i, j)] = FactorMeans(means, i, j)
           /\ means[Span("product", i, j)] = ProductMeans(means, i, j)
           /\ means[Span("sum", i, j)] = SumMeans(means, i, j)
  <1>1. means = [s \in Spans |-> Meanings(means, s)]
    BY MeaningsExist, Zenon DEF means
  <1> HIDE DEF means
  <1>2. \A s \in Spans : means[s] = Meanings(means, s)
    BY <1>1, Zenon
  <1> QED
    BY <1>2, IsSpan DEF Meanings

-----------------------------------------------------------------------------
(* The parser is complete and sound.                                       *)

\* What a factor and the two loops return, by their definitions.
LEMMA Returns ==
    ASSUME FormulaTypeOK, NEW i \in 1..(Len(formula) + 1), NEW v \in Int
    PROVE  /\ parse[Factor(i)] = FactorAt(parse, i)
           /\ MoreFactors(parse, Read(v, i)) = FactorsAfter(parse, Read(v, i))
           /\ MoreTerms(parse, Read(v, i)) = TermsAfter(parse, Read(v, i))
  <1>1. Read(v, i) # Error
    BY IsNoError
  <1>2. /\ Factor(i) \in Calls /\ Factor(i).cur = i /\ Factor(i).rule = "factor"
        /\ Factors(Read(v, i)) \in Calls /\ Factors(Read(v, i)).cur = i
        /\ Factors(Read(v, i)).rule = "factors" /\ Factors(Read(v, i)).v = v
        /\ Terms(Read(v, i)) \in Calls /\ Terms(Read(v, i)).cur = i
        /\ Terms(Read(v, i)).rule = "terms" /\ Terms(Read(v, i)).v = v
    BY IsCall
  <1>3. /\ parse[Factor(i)] = Result(parse, Factor(i))
        /\ parse[Factors(Read(v, i))] = Result(parse, Factors(Read(v, i)))
        /\ parse[Terms(Read(v, i))] = Result(parse, Terms(Read(v, i)))
    BY <1>2, Parse
  <1>4. /\ Result(parse, Factor(i)) = FactorAt(parse, i)
        /\ Result(parse, Factors(Read(v, i))) = FactorsAfter(parse, Read(v, i))
        /\ Result(parse, Terms(Read(v, i))) = TermsAfter(parse, Read(v, i))
    BY <1>2 DEF Result
  <1> QED
    BY <1>1, <1>3, <1>4 DEF MoreFactors, MoreTerms

\* A loop ends at a token it does not continue with.
LEMMA LoopEnds ==
    ASSUME FormulaTypeOK, NEW i \in 1..(Len(formula) + 1), NEW v \in Int
    PROVE  /\ Kind(i) \notin {"*", "/"} => MoreFactors(parse, Read(v, i)) = Read(v, i)
           /\ Kind(i) \notin {"+", "-"} => MoreTerms(parse, Read(v, i)) = Read(v, i)
  BY Returns, ReadFields DEF FactorsAfter, TermsAfter

\* What tokens mean is what the parser makes of them.
CompleteAt(i, j) ==
    /\ \A v \in means[Span("factor", i, j)] : v \in Int /\ parse[Factor(i)] = Read(v, j)
    /\ \A v \in means[Span("product", i, j)] :
          v \in Int /\ ParseTerm(parse, i) = MoreFactors(parse, Read(v, j))
    /\ \A v \in means[Span("sum", i, j)] :
          /\ v \in Int
          /\ Kind(j) \notin {"*", "/"} => ParseExpr(parse, i) = MoreTerms(parse, Read(v, j))

\* By induction on the number of tokens: the number and the sign of a factor, what is in
\* parentheses, and the last operator of a product or a sum.
LEMMA CompleteStep ==
    ASSUME FormulaTypeOK, NEW i \in 1..Len(formula), NEW j \in 2..(Len(formula) + 1), i < j,
           \A x \in 1..Len(formula), y \in 2..(Len(formula) + 1) :
              x < y /\ y - x < j - i => CompleteAt(x, y)
    PROVE  CompleteAt(i, j)
  <1>0. Len(formula) \in Nat /\ i \in Nat /\ j \in Nat /\ i \in 1..(Len(formula) + 1)
        /\ j \in 1..(Len(formula) + 1)
    BY DEF FormulaTypeOK
  <1>1. ASSUME NEW v \in means[Span("factor", i, j)]
        PROVE  v \in Int /\ parse[Factor(i)] = Read(v, j)
    <2>1. v \in FactorMeans(means, i, j) /\ parse[Factor(i)] = FactorAt(parse, i)
      BY <1>0, <1>1, Means, Returns
    <2>2. CASE j = i + 1
      <3>1. CASE Kind(i) = "num"
        BY <1>0, <2>1, <2>2, <3>1, TokenTypes DEF FactorMeans, FactorAt
      <3>2. CASE Kind(i) = "ident" /\ formula[i].id \in DOMAIN Params
        BY <1>0, <2>1, <2>2, <3>2, TokenTypes DEF FactorMeans, FactorAt
      <3> QED
        BY <2>1, <2>2, <3>1, <3>2 DEF FactorMeans
    <2>3. CASE j # i + 1 /\ Kind(i) = "-"
      <3>1. PICK a \in means[Span("factor", i + 1, j)] : v = Wrapped(-a)
        BY <2>1, <2>3 DEF FactorMeans
      <3>2. CompleteAt(i + 1, j)
        BY <1>0, <2>3
      <3>3. a \in Int /\ parse[Factor(i + 1)] = Read(a, j)
        BY <3>1, <3>2 DEF CompleteAt
      <3>4. -a \in Int /\ Read(a, j) # Error /\ Read(a, j).v = a /\ Read(a, j).cur = j
        BY <1>0, <3>3, IsNoError, ReadFields
      <3>5. FactorAt(parse, i) = Read(Wrapped(-a), j)
        BY <2>3, <3>3, <3>4 DEF FactorAt
      <3> QED
        BY <2>1, <3>1, <3>4, <3>5, WrappedType
    <2>4. CASE j # i + 1 /\ Kind(i) # "-"
      <3>1. Kind(i) = "(" /\ Kind(j - 1) = ")" /\ i + 1 < j - 1 /\ v \in means[Span("sum", i + 1, j - 1)]
        BY <2>1, <2>4 DEF FactorMeans
      <3>2. CompleteAt(i + 1, j - 1) /\ j - 1 \in 1..(Len(formula) + 1)
        BY <1>0, <3>1
      <3>3. v \in Int /\ ParseExpr(parse, i + 1) = MoreTerms(parse, Read(v, j - 1))
        BY <3>1, <3>2 DEF CompleteAt
      <3>4. ParseExpr(parse, i + 1) = Read(v, j - 1)
        BY <3>1, <3>2, <3>3, LoopEnds
      <3>5. Read(v, j - 1) # Error /\ Read(v, j - 1).v = v /\ Read(v, j - 1).cur = j - 1
        BY <1>0, <3>1, IsNoError, ReadFields
      <3>6. FactorAt(parse, i) = Read(v, j - 1 + 1)
        BY <3>1, <3>4, <3>5 DEF FactorAt
      <3> QED
        BY <1>0, <2>1, <3>3, <3>6
    <2> QED
      BY <2>2, <2>3, <2>4
  <1>2. ASSUME NEW v \in means[Span("product", i, j)]
        PROVE  v \in Int /\ ParseTerm(parse, i) = MoreFactors(parse, Read(v, j))
    <2>1. CASE v \in means[Span("factor", i, j)]
      BY <1>1, <2>1 DEF ParseTerm
    <2>2. CASE v \notin means[Span("factor", i, j)]
      <3>1. v \in ProductMeans(means, i, j) /\ v \notin FactorMeans(means, i, j)
        BY <1>2, <2>2, Means
      <3>2. PICK k \in Cuts(i, j, {"*", "/"}) :
               \E a \in means[Span("product", i, k)], b \in means[Span("factor", k + 1, j)] :
                  (Kind(k) = "/" => b # 0) /\ v = Multiplied(Kind(k), a, b)
        BY <3>1, InProduct
      <3>3. PICK a \in means[Span("product", i, k)], b \in means[Span("factor", k + 1, j)] :
                  (Kind(k) = "/" => b # 0) /\ v = Multiplied(Kind(k), a, b)
        BY <3>2
      <3>4. k \in (i + 1)..(j - 2) /\ Kind(k) \in {"*", "/"}
        BY Zenon DEF Cuts
      <3>5. CompleteAt(i, k) /\ CompleteAt(k + 1, j) /\ k \in 1..(Len(formula) + 1)
        BY <1>0, <3>4
      <3>6. /\ a \in Int /\ ParseTerm(parse, i) = MoreFactors(parse, Read(a, k))
            /\ b \in Int /\ parse[Factor(k + 1)] = Read(b, j)
        BY <3>3, <3>5, Zenon DEF CompleteAt
      <3>7. /\ Read(b, j) # Error /\ Read(b, j).v = b /\ Read(b, j).cur = j
            /\ Read(a, k).v = a /\ Read(a, k).cur = k
        BY <1>0, IsNoError, ReadFields
      <3>8. FactorsAfter(parse, Read(a, k)) = MoreFactors(parse, Read(Multiplied(Kind(k), a, b), j))
        BY <3>3, <3>4, <3>6, <3>7 DEF FactorsAfter
      <3>9. MoreFactors(parse, Read(a, k)) = FactorsAfter(parse, Read(a, k))
        BY <3>5, <3>6, Returns
      <3>10. Multiplied(Kind(k), a, b) \in Int
        BY <3>3, <3>4, <3>6, ArithmeticType
      <3> QED
        BY <3>3, <3>6, <3>8, <3>9, <3>10
    <2> QED
      BY <2>1, <2>2
  <1>3. ASSUME NEW v \in means[Span("sum", i, j)]
        PROVE  /\ v \in Int
               /\ Kind(j) \notin {"*", "/"} => ParseExpr(parse, i) = MoreTerms(parse, Read(v, j))
    <2>1. CASE v \in means[Span("product", i, j)]
      <3>1. v \in Int /\ ParseTerm(parse, i) = MoreFactors(parse, Read(v, j))
        BY <1>2, <2>1
      <3>2. Kind(j) \notin {"*", "/"} => ParseTerm(parse, i) = Read(v, j)
        BY <1>0, <3>1, LoopEnds
      <3> QED
        BY <3>1, <3>2 DEF ParseExpr
    <2>2. CASE v \notin means[Span("product", i, j)]
      <3>1. v \in SumMeans(means, i, j) /\ v \notin ProductMeans(means, i, j)
        BY <1>3, <2>2, Means
      <3>2. PICK k \in Cuts(i, j, {"+", "-"}) :
               \E a \in means[Span("sum", i, k)], b \in means[Span("product", k + 1, j)] :
                  v = Added(Kind(k), a, b)
        BY <3>1, InSum
      <3>3. PICK a \in means[Span("sum", i, k)], b \in means[Span("product", k + 1, j)] :
                  v = Added(Kind(k), a, b)
        BY <3>2
      <3>4. k \in (i + 1)..(j - 2) /\ Kind(k) \in {"+", "-"} /\ Kind(k) \notin {"*", "/"}
        <4>1. k \in (i + 1)..(j - 2) /\ Kind(k) \in {"+", "-"}
          BY Zenon DEF Cuts
        <4> QED
          BY <4>1
      <3>5. CompleteAt(i, k) /\ CompleteAt(k + 1, j) /\ k \in 1..(Len(formula) + 1)
        BY <1>0, <3>4
      <3>6. /\ a \in Int /\ ParseExpr(parse, i) = MoreTerms(parse, Read(a, k))
            /\ b \in Int /\ ParseTerm(parse, k + 1) = MoreFactors(parse, Read(b, j))
        BY <3>3, <3>4, <3>5, Zenon DEF CompleteAt
      <3>7. /\ Read(b, j) # Error /\ Read(b, j).v = b /\ Read(b, j).cur = j
            /\ Read(a, k).v = a /\ Read(a, k).cur = k
        BY <1>0, IsNoError, ReadFields
      <3>8. ASSUME Kind(j) \notin {"*", "/"}
            PROVE  TermsAfter(parse, Read(a, k)) = MoreTerms(parse, Read(Added(Kind(k), a, b), j))
        <4>1. ParseTerm(parse, k + 1) = Read(b, j)
          BY <1>0, <3>6, <3>8, LoopEnds
        <4> QED
          BY <3>4, <3>7, <4>1 DEF TermsAfter
      <3>9. MoreTerms(parse, Read(a, k)) = TermsAfter(parse, Read(a, k))
        BY <3>5, <3>6, Returns
      <3>10. Added(Kind(k), a, b) \in Int
        BY <3>6, ArithmeticType
      <3> QED
        BY <3>3, <3>6, <3>8, <3>9, <3>10
    <2> QED
      BY <2>1, <2>2
  <1> QED
    BY <1>1, <1>2, <1>3, Zenon DEF CompleteAt

LEMMA ParserComplete ==
    ASSUME FormulaTypeOK, NEW i \in 1..Len(formula), NEW j \in 2..(Len(formula) + 1), i < j
    PROVE  CompleteAt(i, j)
  <1> DEFINE Good(n) == \A x \in 1..Len(formula), y \in 2..(Len(formula) + 1) :
                           x < y /\ y - x = n => CompleteAt(x, y)
             S == {n \in Nat : Good(n)}
  <1>0. Len(formula) \in Nat
    BY DEF FormulaTypeOK
  <1>1. ASSUME NEW n \in Nat, \A k \in 0..(n - 1) : k \in S PROVE n \in S
    <2> SUFFICES ASSUME NEW x \in 1..Len(formula), NEW y \in 2..(Len(formula) + 1),
                        x < y, y - x = n
                 PROVE  CompleteAt(x, y)
      OBVIOUS
    <2>1. ASSUME NEW a \in 1..Len(formula), NEW b \in 2..(Len(formula) + 1), a < b, b - a < y - x
          PROVE  CompleteAt(a, b)
      <3>1. b - a \in 0..(n - 1)
        BY <1>0, <2>1
      <3> QED
        BY <1>1, <2>1, <3>1
    <2> QED
      BY <2>1, CompleteStep
  <1>2. S = Nat
    <2> HIDE DEF S
    <2>1. S \in SUBSET Nat
      BY DEF S
    <2>2. \A n \in Nat : (\A k \in 0..(n - 1) : k \in S) => n \in S
      BY <1>1
    <2> QED
      BY <2>1, <2>2, InductionOnSet, Zenon
  <1>3. j - i \in Nat
    BY <1>0
  <1> QED
    BY <1>2, <1>3

\* What the parser returns is what tokens mean: a factor, or the product or sum that began
\* at h, which the loop that is at i continues.
SoundAt(i) ==
    /\ parse[Factor(i)] # Error =>
          parse[Factor(i)].v \in means[Span("factor", i, parse[Factor(i)].cur)]
    /\ \A h \in 1..(i - 1), v \in Int :
          /\ v \in means[Span("product", h, i)] /\ MoreFactors(parse, Read(v, i)) # Error =>
                MoreFactors(parse, Read(v, i)).v \in
                   means[Span("product", h, MoreFactors(parse, Read(v, i)).cur)]
          /\ v \in means[Span("sum", h, i)] /\ MoreTerms(parse, Read(v, i)) # Error =>
                MoreTerms(parse, Read(v, i)).v \in
                   means[Span("sum", h, MoreTerms(parse, Read(v, i)).cur)]

\* Where the parser stands after a call from i.
LEMMA ParserTypes ==
    ASSUME FormulaTypeOK, NEW i \in 1..(Len(formula) + 1)
    PROVE  /\ parse[Factor(i)] \in Outcomes(i + 1)
           /\ ParseTerm(parse, i) \in Outcomes(i + 1)
           /\ ParseExpr(parse, i) \in Outcomes(i + 1)
           /\ \A v \in Int : /\ MoreFactors(parse, Read(v, i)) \in Outcomes(i)
                             /\ MoreTerms(parse, Read(v, i)) \in Outcomes(i)
  <1>1. i \in Nat /\ 1 \in Nat /\ 1 <= i /\ i # 0
    BY DEF FormulaTypeOK
  <1>2. TypedFrom(parse, i)
    BY <1>1, ParserTyped, TypedLater
  <1>3. \A v \in Int : Read(v, i) \in Outcomes(i)
    BY <1>1, IsOutcome
  <1> QED
    BY <1>1, <1>2, <1>3, ParseType, ContinueType

\* A factor is a product, a product is a sum.
LEMMA Wider ==
    ASSUME FormulaTypeOK, NEW i \in 1..Len(formula), NEW j \in 2..(Len(formula) + 1), i < j
    PROVE  /\ means[Span("factor", i, j)] \subseteq means[Span("product", i, j)]
           /\ means[Span("product", i, j)] \subseteq means[Span("sum", i, j)]
  BY Means DEF ProductMeans, SumMeans

\* A term and an expression from i on are sound if all that they call is.
LEMMA SoundParse ==
    ASSUME FormulaTypeOK, NEW i \in 1..Len(formula), \A k \in i..(Len(formula) + 1) : SoundAt(k)
    PROVE  /\ ParseTerm(parse, i) # Error =>
                 ParseTerm(parse, i).v \in means[Span("product", i, ParseTerm(parse, i).cur)]
           /\ ParseExpr(parse, i) # Error =>
                 ParseExpr(parse, i).v \in means[Span("sum", i, ParseExpr(parse, i).cur)]
  <1>0. Len(formula) \in Nat /\ i \in Nat /\ i \in 1..(Len(formula) + 1) /\ i + 1 \in Nat
    BY DEF FormulaTypeOK
  <1>1. ASSUME ParseTerm(parse, i) # Error
        PROVE  ParseTerm(parse, i).v \in means[Span("product", i, ParseTerm(parse, i).cur)]
    <2> DEFINE f == parse[Factor(i)]
    <2>1. f # Error /\ ParseTerm(parse, i) = MoreFactors(parse, f)
      BY <1>1 DEF ParseTerm, MoreFactors
    <2>2. /\ f.v \in Int /\ f.cur \in (i + 1)..(Len(formula) + 1) /\ f = Read(f.v, f.cur)
      BY <1>0, <2>1, ParserTypes, OutcomeFields
    <2>3. f.v \in means[Span("factor", i, f.cur)]
      BY <1>0, <2>1 DEF SoundAt
    <2> HIDE DEF f
    <2>4. f.v \in means[Span("product", i, f.cur)]
      BY <1>0, <2>2, <2>3, Wider
    <2>5. SoundAt(f.cur) /\ i \in 1..(f.cur - 1)
      BY <1>0, <2>2
    <2> QED
      BY <1>1, <2>1, <2>2, <2>4, <2>5 DEF SoundAt
  <1>2. ASSUME ParseExpr(parse, i) # Error
        PROVE  ParseExpr(parse, i).v \in means[Span("sum", i, ParseExpr(parse, i).cur)]
    <2> DEFINE t == ParseTerm(parse, i)
    <2>1. t # Error /\ ParseExpr(parse, i) = MoreTerms(parse, t)
      BY <1>2 DEF ParseExpr, MoreTerms
    <2>2. /\ t.v \in Int /\ t.cur \in (i + 1)..(Len(formula) + 1) /\ t = Read(t.v, t.cur)
      BY <1>0, <2>1, ParserTypes, OutcomeFields
    <2>3. t.v \in means[Span("product", i, t.cur)]
      BY <1>1, <2>1
    <2> HIDE DEF t
    <2>4. t.v \in means[Span("sum", i, t.cur)]
      BY <1>0, <2>2, <2>3, Wider
    <2>5. SoundAt(t.cur) /\ i \in 1..(t.cur - 1)
      BY <1>0, <2>2
    <2> QED
      BY <1>2, <2>1, <2>2, <2>4, <2>5 DEF SoundAt
  <1> QED
    BY <1>1, <1>2

\* By induction on the number of tokens left: what a call at i returns, it has from calls
\* behind i.
LEMMA SoundStep ==
    ASSUME FormulaTypeOK, NEW i \in 1..(Len(formula) + 1),
           \A k \in (i + 1)..(Len(formula) + 1) : SoundAt(k)
    PROVE  SoundAt(i)
  <1>0. Len(formula) \in Nat /\ i \in Nat /\ i + 1 \in Nat
    BY DEF FormulaTypeOK
  <1>1. ASSUME parse[Factor(i)] # Error
        PROVE  parse[Factor(i)].v \in means[Span("factor", i, parse[Factor(i)].cur)]
    <2> DEFINE f == parse[Factor(i)]
    <2>1. f = FactorAt(parse, i)
      BY Returns, 0 \in Int
    <2>2. i \in 1..Len(formula)
      <3>1. Kind(i) # "eof"
        BY <1>1, <2>1 DEF FactorAt
      <3> QED
        BY <1>0, <3>1, TokenTypes
    <2>3. f.v \in Int /\ f.cur \in (i + 1)..(Len(formula) + 1)
      BY <1>0, <1>1, ParserTypes, OutcomeFields
    <2> HIDE DEF f
    <2>4. f # Error
      BY <1>1 DEF f
    <2>5. f.v \in FactorMeans(means, i, f.cur)
      <3>1. CASE Kind(i) = "num"
        BY <1>0, <2>1, <3>1, ReadFields DEF FactorAt, FactorMeans
      <3>2. CASE Kind(i) = "ident"
        BY <1>0, <2>1, <2>4, <3>2, ReadFields DEF FactorAt, FactorMeans
      <3>3. CASE Kind(i) = "("
        <4> DEFINE e == ParseExpr(parse, i + 1)
        <4>1. e # Error /\ Kind(e.cur) = ")" /\ f = Read(e.v, e.cur + 1)
          BY <2>1, <2>4, <3>3 DEF FactorAt
        <4>2. i + 1 \in 1..Len(formula)
          <5>1. CASE i = Len(formula)
            <6>1. Kind(i + 1) = "eof"
              BY <1>0, <5>1 DEF Kind
            <6>2. FactorAt(parse, i + 1) = Error
              BY <6>1 DEF FactorAt
            <6>3. parse[Factor(i + 1)] = Error
              BY <1>0, <5>1, <6>2, Returns, 0 \in Int
            <6> QED
              BY <4>1, <6>3 DEF ParseExpr, ParseTerm, MoreFactors, MoreTerms
          <5> QED
            BY <1>0, <2>2, <5>1
        <4>3. e.v \in Int /\ e.cur \in (i + 2)..(Len(formula) + 1)
          BY <1>0, <4>1, <4>2, ParserTypes, OutcomeFields
        <4>4. e.v \in means[Span("sum", i + 1, e.cur)]
          BY <4>1, <4>2, SoundParse
        <4> HIDE DEF e
        <4>5. f.v = e.v /\ f.cur = e.cur + 1 /\ f.cur - 1 = e.cur /\ f.cur # i + 1 /\ i + 1 < e.cur
          BY <1>0, <4>1, <4>3, ReadFields
        <4> QED
          BY <3>3, <4>1, <4>4, <4>5 DEF FactorMeans
      <3>4. CASE Kind(i) = "-"
        <4> DEFINE g == parse[Factor(i + 1)]
        <4>1. g # Error /\ f = Read(Wrapped(-g.v), g.cur)
          BY <2>1, <2>4, <3>4 DEF FactorAt
        <4>2. i + 1 \in 1..(Len(formula) + 1)
          BY <1>0, <2>2
        <4>3. g.v \in means[Span("factor", i + 1, g.cur)]
          BY <4>1, <4>2 DEF SoundAt
        <4>4. g.cur \in (i + 2)..(Len(formula) + 1)
          BY <1>0, <4>1, <4>2, ParserTypes, OutcomeFields
        <4> HIDE DEF g
        <4>5. f.v = Wrapped(-g.v) /\ f.cur = g.cur /\ f.cur # i + 1
          BY <1>0, <4>1, <4>4, ReadFields
        <4> QED
          BY <3>4, <4>3, <4>5 DEF FactorMeans
      <3> QED
        BY <2>1, <2>4, <3>1, <3>2, <3>3, <3>4 DEF FactorAt
    <2>6. i < f.cur /\ f.cur \in 2..(Len(formula) + 1)
      BY <1>0, <2>2, <2>3
    <2> QED
      BY <2>2, <2>5, <2>6, Means DEF f
  <1>2. ASSUME NEW h \in 1..(i - 1), NEW v \in Int, v \in means[Span("product", h, i)],
               MoreFactors(parse, Read(v, i)) # Error
        PROVE  MoreFactors(parse, Read(v, i)).v \in
                  means[Span("product", h, MoreFactors(parse, Read(v, i)).cur)]
    <2>1. MoreFactors(parse, Read(v, i)) = FactorsAfter(parse, Read(v, i))
      BY Returns
    <2>2. CASE Kind(i) \notin {"*", "/"}
      BY <1>2, <2>2, LoopEnds, ReadFields
    <2>3. CASE Kind(i) \in {"*", "/"}
      <3> DEFINE g == parse[Factor(i + 1)]
                 w == Multiplied(Kind(i), v, g.v)
      <3>1. i \in 1..Len(formula) /\ i + 1 \in 1..(Len(formula) + 1)
        BY <1>0, <2>3, TokenTypes
      <3>2. /\ g # Error /\ ~(Kind(i) = "/" /\ g.v = 0)
            /\ MoreFactors(parse, Read(v, i)) = MoreFactors(parse, Read(w, g.cur))
        BY <1>2, <2>1, <2>3, ReadFields DEF FactorsAfter
      <3>3. g.v \in Int /\ g.cur \in (i + 2)..(Len(formula) + 1)
        <4>1. g \in Outcomes(i + 2) /\ i + 2 \in Nat
          BY <1>0, <3>1, ParserTypes
        <4> HIDE DEF g, w
        <4> QED
          BY <3>2, <4>1, OutcomeFields
      <3>4. g.v \in means[Span("factor", i + 1, g.cur)]
        BY <3>1, <3>2 DEF SoundAt
      <3> HIDE DEF g
      <3>5. w \in Int
        BY <2>3, <3>2, <3>3, ArithmeticType
      <3>6. /\ h \in 1..Len(formula) /\ g.cur \in 2..(Len(formula) + 1) /\ h < g.cur
            /\ i \in (h + 1)..(g.cur - 2) /\ h \in 1..(g.cur - 1)
            /\ g.cur \in (i + 1)..(Len(formula) + 1)
        BY <1>0, <3>1, <3>3
      <3>7. i \in Cuts(h, g.cur, {"*", "/"})
        BY <2>3, <3>6 DEF Cuts
      <3>8. w \in ProductMeans(means, h, g.cur)
        <4>1. Kind(i) = "/" => g.v # 0
          BY <3>2
        <4> QED
          BY <1>2, <3>4, <3>7, <4>1, InProduct
      <3> HIDE DEF w
      <3>9. w \in means[Span("product", h, g.cur)]
        BY <3>6, <3>8, Means
      <3> QED
        BY <1>2, <3>2, <3>5, <3>6, <3>9 DEF SoundAt
    <2> QED
      BY <2>2, <2>3
  <1>3. ASSUME NEW h \in 1..(i - 1), NEW v \in Int, v \in means[Span("sum", h, i)],
               MoreTerms(parse, Read(v, i)) # Error
        PROVE  MoreTerms(parse, Read(v, i)).v \in
                  means[Span("sum", h, MoreTerms(parse, Read(v, i)).cur)]
    <2>1. MoreTerms(parse, Read(v, i)) = TermsAfter(parse, Read(v, i))
      BY Returns
    <2>2. CASE Kind(i) \notin {"+", "-"}
      BY <1>3, <2>2, LoopEnds, ReadFields
    <2>3. CASE Kind(i) \in {"+", "-"}
      <3> DEFINE g == ParseTerm(parse, i + 1)
                 w == Added(Kind(i), v, g.v)
      <3>1. i \in 1..Len(formula) /\ i + 1 \in 1..(Len(formula) + 1)
        BY <1>0, <2>3, TokenTypes
      <3>2. g # Error /\ MoreTerms(parse, Read(v, i)) = MoreTerms(parse, Read(w, g.cur))
        BY <1>3, <2>1, <2>3, ReadFields DEF TermsAfter
      <3>3. g.v \in Int /\ g.cur \in (i + 2)..(Len(formula) + 1)
        BY <1>0, <3>1, <3>2, ParserTypes, OutcomeFields
      <3>4. i + 1 \in 1..Len(formula)
        BY <1>0, <3>1, <3>3
      <3>5. g.v \in means[Span("product", i + 1, g.cur)]
        BY <3>2, <3>4, SoundParse
      <3> HIDE DEF g
      <3>6. w \in Int
        BY <3>3, ArithmeticType
      <3>7. /\ h \in 1..Len(formula) /\ g.cur \in 2..(Len(formula) + 1) /\ h < g.cur
            /\ i \in (h + 1)..(g.cur - 2) /\ h \in 1..(g.cur - 1)
            /\ g.cur \in (i + 1)..(Len(formula) + 1)
        BY <1>0, <3>1, <3>3
      <3>8. i \in Cuts(h, g.cur, {"+", "-"})
        BY <2>3, <3>7 DEF Cuts
      <3>9. w \in SumMeans(means, h, g.cur)
        BY <1>3, <3>5, <3>8, InSum
      <3> HIDE DEF w
      <3>10. w \in means[Span("sum", h, g.cur)]
        BY <3>7, <3>9, Means
      <3> QED
        BY <1>3, <3>2, <3>6, <3>7, <3>10 DEF SoundAt
    <2> QED
      BY <2>2, <2>3
  <1> QED
    BY <1>1, <1>2, <1>3, Zenon DEF SoundAt

LEMMA ParserSound == ASSUME FormulaTypeOK, NEW i \in 1..(Len(formula) + 1) PROVE SoundAt(i)
  <1> DEFINE S == {n \in Nat : n <= Len(formula) => SoundAt(Len(formula) + 1 - n)}
  <1>0. Len(formula) \in Nat
    BY DEF FormulaTypeOK
  <1>1. ASSUME NEW n \in Nat, \A k \in 0..(n - 1) : k \in S PROVE n \in S
    <2> SUFFICES ASSUME n <= Len(formula) PROVE SoundAt(Len(formula) + 1 - n)
      OBVIOUS
    <2> DEFINE x == Len(formula) + 1 - n
    <2>1. x \in 1..(Len(formula) + 1)
      BY <1>0
    <2>2. ASSUME NEW k \in (x + 1)..(Len(formula) + 1) PROVE SoundAt(k)
      <3> DEFINE l == Len(formula) + 1 - k
      <3>1. l \in 0..(n - 1) /\ l <= Len(formula) /\ Len(formula) + 1 - l = k
        BY <1>0
      <3> QED
        BY <1>1, <3>1
    <2> HIDE DEF x
    <2>3. SoundAt(x)
      BY <2>1, <2>2, SoundStep
    <2> QED
      BY <2>3 DEF x
  <1>2. S = Nat
    <2> HIDE DEF S
    <2>1. S \in SUBSET Nat
      BY DEF S
    <2>2. \A n \in Nat : (\A k \in 0..(n - 1) : k \in S) => n \in S
      BY <1>1
    <2> QED
      BY <2>1, <2>2, InductionOnSet, Zenon
  <1> DEFINE n == Len(formula) + 1 - i
  <1>3. n \in Nat /\ n <= Len(formula) /\ Len(formula) + 1 - n = i
    BY <1>0
  <1> QED
    BY <1>2, <1>3

\* The parser computes what a formula means, whatever its length and the numbers in it.
LEMMA EvalIsMeaning ==
    ASSUME FormulaTypeOK, formula # <<>>
    PROVE  EvalFormula = means[Span("sum", 1, Len(formula) + 1)]
  <1> DEFINE e == ParseExpr(parse, 1)
             end == Len(formula) + 1
  <1>0. /\ Len(formula) \in Nat /\ 1 \in 1..Len(formula) /\ end \in 2..(Len(formula) + 1)
        /\ 1 < end /\ end \in 1..(Len(formula) + 1)
    BY DEF FormulaTypeOK
  <1>1. ASSUME e # Error, e.cur = end PROVE e.v \in means[Span("sum", 1, end)]
    BY <1>0, <1>1, ParserSound, SoundParse
  <1>2. ASSUME NEW v \in means[Span("sum", 1, end)] PROVE e = Read(v, end)
    <2>1. Kind(end) = "eof"
      BY <1>0 DEF Kind
    <2>2. v \in Int /\ e = MoreTerms(parse, Read(v, end))
      BY <1>0, <1>2, <2>1, ParserComplete DEF CompleteAt
    <2> QED
      BY <1>0, <2>1, <2>2, LoopEnds
  <1>3. \A v : Read(v, end) # Error /\ Read(v, end).v = v /\ Read(v, end).cur = end
    BY <1>0, IsNoError, ReadFields
  <1>4. EvalFormula = IF e # Error /\ e.cur = end THEN {e.v} ELSE {}
    BY Zenon DEF EvalFormula
  <1> HIDE DEF e, end
  <1>5. EvalFormula = means[Span("sum", 1, end)]
    BY <1>1, <1>2, <1>3, <1>4
  <1> QED
    BY <1>5 DEF end

\* Every request whose rule has a formula is charged what the formula means by the grammar
\* of its comments, and at least one credit.
THEOREM ChargedByFormula == FormulaSpec => []ChargesWhatFormulaMeans
  <1>1. FormulaInit => FormulaTypeOK
    BY DEF FormulaInit, FormulaTypeOK
  <1>2. FormulaTypeOK /\ [FormulaNext]_formula => FormulaTypeOK'
    BY DEF FormulaTypeOK, FormulaNext, Write, Tokens, Signs
  <1>3. FormulaTypeOK => ChargesWhatFormulaMeans
    BY EvalIsMeaning, Zenon DEF ChargesWhatFormulaMeans, ComputeCost
  <1> QED
    BY <1>1, <1>2, <1>3, PTL DEF FormulaSpec
=============================================================================
