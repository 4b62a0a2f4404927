------------------------------ MODULE License ------------------------------
(***************************************************************************)
(* One licence, the devices bound to it, their client sessions and the     *)
(* device blacklist: internal/handler/client.go, client_session.go,        *)
(* license.go and device.go.                                               *)
(*                                                                         *)
(* Handlers of the administration read a row, decide, and write it back    *)
(* with Save, which writes every column of the copy and inserts the row    *)
(* again when it has been deleted meanwhile.  Activate works under a lock  *)
(* of the licence row; counters and sessions change by single UPDATEs.  A  *)
(* step is one transaction or one statement outside a transaction, except  *)
(* that Activate is split where it has read and not yet written, because   *)
(* it locks the licence and not the devices.                               *)
(*                                                                         *)
(* Time is left out: a check against expire_at may go either way.  Each    *)
(* machine runs one request of the session protocol at a time and, when    *)
(* Reports is TRUE, its heartbeat loop beside it.  Statements fail in      *)
(* Activate and in Unblacklist; not modelled is the ignored error of the   *)
(* UPDATE that revokes old sessions (issueClientSession).                  *)
(* MUTx definitions are plausible mistakes the properties must notice.     *)
(***************************************************************************)
EXTENDS Integers, FiniteSets

CONSTANTS
    Machines,     \* machine ids; a machine has at most one row per licence
    Operators,    \* administrators who act at the same time
    DeviceLimits, \* the values of max_devices an operator may enter
    UnbindLimit,  \* unbind_limit of the licence
    Reports,      \* TRUE: clients call Verify and Heartbeat
    Nobody,       \* the holder of a free row lock
    MaxUnbinds    \* bound: unbinds by clients

ASSUME NobodyAssumption  == Nobody \notin Machines
ASSUME LimitsAssumption  == DeviceLimits \subseteq Nat \ {0} /\ DeviceLimits # {}
ASSUME UnbindsAssumption == UnbindLimit \in Nat /\ MaxUnbinds \in Nat
ASSUME ReportsAssumption == Reports \in BOOLEAN

VARIABLES
    lic,       \* the row of licenses
    lock,      \* who holds its row lock
    dev,       \* the row of devices of each machine
    listed,    \* whether device_blacklist names the machine
    live,      \* number of client_sessions of the device that are not revoked
    client,    \* the request each machine is running
    reporter,  \* its Verify or Heartbeat request
    operator,  \* the request of each administrator
    unbinds,   \* unbinds by clients since the last reset of the counter
    revived,   \* history: devices that a report's Save brought back since the lock was taken
    mislaid    \* history: machines whose entry Unblacklist deleted without restoring the
               \* device, for an error or for the status it had read

vars == <<lic, lock, dev, listed, live, client, reporter, operator, unbinds, revived, mislaid>>

Statuses == {"pending", "active", "suspended", "revoked"}

LiveDevices == {m \in Machines : dev[m].row = "live"}

NoCopy  == [gone |-> TRUE, status |-> "pending", max |-> 0, used |-> 0]
Resting == [op |-> "idle", copy |-> NoCopy, machine |-> Nobody, was |-> "active",
            ids |-> {}]

Init ==
    /\ \E n \in DeviceLimits :
          lic = [gone |-> FALSE, status |-> "pending", max |-> n, used |-> 0]
    /\ lock     = Nobody
    /\ dev      = [m \in Machines |-> [row |-> "none", status |-> "active"]]
    /\ listed   = [m \in Machines |-> FALSE]
    /\ live     = [m \in Machines |-> 0]
    /\ client   = [m \in Machines |-> "idle"]
    /\ reporter = [m \in Machines |-> [pc |-> "idle", copy |-> NoCopy]]
    /\ operator = [o \in Operators |-> Resting]
    /\ unbinds  = 0
    /\ revived  = {}
    /\ mislaid  = {}

-----------------------------------------------------------------------------
(* What handlers share.                                                    *)

\* A statement that writes the licence row waits for its lock.
Unlocked == lock = Nobody

\* gorm's Save of a copy: all columns, and INSERT ... ON DUPLICATE KEY UPDATE
\* when the UPDATE found no row that is not deleted.
SaveLicense(copy) == Unlocked /\ lic' = [copy EXCEPT !.gone = FALSE]

\* loadActiveLicenseDeviceForApp; IsValid may also fail for the time.
ActiveDevice(m) ==
    /\ ~listed[m]
    /\ dev[m] = [row |-> "live", status |-> "active"]
    /\ ~lic.gone /\ lic.status = "active"

\* AuthenticateClientRequest.
Authenticated(m) ==
    /\ live[m] > 0
    /\ dev[m] = [row |-> "live", status |-> "active"]
    /\ ~listed[m]

MUTRevokeSessions(machines) == live' = live

\* revokeActiveClientSessionsForDevice(s).
RevokeSessions(machines) ==
    live' = [m \in Machines |-> IF m \in machines THEN 0 ELSE live[m]]

\* One session ends; those of the device may have been revoked before.
RevokeOne(m) == live' = [live EXCEPT ![m] = IF @ > 0 THEN @ - 1 ELSE 0]

Unbound(machines) ==
    dev' = [m \in Machines |-> IF m \in machines /\ dev[m].row = "live"
                               THEN [dev[m] EXCEPT !.row = "deleted"] ELSE dev[m]]

\* Save of a copy of the device that is active and not deleted.
SaveDevice(m) == dev' = [dev EXCEPT ![m] = [row |-> "live", status |-> "active"]]

ClientAt(m, pc) == client[m] = pc
ClientGo(m, pc) == client' = [client EXCEPT ![m] = pc]

-----------------------------------------------------------------------------
(* Activate.                                                               *)

\* The blacklist is looked up before the transaction.
Activate(m) ==
    /\ ClientAt(m, "idle") /\ ~listed[m]
    /\ ClientGo(m, "activate")
    /\ UNCHANGED <<lic, lock, dev, listed, live, reporter, operator, unbinds, revived, mislaid>>

\* A device that is bound already needs no room.
HasRoom(m) == dev[m].row = "live" \/ Cardinality(LiveDevices) < lic.max

MUTActivateReadsUnlocked(m) ==
    /\ ClientAt(m, "activate")
    /\ ~lic.gone /\ lic.status \in {"pending", "active"}
    /\ HasRoom(m) /\ dev[m].status # "blacklisted"
    /\ ClientGo(m, IF dev[m].row = "live" THEN "rebind" ELSE "bind")
    /\ UNCHANGED <<lic, lock, dev, listed, live, reporter, operator, unbinds, revived, mislaid>>

ActivateReads(m) ==
    /\ ClientAt(m, "activate") /\ Unlocked
    /\ ~lic.gone /\ lic.status \in {"pending", "active"}
    /\ HasRoom(m) /\ dev[m].status # "blacklisted"
    /\ lock' = m
    /\ ClientGo(m, IF dev[m].row = "live" THEN "rebind" ELSE "bind")
    /\ UNCHANGED <<lic, dev, listed, live, reporter, operator, unbinds, revived, mislaid>>

\* It will write the device: one that was bound, or one that was not.
Binding(m) == ClientAt(m, "bind") \/ ClientAt(m, "rebind")

\* Any refusal, also for the time, rolls back all that was written, the status
\* expired included.
ActivateRefused(m) ==
    /\ ClientAt(m, "activate") /\ Unlocked
    /\ ClientGo(m, "idle")
    /\ UNCHANGED <<lic, lock, dev, listed, live, reporter, operator, unbinds, revived, mislaid>>

\* A pending licence starts; the device is created, updated or restored by its
\* primary key (updateClientDeviceForActivation), whatever has become of its row
\* since it was read.
ActivateCommits(m) ==
    /\ Binding(m)
    /\ lic' = [lic EXCEPT !.status = "active"]
    /\ SaveDevice(m)
    /\ lock' = Nobody /\ revived' = {}
    /\ ClientGo(m, "supersede")
    /\ UNCHANGED <<listed, live, reporter, operator, unbinds, mislaid>>

ActivateRollsBack(m) ==
    /\ Binding(m)
    /\ lock' = Nobody /\ revived' = {}
    /\ ClientGo(m, "idle")
    /\ UNCHANGED <<lic, dev, listed, live, reporter, operator, unbinds, mislaid>>

\* issueClientSession: the sessions of the device end, then one is created.
SupersedeSessions(m) ==
    /\ ClientAt(m, "supersede")
    /\ RevokeSessions({m})
    /\ ClientGo(m, "issue")
    /\ UNCHANGED <<lic, lock, dev, listed, reporter, operator, unbinds, revived, mislaid>>

IssueSession(m) ==
    /\ ClientAt(m, "issue")
    /\ \/ live' = [live EXCEPT ![m] = @ + 1]
       \/ UNCHANGED live                         \* the INSERT fails
    /\ ClientGo(m, "idle")
    /\ UNCHANGED <<lic, lock, dev, listed, reporter, operator, unbinds, revived, mislaid>>

-----------------------------------------------------------------------------
(* ClientRefresh, ClientLogout, Deactivate, UnbindCurrentDevice.           *)

\* Refused for its age, the device, the blacklist or the licence: the session
\* will be revoked.  A refresh that is granted changes the token of the session,
\* which is not modelled.
RefreshRefused(m) ==
    /\ ClientAt(m, "idle") /\ live[m] > 0
    /\ ClientGo(m, "drop")
    /\ UNCHANGED <<lic, lock, dev, listed, live, reporter, operator, unbinds, revived, mislaid>>

DropSession(m) ==
    /\ ClientAt(m, "drop")
    /\ RevokeOne(m)
    /\ ClientGo(m, "idle")
    /\ UNCHANGED <<lic, lock, dev, listed, reporter, operator, unbinds, revived, mislaid>>

Logout(m) ==
    /\ ClientAt(m, "idle") /\ Authenticated(m)
    /\ ClientGo(m, "drop")
    /\ UNCHANGED <<lic, lock, dev, listed, live, reporter, operator, unbinds, revived, mislaid>>

\* Deactivate asks for a valid licence, UnbindCurrentDevice for a session.
BeginUnbind(m) ==
    /\ ClientAt(m, "idle") /\ unbinds < MaxUnbinds
    /\ ActiveDevice(m) \/ (Authenticated(m) /\ ~lic.gone)
    /\ ClientGo(m, "unbind")
    /\ UNCHANGED <<lic, lock, dev, listed, live, reporter, operator, unbinds, revived, mislaid>>

\* The condition of the UPDATE in increaseLicenseUnbindUsed.
MayUnbind == lic.used < UnbindLimit

\* One transaction: the counter, the device, its sessions.
ClientUnbinds(m) ==
    /\ ClientAt(m, "unbind") /\ Unlocked
    /\ ~lic.gone /\ MayUnbind
    /\ lic' = [lic EXCEPT !.used = @ + 1]
    /\ unbinds' = unbinds + 1
    /\ Unbound({m}) /\ RevokeSessions({m})
    /\ ClientGo(m, "idle")
    /\ UNCHANGED <<lock, listed, reporter, operator, revived, mislaid>>

UnbindRefused(m) ==
    /\ ClientAt(m, "unbind") /\ Unlocked
    /\ lic.gone \/ ~MayUnbind
    /\ ClientGo(m, "idle")
    /\ UNCHANGED <<lic, lock, dev, listed, live, reporter, operator, unbinds, revived, mislaid>>

-----------------------------------------------------------------------------
(* Verify and Heartbeat: read licence and device, then Save them.          *)

\* Verify saves the licence and then the device, Heartbeat the device.
BeginReport(m) ==
    /\ Reports /\ reporter[m].pc = "idle"
    /\ ActiveDevice(m)
    /\ \E pc \in {"licence", "device"} :
          reporter' = [reporter EXCEPT
              ![m] = [pc |-> pc, copy |-> IF pc = "licence" THEN lic ELSE NoCopy]]
    /\ UNCHANGED <<lic, lock, dev, listed, live, client, operator, unbinds, revived, mislaid>>

ReportSavesLicense(m) ==
    /\ reporter[m].pc = "licence"
    /\ SaveLicense(reporter[m].copy)
    /\ reporter' = [reporter EXCEPT ![m] = [pc |-> "device", copy |-> NoCopy]]
    /\ UNCHANGED <<lock, dev, listed, live, client, operator, unbinds, revived, mislaid>>

\* The device was active when it was read.
ReportSavesDevice(m) ==
    /\ reporter[m].pc = "device"
    /\ SaveDevice(m)
    /\ revived' = IF lock # Nobody /\ dev[m].row # "live" THEN revived \cup {m} ELSE revived
    /\ reporter' = [reporter EXCEPT ![m] = [pc |-> "idle", copy |-> NoCopy]]
    /\ UNCHANGED <<lic, lock, listed, live, client, operator, unbinds, mislaid>>

-----------------------------------------------------------------------------
(* The administration.                                                     *)

OperatorAt(o, op) == operator[o].op = op
Starts(o, request) == operator' = [operator EXCEPT ![o] = request]
Ends(o)            == Starts(o, Resting)
OnlyOperator       ==
    UNCHANGED <<lic, lock, dev, listed, live, client, reporter, unbinds, revived, mislaid>>

\* The status each request must find.
Allowed(op, status) ==
    \/ op \in {"revoke", "renew"} /\ status # "revoked"
    \/ op = "suspend" /\ status = "active"
    \/ op = "resume"  /\ status = "suspended"
    \/ op = "delete"  /\ status = "pending"

\* The statuses it may leave: Renew makes a licence that has run out active,
\* whatever it was.
Outcomes(op, status) ==
    CASE op = "revoke"  -> {"revoked"}
      [] op = "suspend" -> {"suspended"}
      [] op = "resume"  -> {"active"}
      [] op = "renew"   -> {status, "active"}
      [] op = "delete"  -> {status}

\* Revoke, Suspend, Resume, Renew and Delete read the licence ...
ReadLicense(o, op) ==
    /\ OperatorAt(o, "idle") /\ ~lic.gone
    /\ Allowed(op, lic.status)
    /\ Starts(o, [Resting EXCEPT !.op = op, !.copy = lic])
    /\ OnlyOperator

\* ... and save their copy of it, changed.
WriteLicense(o, op) ==
    /\ OperatorAt(o, op) /\ Unlocked
    /\ IF op = "delete"
       THEN lic' = [lic EXCEPT !.gone = TRUE]
       ELSE \E status \in Outcomes(op, operator[o].copy.status) :
               SaveLicense([operator[o].copy EXCEPT !.status = status])
    /\ Ends(o)
    /\ UNCHANGED <<lock, dev, listed, live, client, reporter, unbinds, revived, mislaid>>

\* Update changes single columns; so does the change of unbind_limit, which is
\* left alone here.
UpdateMaxDevices(o, n) ==
    /\ OperatorAt(o, "idle") /\ Unlocked /\ ~lic.gone
    /\ lic' = [lic EXCEPT !.max = n]
    /\ UNCHANGED <<lock, dev, listed, live, client, reporter, operator, unbinds, revived, mislaid>>

ResetUnbindCount(o) ==
    /\ OperatorAt(o, "idle") /\ Unlocked /\ ~lic.gone
    /\ lic' = [lic EXCEPT !.used = 0] /\ unbinds' = 0
    /\ UNCHANGED <<lock, dev, listed, live, client, reporter, operator, revived, mislaid>>

\* ResetDevices reads the ids of the devices, then revokes the sessions of
\* these and deletes the devices there are by then.
BeginReset(o) ==
    /\ OperatorAt(o, "idle") /\ ~lic.gone
    /\ Starts(o, [Resting EXCEPT !.op = "reset", !.ids = LiveDevices])
    /\ OnlyOperator

ResetDevices(o) ==
    /\ OperatorAt(o, "reset")
    /\ RevokeSessions(operator[o].ids) /\ Unbound(Machines)
    /\ Ends(o)
    /\ UNCHANGED <<lic, lock, listed, client, reporter, unbinds, revived, mislaid>>

\* The requests about one device find its row first.
BeginDevice(o, op, m) ==
    /\ OperatorAt(o, "idle") /\ dev[m].row = "live"
    /\ Starts(o, [Resting EXCEPT !.op = op, !.machine = m, !.was = dev[m].status])
    /\ OnlyOperator

Unbind(o) ==
    LET m == operator[o].machine IN
    /\ OperatorAt(o, "unbind")
    /\ Unbound({m}) /\ RevokeSessions({m})
    /\ Ends(o)
    /\ UNCHANGED <<lic, lock, listed, client, reporter, unbinds, revived, mislaid>>

\* An UPDATE of the status of a device that is not deleted.
SetStatus(m, status) ==
    dev' = IF dev[m].row = "live" THEN [dev EXCEPT ![m].status = status] ELSE dev

Blacklist(o) ==
    LET m == operator[o].machine IN
    /\ OperatorAt(o, "blacklist")
    /\ listed' = [listed EXCEPT ![m] = TRUE]
    /\ SetStatus(m, "blacklisted") /\ RevokeSessions({m})
    /\ mislaid' = mislaid \ {m}
    /\ Ends(o)
    /\ UNCHANGED <<lic, lock, client, reporter, unbinds, revived>>

MUTUnblacklistDeletes(o) ==
    LET m == operator[o].machine IN
    /\ OperatorAt(o, "unblacklist")
    /\ listed' = [listed EXCEPT ![m] = FALSE]
    /\ Ends(o)
    /\ UNCHANGED <<lic, lock, dev, live, client, reporter, unbinds, revived, mislaid>>

\* Unblacklist deletes the entries; then, if it had read the device as
\* blacklisted and has deleted any, it restores the device.
UnblacklistDeletes(o) ==
    LET m == operator[o].machine IN
    /\ OperatorAt(o, "unblacklist")
    /\ listed' = [listed EXCEPT ![m] = FALSE]
    /\ IF listed[m] /\ operator[o].was = "blacklisted"
       THEN Starts(o, [operator[o] EXCEPT !.op = "restore"]) /\ UNCHANGED mislaid
       ELSE Ends(o) /\ mislaid' = IF listed[m] THEN mislaid \cup {m} ELSE mislaid
    /\ UNCHANGED <<lic, lock, dev, live, client, reporter, unbinds, revived>>

\* The UPDATE that restores it fails, after the entries are gone.
UnblacklistFails(o) ==
    /\ OperatorAt(o, "restore")
    /\ mislaid' = mislaid \cup {operator[o].machine}
    /\ Ends(o)
    /\ UNCHANGED <<lic, lock, dev, listed, live, client, reporter, unbinds, revived>>

UnblacklistRestores(o) ==
    /\ OperatorAt(o, "restore")
    /\ SetStatus(operator[o].machine, "active")
    /\ Ends(o)
    /\ UNCHANGED <<lic, lock, listed, live, client, reporter, unbinds, revived, mislaid>>

\* By machine, in one transaction; a device that is not blacklisted any more is
\* restored.
RemoveFromBlacklist(o) ==
    LET m == operator[o].machine IN
    /\ OperatorAt(o, "remove")
    /\ listed' = [listed EXCEPT ![m] = FALSE]
    /\ IF listed[m] THEN SetStatus(m, "active") ELSE UNCHANGED dev
    /\ Ends(o)
    /\ UNCHANGED <<lic, lock, live, client, reporter, unbinds, revived, mislaid>>

-----------------------------------------------------------------------------
ClientStep(m) ==
    \/ Activate(m) \/ ActivateReads(m) \/ ActivateRefused(m) \/ ActivateCommits(m)
    \/ ActivateRollsBack(m) \/ SupersedeSessions(m) \/ IssueSession(m)
    \/ RefreshRefused(m) \/ DropSession(m) \/ Logout(m)
    \/ BeginUnbind(m) \/ ClientUnbinds(m) \/ UnbindRefused(m)

ReportStep(m) == BeginReport(m) \/ ReportSavesLicense(m) \/ ReportSavesDevice(m)

OperatorStep(o) ==
    \/ \E op \in {"revoke", "suspend", "resume", "renew", "delete"} :
          ReadLicense(o, op) \/ WriteLicense(o, op)
    \/ \E n \in DeviceLimits : UpdateMaxDevices(o, n)
    \/ ResetUnbindCount(o)
    \/ BeginReset(o) \/ ResetDevices(o)
    \/ \E op \in {"unbind", "blacklist", "unblacklist", "remove"}, m \in Machines :
          BeginDevice(o, op, m)
    \/ Unbind(o) \/ Blacklist(o) \/ UnblacklistDeletes(o) \/ UnblacklistFails(o)
    \/ UnblacklistRestores(o) \/ RemoveFromBlacklist(o)

Next ==
    \/ \E m \in Machines : ClientStep(m) \/ ReportStep(m)
    \/ \E o \in Operators : OperatorStep(o)

Spec == Init /\ [][Next]_vars

-----------------------------------------------------------------------------
(* Properties                                                              *)

\* The Save of a Verify, or of an administrator who renews, suspends or resumes, whose copy
\* of the licence was read when it was not revoked.
SavesOldCopy ==
    \/ \E m \in Machines :
          /\ reporter[m].pc = "licence" /\ reporter[m].copy.status = "active"
          /\ reporter'[m].pc = "device"
    \/ \E o \in Operators :
          /\ operator[o].op \in {"renew", "suspend", "resume"}
          /\ operator[o].copy.status # "revoked"
          /\ OperatorAt(o, "idle")'

\* A revocation is undone only by a whole-row Save of a request that was already under way
\* when it committed: by no activation, which holds the lock from its check of the status
\* to its own Save, and by nothing that begins afterwards, however many administrators
\* work at the same time (client.go:193-279, 395; license.go, Renew, Suspend, Resume).
RevocationEndsByOldCopies ==
    [][(lic.status = "revoked" /\ lic'.status # "revoked") => SavesOldCopy]_vars

\* An activation that found its device not bound leaves no more bound devices than
\* max_devices, although others activate, the limit changes, and devices are unbound,
\* reset or reported between its count and its commit.  The lock does not keep the Save of
\* a Verify or Heartbeat from bringing back, uncounted, a device unbound after it was read:
\* only those brought back between count and commit may exceed the limit.  (One that found
\* its device bound may restore it past the limit when it is unbound meanwhile.)
BoundWithinLimit ==
    [][(\E m \in Machines : ClientAt(m, "bind") /\ ClientAt(m, "supersede")')
          => Cardinality(LiveDevices' \ revived) <= lic'.max]_vars

\* A machine that sends one request after the other has one session, however
\* often it activates and whatever operators do meanwhile.
OneLiveSession == \A m \in Machines : live[m] <= 1

\* A device that is refused as blacklisted has an entry an administrator can remove, however
\* many of them list, unlist, unbind and reset devices at the same time.  Without an entry
\* it is only between the two statements of an Unblacklist, after the second has failed, or
\* after an Unblacklist that read the device before it was blacklisted (device.go:240-275).
RefusedIsListed ==
    \A m \in Machines : (dev[m].row = "live" /\ dev[m].status = "blacklisted") =>
        \/ listed[m]
        \/ \E o \in Operators : OperatorAt(o, "restore") /\ operator[o].machine = m
        \/ m \in mislaid

\* UnbindLimit is the "number of unbinds a client may do in the lifetime of the
\* licence" (model.License), between two resets.
UnbindsWithinLimit == unbinds <= UnbindLimit
=============================================================================
