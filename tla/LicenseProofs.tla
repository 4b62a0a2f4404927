--------------------------- MODULE LicenseProofs ----------------------------
(***************************************************************************)
(* Proofs about License for any machines, limits and administrators at the *)
(* same time: what an activation counted still holds when it commits, but  *)
(* for devices that reports brought back; a machine has one session; a     *)
(* revocation is undone only by copies read before it; and a refused       *)
(* device can be taken off the blacklist, but for what Unblacklist itself  *)
(* mislaid.                                                                *)
(***************************************************************************)
EXTENDS License, FiniteSetTheorems, TLAPS

-----------------------------------------------------------------------------
(* The types of rows and requests.                                         *)

LicenseRow == [gone : BOOLEAN, status : Statuses, max : Nat, used : Nat]

DeviceRow == [row : {"none", "live", "deleted"}, status : {"active", "blacklisted"}]

ClientPcs == {"idle", "activate", "bind", "rebind", "supersede", "issue", "drop", "unbind"}

ReportRow == [pc : {"idle", "licence", "device"}, copy : LicenseRow]

\* The requests that read the licence and save their copy of it, and the others.
LicenceOps == {"revoke", "suspend", "resume", "renew", "delete"}
DeviceOps  == {"unbind", "blacklist", "unblacklist", "remove", "restore"}

Request == [op : LicenceOps \cup DeviceOps \cup {"idle", "reset"}, copy : LicenseRow,
            machine : Machines \cup {Nobody}, was : {"active", "blacklisted"},
            ids : SUBSET Machines]

TypeOK ==
    /\ lic \in LicenseRow
    /\ lock \in Machines \cup {Nobody}
    /\ dev \in [Machines -> DeviceRow]
    /\ listed \in [Machines -> BOOLEAN]
    /\ live \in [Machines -> Nat]
    /\ client \in [Machines -> ClientPcs]
    /\ reporter \in [Machines -> ReportRow]
    /\ operator \in [Operators -> Request]
    /\ unbinds \in Nat
    /\ revived \in SUBSET Machines
    /\ mislaid \in SUBSET (Machines \cup {Nobody})

\* A machine about to get a session has none.
SessionsInv ==
    \A m \in Machines : live[m] <= 1 /\ (ClientAt(m, "issue") => live[m] = 0)

\* Who has counted devices under the lock still holds it, and the licence is
\* one that admits activations: every write of its row waits.
LockInv ==
    \A m \in Machines :
        /\ Binding(m) <=> lock = m
        /\ Binding(m) => lic.status \in {"pending", "active"}

\* A Verify under way has read an active licence.
ReporterInv ==
    \A m \in Machines : reporter[m].pc = "licence" => reporter[m].copy.status = "active"

\* An administrator about to save a copy of the licence read it when it was not revoked.
CopiesInv ==
    \A o \in Operators : operator[o].op \in LicenceOps => operator[o].copy.status # "revoked"

LicenseInv == TypeOK /\ SessionsInv /\ LockInv /\ ReporterInv /\ CopiesInv

\* The room that was counted is still there, but for the devices reports brought back.
RoomInv ==
    /\ IsFiniteSet(LiveDevices)
    /\ \A m \in Machines :
          ClientAt(m, "bind") => Cardinality((LiveDevices \ revived) \ {m}) < lic.max

-----------------------------------------------------------------------------
(* Types.                                                                  *)

LEMMA Rests == NoCopy \in LicenseRow /\ Resting \in Request
  BY DEF NoCopy, Resting, LicenseRow, Request, Statuses

\* What the helpers of the handlers write.
LEMMA SaveLicenseType ==
    ASSUME NEW copy \in LicenseRow, SaveLicense(copy)
    PROVE  lic' \in LicenseRow /\ lic'.status = copy.status /\ lic'.max = copy.max
  BY DEF SaveLicense, LicenseRow

LEMMA DeviceTypes ==
    ASSUME dev \in [Machines -> DeviceRow], NEW m,
           \/ SaveDevice(m) \/ Unbound({m}) \/ Unbound(Machines)
           \/ SetStatus(m, "active") \/ SetStatus(m, "blacklisted")
    PROVE  dev' \in [Machines -> DeviceRow]
  BY DEF SaveDevice, Unbound, SetStatus, DeviceRow

LEMMA SessionTypes ==
    ASSUME live \in [Machines -> Nat], NEW m, NEW machines,
           RevokeSessions(machines) \/ RevokeOne(m)
    PROVE  live' \in [Machines -> Nat]
  BY DEF RevokeSessions, RevokeOne

LEMMA StartsType ==
    ASSUME TypeOK, NEW o \in Operators, NEW r \in Request, Starts(o, r)
    PROVE  /\ operator' \in [Operators -> Request]
           /\ operator'[o] = r
           /\ \A p \in Operators \ {o} : operator'[p] = operator[p]
  BY DEF Starts, TypeOK

LEMMA ClientGoType ==
    ASSUME TypeOK, NEW m \in Machines, NEW pc \in ClientPcs, ClientGo(m, pc)
    PROVE  /\ client' \in [Machines -> ClientPcs]
           /\ client'[m] = pc
           /\ \A s \in Machines \ {m} : client'[s] = client[s]
  BY DEF ClientGo, TypeOK

LEMMA ClientType ==
    ASSUME TypeOK, NEW m \in Machines, ClientStep(m)
    PROVE  TypeOK'
  <1> USE DEF TypeOK
  <1>1. CASE Activate(m) \/ ActivateRefused(m) \/ RefreshRefused(m) \/ Logout(m)
             \/ BeginUnbind(m) \/ UnbindRefused(m)
    <2>1. PICK pc \in ClientPcs : ClientGo(m, pc)
      BY <1>1 DEF Activate, ActivateRefused, RefreshRefused, Logout, BeginUnbind,
                  UnbindRefused, ClientPcs
    <2> QED
      BY <1>1, <2>1, ClientGoType DEF Activate, ActivateRefused, RefreshRefused, Logout,
                  BeginUnbind, UnbindRefused
  <1>2. CASE ActivateReads(m)
    <2>1. PICK pc \in ClientPcs : ClientGo(m, pc)
      BY <1>2 DEF ActivateReads, ClientPcs
    <2> QED
      BY <1>2, <2>1, ClientGoType DEF ActivateReads
  <1>3. CASE ActivateCommits(m)
    <2>1. ClientGo(m, "supersede") /\ "supersede" \in ClientPcs /\ SaveDevice(m)
      BY <1>3 DEF ActivateCommits, ClientPcs
    <2>2. lic' \in LicenseRow
      BY <1>3 DEF ActivateCommits, LicenseRow, Statuses
    <2> QED
      BY <1>3, <2>1, <2>2, ClientGoType, DeviceTypes DEF ActivateCommits
  <1>4. CASE ActivateRollsBack(m)
    <2>1. ClientGo(m, "idle") /\ "idle" \in ClientPcs
      BY <1>4 DEF ActivateRollsBack, ClientPcs
    <2> QED
      BY <1>4, <2>1, ClientGoType DEF ActivateRollsBack
  <1>5. CASE SupersedeSessions(m) \/ DropSession(m) \/ IssueSession(m)
    <2>1. PICK pc \in ClientPcs : ClientGo(m, pc)
      BY <1>5 DEF SupersedeSessions, DropSession, IssueSession, ClientPcs
    <2>2. live' \in [Machines -> Nat]
      BY <1>5, SessionTypes DEF SupersedeSessions, DropSession, IssueSession
    <2> QED
      BY <1>5, <2>1, <2>2, ClientGoType DEF SupersedeSessions, DropSession, IssueSession
  <1>6. CASE ClientUnbinds(m)
    <2>1. /\ ClientGo(m, "idle") /\ "idle" \in ClientPcs
          /\ Unbound({m}) /\ RevokeSessions({m})
      BY <1>6 DEF ClientUnbinds, ClientPcs
    <2>2. lic' \in LicenseRow /\ unbinds' \in Nat
      BY <1>6 DEF ClientUnbinds, LicenseRow
    <2> QED
      BY <1>6, <2>1, <2>2, ClientGoType, DeviceTypes, SessionTypes DEF ClientUnbinds
  <1> QED
    BY <1>1, <1>2, <1>3, <1>4, <1>5, <1>6 DEF ClientStep

LEMMA ReportType ==
    ASSUME TypeOK, NEW m \in Machines, ReportStep(m)
    PROVE  TypeOK'
  <1> USE DEF TypeOK
  <1>1. \A pc \in {"idle", "licence", "device"} : \A copy \in LicenseRow :
           [pc |-> pc, copy |-> copy] \in ReportRow
    BY DEF ReportRow
  <1>2. CASE BeginReport(m)
    <2>1. reporter' \in [Machines -> ReportRow]
      BY <1>1, <1>2, Rests DEF BeginReport
    <2> QED
      BY <1>2, <2>1 DEF BeginReport
  <1>3. CASE ReportSavesLicense(m)
    <2>1. reporter' \in [Machines -> ReportRow]
      BY <1>1, <1>3, Rests DEF ReportSavesLicense
    <2>2. lic' \in LicenseRow
      BY <1>3, SaveLicenseType DEF ReportSavesLicense, ReportRow
    <2> QED
      BY <1>3, <2>1, <2>2 DEF ReportSavesLicense
  <1>4. CASE ReportSavesDevice(m)
    <2>1. reporter' \in [Machines -> ReportRow]
      BY <1>1, <1>4, Rests DEF ReportSavesDevice
    <2>2. revived' \in SUBSET Machines
      BY <1>4 DEF ReportSavesDevice
    <2> QED
      BY <1>4, <2>1, <2>2, DeviceTypes DEF ReportSavesDevice
  <1> QED
    BY <1>2, <1>3, <1>4 DEF ReportStep

\* The request an operator leaves behind, whatever it was.
LEMMA OperatorType ==
    ASSUME TypeOK, NEW o \in Operators, OperatorStep(o)
    PROVE  TypeOK'
  <1> USE DEF TypeOK
  <1>0. Ends(o) => operator' \in [Operators -> Request]
    BY Rests, StartsType DEF Ends
  <1>1. ASSUME NEW op \in LicenceOps, ReadLicense(o, op) PROVE TypeOK'
    <2>1. [Resting EXCEPT !.op = op, !.copy = lic] \in Request
      BY DEF Request, Resting
    <2> QED
      BY <1>1, <2>1, StartsType DEF ReadLicense, OnlyOperator
  <1>2. ASSUME NEW op \in LicenceOps, WriteLicense(o, op) PROVE TypeOK'
    <2>1. lic' \in LicenseRow
      <3>1. CASE lic' = [lic EXCEPT !.gone = TRUE]
        BY <3>1 DEF LicenseRow
      <3>2. CASE \E status \in Outcomes(op, operator[o].copy.status) :
                    SaveLicense([operator[o].copy EXCEPT !.status = status])
        <4>1. PICK status \in Outcomes(op, operator[o].copy.status) :
                    SaveLicense([operator[o].copy EXCEPT !.status = status])
          BY <3>2
        <4>2. operator[o].copy \in LicenseRow
          BY DEF Request
        <4>3. status \in Statuses
          BY <1>2, <4>1, <4>2 DEF Outcomes, LicenceOps, Statuses, LicenseRow
        <4>4. [operator[o].copy EXCEPT !.status = status] \in LicenseRow
          BY <4>2, <4>3 DEF LicenseRow
        <4> QED
          BY <4>1, <4>4, SaveLicenseType
      <3> QED
        BY <1>2, <3>1, <3>2 DEF WriteLicense
    <2> QED
      BY <1>0, <1>2, <2>1 DEF WriteLicense
  <1>3. ASSUME NEW n \in DeviceLimits, UpdateMaxDevices(o, n) PROVE TypeOK'
    <2>1. lic' \in LicenseRow
      BY <1>3, LimitsAssumption DEF UpdateMaxDevices, LicenseRow
    <2> QED
      BY <1>3, <2>1 DEF UpdateMaxDevices
  <1>4. CASE ResetUnbindCount(o)
    <2>1. lic' \in LicenseRow
      BY <1>4 DEF ResetUnbindCount, LicenseRow
    <2> QED
      BY <1>4, <2>1 DEF ResetUnbindCount
  <1>5. CASE BeginReset(o)
    <2>1. [Resting EXCEPT !.op = "reset", !.ids = LiveDevices] \in Request
      BY Rests DEF Request, LiveDevices
    <2> QED
      BY <1>5, <2>1, StartsType DEF BeginReset, OnlyOperator
  <1>6. CASE ResetDevices(o)
    BY <1>0, <1>6, DeviceTypes, SessionTypes DEF ResetDevices
  <1>7. ASSUME NEW op \in {"unbind", "blacklist", "unblacklist", "remove"},
               NEW m \in Machines, BeginDevice(o, op, m)
        PROVE  TypeOK'
    <2>1. dev[m].status \in {"active", "blacklisted"}
      BY DEF DeviceRow
    <2>2. [Resting EXCEPT !.op = op, !.machine = m, !.was = dev[m].status] \in Request
      BY <2>1, Rests DEF Request, DeviceOps
    <2> QED
      BY <1>7, <2>2, StartsType DEF BeginDevice, OnlyOperator
  <1>8. CASE Unbind(o)
    BY <1>0, <1>8, DeviceTypes, SessionTypes DEF Unbind
  <1>9. CASE Blacklist(o)
    <2>1. listed' \in [Machines -> BOOLEAN] /\ mislaid' \in SUBSET (Machines \cup {Nobody})
      BY <1>9 DEF Blacklist
    <2> QED
      BY <1>0, <1>9, <2>1, DeviceTypes, SessionTypes DEF Blacklist
  <1>10. CASE UnblacklistDeletes(o)
    <2>1. [operator[o] EXCEPT !.op = "restore"] \in Request
      BY DEF Request, DeviceOps
    <2>2. operator' \in [Operators -> Request]
      BY <1>0, <1>10, <2>1, StartsType DEF UnblacklistDeletes
    <2>3. operator[o].machine \in Machines \cup {Nobody}
      BY DEF Request
    <2>4. mislaid' \in SUBSET (Machines \cup {Nobody})
      BY <1>10, <2>3 DEF UnblacklistDeletes
    <2>5. listed' \in [Machines -> BOOLEAN]
      BY <1>10 DEF UnblacklistDeletes
    <2> QED
      BY <1>10, <2>2, <2>4, <2>5 DEF UnblacklistDeletes
  <1>11. CASE UnblacklistRestores(o)
    BY <1>0, <1>11, DeviceTypes DEF UnblacklistRestores
  <1>12. CASE RemoveFromBlacklist(o)
    <2>1. listed' \in [Machines -> BOOLEAN]
      BY <1>12 DEF RemoveFromBlacklist
    <2> QED
      BY <1>0, <1>12, <2>1, DeviceTypes DEF RemoveFromBlacklist
  <1>13. CASE UnblacklistFails(o)
    <2>1. operator[o].machine \in Machines \cup {Nobody}
      BY DEF Request
    <2>2. mislaid' \in SUBSET (Machines \cup {Nobody})
      BY <1>13, <2>1 DEF UnblacklistFails
    <2> QED
      BY <1>0, <1>13, <2>2 DEF UnblacklistFails
  <1> QED
    BY <1>1, <1>2, <1>3, <1>4, <1>5, <1>6, <1>7, <1>8, <1>9, <1>10, <1>11, <1>12, <1>13
    DEF OperatorStep, LicenceOps

LEMMA TypeInit == Init => TypeOK
  BY Rests, LimitsAssumption, UnbindsAssumption
  DEF Init, TypeOK, LicenseRow, Statuses, DeviceRow, ClientPcs, ReportRow

LEMMA TypeNext == TypeOK /\ [Next]_vars => TypeOK'
  <1> SUFFICES ASSUME TypeOK, [Next]_vars PROVE TypeOK'
    OBVIOUS
  <1>1. CASE UNCHANGED vars
    BY <1>1 DEF vars, TypeOK
  <1> QED
    BY <1>1, ClientType, ReportType, OperatorType DEF Next

-----------------------------------------------------------------------------
(* Sessions.                                                               *)

\* What a step may do to the sessions of machines it does not serve.
SessionsEnd == \A m \in Machines : live'[m] <= live[m]

\* Sessions only end, except that a machine about to get one gets it.
LEMMA SessionsFrame ==
    ASSUME TypeOK, TypeOK', SessionsInv, SessionsEnd,
           \A m \in Machines : ClientAt(m, "issue")' => ClientAt(m, "issue")
    PROVE  SessionsInv'
  <1> SUFFICES ASSUME NEW m \in Machines
               PROVE  live'[m] <= 1 /\ (ClientAt(m, "issue")' => live'[m] = 0)
    BY DEF SessionsInv
  <1>1. live[m] \in Nat /\ live'[m] \in Nat /\ live'[m] <= live[m] /\ live[m] <= 1
    BY DEF TypeOK, SessionsEnd, SessionsInv
  <1>2. ClientAt(m, "issue") => live[m] = 0
    BY DEF SessionsInv
  <1> QED
    BY <1>1, <1>2

LEMMA RevokesEnd ==
    ASSUME TypeOK, NEW m, NEW machines, RevokeSessions(machines) \/ RevokeOne(m)
    PROVE  SessionsEnd
  <1>1. live \in [Machines -> Nat]
    BY DEF TypeOK
  <1> QED
    BY <1>1 DEF RevokeSessions, RevokeOne, SessionsEnd

LEMMA SameEnds ==
    ASSUME TypeOK, UNCHANGED live
    PROVE  SessionsEnd
  BY DEF TypeOK, SessionsEnd

LEMMA ClientSessions ==
    ASSUME TypeOK, TypeOK', SessionsInv, NEW m \in Machines, ClientStep(m)
    PROVE  SessionsInv'
  <1>1. CASE IssueSession(m)
    <2>1. ClientAt(m, "issue") /\ ClientGo(m, "idle") /\ "idle" \in ClientPcs
      BY <1>1 DEF IssueSession, ClientPcs
    <2>2. client'[m] = "idle" /\ \A s \in Machines \ {m} : client'[s] = client[s]
      BY <2>1, ClientGoType
    <2>3. live[m] = 0 /\ live \in [Machines -> Nat]
      BY <2>1 DEF SessionsInv, TypeOK
    <2>4. live'[m] <= 1 /\ \A s \in Machines \ {m} : live'[s] = live[s]
      BY <1>1, <2>3 DEF IssueSession
    <2> QED
      BY <2>2, <2>4 DEF SessionsInv, ClientAt
  <1>2. CASE SupersedeSessions(m)
    <2>1. ClientGo(m, "issue") /\ "issue" \in ClientPcs /\ RevokeSessions({m})
      BY <1>2 DEF SupersedeSessions, ClientPcs
    <2>2. \A s \in Machines \ {m} : client'[s] = client[s]
      BY <2>1, ClientGoType
    <2>3. live'[m] = 0 /\ \A s \in Machines \ {m} : live'[s] = live[s]
      BY <2>1 DEF RevokeSessions, TypeOK
    <2> QED
      BY <2>2, <2>3 DEF SessionsInv, ClientAt
  <1>3. CASE ~IssueSession(m) /\ ~SupersedeSessions(m)
    <2>1. PICK pc \in ClientPcs \ {"issue"} : ClientGo(m, pc)
      BY <1>3 DEF ClientStep, Activate, ActivateReads, ActivateRefused, ActivateCommits,
                  ActivateRollsBack, RefreshRefused, DropSession, Logout, BeginUnbind,
                  ClientUnbinds, UnbindRefused, ClientPcs
    <2>2. \A s \in Machines : ClientAt(s, "issue")' => ClientAt(s, "issue")
      BY <2>1, ClientGoType DEF ClientAt
    <2>3. SessionsEnd
      BY <1>3, RevokesEnd, SameEnds
      DEF ClientStep, Activate, ActivateReads, ActivateRefused, ActivateCommits,
          ActivateRollsBack, RefreshRefused, DropSession, Logout, BeginUnbind,
          ClientUnbinds, UnbindRefused
    <2> QED
      BY <2>2, <2>3, SessionsFrame
  <1> QED
    BY <1>1, <1>2, <1>3

LEMMA OthersSessions ==
    ASSUME TypeOK, TypeOK', SessionsInv,
           \/ \E m \in Machines : ReportStep(m)
           \/ \E o \in Operators : OperatorStep(o)
    PROVE  SessionsInv'
  <1>1. UNCHANGED client
    BY DEF ReportStep, BeginReport, ReportSavesLicense, ReportSavesDevice, OperatorStep,
           ReadLicense, WriteLicense, UpdateMaxDevices, ResetUnbindCount, BeginReset,
           ResetDevices, BeginDevice, Unbind, Blacklist, UnblacklistDeletes,
           UnblacklistFails, UnblacklistRestores, RemoveFromBlacklist, OnlyOperator
  <1>2. SessionsEnd
    BY RevokesEnd, SameEnds
    DEF ReportStep, BeginReport, ReportSavesLicense, ReportSavesDevice, OperatorStep,
        ReadLicense, WriteLicense, UpdateMaxDevices, ResetUnbindCount, BeginReset,
        ResetDevices, BeginDevice, Unbind, Blacklist, UnblacklistDeletes,
        UnblacklistFails, UnblacklistRestores, RemoveFromBlacklist, OnlyOperator
  <1> QED
    BY <1>1, <1>2, SessionsFrame DEF ClientAt

LEMMA SessionsNext == TypeOK /\ TypeOK' /\ SessionsInv /\ [Next]_vars => SessionsInv'
  <1> SUFFICES ASSUME TypeOK, TypeOK', SessionsInv, [Next]_vars PROVE SessionsInv'
    OBVIOUS
  <1>1. CASE UNCHANGED vars
    BY <1>1 DEF vars, SessionsInv, ClientAt
  <1> QED
    BY <1>1, ClientSessions, OthersSessions DEF Next

-----------------------------------------------------------------------------
(* The lock of the licence row.                                            *)

\* A step that takes no lock, moves no machine in or out of the critical
\* section, and writes the row of the licence only when it is not locked.
LEMMA LockFrame ==
    ASSUME TypeOK, LockInv, UNCHANGED lock, lic' = lic \/ Unlocked,
           \A m \in Machines : Binding(m)' <=> Binding(m)
    PROVE  LockInv'
  BY NobodyAssumption DEF LockInv, Unlocked

LEMMA ClientLock ==
    ASSUME TypeOK, LockInv, NEW m \in Machines, ClientStep(m)
    PROVE  LockInv'
  <1>1. CASE ActivateReads(m)
    <2>1. PICK pc \in {"bind", "rebind"} : ClientGo(m, pc)
      BY <1>1 DEF ActivateReads
    <2>2. client'[m] = pc /\ \A s \in Machines \ {m} : client'[s] = client[s]
      BY <2>1, ClientGoType DEF ClientPcs
    <2>3. lock = Nobody /\ lock' = m /\ lic' = lic /\ lic.status \in {"pending", "active"}
      BY <1>1 DEF ActivateReads, Unlocked
    <2>4. \A s \in Machines : ~Binding(s)
      BY <2>3, NobodyAssumption DEF LockInv
    <2>5. \A s \in Machines : Binding(s)' <=> s = m
      BY <2>1, <2>2, <2>4 DEF Binding, ClientAt
    <2> QED
      BY <2>3, <2>5 DEF LockInv
  <1>2. CASE ActivateCommits(m) \/ ActivateRollsBack(m)
    <2>1. PICK pc \in {"idle", "supersede"} : ClientGo(m, pc)
      BY <1>2 DEF ActivateCommits, ActivateRollsBack
    <2>2. client'[m] = pc /\ \A s \in Machines \ {m} : client'[s] = client[s]
      BY <2>1, ClientGoType DEF ClientPcs
    <2>3. lock = m /\ lock' = Nobody
      BY <1>2 DEF ActivateCommits, ActivateRollsBack, LockInv
    <2>4. \A s \in Machines : ~Binding(s)'
      BY <2>1, <2>2, <2>3 DEF Binding, ClientAt, LockInv
    <2> QED
      BY <2>3, <2>4, NobodyAssumption DEF LockInv
  <1>3. CASE ~ActivateReads(m) /\ ~ActivateCommits(m) /\ ~ActivateRollsBack(m)
    <2>1. PICK pc \in ClientPcs \ {"bind", "rebind"} : ClientGo(m, pc)
      BY <1>3 DEF ClientStep, Activate, ActivateRefused, SupersedeSessions, IssueSession,
                  RefreshRefused, DropSession, Logout, BeginUnbind, ClientUnbinds,
                  UnbindRefused, ClientPcs
    <2>2. ~Binding(m) /\ UNCHANGED lock /\ (lic' = lic \/ Unlocked)
      BY <1>3 DEF ClientStep, Activate, ActivateRefused, SupersedeSessions, IssueSession,
                  RefreshRefused, DropSession, Logout, BeginUnbind, ClientUnbinds,
                  UnbindRefused, Binding, ClientAt
    <2>3. client'[m] = pc /\ \A s \in Machines \ {m} : client'[s] = client[s]
      BY <2>1, ClientGoType
    <2>4. \A s \in Machines : Binding(s)' <=> Binding(s)
      BY <2>1, <2>2, <2>3 DEF Binding, ClientAt
    <2> QED
      BY <2>2, <2>4, LockFrame
  <1> QED
    BY <1>1, <1>2, <1>3

\* Reports and administrators wait for the lock before they write the row.
LEMMA OthersLock ==
    ASSUME TypeOK, LockInv,
           \/ \E m \in Machines : ReportStep(m)
           \/ \E o \in Operators : OperatorStep(o)
    PROVE  LockInv'
  <1>1. UNCHANGED <<client, lock>> /\ (lic' = lic \/ Unlocked)
    BY DEF ReportStep, BeginReport, ReportSavesLicense, ReportSavesDevice, OperatorStep,
           ReadLicense, WriteLicense, UpdateMaxDevices, ResetUnbindCount, BeginReset,
           ResetDevices, BeginDevice, Unbind, Blacklist, UnblacklistDeletes,
           UnblacklistFails, UnblacklistRestores, RemoveFromBlacklist, OnlyOperator, SaveLicense
  <1> QED
    BY <1>1, LockFrame DEF Binding, ClientAt

LEMMA LockNext == TypeOK /\ LockInv /\ [Next]_vars => LockInv'
  <1> SUFFICES ASSUME TypeOK, LockInv, [Next]_vars PROVE LockInv'
    OBVIOUS
  <1>1. CASE UNCHANGED vars
    BY <1>1 DEF vars, LockInv, Binding, ClientAt
  <1> QED
    BY <1>1, ClientLock, OthersLock DEF Next

-----------------------------------------------------------------------------
(* Reports.                                                                *)

LEMMA ReporterNext == TypeOK /\ ReporterInv /\ [Next]_vars => ReporterInv'
  <1> SUFFICES ASSUME TypeOK, ReporterInv, [Next]_vars PROVE ReporterInv'
    OBVIOUS
  <1>1. ASSUME NEW m \in Machines, ReportStep(m) PROVE ReporterInv'
    <2>1. reporter \in [Machines -> ReportRow]
      BY DEF TypeOK
    <2> QED
      BY <1>1, <2>1 DEF ReportStep, BeginReport, ReportSavesLicense, ReportSavesDevice,
                        ReporterInv, ActiveDevice
  <1>2. ASSUME UNCHANGED reporter PROVE ReporterInv'
    BY <1>2 DEF ReporterInv
  <1>3. ASSUME NEW m \in Machines, ClientStep(m) PROVE UNCHANGED reporter
    BY <1>3 DEF ClientStep, Activate, ActivateReads, ActivateRefused, ActivateCommits,
          ActivateRollsBack, SupersedeSessions, IssueSession, RefreshRefused, DropSession,
          Logout, BeginUnbind, ClientUnbinds, UnbindRefused
  <1>4. ASSUME NEW o \in Operators, OperatorStep(o) PROVE UNCHANGED reporter
    BY <1>4 DEF OperatorStep, ReadLicense, WriteLicense, UpdateMaxDevices,
          ResetUnbindCount, BeginReset, ResetDevices, BeginDevice, Unbind, Blacklist,
          UnblacklistDeletes, UnblacklistFails, UnblacklistRestores, RemoveFromBlacklist, OnlyOperator
  <1>5. CASE UNCHANGED vars
    BY <1>2, <1>5 DEF vars
  <1> QED
    BY <1>1, <1>2, <1>3, <1>4, <1>5 DEF Next

\* Copies of administrators.
LEMMA CopiesNext == TypeOK /\ CopiesInv /\ [Next]_vars => CopiesInv'
  <1> SUFFICES ASSUME TypeOK, CopiesInv, [Next]_vars PROVE CopiesInv'
    OBVIOUS
  <1>0. operator \in [Operators -> Request]
    BY DEF TypeOK
  <1>1. ASSUME UNCHANGED operator PROVE CopiesInv'
    BY <1>1 DEF CopiesInv
  <1>2. ASSUME NEW o \in Operators, NEW r \in Request, Starts(o, r),
               r.op \in LicenceOps => r.copy.status # "revoked"
        PROVE  CopiesInv'
    BY <1>0, <1>2 DEF CopiesInv, Starts
  <1>3. ASSUME NEW o \in Operators, Ends(o) PROVE CopiesInv'
    <2>1. Resting.op \notin LicenceOps
      BY DEF Resting, LicenceOps
    <2> QED
      BY <1>2, <1>3, <2>1, Rests DEF Ends
  <1>4. ASSUME NEW o \in Operators, OperatorStep(o) PROVE CopiesInv'
    <2>1. ASSUME NEW op \in LicenceOps, ReadLicense(o, op) PROVE CopiesInv'
      <3>1. PICK r : r = [Resting EXCEPT !.op = op, !.copy = lic]
        OBVIOUS
      <3>2. r \in Request /\ r.copy = lic
        BY <3>1 DEF Request, Resting, TypeOK
      <3>3. lic.status # "revoked"
        BY <2>1 DEF ReadLicense, Allowed, LicenceOps
      <3> QED
        BY <1>2, <2>1, <3>1, <3>2, <3>3 DEF ReadLicense
    <2>2. CASE BeginReset(o)
      <3>1. PICK r : r = [Resting EXCEPT !.op = "reset", !.ids = LiveDevices]
        OBVIOUS
      <3>2. r \in Request /\ r.op = "reset"
        BY <3>1, Rests DEF Request, Resting, LiveDevices
      <3> QED
        BY <1>2, <2>2, <3>1, <3>2 DEF BeginReset, LicenceOps
    <2>3. ASSUME NEW op \in {"unbind", "blacklist", "unblacklist", "remove"},
                 NEW m \in Machines, BeginDevice(o, op, m)
          PROVE  CopiesInv'
      <3>1. PICK r : r = [Resting EXCEPT !.op = op, !.machine = m, !.was = dev[m].status]
        OBVIOUS
      <3>2. dev[m].status \in {"active", "blacklisted"}
        BY DEF TypeOK, DeviceRow
      <3>3. r \in Request /\ r.op = op
        BY <3>1, <3>2, Rests DEF Request, Resting, DeviceOps
      <3> QED
        BY <1>2, <2>3, <3>1, <3>3 DEF BeginDevice, LicenceOps
    <2>4. CASE UnblacklistDeletes(o)
      <3>1. PICK r : r = [operator[o] EXCEPT !.op = "restore"]
        OBVIOUS
      <3>2. r \in Request /\ r.op = "restore"
        BY <1>0, <3>1 DEF Request, DeviceOps
      <3>3. Starts(o, r) \/ Ends(o)
        BY <2>4, <3>1 DEF UnblacklistDeletes
      <3> QED
        BY <1>2, <1>3, <3>2, <3>3 DEF LicenceOps
    <2> QED
      BY <1>1, <1>3, <1>4, <2>1, <2>2, <2>3, <2>4
      DEF OperatorStep, WriteLicense, UpdateMaxDevices, ResetUnbindCount, ResetDevices,
          Unbind, Blacklist, UnblacklistFails, UnblacklistRestores, RemoveFromBlacklist,
          LicenceOps
  <1>5. ASSUME NEW m \in Machines, ClientStep(m) \/ ReportStep(m) PROVE UNCHANGED operator
    BY <1>5 DEF ClientStep, Activate, ActivateReads, ActivateRefused, ActivateCommits,
          ActivateRollsBack, SupersedeSessions, IssueSession, RefreshRefused, DropSession,
          Logout, BeginUnbind, ClientUnbinds, UnbindRefused, ReportStep, BeginReport,
          ReportSavesLicense, ReportSavesDevice
  <1>6. CASE UNCHANGED vars
    BY <1>1, <1>6 DEF vars
  <1> QED
    BY <1>1, <1>4, <1>5, <1>6 DEF Next

LEMMA LicenseInit == Init => LicenseInv
  <1> SUFFICES ASSUME Init PROVE LicenseInv
    OBVIOUS
  <1>1. /\ \A m \in Machines : live[m] = 0 /\ client[m] = "idle" /\ reporter[m].pc = "idle"
        /\ lock = Nobody /\ \A o \in Operators : operator[o].op = "idle"
    BY DEF Init, Resting
  <1> QED
    BY <1>1, TypeInit, NobodyAssumption
    DEF LicenseInv, SessionsInv, LockInv, ReporterInv, CopiesInv, LicenceOps, Binding, ClientAt

\* The inductive invariant holds on every run.
THEOREM LicenseInvariant == Spec => []LicenseInv
  <1>1. LicenseInv /\ [Next]_vars => LicenseInv'
    BY TypeNext, SessionsNext, LockNext, ReporterNext, CopiesNext DEF LicenseInv
  <1> QED
    BY <1>1, LicenseInit, PTL DEF Spec

\* However often a machine activates, refreshes, logs out or is unbound, and
\* whatever administrators do meanwhile, it has one session at most.
THEOREM OneSessionAlways == Spec => []OneLiveSession
  <1>1. LicenseInv => OneLiveSession
    BY DEF LicenseInv, SessionsInv, OneLiveSession
  <1> QED
    BY <1>1, LicenseInvariant, PTL

-----------------------------------------------------------------------------
(* What was counted under the lock is still so.                            *)

\* The room stays while no device is bound, or a report is what binds it, and a licence
\* somebody holds the lock of is not written.
LEMMA RoomFrame ==
    ASSUME TypeOK, LockInv, RoomInv, NEW s,
           LiveDevices' \subseteq LiveDevices \cup {s},
           Unlocked \/ (LiveDevices' \ revived') \subseteq (LiveDevices \ revived),
           lic' = lic \/ Unlocked,
           \A m \in Machines : ClientAt(m, "bind")' => ClientAt(m, "bind")
    PROVE  RoomInv'
  <1>1. IsFiniteSet(LiveDevices) /\ IsFiniteSet(LiveDevices \cup {s})
    BY FS_AddElement DEF RoomInv
  <1>2. IsFiniteSet(LiveDevices')
    BY <1>1, FS_Subset
  <1>3. ASSUME NEW m \in Machines, ClientAt(m, "bind")'
        PROVE  Cardinality((LiveDevices' \ revived') \ {m}) < lic'.max
    <2>1. /\ Cardinality((LiveDevices \ revived) \ {m}) < lic.max
          /\ lock = m /\ lic.max \in Nat
      BY <1>3 DEF RoomInv, LockInv, Binding, TypeOK, LicenseRow
    <2>2. lic' = lic /\ ~Unlocked
      BY <2>1, NobodyAssumption DEF Unlocked
    <2>3. PICK S : S = (LiveDevices \ revived) \ {m}
      OBVIOUS
    <2>4. PICK T : T = (LiveDevices' \ revived') \ {m}
      OBVIOUS
    <2>5. IsFiniteSet(S)
      BY <1>1, <2>3, FS_Difference
    <2>6. T \in SUBSET S
      BY <2>2, <2>3, <2>4
    <2>7. /\ Cardinality(T) <= Cardinality(S)
          /\ Cardinality(T) \in Nat /\ Cardinality(S) \in Nat
      BY <2>5, <2>6, FS_Subset, FS_CardinalityType
    <2> QED
      BY <2>1, <2>2, <2>3, <2>4, <2>7
  <1> QED
    BY <1>2, <1>3 DEF RoomInv

\* No device comes to life but by SaveDevice.
LEMMA NoneRestored ==
    ASSUME TypeOK,
           \/ UNCHANGED dev
           \/ \E machines : Unbound(machines)
           \/ \E m, status : SetStatus(m, status)
    PROVE  LiveDevices' \subseteq LiveDevices
  <1>0. dev \in [Machines -> DeviceRow]
    BY DEF TypeOK
  <1>1. \A m \in Machines : dev'[m].row = "live" => dev[m].row = "live"
    <2>1. CASE UNCHANGED dev
      BY <2>1
    <2>2. ASSUME NEW machines, Unbound(machines), NEW m \in Machines
          PROVE  dev'[m].row = "live" => dev[m].row = "live"
      BY <1>0, <2>2 DEF Unbound, DeviceRow
    <2>3. ASSUME NEW s, NEW status, SetStatus(s, status), NEW m \in Machines
          PROVE  dev'[m].row = "live" => dev[m].row = "live"
      BY <1>0, <2>3 DEF SetStatus, DeviceRow
    <2> QED
      BY <2>1, <2>2, <2>3
  <1> QED
    BY <1>1 DEF LiveDevices

\* Then the room stays.
LEMMA RoomStays ==
    ASSUME TypeOK, LockInv, RoomInv, UNCHANGED revived, lic' = lic \/ Unlocked,
           \/ UNCHANGED dev
           \/ \E machines : Unbound(machines)
           \/ \E m, status : SetStatus(m, status),
           \A m \in Machines : ClientAt(m, "bind")' => ClientAt(m, "bind")
    PROVE  RoomInv'
  <1>1. LiveDevices' \subseteq LiveDevices
    BY NoneRestored
  <1>2. (LiveDevices' \ revived') \subseteq (LiveDevices \ revived)
    BY <1>1
  <1> QED
    BY <1>1, <1>2, RoomFrame

\* The only device an activation restores is its own, within the room counted.
LEMMA CommitBinds ==
    ASSUME TypeOK, LockInv, RoomInv, NEW m \in Machines, ActivateCommits(m)
    PROVE  /\ ClientAt(m, "bind") => Cardinality(LiveDevices' \ revived) <= lic'.max
           /\ RoomInv'
  <1>0. dev \in [Machines -> DeviceRow] /\ lic.max \in Nat
    BY DEF TypeOK, LicenseRow
  <1>1. LiveDevices' = LiveDevices \cup {m}
    BY <1>0 DEF ActivateCommits, SaveDevice, LiveDevices
  <1>2. lic'.max = lic.max
    BY DEF ActivateCommits, TypeOK, LicenseRow
  <1>3. IsFiniteSet(LiveDevices) /\ IsFiniteSet(LiveDevices')
    BY <1>1, FS_AddElement DEF RoomInv
  <1>4. ASSUME ClientAt(m, "bind") PROVE Cardinality(LiveDevices' \ revived) <= lic'.max
    <2>1. PICK S : S = (LiveDevices \ revived) \ {m}
      OBVIOUS
    <2>2. PICK T : T = LiveDevices' \ revived
      OBVIOUS
    <2>3. IsFiniteSet(S) /\ Cardinality(S) < lic.max
      BY <1>3, <1>4, <2>1, FS_Difference DEF RoomInv
    <2>4. m \notin S /\ T \in SUBSET (S \cup {m})
      BY <1>1, <2>1, <2>2
    <2>5. IsFiniteSet(S \cup {m}) /\ Cardinality(S \cup {m}) = Cardinality(S) + 1
      BY <2>3, <2>4, FS_AddElement
    <2>6. IsFiniteSet(T) /\ Cardinality(T) <= Cardinality(S \cup {m})
      BY <2>4, <2>5, FS_Subset
    <2>7. Cardinality(S) \in Nat /\ Cardinality(T) \in Nat
      BY <2>3, <2>6, FS_CardinalityType
    <2> QED
      BY <1>0, <1>2, <2>2, <2>3, <2>5, <2>6, <2>7
  <1>5. \A s \in Machines : ~ClientAt(s, "bind")'
    <2>1. ClientGo(m, "supersede") /\ Binding(m)
      BY DEF ActivateCommits
    <2>2. \A s \in Machines \ {m} : ~Binding(s)
      BY <2>1 DEF LockInv
    <2>3. client'[m] = "supersede" /\ \A s \in Machines \ {m} : client'[s] = client[s]
      BY <2>1, ClientGoType DEF ClientPcs
    <2> QED
      BY <2>2, <2>3 DEF ClientAt, Binding
  <1>6. RoomInv'
    BY <1>3, <1>5 DEF RoomInv
  <1> QED
    BY <1>4, <1>6

\* The count, under the lock.
LEMMA ReadCounts ==
    ASSUME TypeOK, RoomInv, NEW m \in Machines, ActivateReads(m)
    PROVE  RoomInv'
  <1>1. PICK pc \in ClientPcs : ClientGo(m, pc) /\ pc = IF dev[m].row = "live" THEN "rebind" ELSE "bind"
    BY DEF ActivateReads, ClientPcs
  <1>2. client'[m] = pc /\ \A s \in Machines \ {m} : client'[s] = client[s]
    BY <1>1, ClientGoType
  <1>3. UNCHANGED <<lic, dev, revived>> /\ HasRoom(m)
    BY DEF ActivateReads
  <1>4. LiveDevices' = LiveDevices
    BY <1>3 DEF LiveDevices
  <1>5. ASSUME pc = "bind" PROVE Cardinality((LiveDevices \ revived) \ {m}) < lic.max
    <2>1. PICK S : S = (LiveDevices \ revived) \ {m}
      OBVIOUS
    <2>2. Cardinality(LiveDevices) < lic.max /\ lic.max \in Nat /\ IsFiniteSet(LiveDevices)
      BY <1>1, <1>3, <1>5 DEF HasRoom, RoomInv, TypeOK, LicenseRow
    <2>3. S \in SUBSET LiveDevices
      BY <2>1
    <2>4. IsFiniteSet(S) /\ Cardinality(S) <= Cardinality(LiveDevices)
      BY <2>2, <2>3, FS_Subset
    <2>5. Cardinality(S) \in Nat /\ Cardinality(LiveDevices) \in Nat
      BY <2>2, <2>4, FS_CardinalityType
    <2> QED
      BY <2>1, <2>2, <2>4, <2>5
  <1> QED
    BY <1>2, <1>3, <1>4, <1>5 DEF RoomInv, ClientAt

\* A rollback releases the lock, and with it forgets what reports brought back.
LEMMA RollBackRoom ==
    ASSUME TypeOK, LockInv, RoomInv, NEW m \in Machines, ActivateRollsBack(m)
    PROVE  RoomInv'
  <1>1. LiveDevices' = LiveDevices
    BY DEF ActivateRollsBack, LiveDevices
  <1>2. \A s \in Machines : ~ClientAt(s, "bind")'
    <2>1. ClientGo(m, "idle") /\ Binding(m)
      BY DEF ActivateRollsBack
    <2>2. \A s \in Machines \ {m} : ~Binding(s)
      BY <2>1 DEF LockInv
    <2>3. client'[m] = "idle" /\ \A s \in Machines \ {m} : client'[s] = client[s]
      BY <2>1, ClientGoType DEF ClientPcs
    <2> QED
      BY <2>2, <2>3 DEF ClientAt, Binding
  <1> QED
    BY <1>1, <1>2 DEF RoomInv

\* Every other step of a client only makes room, or waits for the lock.
LEMMA ClientRoom ==
    ASSUME TypeOK, LockInv, RoomInv, NEW m \in Machines, ClientStep(m),
           ~ActivateReads(m), ~ActivateCommits(m), ~ActivateRollsBack(m)
    PROVE  RoomInv'
  <1>1. PICK pc \in ClientPcs \ {"bind"} : ClientGo(m, pc)
    BY DEF ClientStep, Activate, ActivateRefused, SupersedeSessions, IssueSession,
           RefreshRefused, DropSession, Logout, BeginUnbind, ClientUnbinds, UnbindRefused,
           ClientPcs
  <1>2. \A s \in Machines : ClientAt(s, "bind")' => ClientAt(s, "bind")
    BY <1>1, ClientGoType DEF ClientAt, ClientPcs
  <1>3. /\ UNCHANGED revived /\ (lic' = lic \/ Unlocked)
        /\ UNCHANGED dev \/ Unbound({m})
    BY DEF ClientStep, Activate, ActivateRefused, SupersedeSessions, IssueSession,
           RefreshRefused, DropSession, Logout, BeginUnbind, ClientUnbinds, UnbindRefused
  <1> QED
    BY <1>2, <1>3, RoomStays

\* A report saves its own device; brought back under the lock, it is among the revived.
LEMMA ReportRoom ==
    ASSUME TypeOK, LockInv, RoomInv, NEW m \in Machines, ReportStep(m)
    PROVE  RoomInv'
  <1>0. dev \in [Machines -> DeviceRow]
    BY DEF TypeOK
  <1>1. CASE ReportSavesDevice(m)
    <2>1. LiveDevices' \subseteq LiveDevices \cup {m}
      BY <1>0, <1>1 DEF ReportSavesDevice, SaveDevice, LiveDevices
    <2>2. ASSUME lock # Nobody PROVE (LiveDevices' \ revived') \subseteq (LiveDevices \ revived)
      <3>1. revived \subseteq revived' /\ (m \in LiveDevices \/ m \in revived')
        BY <1>1, <2>2 DEF ReportSavesDevice, LiveDevices
      <3> QED
        BY <2>1, <3>1
    <2>3. UNCHANGED <<lic, client>>
      BY <1>1 DEF ReportSavesDevice
    <2> QED
      BY <2>1, <2>2, <2>3, RoomFrame DEF Unlocked, ClientAt
  <1>2. CASE ~ReportSavesDevice(m)
    <2>1. UNCHANGED <<dev, revived, client>> /\ (lic' = lic \/ Unlocked)
      BY <1>2 DEF ReportStep, BeginReport, ReportSavesLicense, SaveLicense
    <2> QED
      BY <2>1, RoomStays DEF ClientAt
  <1> QED
    BY <1>1, <1>2

LEMMA OperatorRoom ==
    ASSUME TypeOK, LockInv, RoomInv, NEW o \in Operators, OperatorStep(o)
    PROVE  RoomInv'
  <1>1. /\ UNCHANGED <<revived, client>> /\ (lic' = lic \/ Unlocked)
        /\ \/ UNCHANGED dev
           \/ \E machines : Unbound(machines)
           \/ \E m, status : SetStatus(m, status)
    BY DEF OperatorStep, ReadLicense, WriteLicense, UpdateMaxDevices, ResetUnbindCount,
           BeginReset, ResetDevices, BeginDevice, Unbind, Blacklist, UnblacklistDeletes,
           UnblacklistFails, UnblacklistRestores, RemoveFromBlacklist, OnlyOperator
  <1> QED
    BY <1>1, RoomStays DEF ClientAt

\* Only a commit takes a machine from the count to its session.
Commits == \E m \in Machines : ClientAt(m, "bind") /\ ClientAt(m, "supersede")'

LEMMA OnlyCommits ==
    ASSUME TypeOK, [Next]_vars, NEW m \in Machines, ClientAt(m, "bind"), ClientAt(m, "supersede")'
    PROVE  ActivateCommits(m)
  <1>1. client[m] # client'[m]
    BY DEF ClientAt
  <1>2. ASSUME NEW s \in Machines, ClientStep(s) PROVE s = m
    <2>1. PICK pc \in ClientPcs : ClientGo(s, pc)
      BY <1>2 DEF ClientStep, Activate, ActivateReads, ActivateRefused, ActivateCommits,
             ActivateRollsBack, SupersedeSessions, IssueSession, RefreshRefused, DropSession,
             Logout, BeginUnbind, ClientUnbinds, UnbindRefused, ClientPcs
    <2> QED
      BY <1>1, <2>1, ClientGoType
  <1>3. ASSUME NEW s \in Machines, ReportStep(s) PROVE UNCHANGED client
    BY <1>3 DEF ReportStep, BeginReport, ReportSavesLicense, ReportSavesDevice
  <1>4. ASSUME NEW o \in Operators, OperatorStep(o) PROVE UNCHANGED client
    BY <1>4 DEF OperatorStep, ReadLicense, WriteLicense, UpdateMaxDevices, ResetUnbindCount,
           BeginReset, ResetDevices, BeginDevice, Unbind, Blacklist, UnblacklistDeletes,
           UnblacklistFails, UnblacklistRestores, RemoveFromBlacklist, OnlyOperator
  <1>5. ClientStep(m)
    BY <1>1, <1>2, <1>3, <1>4 DEF Next, vars
  <1>6. ASSUME NEW pc \in ClientPcs \ {"supersede"}, ClientGo(m, pc) PROVE FALSE
    BY <1>6, ClientGoType DEF ClientAt
  <1> QED
    BY <1>5, <1>6 DEF ClientStep, Activate, ActivateReads, ActivateRefused,
           ActivateRollsBack, SupersedeSessions, IssueSession, RefreshRefused, DropSession,
           Logout, BeginUnbind, ClientUnbinds, UnbindRefused, ClientPcs

LEMMA RoomNext ==
    ASSUME LicenseInv, RoomInv, [Next]_vars
    PROVE  RoomInv' /\ (Commits => Cardinality(LiveDevices' \ revived) <= lic'.max)
  <1>0. TypeOK /\ LockInv
    BY DEF LicenseInv
  <1>1. ASSUME NEW m \in Machines, ClientStep(m) PROVE RoomInv'
    BY <1>0, <1>1, CommitBinds, ReadCounts, RollBackRoom, ClientRoom
  <1>2. CASE UNCHANGED vars
    <2>1. UNCHANGED <<lic, dev, client, revived>>
      BY <1>2 DEF vars
    <2> QED
      BY <1>0, <1>2, <2>1, RoomStays DEF ClientAt, Commits
  <1>3. RoomInv'
    BY <1>0, <1>1, <1>2, ReportRoom, OperatorRoom DEF Next
  <1>4. ASSUME Commits PROVE Cardinality(LiveDevices' \ revived) <= lic'.max
    <2>1. PICK m \in Machines : ClientAt(m, "bind") /\ ActivateCommits(m)
      BY <1>0, <1>4, OnlyCommits DEF Commits
    <2> QED
      BY <1>0, <2>1, CommitBinds
  <1> QED
    BY <1>3, <1>4

\* An activation that found its device not bound leaves no more bound devices than
\* max_devices, whoever else activates, unbinds, resets, reports or changes the limit between
\* its count and its commit; but for devices that a report's stale Save brought back in
\* between, which the lock of the licence does not prevent.
THEOREM BoundWithinLimitAlways == Spec => BoundWithinLimit
  <1>1. Init => RoomInv
    <2>1. ASSUME Init PROVE RoomInv
      <3>1. LiveDevices = {}
        BY <2>1 DEF Init, LiveDevices
      <3> QED
        BY <2>1, <3>1, FS_EmptySet DEF Init, RoomInv, ClientAt
    <2> QED
      BY <2>1
  <1>2. LicenseInv /\ RoomInv /\ [Next]_vars => RoomInv'
    BY RoomNext
  <1>3. LicenseInv /\ RoomInv /\ [Next]_vars
           => [(\E m \in Machines : ClientAt(m, "bind") /\ ClientAt(m, "supersede")')
                  => Cardinality(LiveDevices' \ revived) <= lic'.max]_vars
    BY RoomNext DEF Commits
  <1> QED
    BY <1>1, <1>2, <1>3, LicenseInvariant, PTL DEF Spec, BoundWithinLimit

-----------------------------------------------------------------------------
(* Revocations.                                                            *)

Unrevoked == lic.status = "revoked" => lic'.status = "revoked"

LEMMA ClientUnrevoked ==
    ASSUME LicenseInv, NEW m \in Machines, ClientStep(m)
    PROVE  Unrevoked
  <1>0. TypeOK /\ LockInv
    BY DEF LicenseInv
  <1>1. CASE ActivateCommits(m)
    BY <1>0, <1>1 DEF ActivateCommits, LockInv, Unrevoked
  <1>2. CASE ~ActivateCommits(m)
    BY <1>0, <1>2 DEF ClientStep, Activate, ActivateReads, ActivateRefused,
           ActivateRollsBack, SupersedeSessions, IssueSession, RefreshRefused, DropSession,
           Logout, BeginUnbind, ClientUnbinds, UnbindRefused, TypeOK, LicenseRow, Unrevoked
  <1> QED
    BY <1>1, <1>2

LEMMA ReportUnrevoked ==
    ASSUME LicenseInv, NEW m \in Machines, ReportStep(m)
    PROVE  Unrevoked \/ SavesOldCopy
  <1>0. ReporterInv /\ reporter \in [Machines -> ReportRow]
    BY DEF LicenseInv, TypeOK
  <1>1. CASE ReportSavesLicense(m)
    <2>1. /\ reporter[m].pc = "licence" /\ reporter[m].copy.status = "active"
          /\ reporter'[m].pc = "device"
      BY <1>0, <1>1 DEF ReportSavesLicense, ReporterInv
    <2> QED
      BY <2>1 DEF SavesOldCopy
  <1>2. CASE ~ReportSavesLicense(m)
    BY <1>2 DEF ReportStep, BeginReport, ReportSavesDevice, Unrevoked
  <1> QED
    BY <1>1, <1>2

LEMMA OperatorUnrevoked ==
    ASSUME LicenseInv, NEW o \in Operators, OperatorStep(o)
    PROVE  Unrevoked \/ SavesOldCopy
  <1>0. /\ TypeOK /\ CopiesInv /\ lic \in LicenseRow
        /\ operator \in [Operators -> Request]
    BY DEF LicenseInv, TypeOK
  <1>1. ASSUME NEW op \in {"renew", "suspend", "resume"}, WriteLicense(o, op)
        PROVE  SavesOldCopy
    <2>1. operator[o].op = op /\ operator[o].copy.status # "revoked"
      BY <1>0, <1>1 DEF WriteLicense, OperatorAt, CopiesInv, LicenceOps
    <2>2. operator'[o] = Resting
      BY <1>0, <1>1 DEF WriteLicense, Ends, Starts
    <2>3. operator'[o].op = "idle"
      BY <2>2 DEF Resting
    <2> QED
      BY <2>1, <2>3 DEF SavesOldCopy, OperatorAt
  <1>2. CASE WriteLicense(o, "delete")
    BY <1>0, <1>2 DEF WriteLicense, LicenseRow, Unrevoked
  <1>3. CASE WriteLicense(o, "revoke")
    <2>1. SaveLicense([operator[o].copy EXCEPT !.status = "revoked"])
      BY <1>3 DEF WriteLicense, Outcomes
    <2>2. operator[o].copy \in LicenseRow
      BY <1>0 DEF Request
    <2>3. [operator[o].copy EXCEPT !.status = "revoked"] \in LicenseRow
             /\ [operator[o].copy EXCEPT !.status = "revoked"].status = "revoked"
      BY <2>2 DEF LicenseRow, Statuses
    <2> QED
      BY <2>1, <2>3, SaveLicenseType DEF Unrevoked
  <1>4. CASE (\E n \in DeviceLimits : UpdateMaxDevices(o, n)) \/ ResetUnbindCount(o)
    BY <1>0, <1>4 DEF UpdateMaxDevices, ResetUnbindCount, LicenseRow, Unrevoked
  <1>5. ASSUME UNCHANGED lic PROVE Unrevoked
    BY <1>5 DEF Unrevoked
  <1> QED
    BY <1>1, <1>2, <1>3, <1>4, <1>5
    DEF OperatorStep, ReadLicense, BeginReset, ResetDevices, BeginDevice, Unbind, Blacklist,
        UnblacklistDeletes, UnblacklistFails, UnblacklistRestores, RemoveFromBlacklist,
        OnlyOperator

\* A revocation is undone only by the Save of a Verify, or of an administrator who renews,
\* suspends or resumes, that had read the licence while it was not revoked: by no activation,
\* and by no request that reads it afterwards, for any number of them at the same time.
THEOREM RevocationEndsByOldCopiesOnly == Spec => RevocationEndsByOldCopies
  <1>1. LicenseInv /\ [Next]_vars
           => [(lic.status = "revoked" /\ lic'.status # "revoked") => SavesOldCopy]_vars
    BY ClientUnrevoked, ReportUnrevoked, OperatorUnrevoked DEF Next, Unrevoked
  <1> QED
    BY <1>1, LicenseInvariant, PTL DEF Spec, RevocationEndsByOldCopies

-----------------------------------------------------------------------------
(* The blacklist.                                                          *)

Refused(m) == dev[m].row = "live" /\ dev[m].status = "blacklisted"

\* Only Blacklist makes a device a refused one.
LEMMA NoneRefused ==
    ASSUME TypeOK,
           \/ UNCHANGED dev
           \/ \E m : SaveDevice(m) \/ SetStatus(m, "active")
           \/ \E machines : Unbound(machines)
    PROVE  \A m \in Machines : Refused(m)' => Refused(m)
  <1>0. dev \in [Machines -> DeviceRow]
    BY DEF TypeOK
  <1>1. CASE UNCHANGED dev
    BY <1>1 DEF Refused
  <1>2. ASSUME NEW s, SaveDevice(s), NEW m \in Machines PROVE Refused(m)' => Refused(m)
    BY <1>0, <1>2 DEF SaveDevice, Refused
  <1>3. ASSUME NEW s, SetStatus(s, "active"), NEW m \in Machines PROVE Refused(m)' => Refused(m)
    BY <1>0, <1>3 DEF SetStatus, Refused, DeviceRow
  <1>4. ASSUME NEW machines, Unbound(machines), NEW m \in Machines PROVE Refused(m)' => Refused(m)
    BY <1>0, <1>4 DEF Unbound, Refused, DeviceRow
  <1> QED
    BY <1>1, <1>2, <1>3, <1>4

\* A step that refuses no other device, takes no entry away and ends no restoration.
LEMMA RefusedFrame ==
    ASSUME RefusedIsListed, UNCHANGED <<listed, mislaid>>,
           \A m \in Machines : Refused(m)' => Refused(m),
           \A o \in Operators : OperatorAt(o, "restore") => operator'[o] = operator[o]
    PROVE  RefusedIsListed'
  BY DEF RefusedIsListed, Refused, OperatorAt

\* Why a device may be refused.
Excused(m) ==
    \/ listed[m]
    \/ \E o \in Operators : OperatorAt(o, "restore") /\ operator[o].machine = m
    \/ m \in mislaid

\* What an administrator does about one device leaves the excuses of the others.
LEMMA OthersExcused ==
    ASSUME RefusedIsListed, NEW o \in Operators, NEW b, b = operator[o].machine,
           \A m \in Machines : m # b => listed'[m] = listed[m],
           \A m \in Machines : m # b => (m \in mislaid => m \in mislaid'),
           \A p \in Operators : p # o => operator'[p] = operator[p],
           NEW m \in Machines, m # b, Refused(m)
    PROVE  Excused(m)'
  <1>1. Excused(m)
    BY DEF RefusedIsListed, Refused, Excused
  <1> QED
    BY <1>1 DEF Excused, OperatorAt

LEMMA OperatorRefused ==
    ASSUME TypeOK, RefusedIsListed, NEW o \in Operators, OperatorStep(o)
    PROVE  RefusedIsListed'
  <1>b. PICK b : b = operator[o].machine
    OBVIOUS
  <1>0. /\ dev \in [Machines -> DeviceRow] /\ listed \in [Machines -> BOOLEAN]
        /\ operator \in [Operators -> Request]
    BY DEF TypeOK
  <1>1. ASSUME NEW r, Starts(o, r) PROVE \A p \in Operators : p # o => operator'[p] = operator[p]
    BY <1>0, <1>1 DEF Starts
  <1>2. ASSUME Ends(o) PROVE \A p \in Operators : p # o => operator'[p] = operator[p]
    BY <1>1, <1>2 DEF Ends
  <1>3. ASSUME \A m \in Machines : m # b => listed'[m] = listed[m],
               \A m \in Machines : m # b => (m \in mislaid => m \in mislaid'),
               \A p \in Operators : p # o => operator'[p] = operator[p],
               \A m \in Machines : m # b /\ Refused(m)' => Refused(m),
               b \in Machines /\ Refused(b)' => Excused(b)'
        PROVE  RefusedIsListed'
    <2>1. ASSUME NEW m \in Machines, Refused(m)' PROVE Excused(m)'
      <3>1. CASE m = b
        BY <1>3, <2>1, <3>1
      <3>2. CASE m # b
        BY <1>b, <1>3, <2>1, <3>2, OthersExcused
      <3> QED
        BY <3>1, <3>2
    <2> QED
      BY <2>1 DEF RefusedIsListed, Refused, Excused
  <1>4. \A m \in Machines : Refused(m) => Excused(m)
    BY DEF RefusedIsListed, Refused, Excused
  <1>5. CASE Blacklist(o)
    <2>1. /\ listed' = [listed EXCEPT ![b] = TRUE] /\ SetStatus(b, "blacklisted")
          /\ mislaid' = mislaid \ {b} /\ Ends(o)
      BY <1>b, <1>5 DEF Blacklist
    <2>2. \A m \in Machines : m # b => listed'[m] = listed[m]
      BY <1>0, <2>1
    <2>3. \A m \in Machines : m # b /\ Refused(m)' => Refused(m)
      BY <1>0, <2>1 DEF SetStatus, Refused
    <2>4. b \in Machines => Excused(b)'
      BY <1>0, <2>1 DEF Excused
    <2> QED
      BY <1>2, <1>3, <2>1, <2>2, <2>3, <2>4
  <1>6. CASE UnblacklistDeletes(o)
    <2>1. /\ listed' = [listed EXCEPT ![b] = FALSE] /\ UNCHANGED dev
          /\ operator[o].op = "unblacklist" /\ mislaid \subseteq mislaid'
      BY <1>b, <1>6 DEF UnblacklistDeletes, OperatorAt
    <2>2. \A m \in Machines : m # b => listed'[m] = listed[m]
      BY <1>0, <2>1
    <2>3. \A m \in Machines : Refused(m)' => Refused(m)
      BY <2>1 DEF Refused
    <2>4. \A p \in Operators : p # o => operator'[p] = operator[p]
      BY <1>1, <1>2, <1>6 DEF UnblacklistDeletes
    <2>5. ASSUME b \in Machines, Refused(b) PROVE Excused(b)'
      <3>1. CASE listed[b] /\ operator[o].was = "blacklisted"
        <4>1. PICK r : r = [operator[o] EXCEPT !.op = "restore"]
          OBVIOUS
        <4>2. Starts(o, r)
          BY <1>b, <1>6, <3>1, <4>1 DEF UnblacklistDeletes
        <4>3. r.op = "restore" /\ r.machine = b
          BY <1>0, <1>b, <4>1 DEF Request
        <4>4. operator'[o] = r
          BY <1>0, <4>2 DEF Starts
        <4> QED
          BY <4>3, <4>4 DEF Excused, OperatorAt
      <3>2. CASE listed[b] /\ operator[o].was # "blacklisted"
        <4>1. b \in mislaid'
          BY <1>b, <1>6, <3>2 DEF UnblacklistDeletes
        <4> QED
          BY <4>1 DEF Excused
      <3>3. CASE ~listed[b]
        <4>1. \/ b \in mislaid
              \/ \E p \in Operators : p # o /\ OperatorAt(p, "restore") /\ operator[p].machine = b
          BY <1>4, <2>1, <2>5, <3>3 DEF Excused, OperatorAt
        <4> QED
          BY <2>1, <2>4, <4>1 DEF Excused, OperatorAt
      <3> QED
        BY <3>1, <3>2, <3>3
    <2> QED
      BY <1>3, <2>1, <2>2, <2>3, <2>4, <2>5
  <1>7. CASE UnblacklistFails(o)
    <2>1. UNCHANGED <<listed, dev>> /\ mislaid' = mislaid \cup {b} /\ Ends(o)
      BY <1>b, <1>7 DEF UnblacklistFails
    <2>2. Excused(b)' /\ \A m \in Machines : Refused(m)' => Refused(m)
      BY <2>1 DEF Excused, Refused
    <2> QED
      BY <1>2, <1>3, <2>1, <2>2
  <1>8. CASE UnblacklistRestores(o)
    <2>1. UNCHANGED <<listed, mislaid>> /\ SetStatus(b, "active") /\ Ends(o)
      BY <1>b, <1>8 DEF UnblacklistRestores
    <2>2. \A m \in Machines : Refused(m)' => Refused(m) /\ m # b
      BY <1>0, <2>1 DEF SetStatus, Refused, DeviceRow
    <2> QED
      BY <1>2, <1>3, <2>1, <2>2
  <1>9. CASE RemoveFromBlacklist(o)
    <2>1. /\ listed' = [listed EXCEPT ![b] = FALSE] /\ UNCHANGED mislaid /\ Ends(o)
          /\ IF listed[b] THEN SetStatus(b, "active") ELSE UNCHANGED dev
          /\ operator[o].op = "remove"
      BY <1>b, <1>9 DEF RemoveFromBlacklist, OperatorAt
    <2>2. \A m \in Machines : m # b => listed'[m] = listed[m]
      BY <1>0, <2>1
    <2>3. CASE listed[b]
      <3>1. \A m \in Machines : Refused(m)' => Refused(m) /\ m # b
        BY <1>0, <2>1, <2>3 DEF SetStatus, Refused, DeviceRow
      <3> QED
        BY <1>2, <1>3, <2>1, <2>2, <3>1
    <2>4. CASE ~listed[b]
      <3>1. \A m \in Machines : Refused(m)' => Refused(m)
        BY <2>1, <2>4 DEF Refused
      <3>2. \A p \in Operators : p # o => operator'[p] = operator[p]
        BY <1>2, <2>1
      <3>3. ASSUME b \in Machines, Refused(b) PROVE Excused(b)'
        <4>1. \/ b \in mislaid
              \/ \E p \in Operators : p # o /\ OperatorAt(p, "restore") /\ operator[p].machine = b
          BY <1>4, <2>1, <2>4, <3>3 DEF Excused, OperatorAt
        <4> QED
          BY <2>1, <3>2, <4>1 DEF Excused, OperatorAt
      <3> QED
        BY <1>3, <2>1, <2>2, <3>1, <3>2, <3>3
    <2> QED
      BY <2>3, <2>4
  <1>10. ASSUME operator[o].op # "restore", UNCHANGED <<listed, mislaid>>,
                UNCHANGED dev \/ \E machines : Unbound(machines),
                \A p \in Operators : p # o => operator'[p] = operator[p]
         PROVE  RefusedIsListed'
    BY <1>10, NoneRefused, RefusedFrame DEF OperatorAt
  <1>11. CASE \E op \in LicenceOps : ReadLicense(o, op) \/ WriteLicense(o, op)
    BY <1>1, <1>2, <1>10, <1>11 DEF ReadLicense, WriteLicense, OnlyOperator, OperatorAt, LicenceOps
  <1>12. CASE (\E n \in DeviceLimits : UpdateMaxDevices(o, n)) \/ ResetUnbindCount(o)
    BY <1>10, <1>12 DEF UpdateMaxDevices, ResetUnbindCount, OperatorAt
  <1>13. CASE BeginReset(o) \/ ResetDevices(o) \/ Unbind(o)
    BY <1>1, <1>2, <1>10, <1>13 DEF BeginReset, ResetDevices, Unbind, OnlyOperator, OperatorAt
  <1>14. CASE \E op \in {"unbind", "blacklist", "unblacklist", "remove"}, m \in Machines :
                 BeginDevice(o, op, m)
    BY <1>1, <1>10, <1>14 DEF BeginDevice, OnlyOperator, OperatorAt
  <1> QED
    BY <1>5, <1>6, <1>7, <1>8, <1>9, <1>11, <1>12, <1>13, <1>14 DEF OperatorStep, LicenceOps

\* A device refused as blacklisted has an entry that can be removed, for any administrators
\* at the same time, except where Unblacklist itself took the entry and did not restore the
\* device, not yet, for an error, or for the status it had read.
THEOREM RefusedIsListedAlways == Spec => []RefusedIsListed
  <1>1. TypeOK /\ RefusedIsListed /\ [Next]_vars => RefusedIsListed'
    <2> SUFFICES ASSUME TypeOK, RefusedIsListed, [Next]_vars PROVE RefusedIsListed'
      OBVIOUS
    <2>1. ASSUME UNCHANGED <<listed, mislaid, operator>>,
                 UNCHANGED dev \/ (\E m : SaveDevice(m)) \/ (\E machines : Unbound(machines))
          PROVE  RefusedIsListed'
      BY <2>1, NoneRefused, RefusedFrame
    <2>2. ASSUME NEW m \in Machines, ClientStep(m) PROVE RefusedIsListed'
      BY <2>1, <2>2 DEF ClientStep, Activate, ActivateReads, ActivateRefused, ActivateCommits,
           ActivateRollsBack, SupersedeSessions, IssueSession, RefreshRefused, DropSession,
           Logout, BeginUnbind, ClientUnbinds, UnbindRefused
    <2>3. ASSUME NEW m \in Machines, ReportStep(m) PROVE RefusedIsListed'
      BY <2>1, <2>3 DEF ReportStep, BeginReport, ReportSavesLicense, ReportSavesDevice
    <2>4. CASE UNCHANGED vars
      BY <2>1, <2>4 DEF vars
    <2> QED
      BY <2>2, <2>3, <2>4, OperatorRefused DEF Next
  <1>2. Init => RefusedIsListed
    BY DEF Init, RefusedIsListed
  <1>3. LicenseInv => TypeOK
    BY DEF LicenseInv
  <1> QED
    BY <1>1, <1>2, <1>3, LicenseInvariant, PTL DEF Spec
=============================================================================
