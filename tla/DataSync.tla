------------------------------ MODULE DataSync ------------------------------
(***************************************************************************)
(* One synchronised item and the devices of its user that change it:       *)
(* internal/service/data_sync.go and internal/handler/data_sync.go, with   *)
(* the calls of sdk/go/data_sync.go.  Items share no row, so one item of   *)
(* any type shows what can happen to each.                                 *)
(*                                                                         *)
(* A push reads the row, compares versions and saves the row it read, in   *)
(* separate statements and without a lock.  A refused push is recorded as  *)
(* a conflict of the device, which may resolve it later, in a transaction  *)
(* that pushes again.  The endpoints of one type push without a device id, *)
(* so their conflicts belong to Anon and no device can resolve them.       *)
(*                                                                         *)
(* The contents of the row are the number of the edit that wrote it; a     *)
(* deletion is an edit, as the row stays with a mark.  Left out: a post    *)
(* keeps fields a push leaves empty, and may also be found by its link;    *)
(* authentication, logs, checkpoints.  A call of the SDK named like the    *)
(* handler it calls has the prefix SDK.                                    *)
(* MUTx definitions are plausible mistakes.                                *)
(***************************************************************************)
EXTENDS Integers

CONSTANTS
    Devices,      \* devices of the user
    Kinds,        \* the types of item looked at
    MaxEdits      \* bound: requests that change the item are begun while it has fewer edits

AllKinds == {"config", "workflow", "batch_task", "material", "post", "comment",
             "comment_script", "voice_config", "table"}

ASSUME KindsAssumption == Kinds \subseteq AllKinds
ASSUME EditsAssumption == MaxEdits \in Nat

VARIABLES
    kind,         \* the type of the item
    row,          \* its row; version 0: there is none
    req,          \* the request each device is running
    base,         \* the version each device believes the server has
    knows,        \* the edit each device last received or wrote
    conflict,     \* the pending conflict of each device
    edits,        \* number of edits so far
    raced         \* whether a save replaced a row that had changed since it was read

vars == <<kind, row, req, base, knows, conflict, edits, raced>>

Actions == {"update", "delete"}
\* The endpoint for any item, those of one type, and those of a table.
Vias    == {"any", "typed", "table"}
NoRow   == [ver |-> 0, edit |-> 0, gone |-> FALSE]
Idle    == [pc |-> "idle", action |-> "update", lv |-> 0, via |-> "any", copy |-> NoRow,
            data |-> FALSE]
NoConflict == [data |-> FALSE, server |-> 0, shown |-> 0]

Init ==
    /\ kind \in Kinds
    /\ row      = NoRow
    /\ req      = [d \in Devices |-> Idle]
    /\ base     = [d \in Devices |-> 0]
    /\ knows    = [d \in Devices |-> 0]
    /\ conflict = [d \in Devices |-> NoConflict]
    /\ edits    = 0
    /\ raced    = FALSE

At(d, pc) == req[d].pc = pc
Ends(d)   == req' = [req EXCEPT ![d] = Idle]

\* The device gets its answer, a version and an edit; the SDK does not pass on the
\* version that an endpoint of one type answers.  Or the answer is lost, or is an
\* error because another item of the same batch failed (pushAndCheckResults).
Learns(d, version, edit) ==
    \/ /\ base'  = IF req[d].via = "typed" THEN base ELSE [base EXCEPT ![d] = version]
       /\ knows' = [knows EXCEPT ![d] = edit]
    \/ UNCHANGED <<base, knows>>

-----------------------------------------------------------------------------
(* What each push function does with the row it found.                     *)

\* decodePushData: only a delete may come without data.
Decodes(action, data) == data \/ action = "delete"

Branch(action, refused) ==
    IF row.ver = 0 THEN IF action = "delete" THEN "nothing" ELSE "create"
    ELSE IF refused THEN "conflict" ELSE "save"

Decoded(action, data, refused) ==
    IF Decodes(action, data) THEN Branch(action, refused) ELSE "error"

\* Always compared; a configuration may be empty.
PushConfig(action, data, lv) == Branch(action, row.ver # lv)

\* Not compared for a delete.
PushWorkflow(action, data, lv) ==
    Decoded(action, data, action # "delete" /\ row.ver # lv)

PushBatchTask(action, data, lv) == Decoded(action, data, row.ver # lv)

MUTPushMaterial(action, data, lv) == Decoded(action, data, row.ver > lv /\ lv # 0)
PushMaterial(action, data, lv)    == Decoded(action, data, row.ver # lv)

\* Not compared when the device names no version.
PushPost(action, data, lv)          == Decoded(action, data, row.ver # lv /\ lv # 0)
PushComment(action, data, lv)       == Decoded(action, data, row.ver # lv /\ lv # 0)
PushCommentScript(action, data, lv) == Decoded(action, data, row.ver # lv /\ lv # 0)
PushVoiceConfig(action, data, lv)   == Decoded(action, data, row.ver # lv /\ lv # 0)

\* A row of a general table may be created as deleted (SaveTableDataBatch).
SaveTableData(action, lv) ==
    IF row.ver = 0 THEN "create"
    ELSE IF lv > 0 /\ row.ver > lv THEN "refused" ELSE "save"

\* pushSingleItem.
Dispatch(action, data, lv) ==
    CASE kind = "config"         -> PushConfig(action, data, lv)
      [] kind = "workflow"       -> PushWorkflow(action, data, lv)
      [] kind = "batch_task"     -> PushBatchTask(action, data, lv)
      [] kind = "material"       -> PushMaterial(action, data, lv)
      [] kind = "post"           -> PushPost(action, data, lv)
      [] kind = "comment"        -> PushComment(action, data, lv)
      [] kind = "comment_script" -> PushCommentScript(action, data, lv)
      [] kind = "voice_config"   -> PushVoiceConfig(action, data, lv)
      [] kind = "table"          -> SaveTableData(action, lv)

-----------------------------------------------------------------------------
(* A push: read, then create, save or record a conflict.                   *)

\* The copy read, and the branch taken.  A refusal of a table row names the
\* server's version, but the SDK drops its data: the device has to pull.
Reads(d, action, data, lv, via) ==
    LET branch == Dispatch(action, data, lv) IN
    /\ At(d, "idle") /\ edits < MaxEdits
    /\ IF branch \in {"nothing", "refused", "error"}
       THEN UNCHANGED req
       ELSE req' = [req EXCEPT ![d] = [pc |-> branch, action |-> action, lv |-> lv,
                                       via |-> via, copy |-> row, data |-> data]]
    /\ UNCHANGED <<kind, row, base, knows, conflict, edits, raced>>

\* The endpoint for any item: the device is named by its session.
PushChanges(d, k, action, data, lv) == kind = k /\ k # "table" /\ Reads(d, action, data, lv, "any")

\* The endpoints of one type push without a device id (respondSinglePushResult,
\* respondBatchPushResults).
Typed(d, k, action, data, lv) == kind = k /\ Reads(d, action, data, lv, "typed")

SaveConfig(d, lv)              == Typed(d, "config", "update", TRUE, lv)
SaveWorkflow(d, lv)            == Typed(d, "workflow", "update", TRUE, lv)
DeleteWorkflow(d)              == Typed(d, "workflow", "delete", FALSE, 0)
SaveMaterial(d, lv)            == Typed(d, "material", "update", TRUE, lv)
SaveMaterialsBatch(d, lv)      == Typed(d, "material", "update", TRUE, lv)
SavePostsBatch(d, lv)          == Typed(d, "post", "update", TRUE, lv)
SaveCommentScriptsBatch(d, lv) == Typed(d, "comment_script", "update", TRUE, lv)

\* The endpoint of a table, for a batch of records.
SaveTableDataBatch(d, action, lv) == kind = "table" /\ Reads(d, action, TRUE, lv, "table")

-----------------------------------------------------------------------------
(* The calls of the SDK that push.                                         *)

\* The version a device names: the one it last learned, or none.
Named(d) == {0, base[d]}

SDKPushChanges(d) ==
    \E action \in Actions, lv \in Named(d) : PushChanges(d, kind, action, action = "update", lv)

SaveVoiceConfigs(d)   == \E lv \in Named(d) : PushChanges(d, "voice_config", "update", TRUE, lv)
DeleteVoiceConfig(d)  == PushChanges(d, "voice_config", "delete", FALSE, 0)
SaveConfigs(d)        == \E lv \in Named(d) : SaveConfig(d, lv)
SaveWorkflows(d)      == \E lv \in Named(d) : SaveWorkflow(d, lv)
SDKDeleteWorkflow(d)  == DeleteWorkflow(d)
SaveMaterials(d)      == \E lv \in Named(d) : SaveMaterial(d, lv) \/ SaveMaterialsBatch(d, lv)
SavePosts(d)          == \E lv \in Named(d) : SavePostsBatch(d, lv)
SaveCommentScripts(d) == \E lv \in Named(d) : SaveCommentScriptsBatch(d, lv)
PushRecord(d)         == \E lv \in Named(d) : SaveTableDataBatch(d, "update", lv)
PushRecordBatch(d)    == \E action \in Actions, lv \in Named(d) : SaveTableDataBatch(d, action, lv)
SyncTableToServer(d)  == SaveTableDataBatch(d, "update", 0)

-----------------------------------------------------------------------------
(* The rest of a request: save, create or record a conflict.               *)

\* Reads the post, whatever its version.
ReadPostStatus(d) ==
    /\ kind = "post" /\ row.ver > 0
    /\ At(d, "idle") /\ edits < MaxEdits
    /\ req' = [req EXCEPT ![d] = [Idle EXCEPT !.pc = "status", !.copy = row]]
    /\ UNCHANGED <<kind, row, base, knows, conflict, edits, raced>>

\* The unique index refuses a second row.
Create(d) ==
    /\ At(d, "create")
    /\ IF row.ver = 0
       THEN /\ row' = [ver |-> 1, edit |-> edits + 1, gone |-> req[d].action = "delete"]
            /\ edits' = edits + 1
            /\ Learns(d, 1, edits + 1)
       ELSE UNCHANGED <<row, edits, base, knows>>
    /\ Ends(d)
    /\ UNCHANGED <<kind, conflict, raced>>

\* Save of the row that was read, one version further.
Saved(d, gone) ==
    /\ row' = [ver |-> req[d].copy.ver + 1, edit |-> edits + 1, gone |-> gone]
    /\ edits' = edits + 1
    /\ raced' = (raced \/ row # req[d].copy)

SavePush(d) ==
    /\ At(d, "save")
    /\ Saved(d, req[d].action = "delete")
    /\ Learns(d, req[d].copy.ver + 1, edits + 1)
    /\ Ends(d)
    /\ UNCHANGED <<kind, conflict>>

\* The other columns are written back as they were read.
UpdatePostStatus(d) ==
    /\ At(d, "status")
    /\ Saved(d, req[d].copy.gone)
    /\ Ends(d)
    /\ UNCHANGED <<kind, base, knows, conflict>>

\* One UPDATE.
DeleteTableData(d) ==
    /\ kind = "table" /\ row.ver > 0
    /\ At(d, "idle") /\ edits < MaxEdits
    /\ row' = [ver |-> row.ver + 1, edit |-> edits + 1, gone |-> TRUE]
    /\ edits' = edits + 1
    /\ UNCHANGED <<kind, req, base, knows, conflict, raced>>

DeleteRecord(d) == DeleteTableData(d)

\* A pending conflict of the device is brought up to date, otherwise a new one
\* recorded.  Those recorded without a device id are not kept here, as no device
\* can resolve them.  The answer carries the server's version and data, but for an
\* endpoint of one type the SDK makes it an error.
RecordConflict(d) ==
    /\ At(d, "conflict")
    /\ IF req[d].via = "any"
       THEN /\ conflict' = [conflict EXCEPT ![d] =
                               [data |-> req[d].data, server |-> req[d].copy.ver,
                                shown |-> req[d].copy.edit]]
            /\ Learns(d, req[d].copy.ver, req[d].copy.edit)
       ELSE UNCHANGED <<conflict, base, knows>>
    /\ Ends(d)
    /\ UNCHANGED <<kind, row, edits, raced>>

-----------------------------------------------------------------------------
(* ResolveConflict, by the device that has the conflict.                   *)

Pending(d) == conflict[d] # NoConflict

UseServer(d) ==
    /\ At(d, "idle") /\ Pending(d)
    /\ conflict' = [conflict EXCEPT ![d] = NoConflict]
    /\ UNCHANGED <<kind, row, req, base, knows, edits, raced>>

MUTResolveReads(d) ==
    \E data \in {TRUE, conflict[d].data} :
        /\ At(d, "idle") /\ edits < MaxEdits
        /\ Pending(d)
        /\ Dispatch("update", data, row.ver) = "save"
        /\ req' = [req EXCEPT ![d] = [Idle EXCEPT !.pc = "resolve", !.copy = row]]
        /\ UNCHANGED <<kind, row, base, knows, conflict, edits, raced>>

\* use_local and merge push an update that names the version the conflict
\* showed.  Any other outcome rolls back and leaves the conflict as it was.  A
\* refused deletion has no local data.
ResolveReads(d) ==
    \E data \in {TRUE, conflict[d].data} :
        /\ At(d, "idle") /\ edits < MaxEdits
        /\ Pending(d)
        /\ Dispatch("update", data, conflict[d].server) = "save"
        /\ req' = [req EXCEPT ![d] = [Idle EXCEPT !.pc = "resolve", !.copy = row]]
        /\ UNCHANGED <<kind, row, base, knows, conflict, edits, raced>>

ResolveConflict(d)    == UseServer(d) \/ ResolveReads(d)
SDKResolveConflict(d) == ResolveConflict(d)

\* Commits.  The answer does not tell the new version.
ResolveSaves(d) ==
    /\ At(d, "resolve")
    /\ Saved(d, FALSE)
    /\ conflict' = [conflict EXCEPT ![d] = NoConflict]
    /\ knows' = [knows EXCEPT ![d] = edits + 1]
    /\ Ends(d)
    /\ UNCHANGED <<kind, base>>

-----------------------------------------------------------------------------
(* Pulling.                                                                *)

\* What the handlers answer: changes and table rows come with deleted items, a
\* list of one type without them.
Changes   == {r \in {row} : kind # "table" /\ r.ver > 0}
TableRows == {r \in {row} : kind = "table" /\ r.ver > 0}
SyncAllTables == TableRows
Listed(k) == {r \in {row} : kind = k /\ r.ver > 0 /\ ~r.gone}

GetConfigs        == Listed("config")
GetWorkflows      == Listed("workflow")
GetMaterials      == Listed("material")
GetPosts          == Listed("post")
GetCommentScripts == Listed("comment_script")

\* A device that is answered nothing holds that there is no such item.
Receives(d, k, answer) ==
    /\ kind = k /\ At(d, "idle")
    /\ base'  = [base EXCEPT ![d] = IF answer = {} THEN 0 ELSE row.ver]
    /\ knows' = [knows EXCEPT ![d] = row.edit]
    /\ UNCHANGED <<kind, row, req, conflict, edits, raced>>

SDKGetChanges(d)        == Changes # {} /\ Receives(d, kind, Changes)
PullTable(d)            == TableRows # {} /\ Receives(d, "table", TableRows)
PullAllTables(d)        == SyncAllTables # {} /\ Receives(d, "table", SyncAllTables)
SDKGetConfigs(d)        == Receives(d, "config", GetConfigs)
SDKGetWorkflows(d)      == Receives(d, "workflow", GetWorkflows)
SDKGetMaterials(d)      == Receives(d, "material", GetMaterials)
\* The first page only; a device does not see posts beyond it.
SDKGetPosts(d)          == Receives(d, "post", GetPosts)
SDKGetCommentScripts(d) == Receives(d, "comment_script", GetCommentScripts)
GetVoiceConfigs(d)      == Receives(d, "voice_config", {r \in Changes : ~r.gone})

-----------------------------------------------------------------------------
Push(d) ==
    \/ SDKPushChanges(d) \/ SaveVoiceConfigs(d) \/ DeleteVoiceConfig(d)
    \/ SaveConfigs(d) \/ SaveWorkflows(d) \/ SDKDeleteWorkflow(d) \/ SaveMaterials(d)
    \/ SavePosts(d) \/ SaveCommentScripts(d)
    \/ PushRecord(d) \/ PushRecordBatch(d) \/ SyncTableToServer(d)
    \/ ReadPostStatus(d)

Finish(d) ==
    \/ Create(d) \/ SavePush(d) \/ UpdatePostStatus(d) \/ RecordConflict(d)
    \/ ResolveSaves(d)

Pull(d) ==
    \/ SDKGetChanges(d) \/ PullTable(d) \/ PullAllTables(d) \/ SDKGetConfigs(d) \/ SDKGetWorkflows(d)
    \/ SDKGetMaterials(d) \/ SDKGetPosts(d) \/ SDKGetCommentScripts(d) \/ GetVoiceConfigs(d)

Next ==
    \E d \in Devices :
        Push(d) \/ Finish(d) \/ DeleteRecord(d) \/ SDKResolveConflict(d) \/ Pull(d)

Spec == Init /\ [][Next]_vars

-----------------------------------------------------------------------------
(* Properties                                                              *)

\* The push asked not to be compared, by its type and what it names.
Unchecked(r) ==
    \/ kind = "workflow" /\ r.action = "delete"
    \/ kind \in {"post", "comment", "comment_script", "voice_config", "table"} /\ r.lv = 0

\* Whoever replaces an edit had received it, or was shown it by the conflict it
\* resolves, or asked not to be compared; as long as no save has replaced a row
\* that had changed since it was read.
OverwritesKnown ==
    [][\A d \in Devices :
          (row.edit # 0 /\ ~raced' /\ row' # row /\ req'[d] # req[d]) =>
             /\ At(d, "save")    => knows[d] = row.edit \/ Unchecked(req[d])
             /\ At(d, "resolve") => conflict[d].shown = row.edit]_vars
=============================================================================
