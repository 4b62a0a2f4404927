------------------------------ MODULE Packages ------------------------------
(***************************************************************************)
(* One hot update, or one release, on the server: its row, the files it    *)
(* names, the administrators' requests, the tasks that publish it in the   *)
(* background and what devices report of it.  internal/handler/            *)
(* hotupdate.go, release.go and publish_task.go.                           *)
(*                                                                         *)
(* Requests and the workers of tasks read the row, decide and Save every   *)
(* column of their copy, counters included, which inserts a deleted row    *)
(* again.  A request or worker is split where it has read and not yet      *)
(* saved, and around what it does to files.  The server may be started     *)
(* anew at any time.  What meets what is bounded: in one behaviour there   *)
(* are either uploads, or publish tasks, or reports of devices, besides    *)
(* the requests that change the row.  Versions are in module Updater.      *)
(* MUTx definitions are plausible mistakes.                                *)
(***************************************************************************)
EXTENDS UpdateStatus, FiniteSets

CONSTANTS
    Requests,      \* requests of administrators at a time
    Tasks,         \* publish tasks there may be
    Machines,      \* devices that report
    MaxFiles       \* bound: files uploaded

ASSUME PackagesAssumption == MaxFiles \in Nat /\ IsFiniteSet(Machines)

VARIABLES
    resource,      \* "hotupdate" or "release"
    meeting,       \* bound: "uploads", "tasks" or "reports"
    package,       \* the row
    files,         \* the files in the releases directory
    uploaded,      \* number of files uploaded
    request,       \* what each request is at
    task,          \* the rows of publish_tasks and the goroutines that work on them
    logs,          \* the status in hot_update_logs of each machine
    overwritten,   \* some Save wrote a copy that was out of date
    removing,      \* some request began to delete the row
    interrupted    \* a restart, or a worker that could not read its task

packageVars == <<resource, meeting, package, files, uploaded, request, task, logs, overwritten,
                 removing, interrupted>>

NoPackage == [row |-> "none", status |-> "draft", full |-> 0, patch |-> 0, open |-> TRUE,
              success |-> 0, fail |-> 0]
FreeRequest      == [op |-> "idle", copy |-> NoPackage, file |-> 0, kind |-> "full"]
NoTask    == [status |-> "none", action |-> "none", worker |-> "idle", copy |-> NoPackage]

PackagesInit ==
    /\ resource \in {"hotupdate", "release"} /\ meeting \in {"uploads", "tasks", "reports"}
    /\ package = NoPackage /\ files = {} /\ uploaded = 0
    /\ request = [r \in Requests |-> FreeRequest]
    /\ task = [t \in Tasks |-> NoTask]
    /\ logs = [m \in Machines |-> "none"]
    /\ overwritten = FALSE /\ removing = FALSE /\ interrupted = FALSE

FilesOf(p)    == {p.full, p.patch} \ {0}
PackageLive        == package.row = "live"
\* Bound: besides tasks and reports, and once an old copy was saved, there is one request
\* at a time.
IsIdle(r)   == /\ request[r].op = "idle"
               /\ \/ meeting = "uploads" /\ ~overwritten
                  \/ \A o \in Requests : request[o].op = "idle"
FinishRequest(r)   == request' = [request EXCEPT ![r] = FreeRequest]

\* model.DB.Save of a copy that was read before and is changed in some columns.
SavePackage(read, changed) ==
    /\ package' = [changed EXCEPT !.row = "live"]
    /\ overwritten' = (overwritten \/ read # package)

ReadPackage(r, op) ==
    /\ IsIdle(r) /\ PackageLive
    /\ request' = [request EXCEPT ![r] = [FreeRequest EXCEPT !.op = op, !.copy = package]]
    /\ UNCHANGED <<resource, meeting, package, files, uploaded, task, logs, overwritten,
                   removing, interrupted>>

-----------------------------------------------------------------------------
(* Creating and uploading.                                                 *)

\* The file, if there is one, is committed before the row; a row that cannot be
\* created takes it away again.
CreateHotUpdate ==
    /\ resource = "hotupdate" /\ package.row = "none"
    /\ \E open \in BOOLEAN :
          \/ /\ package' = [NoPackage EXCEPT !.row = "live", !.open = open]
             /\ UNCHANGED <<files, uploaded>>
          \/ \E kind \in {"full", "patch"} :
                /\ uploaded < MaxFiles
                /\ package' = [NoPackage EXCEPT !.row = "live", !.open = open,
                                                ![kind] = uploaded + 1]
                /\ files' = files \cup {uploaded + 1} /\ uploaded' = uploaded + 1
    /\ UNCHANGED <<resource, meeting, request, task, logs, overwritten, removing,
                   interrupted>>

CreateRelease ==
    /\ resource = "release" /\ package.row = "none"
    /\ package' = [NoPackage EXCEPT !.row = "live"]
    /\ UNCHANGED <<resource, meeting, files, uploaded, request, task, logs, overwritten,
                   removing, interrupted>>

\* The row is read and the new file committed under a new name.
StageUpload(r, kind) ==
    /\ IsIdle(r) /\ uploaded < MaxFiles /\ meeting = "uploads"
    /\ files' = files \cup {uploaded + 1} /\ uploaded' = uploaded + 1
    /\ request' = [request EXCEPT ![r] =
          [op |-> "upload", copy |-> package, file |-> uploaded + 1, kind |-> kind]]
    /\ UNCHANGED <<resource, meeting, package, task, logs, overwritten, removing,
                   interrupted>>

UploadHotUpdate(r) ==
    /\ resource = "hotupdate" /\ PackageLive
    /\ \E kind \in {"full", "patch"} : StageUpload(r, kind)

\* A release is looked up by its version, and created with its file if there is none.
UploadRelease(r) ==
    /\ resource = "release"
    /\ \/ PackageLive /\ StageUpload(r, "full")
       \/ /\ package.row = "none" /\ uploaded < MaxFiles
          /\ package' = [NoPackage EXCEPT !.row = "live", !.full = uploaded + 1]
          /\ files' = files \cup {uploaded + 1} /\ uploaded' = uploaded + 1
          /\ UNCHANGED <<resource, meeting, request, task, logs, overwritten, removing,
                         interrupted>>

MUTSaveUpload(r) ==
    LET u == request[r]  old == u.copy[u.kind] IN
    /\ u.op = "upload"
    /\ \/ /\ SavePackage(u.copy, [u.copy EXCEPT ![u.kind] = u.file])
          /\ FinishRequest(r) /\ files' = files \ {old}
       \/ files' = files \ {old, u.file} /\ FinishRequest(r) /\ UNCHANGED <<package, overwritten>>
    /\ UNCHANGED <<resource, meeting, uploaded, task, logs, removing, interrupted>>

\* The row is saved with the new name; or cannot be, and the new file is removed.
SaveUpload(r) ==
    LET u == request[r] IN
    /\ u.op = "upload"
    /\ \/ /\ SavePackage(u.copy, [u.copy EXCEPT ![u.kind] = u.file])
          /\ request' = [request EXCEPT ![r] =
                            [FreeRequest EXCEPT !.op = "replaced", !.file = u.copy[u.kind]]]
          /\ UNCHANGED files
       \/ files' = files \ {u.file} /\ FinishRequest(r) /\ UNCHANGED <<package, overwritten>>
    /\ UNCHANGED <<resource, meeting, uploaded, task, logs, removing, interrupted>>

\* removeReplacedHotUpdateFile, removeReplacedReleaseFile
RemoveReplaced(r) ==
    /\ request[r].op = "replaced"
    /\ files' = files \ {request[r].file}
    /\ FinishRequest(r)
    /\ UNCHANGED <<resource, meeting, package, uploaded, task, logs, overwritten, removing,
                   interrupted>>

-----------------------------------------------------------------------------
(* Changing and deleting.                                                  *)

\* Only the columns of the request are written.
UpdateHotUpdate ==
    /\ resource = "hotupdate" /\ PackageLive
    /\ \E open \in BOOLEAN : package' = [package EXCEPT !.open = open]
    /\ UNCHANGED <<resource, meeting, files, uploaded, request, task, logs, overwritten,
                   removing, interrupted>>

UpdateRelease ==
    /\ resource = "release" /\ PackageLive
    /\ \E open \in BOOLEAN : package' = [package EXCEPT !.open = open]
    /\ UNCHANGED <<resource, meeting, files, uploaded, request, task, logs, overwritten,
                   removing, interrupted>>

SavePackageStatus(r, op, status) ==
    /\ request[r].op = op
    /\ SavePackage(request[r].copy, [request[r].copy EXCEPT !.status = status])
    /\ FinishRequest(r)
    /\ UNCHANGED <<resource, meeting, files, uploaded, task, logs, removing, interrupted>>

\* Publishing needs a file to have been uploaded.
PublishSteps(r) ==
    \/ FilesOf(package) # {} /\ ReadPackage(r, "publish")
    \/ SavePackageStatus(r, "publish", "published")

DeprecateSteps(r) == ReadPackage(r, "deprecate") \/ SavePackageStatus(r, "deprecate", "deprecated")

PublishHotUpdate(r)          == resource = "hotupdate" /\ PublishSteps(r)
DeprecateHotUpdate(r)        == resource = "hotupdate" /\ DeprecateSteps(r)
PublishRelease(r)   == resource = "release" /\ PublishSteps(r)
DeprecateRelease(r) == resource = "release" /\ DeprecateSteps(r)

RollbackHotUpdate(r) ==
    /\ resource = "hotupdate"
    /\ ReadPackage(r, "rollback") \/ SavePackageStatus(r, "rollback", "rollback")

\* The files that the row named go first.
RemoveFiles(r) ==
    /\ IsIdle(r) /\ PackageLive
    /\ files' = files \ FilesOf(package)
    /\ request' = [request EXCEPT ![r] = [FreeRequest EXCEPT !.op = "delete"]]
    /\ removing' = TRUE
    /\ UNCHANGED <<resource, meeting, package, uploaded, task, logs, overwritten,
                   interrupted>>

\* Then the logs, then the row, each in a statement that may fail.
DeleteHotUpdate(r) ==
    /\ resource = "hotupdate"
    /\ \/ RemoveFiles(r)
       \/ /\ request[r].op = "delete"
          /\ \/ logs' = [m \in Machines |-> "none"]
                /\ package' = IF PackageLive THEN [package EXCEPT !.row = "deleted"] ELSE package
             \/ logs' = [m \in Machines |-> "none"] /\ UNCHANGED package
             \/ UNCHANGED <<logs, package>>
          /\ FinishRequest(r)
          /\ UNCHANGED <<resource, meeting, files, uploaded, task, overwritten, removing,
                         interrupted>>

DeleteRelease(r) ==
    /\ resource = "release"
    /\ \/ RemoveFiles(r)
       \/ /\ request[r].op = "delete"
          /\ \/ package' = IF PackageLive THEN [package EXCEPT !.row = "deleted"] ELSE package
             \/ UNCHANGED package
          /\ FinishRequest(r)
          /\ UNCHANGED <<resource, meeting, files, uploaded, task, logs, overwritten,
                         removing, interrupted>>

-----------------------------------------------------------------------------
(* Publish tasks.                                                          *)

Unfinished == {"pending", "running"}

\* createTaskIfNotRunning looks for an unfinished task of the same action, whose answer then
\* stands for the new request too, or inserts a task and starts its worker.
CreateTaskIfNotRunning(r, action) ==
    /\ meeting = "tasks"
    /\ \/ /\ IsIdle(r) /\ PackageLive
          /\ ~ \E t \in Tasks : task[t].action = action /\ task[t].status \in Unfinished
          /\ request' = [request EXCEPT ![r] = [FreeRequest EXCEPT !.op = "task", !.kind = action]]
          /\ UNCHANGED task
       \/ /\ request[r].op = "task" /\ request[r].kind = action
          /\ \E t \in Tasks :
                /\ task[t] = NoTask
                /\ task' = [task EXCEPT ![t] = [NoTask EXCEPT !.status = "pending",
                                                   !.action = action, !.worker = "start"]]
          /\ FinishRequest(r)
    /\ UNCHANGED <<resource, meeting, package, files, uploaded, logs, overwritten, removing,
                   interrupted>>

CreateHotUpdateTask(r) ==
    /\ resource = "hotupdate"
    /\ \E action \in {"publish", "deprecate", "rollback"} : CreateTaskIfNotRunning(r, action)

CreateReleaseTask(r) ==
    /\ resource = "release"
    /\ \E action \in {"publish", "deprecate"} : CreateTaskIfNotRunning(r, action)

StatusOf(action) == CASE action = "publish"   -> "published"
                      [] action = "deprecate" -> "deprecated"
                      [] action = "rollback"  -> "rollback"

\* markTaskFailed, markTaskSuccess
MarkTask(t, status) == task' = [task EXCEPT ![t].status = status, ![t].worker = "idle",
                                            ![t].copy = NoPackage]

\* A worker marks its task as running, reads the row, saves it with the new status and
\* marks the task again; it gives up when it cannot read its task.
WorkOn(t) ==
    \/ /\ task[t].worker = "start"
       /\ \/ /\ PackageLive /\ (task[t].action = "publish" => FilesOf(package) # {})
             /\ task' = [task EXCEPT ![t].status = "running", ![t].worker = "save",
                                     ![t].copy = package]
             /\ UNCHANGED interrupted
          \/ /\ ~PackageLive \/ (task[t].action = "publish" /\ FilesOf(package) = {})
             /\ MarkTask(t, "failed")
             /\ UNCHANGED interrupted
          \/ /\ task' = [task EXCEPT ![t].status = "running", ![t].worker = "idle"]
             /\ interrupted' = TRUE
       /\ UNCHANGED <<package, overwritten>>
    \/ /\ task[t].worker = "save"
       /\ \/ /\ SavePackage(task[t].copy, [task[t].copy EXCEPT !.status = StatusOf(task[t].action)])
             /\ task' = [task EXCEPT ![t].worker = "mark"]
          \/ MarkTask(t, "failed") /\ UNCHANGED <<package, overwritten>>
       /\ UNCHANGED interrupted
    \/ /\ task[t].worker = "mark"
       /\ MarkTask(t, "success")
       /\ UNCHANGED <<package, overwritten, interrupted>>

RunHotUpdateTask(t) ==
    /\ resource = "hotupdate" /\ WorkOn(t)
    /\ UNCHANGED <<resource, meeting, files, uploaded, request, logs, removing>>

RunReleaseTask(t) ==
    /\ resource = "release" /\ WorkOn(t)
    /\ UNCHANGED <<resource, meeting, files, uploaded, request, logs, removing>>

\* The server ends and is started anew; nothing takes up its tasks.
RestartServer ==
    /\ ~interrupted
    /\ request' = [r \in Requests |-> FreeRequest]
    /\ task' = [t \in Tasks |-> [task[t] EXCEPT !.worker = "idle", !.copy = NoPackage]]
    /\ interrupted' = TRUE
    /\ UNCHANGED <<resource, meeting, package, files, uploaded, logs, overwritten,
                   removing>>

-----------------------------------------------------------------------------
(* Reports of devices.                                                     *)

\* Bound: a counter that a failed deletion or an old copy drove up grows no further.
Counted == package.success <= Cardinality(Machines) /\ package.fail <= Cardinality(Machines)

\* One transaction that locks the machine's log.
ReportUpdateStatus(m, status) ==
    /\ resource = "hotupdate" /\ meeting = "reports" /\ PackageLive /\ Counted
    /\ ShouldApply(logs[m], status) /\ logs[m] # status
    /\ logs' = [logs EXCEPT ![m] = status]
    /\ package' = [package EXCEPT
          !.success = NonNegative(@, CounterDelta(logs[m], status, "success")),
          !.fail    = NonNegative(@, CounterDelta(logs[m], status, "failed"))]
    /\ UNCHANGED <<resource, meeting, files, uploaded, request, task, overwritten, removing,
                   interrupted>>

-----------------------------------------------------------------------------
(* What devices are given.                                                 *)

\* CheckUpdate prefers the patch; GetLatestRelease has only full packages.
Offered ==
    IF PackageLive /\ package.status = "published" /\ package.open
    THEN IF package.patch # 0 THEN package.patch ELSE package.full
    ELSE 0

\* DownloadUpdate and DownloadRelease
Served(f) ==
    /\ PackageLive /\ package.status = "published" /\ package.open
    /\ f \in FilesOf(package) /\ f \in files

PackagesNext ==
    \/ CreateHotUpdate \/ CreateRelease \/ UpdateHotUpdate \/ UpdateRelease \/ RestartServer
    \/ \E r \in Requests :
          \/ UploadHotUpdate(r) \/ UploadRelease(r) \/ SaveUpload(r) \/ RemoveReplaced(r)
          \/ PublishHotUpdate(r) \/ DeprecateHotUpdate(r) \/ RollbackHotUpdate(r) \/ DeleteHotUpdate(r)
          \/ PublishRelease(r) \/ DeprecateRelease(r) \/ DeleteRelease(r)
          \/ CreateHotUpdateTask(r) \/ CreateReleaseTask(r)
    \/ \E t \in Tasks : RunHotUpdateTask(t) \/ RunReleaseTask(t)
    \/ \E m \in Machines, status \in Reported : ReportUpdateStatus(m, status)

PackagesSpec == PackagesInit /\ [][PackagesNext]_packageVars

-----------------------------------------------------------------------------
(* Properties                                                              *)

\* What a device is offered it can download, although files are replaced and the statements
\* that name them fail; unless a Save put an old name back or somebody deletes the row.
OfferedIsServed == ~overwritten /\ ~removing /\ Offered # 0 => Served(Offered)

\* The counters of an update are those of its logs, in whatever order the devices' reports
\* arrive and however often they fail and try again; again unless a Save put old counters
\* back or somebody deletes the logs.
CountersAgree ==
    ~overwritten /\ ~removing =>
        /\ package.success = Cardinality({m \in Machines : logs[m] = "success"})
        /\ package.fail = Cardinality({m \in Machines : logs[m] = "failed"})

=============================================================================
