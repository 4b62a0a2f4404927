---------------------------- MODULE SecureScripts ----------------------------
(***************************************************************************)
(* One secure script: what administrators publish, what a device fetches   *)
(* and executes, and what the server records of it.                        *)
(* internal/handler/secure_script.go, internal/service/secure_script.go    *)
(* and the SecureScriptManager of sdk/go/secure_script.go.                 *)
(*                                                                         *)
(* Administrators read the row and Save their whole copy (publish,         *)
(* deprecate), or write some columns.  Two goroutines of one device        *)
(* execute the script and share a cache; their reports travel on their     *)
(* own, in any order, or are lost.  A delivery and the cached copy of it   *)
(* expire together.  Encryption and signatures are taken to work.          *)
(* MUTx definitions are plausible mistakes.                                *)
(***************************************************************************)
EXTENDS Integers, FiniteSets

CONSTANTS
    Admins,        \* requests of administrators at a time
    Goroutines,    \* goroutines of the device that execute the script
    MaxContents,   \* bound: contents the script has one after another
    MaxDeliveries, \* bound: deliveries recorded
    MaxReports     \* bound: reports underway at a time; besides changes of the script: one

ASSUME SecureScriptsAssumption ==
    /\ MaxContents \in Nat /\ MaxDeliveries \in Nat /\ MaxReports \in Nat

VARIABLES
    scene,         \* bound: "publishing", which ends before devices come; "executing", by
                   \* all goroutines of what was published; or "changing" while one executes,
                   \* until an old copy was saved or the script was deleted
    script,        \* the row
    admin,         \* what each request of an administrator is at
    reviewed,      \* the contents that a request to publish read
    written,       \* number of contents so far
    deliveries,    \* the rows of script_deliveries; those after the last are "none"
    expired,       \* the deliveries whose ExpiresAt is over
    cache,         \* the delivery that scriptCache holds; 0: none
    runner,        \* what each goroutine executes
    results,       \* the reports that are underway
    resaved,       \* some Save wrote a copy that was out of date
    deleted        \* some request began to delete the script

scriptVars == <<scene, script, admin, reviewed, written, deliveries, expired, cache,
                runner, results, resaved, deleted>>
serverVars == <<scene, admin, reviewed, written, resaved, deleted>>
deviceVars == <<expired, cache, runner, results>>

Ids      == 1..MaxDeliveries
NoScript == [row |-> "none", status |-> "draft", content |-> 0, open |-> TRUE,
             success |-> 0, fail |-> 0]
NoAdmin  == [op |-> "idle", copy |-> NoScript]
AtRest  == [at |-> "idle", delivery |-> 0]
ScriptLive     == script.row = "live"
Recorded == {i \in Ids : deliveries[i] # "none"}
Latest   == Cardinality(Recorded)

ScriptsInit ==
    /\ scene \in {"publishing", "executing", "changing"}
    /\ script = NoScript /\ admin = [a \in Admins |-> NoAdmin]
    /\ reviewed = {} /\ written = 0
    /\ deliveries = [i \in Ids |-> "none"] /\ expired = {}
    /\ cache = 0 /\ runner = [g \in Goroutines |-> AtRest]
    /\ results = {}
    /\ resaved = FALSE /\ deleted = FALSE

-----------------------------------------------------------------------------
(* Administrators.                                                         *)

\* The uploaded content is encrypted and the row inserted.
CreateScript ==
    /\ script.row = "none" /\ written < MaxContents
    /\ \E open \in BOOLEAN :
          script' = [NoScript EXCEPT !.row = "live", !.content = written + 1, !.open = open]
    /\ written' = written + 1
    /\ UNCHANGED <<scene, admin, reviewed, resaved, deleted, deliveries>>
    /\ UNCHANGED deviceVars

\* The features, devices, rollout and end of the script are "open" to the device or not.
UpdateScript ==
    /\ ScriptLive /\ scene = "publishing"
    /\ \E open \in BOOLEAN : script' = [script EXCEPT !.open = open]
    /\ UNCHANGED <<serverVars, deviceVars, deliveries>>

MUTUpdateContent ==
    /\ ScriptLive /\ written < MaxContents /\ scene = "publishing"
    /\ script' = [script EXCEPT !.content = written + 1]
    /\ written' = written + 1
    /\ UNCHANGED <<scene, admin, reviewed, resaved, deleted, deliveries>>
    /\ UNCHANGED deviceVars

\* New content is a draft again.
UpdateContent ==
    /\ ScriptLive /\ written < MaxContents /\ scene = "publishing"
    /\ script' = [script EXCEPT !.content = written + 1, !.status = "draft"]
    /\ written' = written + 1
    /\ UNCHANGED <<scene, admin, reviewed, resaved, deleted, deliveries>>
    /\ UNCHANGED deviceVars

Begin(a, op) ==
    /\ ScriptLive /\ admin[a] = NoAdmin
    /\ scene = "executing" => script.status = "draft"
    /\ scene # "publishing" =>
          ~resaved /\ ~deleted /\ \A b \in Admins : admin[b] = NoAdmin
    /\ admin' = [admin EXCEPT ![a] = [op |-> op, copy |-> script]]
    /\ UNCHANGED <<scene, script, written, resaved, deleted, deliveries, deviceVars>>

\* model.DB.Save of every column, which inserts a deleted row again.
SaveScript(a, op, status) ==
    /\ admin[a].op = op
    /\ script' = [admin[a].copy EXCEPT !.status = status]
    /\ resaved' = (resaved \/ admin[a].copy # script)
    /\ admin' = [admin EXCEPT ![a] = NoAdmin]
    /\ UNCHANGED <<scene, reviewed, written, deleted, deliveries, deviceVars>>

PublishScript(a) ==
    \/ /\ script.status # "published" /\ Begin(a, "publish")
       /\ reviewed' = reviewed \cup {script.content}
    \/ SaveScript(a, "publish", "published")

DeprecateScript(a) ==
    \/ Begin(a, "deprecate") /\ UNCHANGED reviewed
    \/ SaveScript(a, "deprecate", "deprecated")

\* The deliveries go first; then the script, unless that fails.
DeleteScript(a) ==
    \/ /\ Begin(a, "delete") /\ UNCHANGED reviewed
    \/ /\ admin[a].op = "delete"
       /\ \/ deliveries' = [i \in Ids |-> IF i \in Recorded THEN "deleted" ELSE "none"]
             /\ script' \in {script, [script EXCEPT !.row = IF ScriptLive THEN "deleted" ELSE @]}
             /\ deleted' = TRUE
          \/ UNCHANGED <<deliveries, script, deleted>>
       /\ admin' = [admin EXCEPT ![a] = NoAdmin]
       /\ UNCHANGED <<scene, reviewed, written, resaved, deviceVars>>

-----------------------------------------------------------------------------
(* The server's part of fetching and reporting.                            *)

\* CheckDevicePermission and the rollout.
Permitted == ScriptLive /\ script.status = "published" /\ script.open

\* The number of deliveries, which is counted in a statement of its own, is left out.
RecordDelivery == deliveries' = [deliveries EXCEPT ![Latest + 1] = "pending"]

\* isTerminalScriptDeliveryStatus, and a delivery that is gone
Concluded(status) == status \in {"success", "failed", "deleted"}

\* UpdateDeliveryStatusForDevice, a transaction that locks the delivery.
UpdateDeliveryStatus(i, status) ==
    IF ScriptLive /\ i \notin expired /\ ~Concluded(deliveries[i])
    THEN /\ deliveries' = [deliveries EXCEPT ![i] = status]
         /\ script' = [script EXCEPT
               !.success = IF status = "success" THEN @ + 1 ELSE @,
               !.fail    = IF status = "failed" THEN @ + 1 ELSE @]
    ELSE UNCHANGED <<deliveries, script>>

\* A report that names no delivery is about the latest.
ClientReportExecution(r) ==
    LET i == IF r.delivery = 0 THEN Latest ELSE r.delivery IN
    /\ r \in results /\ results' = results \ {r}
    /\ \/ i \in Recorded /\ UpdateDeliveryStatus(i, r.status)
       \/ UNCHANGED <<deliveries, script>>       \* it is lost, or finds no delivery
    /\ UNCHANGED <<serverVars, expired, cache, runner>>

-----------------------------------------------------------------------------
(* The device.                                                             *)

Say(i, status) ==
    /\ Cardinality(results) < IF scene = "changing" THEN 1 ELSE MaxReports
    /\ results' = results \cup {[delivery |-> i, status |-> status]}

RunnerAt(g, at, i) == runner' = [runner EXCEPT ![g] = [at |-> at, delivery |-> i]]

\* FetchScript takes what the cache holds until it expires.
FetchCached(g) ==
    /\ runner[g] = AtRest /\ cache \notin expired \cup {0}
    /\ RunnerAt(g, "executing", cache)
    /\ Say(cache, "executing")
    /\ UNCHANGED <<serverVars, script, deliveries, expired, cache>>

\* Or asks the server; an answer that does not come leaves a delivery all the same.
ClientFetchScript(g) ==
    /\ scene # "publishing"
    /\ scene = "changing" => \A h \in Goroutines : runner[h] = AtRest
    /\ runner[g] = AtRest /\ cache \in expired \cup {0}
    /\ IF Permitted /\ Latest < MaxDeliveries
       THEN RecordDelivery /\ RunnerAt(g, "fetched", Latest + 1)
       ELSE RunnerAt(g, "refused", 0) /\ UNCHANGED deliveries
    /\ UNCHANGED <<serverVars, script, expired, cache, results>>

\* The answer is cached and its execution begins.
FetchScript(g) ==
    /\ runner[g].at = "fetched" /\ runner[g].delivery \notin expired
    /\ cache' = runner[g].delivery
    /\ RunnerAt(g, "executing", runner[g].delivery)
    /\ Say(runner[g].delivery, "executing")
    /\ UNCHANGED <<serverVars, script, deliveries, expired>>

\* A refusal, an answer that is lost or late: the failure is reported of no delivery.
FetchFails(g) ==
    /\ runner[g].at \in {"refused", "fetched"}
    /\ Say(0, "failed")
    /\ RunnerAt(g, "idle", 0)
    /\ UNCHANGED <<serverVars, script, deliveries, expired, cache>>

\* The end of the execution is reported and the cache emptied.
ExecuteScript(g) ==
    /\ runner[g].at = "executing"
    /\ \E status \in {"success", "failed"} : Say(runner[g].delivery, status)
    /\ cache' = 0
    /\ RunnerAt(g, "idle", 0)
    /\ UNCHANGED <<serverVars, script, deliveries, expired>>

DeliveryExpires(i) ==
    /\ i \in Recorded \ expired /\ expired' = expired \cup {i}
    /\ UNCHANGED <<serverVars, script, deliveries, cache, runner, results>>

ScriptsNext ==
    \/ CreateScript \/ UpdateScript \/ UpdateContent
    \/ \E a \in Admins : PublishScript(a) \/ DeprecateScript(a) \/ DeleteScript(a)
    \/ \E r \in results : ClientReportExecution(r)
    \/ \E g \in Goroutines :
          \/ FetchCached(g) \/ ClientFetchScript(g) \/ FetchScript(g) \/ FetchFails(g)
          \/ ExecuteScript(g)
    \/ \E i \in Ids : DeliveryExpires(i)

ScriptsSpec == ScriptsInit /\ [][ScriptsNext]_scriptVars

-----------------------------------------------------------------------------
(* Properties                                                              *)

\* The content that devices are given was there when somebody asked to publish it, although
\* the content changes and requests save what they read: nothing comes out unreviewed.
PublishedWasReviewed ==
    ScriptLive /\ script.status = "published" => script.content \in reviewed

=============================================================================
