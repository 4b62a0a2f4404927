# Verification of license-server-ai

TLA+ models of the licence and AI-gateway server in `src/`, the TLC runs that
check them and the TLAPS proofs about them. `PROJECT.json` lists components,
runs, mutants (plausible bugs each property must notice), the source lines each
definition stands for, the hazards of the code and the theorems.

## 1. The system

A Go server (gin, gorm, MySQL) with four areas, and client SDKs in three
languages.

| component | state | operations | hard because | correct when |
|---|---|---|---|---|
| Prepaid credit (`service/credit.go`) | `user_credits`, `credit_transactions`, money columns of `generation_tasks` | Adjust, ReserveAndCreateTask, FailTaskAndRefund, SetConcurrentLimit, (Reserve, Refund: uncalled), CheckIntegrity at start-up | concurrent requests, whole-row `Save`, refunds repeated by several actors | balance = sum of the ledger, never negative; one charge and at most one refund per task |
| Async tasks (`service/async_runner.go`, `worker/async_poller.go`) | `generation_tasks`, the provider's job | StartTask, PollOnce, advanceOne, finalizeSucceeded, clean-up of timed-out tasks | handlers and poller write the same row; lost answers, restarts, failed statements, timeouts | each task is settled once and the money follows the verdict |
| Chat (`service/provider_proxy.go`) | the same row, for the length of a request | Chat | errors after the answer | as above |
| Result files (`service/generation_file.go`, `worker/file_cleaner.go`) | `generation_files`, files on disk | SaveResult, DeleteForUser, DeleteExpired, DeleteForTask | two stores without a transaction | a finished job's media have all been stored |
| Credentials (`service/provider_credential.go`) | `provider_credentials` | Create, Update, Delete, Select, MarkHealth | changed while tasks use them; check then insert | one active channel per name, one default |
| Client models, routes, Generate (`service/client_model.go`, `handler/proxy.go`, `proxy_generate_upload.go`) | `client_models`, `client_model_routes`, temporary uploads | Create, Update, Delete, Capabilities, SelectRouteForParams, Generate | what is announced, chosen, priced and used is read at four moments | what is announced is served, uploads do not outlive their request |
| Pricing (`service/pricing.go`) | rule tables with formulas | Match, ComputeCost, edit | a parser that computes while it reads | a formula costs what it means |
| Licences, devices, sessions (`handler/license.go`, `client.go`, `client_session*.go`, `device*.go`) | `licenses`, `devices`, `client_sessions` | Activate, Verify, Heartbeat, Renew, Revoke, Suspend, Resume, refresh, unbind, blacklist | read, check, `Save` without a lock, against operators | no more devices than paid for; a revocation stays unless an older copy is saved |
| Subscriptions, customers | `subscriptions`, `customers` | as licences, with passwords | the same | the same |
| WebSocket hub, instructions (`handler/websocket.go`) | connection maps, send buffers, `realtime_instructions` | register, unregister, broadcast, SendInstruction, results | channels closed while others send; results overtaking statuses | one live connection per device, statuses only advance |
| Data sync (`service/data_sync.go`) | eight user tables with versions, conflicts, checkpoints | push, pull, resolve | optimistic versions without a lock | no change lost without a conflict |
| Login and rate limiter | counters in memory | IsLocked, RecordFailure, Allow | check and count are separate | at most N failures per lock, at most N requests in any window |
| Releases, hot updates, publish tasks (`handler/release.go`, `hotupdate.go`, `publish_task.go`) | their tables, the files they name | Create, Upload, Publish, Deprecate, Rollback, Delete, tasks in the background, reports | rows, files and goroutines change apart; whole-row `Save` | what is offered can be downloaded; counters are those of the logs |
| Secure scripts (`handler/secure_script.go`) | `secure_scripts`, `script_deliveries` | UpdateContent, Publish, fetch, report | content changes while it is published and executed | only reviewed content is given out |
| Team members (`handler/team_member.go`, `middleware/auth.go`) | `team_members` | Create, UpdateRole, Remove, ... | the sender's role is that of when he was authenticated | only owners make admins |
| Tenants, invitations, applications, audit, statistics | their tables | editing, queries | little | |
| SDKs (Go, Python, .NET) | tokens and their cache file, sync times, the program's directory, a WebSocket | login, refresh, sync, update, reconnect | goroutines share one client; answers are lost, files written in part | memory, file and server agree; a whole version is always there to go back to |

How they interact. The request handlers of the gateway call the credit service
(a transaction), then the provider, then write the task row. The poller, one
goroutine started in `cmd/main.go`, reads running rows, calls the provider and
the same services; it and the handlers push task events through the WebSocket
hub. Operators change limits, balances and credentials at any time. A client
request is authenticated against its session, device and licence rows, which
operators change without notice. Everything shared is a database row; the
process has no shutdown path (gin's `Run` does not return), so every restart is
a crash between two statements.

## 2. Modules

| module | models |
|---|---|
| `CreditLedger` | `credit.go`: one action per transaction |
| `CreditTx` | the same transactions statement by statement, several database sessions, row locks; shown to take the steps of `CreditLedger` |
| `GenTask` | handlers (`Chat`, `StartTask`), poller, provider, operators, restarts; extends `CreditLedger` |
| `TaskCharge` | what a user is promised: paid before it starts, then kept or returned; `GenTask` is shown to implement it |
| `PollQueue` | the poller's schedule: `next_poll_at`, batches, delays, timeout |
| `Channels` | channels, client models, routes, and the way of a request through them |
| `Formula` | the formula parser of pricing rules against what a formula means |
| `License` | one licence, its devices, sessions and blacklist, against administrators who save what they read |
| `Subscriptions` | a customer, his subscriptions and the devices bound to them |
| `ClientSession` | refresh token rotation and the SDK's client that keeps tokens in memory and in a file |
| `Limiters` | login limiter and rate limiter |
| `Realtime` | the connections of one device: hub, pumps, channels, and the client that reconnects |
| `Instructions` | one real-time instruction, its results and its summary |
| `DataSync` | one synchronised item: push, delete, conflict, resolution |
| `SyncPages`, `AutoSync` | paged pulls; the SDK's automatic rounds |
| `Backups` | the backups of one type of data |
| `Packages` | one hot update or release on the server: row, files, publish tasks, reports |
| `UpdateStatus` | the order of a device's statuses and what they do to the counters |
| `Updater` | one device that keeps itself up to date |
| `SecureScripts` | one script: publication, delivery, execution, reports |
| `Team` | members of a team and their roles |
| `CreditLedgerProofs`, `CreditTxProofs`, `GenTaskProofs`, `LicenseProofs`, `RealtimeProofs` | theorems on the module of that name |
| `ClientProofs` | theorems on `ClientSession`, `Subscriptions`, `Limiters`, `Instructions` |
| `GatewayProofs` | theorems on `Team`, `Channels`, `PollQueue` |
| `ExchangeProofs` | theorems on `DataSync`, `SyncPages`, `AutoSync`, `Backups`, `Packages`, `Updater`, `SecureScripts` |
| `MCCreditTx`, `MCGenTask`, `MCPollQueue`, `MCLicense`, `MCClient`, `MCExchange`, `MCGateway` | instances for TLC (`Realtime` needs none) |

`GenTask` and `CreditTx` extend `CreditLedger`, `Packages` extends
`UpdateStatus`. The others share no table. `MCClient`, `MCExchange` and
`MCGateway` put several of them side by side in one run: a variable `part`,
chosen in the initial state, says which module moves, and the others rest. That
is no composition (the parts do not interact), it only saves runs. The part
`administrators` of `MCClient` is `Subscriptions` again, with two administrators at
a time and no clients, where `subscriptions` has one and the clients.

A convention of all modules: a handler that reads a row, decides and `Save`s is
split between the read and the save, with the copy kept in between, wherever
somebody else can run there; gorm's `Save` writes every column and, when the row
is gone, inserts it. History variables (`excuses`, `mixed`, `mishaps`, `raced`,
`overwritten`, `crossed`, `moved`, `overlapped`, `revived`, `mislaid`, ...) record
that one particular race or failure has happened, so that a property can say that
*nothing else* breaks it. Where the code recovers they are cleared again: the
property then also says what recovers.

### CreditLedger

`account`, `ledger` and `task` are the tables; the ledger is kept as one
sequence per user, in id order. An action is a whole transaction: `Adjust`,
`SetConcurrentLimit`, `ReserveAndCreateTask`, `FailTaskAndRefund` (its three
exits `FailSettled`, `FailAlreadyRefunded`, `FailAndRefund` in the order of the
code), `ForceFail` (the fallback of `failTaskAndRefund`) and `MarkSucceeded`
(the UPDATE of `finalizeSucceeded` and `Chat`, which names only the id and so
applies in any status). Notes, timestamps, rule ids and operator ids are left out; money is
an unbounded integer (the code's `int64` cannot be reached by its prices).

### CreditTx

A transaction is BEGIN, its locking and plain SELECTs, and a commit step that
makes its writes visible. The guards are the database's row locks; `LockUser`
and `LockTask` are the `FOR UPDATE` clauses, `CountRunning` and `Read...` the
plain SELECTs. `SaveAndPost` writes back the row *as it was read*, as gorm's
`Save` does, so a lost update is possible wherever a lock is missing.
`Rollback` may happen at any moment. The exported `Reserve` and `Refund`, which
nothing calls, are not modelled (`Refund` counts the refunds of the task before it locks
a row, so two concurrent calls would both pay: it must not be put to use as
it is).

### GenTask

One goroutine per task (`handler`), one poller. A step is what happens between
two points where somebody else can run: a statement or transaction, or a call
to the provider. `handler[t].pc` names the place in the code: `select` (choose
a credential), `call` (submit), `record` (store the upstream id), `media`
(finalizeSucceeded), `answer` (chat), `fail`. The poller's `batch` is the list
a query returned, which it works through without reading the rows again.
Every outcome of a provider call is an action: a lost answer may or may not
have started a job (`MayHaveTakenJob`). Statements that fail are counted by
`faults`; a failed refund transaction falls back to `ForceFail`, and that one
failing leaves the row alone (`SettleAsFailed`). Crash drops goroutines and
keeps rows and files. `TimeoutMayRace` says whether the configured task timeout
may pass while a handler is at work: false for the default two hours, true for
the few minutes the configuration also accepts.
Model bodies, prices, health marks of credentials and progress are left out:
they steer nothing the properties see.

### PollQueue

One step is one tick of the poller. Clocks per task: until `next_poll_at`, since
`created_at`, since the last question to the provider. The batch is the query's
ORDER BY and LIMIT. A credential that does not decrypt leaves `advanceOne`
without `scheduleNextPoll`, as the code does.

### License

`lic` is the row of `licenses`, `dev` one device row per machine (`none`, `live` or
soft-deleted), `listed` the blacklist, `live` the sessions not revoked. Each machine
runs one request at a time (`client`), besides a loop of Verify and Heartbeat
(`reporter`); administrators run `operator` requests. Handlers that read, decide and
`Save` are two steps with a copy of the row between them; `SaveLicense` writes the
copy back and, like gorm's `Save`, inserts a row that is gone. `Activate` holds the
licence's row lock from its read to its commit, but takes no lock of the device,
hence `ActivateReads` and `ActivateCommits`. `Unblacklist` is two statements, of
which the second may fail (`UnblacklistFails`); `mislaid` are the machines whose
entry is gone without their device being restored, `revived` the devices that a
report brought back while an activation held the lock. Whether `expire_at` has
passed is a free choice at every check. A licence is never stored as expired: the
only code that writes this status (`client.go:232`) is inside a transaction that
then rolls back. Left out: several licences on one machine, blacklist entries of one
application or of all, two activations of one machine at the same time, other
statements that fail, and the ignored error of the UPDATE that revokes old sessions.
Subscriptions and token rotation are modules of their own.

### Subscriptions

One e-mail address, so one customer who may be created, disabled, deleted and
registered again, his subscriptions, and one device row per subscription and
machine (`seat`). `ClientLogin` is `at` "bind" (has read a valid subscription),
"expire" (is about to save one it found run out), "first" or "again" (has counted
under the row's lock and is about to bind). `report` is a subscription heartbeat or
verification, `account` a change of password, both with the copy they will save.
`admin[a]` is a request of an administrator that has read a subscription or the
customer and is about to save the copy; several overlap, with each other and with
the clients. The day passes between any two steps. `besides` bounds what clients do besides
logging in: nothing, reports, or a change of password.

### ClientSession

Tokens are numbered as they are issued; `hash[s]` is the token a session will
refresh. On the client `info` is memory, `cache` the file, `call[p]` what each
goroutine is at and `image[p]` what it is about to write to the file. `saveCache`
takes no lock, neither while it marshals the fields, which another goroutine may be
replacing (`RefreshStored` may change an image already taken), nor while it writes,
and drops the errors of encrypting and writing: `WriteCache` writes the image,
nothing, or a torn file. `clearCache` removes the file and then forgets the memory,
in two steps, and may fail to remove it. Answers may be lost, and the application
may be ended at any step and started from the file, with or without the option to
verify the signature of the cached licence (`strict`). `excuses` names what has gone
wrong and not been set right since.

### Limiters

Each login looks (`TryLogin`), checks the password and records what came of it,
in separate calls of the limiter. `wrong` counts the passwords guessed since the
address was last unlocked. `served` is the history of what `RateLimiter` let
through, `requests` the part of it whose times it still keeps; `Allow` and a
clean-up beside it both drop what is out of the window.

### Realtime and Instructions

`Realtime`: `hub` is the connection the hub has for the device; `server[i]` the
read goroutine's place, the queue and the write goroutine of connection i,
`link` the connections the network still carries, `ws` the fields of the one
`WSClient`, with its loops. A send on a closed channel panics (`panicked`), and
the server is started again. `Instructions`: the row, the results per device,
the reports waiting on the old and the new connection of each device, and the
four counts of a summary read one after the other. Each statement of
`handleInstructionResult` and `SendInstruction` may fail, and the server may stop
between any two (`Stops`), so a result may be stored without the row being updated.

### DataSync, SyncPages, AutoSync, Backups

`DataSync`: the item is of one of the nine types, which differ in what a push
compares (`Unchecked`), in what an empty or deleted row means and in whose name
a conflict is recorded; contents are the number of the edit that wrote them.
`SyncPages`: rows carry exact times, the client names whole seconds, pages are
cut by offset from per-type lists merged by second. The database orders the rows of
one time by their key (`ExactOrder`), the merge those of one second by what the key
is written as (`MergedOrder`, `Spelling`), and the two differ: 9 comes before 10 as
a number and after it as a string. `AutoSync`: `round[l]` is
where each goroutine is, `late` the records committed after the server had read
the table but within a second it has already told the client. `Backups`: the
push is a transaction, the clean-up works through a list read after it.

### Packages, UpdateStatus, Updater, SecureScripts

`Packages`: one row, the files it names and those in the directory; requests and
workers of publish tasks hold copies. `meeting` bounds what meets the
administrators' requests: uploads, publish tasks, or reports. `Updater`: the
program's directory is a function from files to the version each is of; an
update overwrites it file by file, a failed one restores the backup through a
temporary directory and two renames. Each of these steps may fail; a file whose
`Close` fails counts as written (`Extract`), a backup that failed half way counts
as a backup, and a rollback that is stuck leaves the directory as it is. What a
device reports is in `Packages`. `SecureScripts`: `scene` bounds what is
concurrent (publishing, executing, or changing while one executes). Its one
property is about publication; delivery, execution and their reports are modelled
because they write counters into the script's row, which requests of
administrators save back; no property is about the states of deliveries.

### Channels, Formula, Team

`Channels`: one tenant and one client model; `editing[a]` is the request of an
administrator between two of its statements, `request` the generation request
between what Capabilities told it, the route, the price and the use. `occasion`
bounds what is concurrent: one administrator and a request, several administrators,
or a request with uploads. A request names aspect ratio, resolution and duration, or
leaves them open; each route restricts some of them (`Shapes`) or takes over what is
known of its upstream model (`KnownOf`). Conversions are modelled by what they do:
unknown modes become the provider's default mode, and a row created as disabled
comes out enabled (gorm's `default:true` replaces FALSE). `Formula`: `ParseExpr`,
`ParseTerm`, `FactorAt` and the loops `TermsAfter`, `FactorsAfter` follow the
parser, whose calls are looked up in `parse`, a function from calls to what they
return; `means` defines what a formula means by where it can be split, without
reading left to right. `Team`: `asking[a]` is a request with the role its sender had
when it was authenticated, then with the row it will save.

## 3. Runs

| run | bounds | shows |
|---|---|---|
| `credit_tx` | 2 sessions, 2 users, 2 tasks, cost 1, adjustments -1 and +2 (one per user), limits 0 and 1 | interleaved statements refine the atomic steps; no circular wait; each task charged once and refunded at most once |
| `task_one` | 1 task, 2 credentials (1 undecryptable), 2 attempts, 2 tries, 2 media, 2 faults, 1 crash, 1 credential change | the promise of `TaskCharge`, with fairness also that every charged task is settled; all media stored, one finalizer |
| `task_two` | 2 tasks, 1 credential, queries return 1 row, 1 fault, 1 crash | verdicts are final; what was told agrees with them while no statement has failed |
| `poll_queue` | 3 tasks, 1 stuck, batch of 2, delays 1 and 2, timeout 5, create calls up to 2 ticks | `AskedInTime`: the frequency of questions while stuck tasks leave room in the batch |
| `license` | 2 machines with Verify and Heartbeat, one such report at a time, 1 administrator, max_devices 1 or 2, no unbinds by clients | activations stay within max_devices, but for devices that a report brings back meanwhile |
| `license_reports` | 1 machine with Verify and Heartbeat, 2 administrators, max_devices 1, 1 unbind by the client | one session, a refusal can be lifted, a revocation is undone only by older copies |
| `links` | 3 connections, 2 loops, channels of 1, 2 broken or refused connections, Connect called once | the hub sends on open channels only; a client left alone ends up connected; one that disconnects is let go |
| `client` | session: 2 goroutines, 3 tokens, answers, writes and removals that fail; instruction: 2 devices, statements that fail and a server that stops; subscription: 1 subscription, 1 seat, 1 day, with 2 machines and 1 administrator, of the machines one at a time where they also report or change a password, and again with 2 administrators and no machines; limiters: 2 logins, 2 and 3 failures, 2 requests in a window of 2, 4 moments | `TokensInStep`, `ShowsTheResult`, `CountsMissNobody`, `SeatsWithinLimit`, `UndoneByOldCopies`, `GuessesBounded`, `RequestsBounded` |
| `exchange` | items: 2 devices, 3 edits, 9 types; pages of 1 row, 4 items of 2 types with the keys 8, 9 and 10, 1 write meanwhile; 1 record and 2 loops; backups: 2 devices, 3 kept, 6 pushed; packages: 2 requests, 1 task, 1 machine, 2 files; updater: 2 versions of 2 files; scripts: 2 administrators, 2 goroutines, 2 contents, 2 deliveries | `OverwritesKnown`, `PagesComplete`, `NothingPassedOver`, `OneCurrent`, `OfferedIsServed`, `CountersAgree`, `VersionSurvives`, `PublishedWasReviewed` |
| `gateway` | channels: 2 channels of 2 providers, 2 routes of 2 shapes (a ratio and a duration, or another ratio), 2 administrators, 2 edits, 2 uploads; formulas of 5 tokens over 6-bit integers; team: 2 members besides the owner, 2 requests at a time, 4 in all; queue: as `poll_queue`, with 2 stuck tasks that fill the batch | `AnnouncedIsServed`, `UploadsRemoved`, `ChargesWhatFormulaMeans`, `OnlyOwnersMakeAdmins`, `EndsInTime` |

Why these bounds are enough to be interesting: two of everything that competes
(users for a ledger, tasks for a slot or a place in a batch, sessions for a
lock, machines for a seat, goroutines for a token, administrators for a row),
a batch smaller than the queue, pages and channels of one, and at least one of
everything that can go wrong per run, with two faults where the fallback of a
fallback matters. A stale copy needs two requests, and one more to see its
effect. Formulas of five tokens are the shortest in which two operators can be
in either order, in parentheses, or after a sign; six bits let sums and products
wrap. A third connection is what a client that dials twice and breaks once
needs. Each property is violated by its mutant within the same bounds.

The runs whose cfg turns the deadlock check off end by nature: their bounds on
tokens, edits, requests or faults are used up, or a deleted licence whose
machines are all blacklisted has nothing left to do. `Realtime` is at rest when
a client has disconnected for good.

Runs that must fail, one per finding:

| run | the code | what it is held against |
|---|---|---|
| `refunded_success` | with a short timeout the clean-up refunds a task whose handler then writes success over it | `generation_task.go:39` |
| `license_unbinds` | Verify saves the row it read and so takes back an unbind committed meanwhile | `model/license.go:30` |

`refunded_success` needs a configuration the defaults do not have.

`License` is split into two runs for its size only: the properties of both hold
with any numbers of machines and administrators, as section 4 proves. What stale
Saves of reports and administrators can do is in the properties: a revocation ends
only by a copy read before it (`RevocationEndsByOldCopies`), and a device unbound
during an activation may come back uncounted (`BoundWithinLimit`, `revived`).

### What the properties leave open

Some of the hazards in PROJECT.json are covered only in part, because the code
does what one would rather it did not; the property then names the case.

* *Money.* `OutcomesAreSound` compares row, refund and answer while no statement
  has failed; after one that has, only `KeepsPromise` and `KeepsPromiseFairly`
  speak. `KeepsPromiseFairly` allows the refund of a job that still runs at the
  provider.
* *Sessions.* `OneLiveSession` is about a machine that sends one request after the
  other. Two activations of one machine at once are not modelled. `TokensInStep`
  excuses tokens stored in another order than issued, lost answers and failed or
  crossed writes of the file, until the next login or write that goes well.
* *Links.* `StaysConnected` is about one call of Connect; two would give rival
  loops. `LetsGo` excuses a ping handler that waits on a full channel for ever
  (`PongBlocked`).
* *Instructions.* `ShowsTheResult` excuses results written by two goroutines at
  once, the save of the sent row over a result, and a result whose UPDATE failed,
  until the next report that is handled alone.
* *Subscriptions.* `UndoneByOldCopies` says which requests may undo what another
  did, not that none may.
* *Exchange.* `OverwritesKnown` speaks until two pushes have raced (`raced`),
  `OneCurrent` until an administrator chose a backup that is being deleted
  (`crossed`), `OfferedIsServed` until an old copy was saved or a removal began
  (`overwritten`, `removing`), `PagesComplete` of rows that database and merge
  order alike (`Orderly`), `VersionSurvives` of files whose Close told the truth.
* *Gateway.* `AnnouncedIsServed` is about one parameter at a time: values
  announced by two routes may be refused together. `UploadsRemoved` is about
  requests that reach one of their exits, which all answer alike in the model, and
  whose files can be deleted.
* *Team.* What an owner once granted stays in `granted`, so that an admin who was
  demoted and is given back by an old copy does not contradict
  `OnlyOwnersMakeAdmins`.

### Fairness

`GenTask!Fairness`: handlers run on (every call has a timeout), the poller ticks
(a one-second ticker), time passes, and a task the poller may take is
eventually in a batch. The last is strong fairness: `next_poll_at` is at most
five seconds ahead, and `PollQueue`, where the queue is modelled, shows that
every task leaves it within a number of ticks (`EndsInTime`). Nothing is assumed of
users, operators, the provider or the database.

`Realtime!FairLinkSpec`: goroutines run on, on the server and in the client, the hub
takes what is waiting, a broken connection is noticed (both ends write a ping every
30 seconds, and writes have a deadline of ten; a read has one only until the
connection is authenticated), and a loop that dials gets through in the end, as the
faults of the network are finitely many. Nothing is assumed of the application. The
other modules state no fairness.

## 4. Proofs

`CreditLedgerProofs` proves, for every set of users, tasks, costs, amounts and
limits, `LedgerTypeOK`, `BalanceNonNegative`, `LedgerChained`,
`ChargedExactlyOnce`, `RefundedAtMostOnce` and `RefundColumnsBacked`. The
assumptions are the ASSUMEs of `CreditLedger`: costs are natural numbers, amounts
integers, `NoUser` and `NoTask` are not ids.

None of these is inductive alone: that a refund is paid once rests on the
ledger check, the full refund on the charge row being the task's own, that in
turn on charges being posted together with the creation of the row. `MoneyInv`
conjoins the types, non-negative balances, chained ledgers and, for each task,
`TaskInv`: `Owned` (an existing row has a user of the system), `Charged` (one
consume row, its owner's, of its cost), `RefundedOnce` (at most one refund row,
equal and later) and `ColumnsBacked`. The step proofs go through
what a transaction does to the rows of *one* task: lemmas on appending to a
ledger say which rows of which task and type there are afterwards (`Appended`,
`AppendOwn`, `AppendOther`), so each action is two cases, the task it names and
the others. `MoneyInvariant` is then one step per action.

`CreditTxProofs` proves that the statements of `CreditTx`, in any order, of any
number of sessions and with any of them rolled back, take together only the
steps of `CreditLedger` (`LocksMakeAtomic`, the property `TakesLedgerSteps`); so
the results above hold of them too (`TxMoney`), and no set of sessions, however
large, is deadlocked (`NoDeadlock`): who waits for a user row waits for a session
that waits for nobody, who waits for a task row for one that at most waits for a
user row. The invariant `TxInv` says what a session may
rely on between two statements: it holds exactly the locks its place in the code
implies (`HoldsLocks`), the row it copied is still the row of the table
(`FreshRow`), the running tasks it counted are still below the limit
(`WithinLimit`), and what it decided about a refund is still to be done
(`Verdict`). `SessionFrame` says once why nobody else can disturb that: they
would need its locks. Each commit is then a step of `CreditLedger`, because the
copies it works on are the rows. A set of running tasks has to be finite to be
counted; that is part of `TxInv`, not assumed.

In `GenTaskProofs` it first stands that every step of `GenTask` (handlers, poller,
faults, restarts) is a step of `CreditLedger` or leaves its tables alone. This is
so by construction, since the actions of `GenTask` that touch the tables are made
of those of `CreditLedger`; it is stated (`GatewayImplementsLedger`) only to carry
the money results over to the gateway.
Then come `TypeOK`, `OneFinalizer` and `SucceededHasStoredAll`, for every
number of tasks, credentials, media, faults and restarts and for both values of
`TimeoutMayRace` (the runs take FALSE; the wrong success that TRUE allows,
finding `refunded_success`, still has all its media). The inductive invariant
`MediaInv` says who owns a task: a handler gives it away by recording the
provider's id and is then done (`HandsOver`), the poller advances only tasks
given away (`PollsOwn`), and whoever finalizes has stored every medium before
the next one and is past the rows it counted (`FilesSaved`, `Resumes`). A bound
on the files of a task (`TypeOK`) already needs all of it: two finalizers would
store twice. Each handler step is an instance of `HandlerKeeps`, each poller
step of `PollerKeeps`.

It then proves what users are promised, under the hypothesis
`~TimeoutMayRace`, which is the default timeout of two hours; the finding
`refunded_success` shows that it is needed. `VerdictInv` adds to `MediaInv` that a
task has one owner who finds it running (`OneOwner`: a handler at work, or the
poller's list) and that only failed tasks have refund rows (`RefundsFailed`).
From it follow that a verdict is final (`VerdictsAreFinal`), that success keeps
its charge (`SuccessKeepsCharge`), that row, money and what was told agree
while no statement has failed (`OutcomesAreSound`), and that `GenTask` implements
the safety part of `TaskCharge` (`GatewayKeepsPromise`): initial states map to
initial states, and each transaction to the `Keep`, `Return` or `Owe` step of the one
task it settles or to a stutter. The liveness part of `KeepsPromiseFairly` stays
with TLC.

`LicenseProofs` proves, for any number of machines, their reports and
administrators at the same time: `OneLiveSession`, `BoundWithinLimit`,
`RevocationEndsByOldCopies` and `RefusedIsListed`. `LicenseInv` says
that exactly the activation that has counted holds the licence's lock, that
it found a licence which admits activations, that a machine about to get a
session has none, and that copies of the licence which reports (`ReporterInv`) and
administrators (`CopiesInv`) are about to save were not revoked when read; so
nobody undoes a revocation he has seen. `RoomInv` adds that what was counted under
the lock is still below the limit, but for `revived`: nothing except an activation
and the Save of a report binds a device, and whoever changes `max_devices` waits
for the lock. `RefusedIsListed` is inductive with the types (`OperatorRefused`): each
entry of the blacklist is followed through the two statements of `Unblacklist`, of
which the second may fail or find a copy that says active (`mislaid`).

`ClientProofs` proves of `Subscriptions`, for any number of machines,
subscriptions and administrators at the same time, `SeatsWithinLimit` (the same
argument about a row lock, in `RoomKept`) and `UndoneByOldCopies`. The latter is
about subscriptions that still run; an earlier end of one that has run out harms
nobody. That a renewal
saves what is not deleted and ends no earlier than what it has read is in
`PeopleOK` and the arithmetic of `Renew`; what the row was meanwhile made into, the
property leaves to the administrator whose copy it no longer equals.
Of `Limiters` it proves `GuessesBounded`, for any limits and
number of logins: `GuessInv` counts wrong passwords together with those being
checked while the address is locked (`LockedCounts`), and while it is free says
that the limiter has counted each of them (`FreeCounts`). `RequestsBounded`, for
any limit and window, is inductive together with `ForgetsOnlyOld` and the order of
the clock (`RateInv`): were the request that is `Limit` before a new one still in
the window, it and all after it would be kept, and the new one refused.
Seats and guesses assume that there are finitely many machines and logins at a
time, which their modules state.

`RealtimeProofs` proves `HubSendsOnOpen` for any number of connections,
goroutines and faults. `HubInv`: the open channel is exactly the one of the
connection the hub has registered (`OpenIsRegistered`), and that connection's
read goroutine has not ended (`HubHasReader`), so a number that is used again for a
new connection is never the hub's. The panic of the ping handler, which the
model keeps, is not the hub's and closes everything.

`GatewayProofs` proves `OnlyOwnersMakeAdmins` of `Team` for any number of members
and of overlapping requests, from the assumption that there are finitely many
members and the owner is not one of them. The invariant alone is not inductive:
a request may be about to save a row that was read before others wrote it.
`TeamInv` adds a promise about such rows (`Backed`): a copy of the owner's row
says owner, a copy that makes a member an admin is of one an owner has made one,
or is the copy with which an owner is making him one now, and a row about to be
deleted is not the owner's. Roles once granted stay in `granted`, so the promise
survives what others write meanwhile; that is why no lock is needed for this
property although every handler reads, checks and saves apart.
`RequestMoves` and its companions treat a step that changes one request, or one
request and one row.

Of `Channels` it proves `AnnouncedIsServed` and `UploadsRemoved`, for
any channels, routes and administrators whose requests overlap. `ChannelsInv` is a
promise about rows again, those of the tables and those about to be saved: a route
belongs to a model and uses a channel of the model's provider, unless the model was
moved to another (`Fits`, `moved`). A value that Capabilities announces comes of one
enabled route with a channel, and a request that names no other parameter is served
by that route; no more can be said, since of two values each may come of a route
that does not have the other. `RequestInv` follows the one request: the stored
images are those it has counted, until the server stops during it.

Of `PollQueue` it proves `AskedInTime`, a bound in ticks, for any finite number of
tasks, delays and batch sizes. `QueueInv` counts: a task not due was asked about
lately; for one that is due there is a number w such that it has been due for w
ticks at most and `w * Room`, together with the tasks still ahead of it
(`Ahead`), is below the number of sound tasks. A tick that leaves it out has taken
a full batch, at least `Room` of it from those ahead (`BatchIsFull`), none of which
gets before it again (`TickOvertakesNone`), because a question postpones a task by
a tick at least. A task that is submitted may be due already, its create call having
taken long, so tasks not yet born are ahead from the start.

It also proves `EndsInTime`, which needs no room in the batch: however many tasks are
stuck, none is older than timeout, longest delay, the longer of timeout and create
call, and one tick for each batch that the other tasks fill. `EndInv` keeps that age
and time to the next question add up to `Timeout + IdleDelay` at most (for a stuck
task, whose time nobody moves, exactly to 1), and that a task whose time is `Latest`
past has at each tick lost a whole batch of those before it: they leave, having
timed out themselves, or go behind it (`TickClearsBatch`). That a task
leaves the queue is then a matter of the ticker going on.

`ExchangeProofs` takes the modules in turn.

* `Backups`, `OneCurrent`: the last version pushed is safe from every clean-up under
  way, which lists what is older than three others; so is the only current one,
  unless an administrator chose one a clean-up may delete (`Safe`, `crossed`).
* `SecureScripts`, `PublishedWasReviewed`: each copy of the row that somebody is
  about to save as published was read by a request to publish, as in `Team`.
* `AutoSync`, `NothingPassedOver`: the record of what was read covers every change
  before the second the client asks from next, except those excused in `late`
  (`Covers`); the arithmetic of seconds is in two lemmas (`SecondStarts`,
  `InsideSecond`).
* `Packages`, `OfferedIsServed` and `CountersAgree`, both until an old copy has been
  saved or a row is being deleted, as the properties say: each request and worker
  has the file it uploads or replaces to itself (`FilesSound`), and the counters are
  the numbers of machines with each status (`CountersSound`), for finitely many
  machines.
* `Updater`, `VersionSurvives`: while the directory is worked on, a whole version is
  among the backups, wherever an update or rollback is stuck or ends (`BackedUp`),
  and the files extracted so far are of the version offered (`Extracted`). `mishaps`
  are the two ways to lose it: a Close that failed unnoticed, and a rollback begun
  while the newest backup is not whole.
* `DataSync`, `OverwritesKnown`: no version that a client knows, a conflict shows or
  a request has copied is ahead of the row's, and equal versions are of the same
  edit (`SyncInv`), until two pushes have raced. So who compares versions compares
  edits.
* `SyncPages`, `PagesComplete`: of the rows whose type and second both orders put
  alike (`Promised`), what has come is what stands before the offset (`Halfway`);
  the merged order is a total one, whatever the numbers and their spellings. It
  rests on lemmas about any finite set with an order: the places of its members are
  the numbers below its size, each once, hence the first n are n (`FirstAreCounted`,
  by a bijection and without induction), and cutting the union of what was cut of
  each type gives what cutting everything would, as long as one row more than the
  page is fetched of each (`EnoughFetched`, `PageIsCut`).

In `ClientProofs` also stand `ShowsTheResult` and `CountsMissNobody` of
`Instructions`, with statements that fail and a server that stops anywhere: nobody
but the target's goroutines writes the row (`TargetHandles`), no two at a time
unless it was noted (`OneWriter`), and a row that shows a status has a result beside
it; and, a device saying only one final thing (`SaidOnce`), the results
counted first are never more than what has been counted since and what is still to
be counted (`CountedSoFar`), a sum of the sizes of disjoint sets of devices.

And `TokensInStep` of `ClientSession`, for any number of goroutines: one session
lives at a time and no token is newer than the one it will refresh (`OneSession`),
the token of a login not yet stored is known to nobody else (`Unseen`), and unless
tokens were overtaken, lost or cut off, whoever has a token of the living session
has the one the server will take, in memory or in an answer (`TokenHeld`). For the
file: unless writes have crossed, one goroutine writes at a time, and it writes
what memory is or what somebody is about to save again (`OneWrites`); and unless a
write or removal failed, the file is what memory is, or somebody is about to make it
so (`FileFollows`).

Of `Formula` it is proved in `GatewayProofs` that every formula, of any length and
for any width of int, costs what it means (`ChargedByFormula`). This is induction
over data, done without the library's induction theorems: `InductionOnSet` states
strong induction of a set of numbers, which is first-order and follows from the
well-foundedness of `<`. `parse` and `means` are recursive functions; that they
satisfy their equations is proved (`TableExists`, `MeaningsExist`: a result depends
only on calls further behind, a meaning only on fewer tokens). Then the parser is
complete (`ParserComplete`, by the number of tokens: what tokens mean is what it
makes of them, if the next token does not continue it) and sound (`ParserSound`, by
the tokens left: what a call or a loop returns is what the tokens from its start
mean).

Assumed of constants, beyond their types and that names such as `NoUser` or `owner`
are nobody's, is only that sets (of members, machines, devices, logins, items, tasks)
are finite where they are counted.

Only model-checked: liveness (`KeepsPromiseFairly`,
`StaysConnected`, `LetsGo`), since the prover has no rule for fairness. Every other
property of a run that is expected to pass is also a theorem.

## 5. What the models show of the code besides the properties

Behaviours met while modelling, kept in the models as they are. None has a run
of its own.

*AI gateway.* A chat whose last UPDATE fails (`provider_proxy.go:168` ignores
the error) is answered, stays running and is refunded after the timeout. A task
whose credential does not decrypt, or whose adapter is missing, keeps its
`next_poll_at` (`async_runner.go:380`, `:386`), heads the queue at every tick
and, fifty of them, keep all others from being asked about until they time out,
although `async_runner.go:310` promises a question every five seconds; hence
`AskedInTime` is stated for batches larger than the stuck tasks (`Room > 0`).
`middleware/concurrency.go:15` says a chat does not enter the running queue, but
`Chat` reserves through `ReserveAndCreateTask` and takes a slot. `Refund`, which
nothing calls, counts refunds before it locks and could pay twice.

*Channels and models.* Rows created as disabled come out enabled. A disabled
client model is still served under its name when it is the public name of a
channel's default model. A client model moved to another provider keeps
announcing routes no request can use (`moved`). Changing the mode of a default
channel without naming `is_default` leaves two defaults, and so may two
administrators at once, who may also leave none. An Update's `Save` loses
`MarkHealth`'s verdict and brings a deleted row back. A restart leaves temporary
uploads behind. Formulas are validated with every variable 1, so a division by
zero may appear only when a request is priced, which then fails. Capabilities joins
the ratios, durations and resolutions of a model's routes (`proxy.go:251-253`), but
a request needs one route that has all it names (`client_model.go:315-338`): of the
routes {16:9, 5 s} and {9:16, 8 s}, 16:9 with 8 s is announced and refused.

*Licences and subscriptions.* Administrators' requests read and save whole rows
without a lock, so the older copy of one undoes what another has done meanwhile: a
revocation, a renewal, a cancellation. When the second statement of `Unblacklist`
(`device.go:269`) fails, the device stays refused and has no entry. A device that is
unbound while blacklisted cannot be taken off the list (`Unblacklist` looks for a
device that is not deleted); `RefusedIsListed` is about bound ones. A login that
found a subscription run out saves its copy and so undoes a renewal or a deletion; a
change of password begun before re-enables a disabled customer. Renewing a permanent
subscription gives it an end. Subscription heartbeat and verification do not look at
the customer's status. Update and Renew can make a second subscription active.

*Sessions.* Two refreshes at once, or one whose answer is lost, leave the client
with a refresh token the server no longer has. Deactivate with a save under way
leaves a cache file. A failed write of the cache goes unnoticed
(`license_client.go:848`) and leaves the old tokens, or a torn file, to the next
start; `saveCache` reads the fields without a lock. A cached licence without
features never verifies.

*Real time.* The ping handler of a replaced connection sends on a closed
channel, which stops the server; on a full channel it waits for ever and the
device stays online (`PongBlocked`). Connect while the loop dials, or Disconnect
and Connect, give two loops whose connections replace each other for ever
(`StaysConnected` is about one call). Disconnect while the loop dials is
overridden. Rows of `device_connections` stay connected after a crash. The save
after a push overwrites a result that came first, a late acked overwrites
executed, and two connections of one device may leave the row different from the
result; so does a result whose UPDATE of the row fails (`websocket.go:630-637`).

*Synchronisation.* Two racing pushes lose an edit and give two rows the same version
(`raced`). Conflicts of the typed endpoints have no device and cannot be resolved;
resolving a refused deletion as use_local restores a config with an empty value.
`PullBackup` returns the current backup only, although its comment speaks of all
versions. AutoSync misses a row that is committed between the query and the reading
of the clock, across a second (`late`). A clean-up may delete the backup an
administrator has just made current (`crossed`). `data_sync.go:83` says types are
merged and then paged; they are paged within types and merged by whole seconds, and
the rows of a type that changed within one second may be skipped or repeated between
two pages although nothing is written meanwhile: the database orders them by their
exact time (material and voice configurations of one time by numeric id,
`data_sync.go:219`, `:311`), the merge by the ids as strings (`:116-124`), and each
page is cut of both. The SDK's `GetPosts` never asks for a second page.

*Packages and updates.* A request with an old copy undoes others' changes,
counters included, and can name a removed file (`overwritten`). Delete removes
files before the row. A task unfinished at a restart blocks its action for ever.
CheckUpdate picks the best update first and looks at its roll-out then. A device
with the newest version is offered the second newest. `Rollback` leaves
`currentVersion` as it is. A crash between the two renames leaves no program
directory. A backup that failed half way counts as one, `Rollback` may choose it, and
backups of one second share a directory. The error of closing an extracted file is
dropped (`hotupdate.go:773`), so that a torn file counts as updated.

*Scripts.* The report of a failed fetch names no delivery and may mark another
execution's as failed. An execution of more than five minutes cannot be
reported. Publish and Deprecate save counters back. `ExecuteOnce` is not
enforced.

*Team.* No route leads to the handlers that make invitations, so AcceptInvite
never finds one. Saves of old rows bring removed members back and restore old
roles. The address of a removed member cannot be used again. Deleting a tenant
fails on MySQL, where `cleanupTenantData` names the reserved word `key`
unquoted.

## 6. Not modelled, and the plan

Not modelled at all: the admin interface, installation scripts, migrations,
applications, statistics, export and audit queries, plain scripts, mail and
webhooks (rows, queries and output without a protocol); tenants, registration
and invitations; encryption, signatures and the SDK's hardening, anti-debugging
and anti-tampering files, which look at the operating system; the Python and
.NET SDKs, which translate the Go one; the scheduler service, which nothing
starts; the building of providers' payloads in the adapters.

Modelled in part, and left: the ranking of pricing rules against a reference
definition; result files against their rows (`generation_file.go`); the first
use of `EnsureUser`; blacklist entries of an application or of all; an abstract
life cycle that `License` and `Subscriptions` implement.

What is left to prove: an abstract life cycle that `License` and `Subscriptions`
implement, once it is stated.
