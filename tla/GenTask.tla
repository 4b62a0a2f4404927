------------------------------ MODULE GenTask -------------------------------
(***************************************************************************)
(* The life of an AI task: the request handlers ProviderProxyService.Chat  *)
(* and AsyncRunnerService.StartTask, one goroutine per task, and the       *)
(* background poller (worker.AsyncPoller calling PollOnce), which share    *)
(* the row of generation_tasks and the money of module CreditLedger.       *)
(*                                                                         *)
(* A step is what happens between two points where another goroutine can   *)
(* run: a database statement or transaction, or a call to the provider.    *)
(* The process runs under no shutdown hook (gin's Run does not return), so *)
(* every restart is a Crash: goroutines vanish, rows and files stay.       *)
(* MUTx definitions are plausible mistakes the properties must notice.     *)
(***************************************************************************)
EXTENDS CreditLedger

CONSTANTS
    Creds,           \* provider credentials of the tenant that fit the request
    Undecryptable,   \* those whose envelope the master key does not open
    NoCred,          \* credential_id of a row that has none yet
    MediaCount,      \* media files of one finished job
    MaxAttempts,     \* asyncCreateMaxAttempts, chatMaxAttempts
    NetTries,        \* asyncCreateNetworkRetryAttempts
    CleanupBatch,    \* Limit(20) of the clean-up query
    PollBatch,       \* asyncPollMaxBatch
    TimeoutMayRace,  \* TRUE: the task timeout is shorter than a handler may run
    MaxFaults,       \* bound: database statements that fail
    MaxCrashes,      \* bound: restarts of the server
    MaxToggles       \* bound: changes of the credentials by an operator

ASSUME CredsAssumption ==
    /\ NoCred \notin Creds
    /\ Undecryptable \subseteq Creds
ASSUME SizesAssumption ==
    /\ {MediaCount, MaxAttempts, NetTries, CleanupBatch, PollBatch} \subseteq Nat \ {0}
    /\ {MaxFaults, MaxCrashes, MaxToggles} \subseteq Nat
ASSUME RaceAssumption == TimeoutMayRace \in BOOLEAN

VARIABLES
    job,       \* the other columns of the task row that steer the code
    handler,   \* the handler goroutine of each task
    poller,    \* the poller goroutine
    creds,     \* provider_credentials: "enabled", "disabled" or "deleted"
    remote,    \* the provider's view of the job: its state, submissions so far
    files,     \* number of generation_files rows of the task
    saved,     \* which media of the job have been stored at some time
    told,      \* last task event pushed to the app's websocket connections
    answered,  \* chat: the provider's answer has been returned to the client
    faults, crashes, toggles

runVars  == <<job, handler, poller, creds, remote, files, saved, told, answered>>
bounds   == <<faults, crashes, toggles>>
vars     == <<ledgerVars, runVars, bounds>>

NoJob   == [kind |-> "none", cred |-> NoCred, upstream |-> FALSE, aged |-> FALSE]
Idle    == [pc |-> "idle", attempt |-> 1, excluded |-> {}, fixed |-> NoCred,
            cred |-> NoCred, tries |-> 0, next |-> 1]
Resting == [pc |-> "idle", batch |-> {}, cur |-> NoTask, next |-> 1]

Init ==
    /\ LedgerInit
    /\ job      = [t \in Tasks |-> NoJob]
    /\ handler  = [t \in Tasks |-> Idle]
    /\ poller   = Resting
    /\ creds    = [c \in Creds |-> "enabled"]
    /\ remote   = [t \in Tasks |-> [state |-> "none", jobs |-> 0]]
    /\ files    = [t \in Tasks |-> 0]
    /\ saved    = [t \in Tasks |-> {}]
    /\ told     = [t \in Tasks |-> "none"]
    /\ answered = [t \in Tasks |-> FALSE]
    /\ faults = 0 /\ crashes = 0 /\ toggles = 0

-----------------------------------------------------------------------------
(* A database statement that fails. *)

FaultsCost(n) == faults + n <= MaxFaults /\ faults' = faults + n
Sound         == UNCHANGED faults

NotifyTaskStatus(t, event) == told' = [told EXCEPT ![t] = event]

\* failTaskAndRefund of both services.  When the transaction fails the row is
\* forced to failed; when that fails too nothing is written, and the runner
\* still announces a failure if it can read the row back.  The caller met n
\* faults on its way here.
SettleAsFailed(t, announces, n) ==
    \/ /\ FailTaskAndRefund(t) /\ FaultsCost(n)
       /\ IF announces THEN NotifyTaskStatus(t, "failed") ELSE UNCHANGED told
    \/ /\ ForceFail(t) /\ FaultsCost(n + 1)
       /\ IF announces THEN NotifyTaskStatus(t, "failed") ELSE UNCHANGED told
    \/ /\ UNCHANGED ledgerVars /\ FaultsCost(n + 2)
       /\ \/ announces /\ NotifyTaskStatus(t, "failed")
          \/ UNCHANGED told

-----------------------------------------------------------------------------
(* The handlers.                                                           *)

At(t, pc) == handler[t].pc = pc
Go(t, pc) == handler' = [handler EXCEPT ![t].pc = pc]

\* Chat and StartTask up to the reservation: pricing and the registry decide
\* before anything is written; a channel the client names must be enabled.
Submit(t, u, kind, cost, fixed) ==
    /\ At(t, "idle")
    /\ fixed # NoCred => creds[fixed] = "enabled"
    /\ ReserveAndCreateTask(t, u, cost)
    /\ job' = [job EXCEPT ![t].kind = kind]
    /\ handler' = [handler EXCEPT ![t].pc = "select", ![t].fixed = fixed]
    /\ UNCHANGED <<poller, creds, remote, files, saved, told, answered, bounds>>

\* SelectForTenantExcluding; a fixed channel is used without another look.
Selectable(t) ==
    IF handler[t].fixed # NoCred
    THEN {handler[t].fixed}
    ELSE {c \in Creds : creds[c] = "enabled" /\ c \notin handler[t].excluded}

SelectCredential(t) ==
    /\ At(t, "select")
    /\ \/ \E c \in Selectable(t) :
             /\ handler' = [handler EXCEPT ![t].pc = "call", ![t].cred = c, ![t].tries = 0]
             /\ \/ job' = [job EXCEPT ![t].cred = c] /\ Sound
                \/ UNCHANGED job /\ FaultsCost(1)      \* its error is ignored
       \/ Selectable(t) = {} /\ Go(t, "fail") /\ UNCHANGED job /\ Sound
    /\ UNCHANGED <<ledgerVars, poller, creds, remote, files, saved, told, answered,
                   crashes, toggles>>

\* The next round of the retry loop, with the credential excluded.
NextAttempt(t) ==
    LET h    == handler[t]
        last == h.fixed # NoCred \/ h.attempt = MaxAttempts
    IN handler' = [handler EXCEPT
          ![t] = [h EXCEPT !.pc       = IF last THEN "fail" ELSE "select",
                           !.attempt  = IF last THEN @ ELSE @ + 1,
                           !.excluded = @ \cup {h.cred}]]

Decrypts(t) == handler[t].cred \notin Undecryptable

\* The provider may have taken a job whose answer was lost.
MayHaveTakenJob(t) ==
    \/ UNCHANGED remote
    \/ remote' = [remote EXCEPT ![t].jobs = @ + 1]

CallFrame == UNCHANGED <<ledgerVars, job, poller, creds, files, saved, told, answered, bounds>>

\* Decrypt fails: StartTask tries another credential, Chat gives up.
DecryptFails(t) ==
    /\ At(t, "call") /\ ~Decrypts(t)
    /\ IF job[t].kind = "async" THEN NextAttempt(t) ELSE Go(t, "fail")
    /\ UNCHANGED remote /\ CallFrame

\* createWithNetworkRetry repeats the same request on a network error.
NetworkError(t) ==
    /\ At(t, "call") /\ Decrypts(t)
    /\ IF job[t].kind = "async" /\ handler[t].tries + 1 < NetTries
       THEN handler' = [handler EXCEPT ![t].tries = @ + 1]
       ELSE NextAttempt(t)
    /\ MayHaveTakenJob(t) /\ CallFrame

\* 401, 403, 429, 5xx: another credential may do.
RetriableRefusal(t) ==
    /\ At(t, "call") /\ Decrypts(t)
    /\ NextAttempt(t)
    /\ UNCHANGED remote /\ CallFrame

\* Any other refusal, an answer that is empty or lacks the job id, or the
\* client hanging up while the runner waits to repeat the request.
FinalRefusal(t) ==
    /\ At(t, "call") /\ Decrypts(t)
    /\ Go(t, "fail")
    /\ MayHaveTakenJob(t) /\ CallFrame

MUTResumeSkipsOne(t) == IF files[t] + 1 > MediaCount THEN MediaCount ELSE files[t] + 1

\* finalizeSucceeded starts: the rows already there are counted as the first
\* media of the job.
ResumeFrom(t) == IF files[t] > MediaCount THEN MediaCount ELSE files[t]

Accepted(t) ==
    /\ At(t, "call") /\ Decrypts(t)
    /\ \/ /\ job[t].kind = "chat"
          /\ Go(t, "answer")
          /\ remote' = [remote EXCEPT ![t].jobs = @ + 1]
       \/ /\ job[t].kind = "async"
          /\ Go(t, "record")
          /\ remote' = [remote EXCEPT ![t] = [state |-> "working", jobs |-> @.jobs + 1]]
       \/ /\ job[t].kind = "async"                     \* the media came inline
          /\ handler' = [handler EXCEPT ![t].pc = "media", ![t].next = ResumeFrom(t) + 1]
          /\ remote' = [remote EXCEPT ![t].jobs = @ + 1]
    /\ CallFrame

MUTRecordFallsThrough(t) ==
    /\ At(t, "record")
    /\ job' = [job EXCEPT ![t].upstream = TRUE] /\ Go(t, "media") /\ Sound
    /\ UNCHANGED <<ledgerVars, poller, creds, remote, files, saved, told, answered,
                   crashes, toggles>>

RecordUpstreamTask(t) ==
    /\ At(t, "record")
    /\ \/ job' = [job EXCEPT ![t].upstream = TRUE] /\ Go(t, "done") /\ Sound
       \/ UNCHANGED job /\ Go(t, "fail") /\ FaultsCost(1)
    /\ UNCHANGED <<ledgerVars, poller, creds, remote, files, saved, told, answered,
                   crashes, toggles>>

\* Chat ends: the error of the UPDATE is ignored, the answer goes out.
AnswerChat(t) ==
    /\ At(t, "answer")
    /\ \/ MarkSucceeded(t) /\ Sound
       \/ UNCHANGED ledgerVars /\ FaultsCost(1)
    /\ answered' = [answered EXCEPT ![t] = TRUE]
    /\ Go(t, "done")
    /\ UNCHANGED <<job, poller, creds, remote, files, saved, told, crashes, toggles>>

HandlerFails(t) ==
    /\ At(t, "fail")
    /\ SettleAsFailed(t, job[t].kind = "async", 0)
    /\ Go(t, "done")
    /\ UNCHANGED <<job, poller, creds, remote, files, saved, answered, crashes, toggles>>

-----------------------------------------------------------------------------
(* finalizeSucceeded: store the media one by one, then write the verdict.  *)
(* next is the medium to store; the loop fixed its range when it started.  *)

StoreMedium(t, next) ==
    /\ next <= MediaCount
    /\ files' = [files EXCEPT ![t] = @ + 1]
    /\ saved' = [saved EXCEPT ![t] = @ \cup {next}]

WriteVerdict(t, next) ==
    /\ next > MediaCount
    /\ MarkSucceeded(t)
    /\ NotifyTaskStatus(t, "succeeded")

HandlerStoresMedium(t) ==
    /\ At(t, "media")
    /\ StoreMedium(t, handler[t].next)
    /\ handler' = [handler EXCEPT ![t].next = @ + 1]
    /\ UNCHANGED <<ledgerVars, job, poller, creds, remote, told, answered, bounds>>

HandlerWritesVerdict(t) ==
    /\ At(t, "media")
    /\ WriteVerdict(t, handler[t].next)
    /\ Go(t, "done")
    /\ UNCHANGED <<job, poller, creds, remote, files, saved, answered, bounds>>

\* A download, the disk or the UPDATE fails: the files stored so far are
\* deleted (DeleteForTask, which stops at its first error) before the refund.
HandlerUndoesMedia(t) ==
    LET met == IF handler[t].next <= MediaCount THEN 0 ELSE 1 IN
    /\ At(t, "media")
    /\ \/ FaultsCost(met) /\ files' = [files EXCEPT ![t] = 0]
       \/ /\ FaultsCost(met + 1)
          /\ \E left \in 1..files[t] : files' = [files EXCEPT ![t] = left]
    /\ Go(t, "fail")
    /\ UNCHANGED <<ledgerVars, job, poller, creds, remote, saved, told, answered,
                   crashes, toggles>>

-----------------------------------------------------------------------------
(* The poller: PollOnce on every tick.                                     *)

InBatch(t) == t \in poller.batch
Drop(t)    == poller' = [poller EXCEPT !.batch = @ \ {t}, !.cur = NoTask, !.next = 1,
                                       !.pc = IF @ = "media" THEN "poll" ELSE @]

\* One query: rows of the set, at most limit of them.
Fetch(set, limit) ==
    {s \in SUBSET set : Cardinality(s) =
        (IF Cardinality(set) < limit THEN Cardinality(set) ELSE limit)}

PollerFrame == UNCHANGED <<ledgerVars, job, handler, creds, remote, files, saved,
                           told, answered, bounds>>

\* cleanupTimedOutTasksWithoutUpstreamID reads its list.
MUTStaleAnyAge    == {t \in Tasks : task[t].status = "running" /\ ~job[t].upstream}
MUTStaleUpstream  == {t \in Tasks : task[t].status = "running" /\ job[t].upstream /\ job[t].aged}

Stale == {t \in Tasks : task[t].status = "running" /\ ~job[t].upstream /\ job[t].aged}

ListStale ==
    /\ poller.pc = "idle"
    /\ \E s \in Fetch(Stale, CleanupBatch) :
          poller' = [poller EXCEPT !.pc = "cleanup", !.batch = s]
    /\ PollerFrame

\* ... and fails every task on it, without looking at the row again.
CleanupStale(t) ==
    /\ poller.pc = "cleanup" /\ InBatch(t)
    /\ SettleAsFailed(t, TRUE, 0)
    /\ Drop(t)
    /\ UNCHANGED <<job, handler, creds, remote, files, saved, answered, crashes, toggles>>

\* PollOnce reads the tasks whose next_poll_at has come.
Pollable == {t \in Tasks : task[t].status = "running" /\ job[t].upstream}

ListDue ==
    /\ poller.pc = "cleanup" /\ poller.batch = {}
    /\ \E due \in SUBSET Pollable : \E s \in Fetch(due, PollBatch) :
          poller' = [poller EXCEPT !.pc = "poll", !.batch = s]
    /\ PollerFrame

RoundEnds ==
    /\ poller.pc = "poll" /\ poller.batch = {}
    /\ poller' = Resting
    /\ PollerFrame

Advancing(t) == poller.pc = "poll" /\ InBatch(t)

\* advanceOne, its exits in the order of the code.
AdvanceTimedOut(t) ==
    /\ Advancing(t) /\ job[t].aged
    /\ SettleAsFailed(t, TRUE, 0)
    /\ Drop(t)
    /\ UNCHANGED <<job, handler, creds, remote, files, saved, answered, crashes, toggles>>

CredGone(t) == job[t].cred = NoCred \/ creds[job[t].cred] = "deleted"

AdvanceWithoutCredential(t) ==
    /\ Advancing(t) /\ ~job[t].aged
    /\ SettleAsFailed(t, TRUE, IF CredGone(t) THEN 0 ELSE 1)   \* any error of Get
    /\ Drop(t)
    /\ UNCHANGED <<job, handler, creds, remote, files, saved, answered, crashes, toggles>>

\* The key does not decrypt, the provider is unreachable or still working.
AdvanceLater(t) ==
    /\ Advancing(t) /\ ~job[t].aged /\ ~CredGone(t)
    /\ Drop(t)
    /\ PollerFrame

AdvanceRemoteFailed(t) ==
    /\ Advancing(t) /\ ~job[t].aged /\ ~CredGone(t)
    /\ remote[t].state \in {"broken", "empty"}
    /\ SettleAsFailed(t, TRUE, 0)
    /\ Drop(t)
    /\ UNCHANGED <<job, handler, creds, remote, files, saved, answered, crashes, toggles>>

AdvanceRemoteDone(t) ==
    /\ Advancing(t) /\ ~job[t].aged /\ ~CredGone(t)
    /\ remote[t].state = "done"
    /\ poller' = [poller EXCEPT !.pc = "media", !.cur = t, !.next = ResumeFrom(t) + 1]
    /\ PollerFrame

PollerStoresMedium(t) ==
    /\ poller.pc = "media" /\ poller.cur = t
    /\ StoreMedium(t, poller.next)
    /\ poller' = [poller EXCEPT !.next = @ + 1]
    /\ UNCHANGED <<ledgerVars, job, handler, creds, remote, told, answered, bounds>>

PollerWritesVerdict(t) ==
    /\ poller.pc = "media" /\ poller.cur = t
    /\ WriteVerdict(t, poller.next)
    /\ Drop(t)
    /\ UNCHANGED <<job, handler, creds, remote, files, saved, answered, bounds>>

\* A failed download leaves the task running; the next round resumes.
PollerGivesUpMedia(t) ==
    /\ poller.pc = "media" /\ poller.cur = t
    /\ \/ poller.next <= MediaCount /\ Sound
       \/ poller.next > MediaCount /\ FaultsCost(1)
    /\ Drop(t)
    /\ UNCHANGED <<ledgerVars, job, handler, creds, remote, files, saved, told, answered,
                   crashes, toggles>>

-----------------------------------------------------------------------------
(* The world around: operators, users, the provider, the clock, restarts.  *)

OperatorAdjusts(u, a) == Adjust(u, a) /\ UNCHANGED <<runVars, bounds>>

OperatorLimits(u, l) == SetConcurrentLimit(u, l) /\ UNCHANGED <<runVars, bounds>>

OperatorSetsCredential(c) ==
    /\ toggles < MaxToggles /\ toggles' = toggles + 1
    /\ creds[c] # "deleted"
    /\ \E state \in {"enabled", "disabled", "deleted"} \ {creds[c]} :
          creds' = [creds EXCEPT ![c] = state]
    /\ UNCHANGED <<ledgerVars, job, handler, poller, remote, files, saved, told, answered,
                   faults, crashes>>

\* The owner deletes a result file, or its retention ends.
FileRemoved(t) ==
    /\ files[t] > 0
    /\ files' = [files EXCEPT ![t] = @ - 1]
    /\ UNCHANGED <<ledgerVars, job, handler, poller, creds, remote, saved, told, answered,
                   bounds>>

RemoteEnds(t) ==
    /\ remote[t].state = "working"
    /\ \E state \in {"done", "broken", "empty"} :
          remote' = [remote EXCEPT ![t].state = state]
    /\ UNCHANGED <<ledgerVars, job, handler, poller, creds, files, saved, told, answered,
                   bounds>>

\* taskTimeout has passed since created_at; no matter once the task is settled.
\* The default of two hours is far longer than a handler can take; a configured
\* few minutes are not.
Age(t) ==
    /\ task[t].status = "running" /\ ~job[t].aged
    /\ TimeoutMayRace \/ At(t, "done")
    /\ job' = [job EXCEPT ![t].aged = TRUE]
    /\ UNCHANGED <<ledgerVars, handler, poller, creds, remote, files, saved, told, answered,
                   bounds>>

Crash ==
    /\ crashes < MaxCrashes /\ crashes' = crashes + 1
    /\ handler' = [t \in Tasks |-> IF At(t, "idle") THEN handler[t]
                                   ELSE [handler[t] EXCEPT !.pc = "done"]]
    /\ poller' = Resting
    /\ UNCHANGED <<ledgerVars, job, creds, remote, files, saved, told, answered,
                   faults, toggles>>

-----------------------------------------------------------------------------
HandlerStep(t) ==
    \/ SelectCredential(t) \/ DecryptFails(t) \/ NetworkError(t) \/ RetriableRefusal(t)
    \/ FinalRefusal(t) \/ Accepted(t) \/ RecordUpstreamTask(t) \/ AnswerChat(t)
    \/ HandlerFails(t)
    \/ HandlerStoresMedium(t) \/ HandlerWritesVerdict(t) \/ HandlerUndoesMedia(t)

AdvanceOne(t) ==
    \/ AdvanceTimedOut(t) \/ AdvanceWithoutCredential(t) \/ AdvanceLater(t)
    \/ AdvanceRemoteFailed(t) \/ AdvanceRemoteDone(t)
    \/ PollerStoresMedium(t) \/ PollerWritesVerdict(t) \/ PollerGivesUpMedia(t)

PollerStep ==
    \/ ListStale \/ ListDue \/ RoundEnds
    \/ \E t \in Tasks : CleanupStale(t) \/ AdvanceOne(t)

Environment ==
    \/ \E u \in Users, a \in Amounts : OperatorAdjusts(u, a)
    \/ \E u \in Users, l \in Limits : OperatorLimits(u, l)
    \/ \E c \in Creds : OperatorSetsCredential(c)
    \/ \E t \in Tasks : FileRemoved(t) \/ RemoteEnds(t) \/ Age(t)
    \/ Crash

Next ==
    \/ \E t \in Tasks, u \in Users, kind \in {"chat", "async"}, c \in Costs,
          fixed \in Creds \cup {NoCred} : Submit(t, u, kind, c, fixed)
    \/ \E t \in Tasks : HandlerStep(t)
    \/ PollerStep
    \/ Environment

Spec == Init /\ [][Next]_vars

\* Handlers run to their end (every call has a timeout), the poller ticks, the
\* clock advances, and next_poll_at, at most five seconds ahead, comes for
\* every task the poller may take.
ListDueWith(t) == ListDue /\ t \in poller'.batch

Fairness ==
    /\ WF_vars(PollerStep)
    /\ \A t \in Tasks : /\ WF_vars(HandlerStep(t))
                        /\ WF_vars(Age(t))
                        /\ SF_vars(ListDueWith(t))

FairSpec == Spec /\ Fairness

-----------------------------------------------------------------------------
(* Properties                                                              *)

JobType == [kind : {"none", "chat", "async"}, cred : Creds \cup {NoCred},
            upstream : BOOLEAN, aged : BOOLEAN]

HandlerType ==
    [pc : {"idle", "select", "call", "record", "answer", "media", "fail", "done"},
     attempt : 1..MaxAttempts, excluded : SUBSET Creds, fixed : Creds \cup {NoCred},
     cred : Creds \cup {NoCred}, tries : 0..(NetTries - 1), next : 1..(MediaCount + 1)]

PollerType ==
    [pc : {"idle", "cleanup", "poll", "media"}, batch : SUBSET Tasks,
     cur : Tasks \cup {NoTask}, next : 1..(MediaCount + 1)]

RemoteType == [state : {"none", "working", "done", "broken", "empty"}, jobs : Nat]

\* Rows, goroutines and queues hold values of their types.
TypeOK ==
    /\ LedgerTypeOK
    /\ job \in [Tasks -> JobType]
    /\ handler \in [Tasks -> HandlerType]
    /\ poller \in PollerType
    /\ creds \in [Creds -> {"enabled", "disabled", "deleted"}]
    /\ remote \in [Tasks -> RemoteType]
    /\ files \in [Tasks -> 0..MediaCount]
    /\ saved \in [Tasks -> SUBSET (1..MediaCount)]
    /\ told \in [Tasks -> {"none", "succeeded", "failed"}]
    /\ answered \in [Tasks -> BOOLEAN]
    /\ faults \in 0..MaxFaults /\ crashes \in 0..MaxCrashes /\ toggles \in 0..MaxToggles

\* Cost: "charged; kept on success, already returned on failure"
\* (model.GenerationTask).  A task that shows success has not been refunded.
SucceededKeepsCharge ==
    \A t \in Tasks : task[t].status = "succeeded" => RowsOf(t, "refund") = {}

\* A verdict is final: no late answer of the provider, no stale list of the
\* poller and no restart turns failed into succeeded or the reverse.
VerdictIsFinal ==
    [][\A t \in Tasks : task[t].status \in {"succeeded", "failed"} =>
                           task'[t].status = task[t].status]_vars

\* Every medium of a finished job has been stored by the time the task shows
\* success, through any number of failed downloads, restarts and deletions of
\* stored files in between (existingSavedFileIDs).
SucceededHasStoredAll ==
    \A t \in Tasks : (task[t].status = "succeeded" /\ job[t].kind = "async")
                        => saved[t] = 1..MediaCount

\* A handler and the poller never store the media of one task at a time.
OneFinalizer ==
    \A t \in Tasks : ~(At(t, "media") /\ poller.pc = "media" /\ poller.cur = t)

\* While no statement has failed, row, money and what others were told agree: a
\* failed task has been refunded, a chat that was answered shows success, and
\* the last event the app was sent names the status the row has.
SoundOutcomes ==
    faults = 0 =>
        \A t \in Tasks :
            /\ task[t].status = "failed" => RowsOf(t, "refund") # {}
            /\ answered[t] => task[t].status = "succeeded"
            /\ told[t] # "none" => task[t].status = told[t]

-----------------------------------------------------------------------------
(* The promise.  A deal is held while its task runs, kept when it shows    *)
(* success, returned when it failed and the ledger holds the refund.       *)

DealState(t) ==
    CASE task[t].status = "absent"    -> "none"
      [] task[t].status = "running"   -> "held"
      [] task[t].status = "succeeded" -> "kept"
      [] task[t].status = "failed"    -> IF RowsOf(t, "refund") = {} THEN "owed"
                                                                     ELSE "returned"

Promise == INSTANCE TaskCharge WITH
    purse <- [u \in Users |-> account[u].balance],
    deal  <- [t \in Tasks |-> [state |-> DealState(t), user |-> task[t].user,
                               price |-> task[t].cost]]

\* Handlers, poller and restarts keep TaskCharge's promise: the price moves by its
\* steps only, and no deal stays open, because the poller picks up what a lost
\* handler left.
KeepsPromiseFairly == Promise!FairSpec
=============================================================================
