--------------------------- MODULE GenTaskProofs ----------------------------
(***************************************************************************)
(* The handlers, the poller, faults and restarts of GenTask move money     *)
(* only by the transactions of CreditLedger, so what CreditLedgerProofs    *)
(* shows of the ledger holds in the whole AI gateway; then who finalizes a *)
(* task, and what has been stored when it shows success, whether or not    *)
(* the task timeout races the handlers; and verdicts, when it does not.    *)
(* All of it for any number of tasks, credentials, media, attempts, faults *)
(* and restarts.                                                           *)
(***************************************************************************)
EXTENDS GenTask, CreditLedgerProofs

\* Both services settle a failed task by transactions of the ledger.
LEMMA SettleLedger ==
    ASSUME NEW t \in Tasks, NEW announces, NEW n, SettleAsFailed(t, announces, n)
    PROVE  [LedgerNext]_ledgerVars
  <1>1. FailTaskAndRefund(t) \/ ForceFail(t) \/ UNCHANGED ledgerVars
    BY DEF SettleAsFailed
  <1> QED
    BY <1>1 DEF LedgerNext

LEMMA HandlerLedger ==
    ASSUME NEW t \in Tasks, HandlerStep(t)
    PROVE  [LedgerNext]_ledgerVars
  <1>1. CASE SelectCredential(t)
    BY <1>1 DEF SelectCredential
  <1>2. CASE DecryptFails(t)
    BY <1>2 DEF DecryptFails, CallFrame
  <1>3. CASE NetworkError(t)
    BY <1>3 DEF NetworkError, CallFrame
  <1>4. CASE RetriableRefusal(t)
    BY <1>4 DEF RetriableRefusal, CallFrame
  <1>5. CASE FinalRefusal(t)
    BY <1>5 DEF FinalRefusal, CallFrame
  <1>6. CASE Accepted(t)
    BY <1>6 DEF Accepted, CallFrame
  <1>7. CASE RecordUpstreamTask(t)
    BY <1>7 DEF RecordUpstreamTask
  <1>8. CASE AnswerChat(t)
    <2>1. MarkSucceeded(t) \/ UNCHANGED ledgerVars
      BY <1>8 DEF AnswerChat
    <2> QED
      BY <2>1 DEF LedgerNext
  <1>9. CASE HandlerFails(t)
    BY <1>9, SettleLedger DEF HandlerFails
  <1>10. CASE HandlerStoresMedium(t)
    BY <1>10 DEF HandlerStoresMedium
  <1>11. CASE HandlerWritesVerdict(t)
    <2>1. MarkSucceeded(t)
      BY <1>11 DEF HandlerWritesVerdict, WriteVerdict
    <2> QED
      BY <2>1 DEF LedgerNext
  <1>12. CASE HandlerUndoesMedia(t)
    BY <1>12 DEF HandlerUndoesMedia
  <1> QED
    BY <1>1, <1>2, <1>3, <1>4, <1>5, <1>6, <1>7, <1>8, <1>9, <1>10, <1>11, <1>12
    DEF HandlerStep

LEMMA PollerLedger ==
    ASSUME PollerStep
    PROVE  [LedgerNext]_ledgerVars
  <1>1. CASE ListStale
    BY <1>1 DEF ListStale, PollerFrame
  <1>2. CASE ListDue
    BY <1>2 DEF ListDue, PollerFrame
  <1>3. CASE RoundEnds
    BY <1>3 DEF RoundEnds, PollerFrame
  <1>4. ASSUME NEW t \in Tasks, CleanupStale(t) PROVE [LedgerNext]_ledgerVars
    BY <1>4, SettleLedger DEF CleanupStale
  <1>5. ASSUME NEW t \in Tasks, AdvanceOne(t) PROVE [LedgerNext]_ledgerVars
    <2>1. CASE AdvanceTimedOut(t)
      BY <2>1, SettleLedger DEF AdvanceTimedOut
    <2>2. CASE AdvanceWithoutCredential(t)
      BY <2>2, SettleLedger DEF AdvanceWithoutCredential
    <2>3. CASE AdvanceLater(t)
      BY <2>3 DEF AdvanceLater, PollerFrame
    <2>4. CASE AdvanceRemoteFailed(t)
      BY <2>4, SettleLedger DEF AdvanceRemoteFailed
    <2>5. CASE AdvanceRemoteDone(t)
      BY <2>5 DEF AdvanceRemoteDone, PollerFrame
    <2>6. CASE PollerStoresMedium(t)
      BY <2>6 DEF PollerStoresMedium
    <2>7. CASE PollerWritesVerdict(t)
      <3>1. MarkSucceeded(t)
        BY <2>7 DEF PollerWritesVerdict, WriteVerdict
      <3> QED
        BY <3>1 DEF LedgerNext
    <2>8. CASE PollerGivesUpMedia(t)
      BY <2>8 DEF PollerGivesUpMedia
    <2> QED
      BY <1>5, <2>1, <2>2, <2>3, <2>4, <2>5, <2>6, <2>7, <2>8 DEF AdvanceOne
  <1> QED
    BY <1>1, <1>2, <1>3, <1>4, <1>5 DEF PollerStep

LEMMA EnvironmentLedger ==
    ASSUME Environment
    PROVE  [LedgerNext]_ledgerVars
  <1>1. ASSUME NEW u \in Users, NEW a \in Amounts, OperatorAdjusts(u, a)
        PROVE  [LedgerNext]_ledgerVars
    BY <1>1 DEF OperatorAdjusts, LedgerNext
  <1>2. ASSUME NEW u \in Users, NEW l \in Limits, OperatorLimits(u, l)
        PROVE  [LedgerNext]_ledgerVars
    BY <1>2 DEF OperatorLimits, LedgerNext
  <1>3. ASSUME NEW c \in Creds, OperatorSetsCredential(c) PROVE UNCHANGED ledgerVars
    BY <1>3 DEF OperatorSetsCredential
  <1>4. ASSUME NEW t \in Tasks, FileRemoved(t) \/ RemoteEnds(t) \/ Age(t)
        PROVE  UNCHANGED ledgerVars
    BY <1>4 DEF FileRemoved, RemoteEnds, Age
  <1>5. CASE Crash
    BY <1>5 DEF Crash
  <1> QED
    BY <1>1, <1>2, <1>3, <1>4, <1>5 DEF Environment

LEMMA StepLedger == [Next]_vars => [LedgerNext]_ledgerVars
  <1> SUFFICES ASSUME [Next]_vars PROVE [LedgerNext]_ledgerVars
    OBVIOUS
  <1>1. ASSUME NEW t \in Tasks, NEW u \in Users, NEW kind, NEW c \in Costs, NEW fixed,
               Submit(t, u, kind, c, fixed)
        PROVE  [LedgerNext]_ledgerVars
    BY <1>1 DEF Submit, LedgerNext
  <1>2. CASE UNCHANGED vars
    BY <1>2 DEF vars
  <1> QED
    BY <1>1, <1>2, HandlerLedger, PollerLedger, EnvironmentLedger DEF Next

-----------------------------------------------------------------------------
\* The actions of GenTask that touch the tables are made of those of CreditLedger, so what
\* is proved of the ledger can be used of GenTask (credit.go's transactions are the only
\* ones that move money).
LEMMA GatewayImplementsLedger == Spec => LedgerSpec
  <1>1. Init => LedgerInit
    BY DEF Init
  <1> QED
    BY <1>1, StepLedger, PTL DEF Spec, LedgerSpec

\* So in the gateway a charge returns at most once, ...
THEOREM GatewayRefundsOnce == Spec => []RefundedAtMostOnce
  BY GatewayImplementsLedger, RefundedOnceAlways, PTL

\* ... a task is charged once, ...
THEOREM GatewayChargesOnce == Spec => []ChargedExactlyOnce
  BY GatewayImplementsLedger, ChargedOnceAlways, PTL

\* ... and every balance is the one its ledger shows and never negative.
THEOREM GatewayBalances == Spec => [](LedgerChained /\ BalanceNonNegative)
  BY GatewayImplementsLedger, LedgerIsChained, NoOverdraft, PTL

-----------------------------------------------------------------------------
(* Who finalizes a task, and what has been stored.                         *)

\* The types of what CreditLedger does not own.
RunTypeOK ==
    /\ job \in [Tasks -> JobType]
    /\ handler \in [Tasks -> HandlerType]
    /\ poller \in PollerType
    /\ creds \in [Creds -> {"enabled", "disabled", "deleted"}]
    /\ remote \in [Tasks -> RemoteType]
    /\ files \in [Tasks -> 0..MediaCount]
    /\ saved \in [Tasks -> SUBSET (1..MediaCount)]
    /\ told \in [Tasks -> {"none", "succeeded", "failed"}]
    /\ answered \in [Tasks -> BOOLEAN]
    /\ faults \in 0..MaxFaults /\ crashes \in 0..MaxCrashes /\ toggles \in 0..MaxToggles

\* A request goes out under a credential.
CallsCred == \A t \in Tasks : At(t, "call") => handler[t].cred \in Creds

\* The handler gives a task away by recording the id of the job, ...
HandsOver == \A t \in Tasks : job[t].upstream => At(t, "done")

\* ... and the poller advances only tasks that were given away.
PollsOwn ==
    /\ poller.pc \in {"poll", "media"} => \A t \in poller.batch : job[t].upstream
    /\ poller.pc = "media" => poller.cur \in poller.batch

\* Rows on disk stand for media that have been stored.
FilesSaved == \A t \in Tasks : 1..files[t] \subseteq saved[t]

\* Whoever finalizes is past the rows it has counted, and has stored, or found
\* stored, every medium before the one it is about to store.
Resumes ==
    /\ \A t \in Tasks : At(t, "media") =>
          /\ files[t] < handler[t].next
          /\ 1..(handler[t].next - 1) \subseteq saved[t]
    /\ poller.pc = "media" =>
          /\ files[poller.cur] < poller.next
          /\ 1..(poller.next - 1) \subseteq saved[poller.cur]

ChatAnswers == \A t \in Tasks : At(t, "answer") => job[t].kind = "chat"

MediaInv ==
    /\ RunTypeOK /\ CallsCred /\ HandsOver /\ PollsOwn
    /\ FilesSaved /\ Resumes /\ ChatAnswers /\ SucceededHasStoredAll

-----------------------------------------------------------------------------
(* What the tables of the ledger contribute.                               *)

\* No task shows success that did not before.
NoNewSuccess ==
    \A t \in Tasks : task'[t].status = "succeeded" => task[t].status = "succeeded"

LEMMA FrameStatus ==
    ASSUME UNCHANGED ledgerVars
    PROVE  NoNewSuccess
  BY DEF ledgerVars, NoNewSuccess

LEMMA MarkFailedStatus ==
    ASSUME LedgerTypeOK, NEW t \in Tasks, NEW rs, NEW ra, MarkFailed(t, rs, ra)
    PROVE  NoNewSuccess
  BY DEF LedgerTypeOK, TaskType, MarkFailed, NoNewSuccess

\* The transactions that fail a task do not make any task succeed.
LEMMA FailStatus ==
    ASSUME LedgerTypeOK, NEW t \in Tasks, FailTaskAndRefund(t) \/ ForceFail(t)
    PROVE  NoNewSuccess
  <1>1. CASE FailTaskAndRefund(t)
    <2>1. CASE FailSettled(t)
      BY <2>1, MarkFailedStatus DEF FailSettled
    <2>2. CASE FailAlreadyRefunded(t)
      BY <2>2, MarkFailedStatus DEF FailAlreadyRefunded
    <2>3. CASE FailAndRefund(t)
      BY <2>3, MarkFailedStatus DEF FailAndRefund
    <2> QED
      BY <1>1, <2>1, <2>2, <2>3 DEF FailTaskAndRefund
  <1>2. CASE ForceFail(t)
    BY <1>2, MarkFailedStatus DEF ForceFail
  <1> QED
    BY <1>1, <1>2

LEMMA SettleStatus ==
    ASSUME LedgerTypeOK, MediaInv, NEW t \in Tasks, NEW announces, NEW n \in Nat,
           SettleAsFailed(t, announces, n)
    PROVE  /\ NoNewSuccess
           /\ told' \in [Tasks -> {"none", "succeeded", "failed"}]
           /\ faults' \in 0..MaxFaults
  <1>1. NoNewSuccess
    BY FailStatus, FrameStatus DEF SettleAsFailed
  <1>2. told' \in [Tasks -> {"none", "succeeded", "failed"}]
    BY DEF SettleAsFailed, NotifyTaskStatus, MediaInv, RunTypeOK
  <1>3. faults' \in 0..MaxFaults
    BY SizesAssumption DEF SettleAsFailed, FaultsCost, MediaInv, RunTypeOK
  <1> QED
    BY <1>1, <1>2, <1>3

-----------------------------------------------------------------------------
(* The handlers.                                                           *)

\* What no step of a handler has to be careful about.
RestTypeOK ==
    /\ creds \in [Creds -> {"enabled", "disabled", "deleted"}]
    /\ remote \in [Tasks -> RemoteType]
    /\ told \in [Tasks -> {"none", "succeeded", "failed"}]
    /\ answered \in [Tasks -> BOOLEAN]
    /\ faults \in 0..MaxFaults /\ crashes \in 0..MaxCrashes /\ toggles \in 0..MaxToggles

\* The handler of t goes on to h, which a handler in state h may be in.
Moves(t, h) ==
    /\ h \in HandlerType
    /\ handler' = [handler EXCEPT ![t] = h]
    /\ h.pc = "call" => h.cred \in Creds

\* The rows of task files change for t only.
FilesOf(t) ==
    /\ files' \in [Tasks -> 0..MediaCount]
    /\ saved' \in [Tasks -> SUBSET (1..MediaCount)]
    /\ \A s \in Tasks \ {t} : files'[s] = files[s] /\ saved'[s] = saved[s]
    /\ 1..files'[t] \subseteq saved'[t]

\* The columns of t move on; nobody takes the job back from the poller.
JobOf(t, h) ==
    /\ job' \in [Tasks -> JobType]
    /\ \A s \in Tasks \ {t} : job'[s] = job[s]
    /\ job'[t].upstream => h.pc = "done"

\* A handler that is not done works on a task the poller leaves alone.
LEMMA NotThePollers ==
    ASSUME MediaInv, NEW t \in Tasks, handler[t].pc # "done"
    PROVE  /\ ~job[t].upstream
           /\ poller.pc \in {"poll", "media"} => t \notin poller.batch
           /\ poller.pc = "media" => poller.cur # t
  BY DEF MediaInv, HandsOver, PollsOwn, At

\* A step of the handler of t keeps the invariant when the state it goes on to
\* is one it has earned.
LEMMA HandlerKeeps ==
    ASSUME MediaInv, RestTypeOK', UNCHANGED poller,
           NEW t \in Tasks, handler[t].pc # "done",
           NEW h, Moves(t, h), JobOf(t, h), FilesOf(t),
           h.pc = "answer" => job'[t].kind = "chat",
           h.pc = "media" => files'[t] < h.next /\ 1..(h.next - 1) \subseteq saved'[t],
           SucceededHasStoredAll'
    PROVE  MediaInv'
  <1>1. /\ poller.pc \in {"poll", "media"} => t \notin poller.batch
        /\ poller.pc = "media" => poller.cur # t
    BY NotThePollers
  <1>2. /\ handler'[t] = h
        /\ \A s \in Tasks \ {t} : handler'[s] = handler[s]
        /\ handler' \in [Tasks -> HandlerType]
    BY DEF Moves, MediaInv, RunTypeOK
  <1>3. poller \in PollerType /\ poller.batch \subseteq Tasks
    BY DEF MediaInv, RunTypeOK, PollerType
  <1>4. RunTypeOK'
    BY <1>2, <1>3 DEF RunTypeOK, RestTypeOK, FilesOf, JobOf
  <1>5. CallsCred'
    BY <1>2 DEF CallsCred, At, MediaInv, Moves
  <1>6. HandsOver'
    BY <1>2 DEF HandsOver, At, MediaInv, JobOf
  <1>7. PollsOwn'
    BY <1>1, <1>3 DEF PollsOwn, MediaInv, JobOf
  <1>8. FilesSaved'
    BY DEF FilesSaved, MediaInv, FilesOf
  <1>9. Resumes'
    <2>1. ASSUME NEW s \in Tasks, At(s, "media")'
          PROVE  (files[s] < handler[s].next /\ 1..(handler[s].next - 1) \subseteq saved[s])'
      BY <1>2, <2>1 DEF Resumes, At, MediaInv, FilesOf
    <2>2. ASSUME poller.pc = "media"
          PROVE  (files[poller.cur] < poller.next
                    /\ 1..(poller.next - 1) \subseteq saved[poller.cur])'
      <3>1. poller.cur \in Tasks \ {t}
        BY <1>1, <1>3, <2>2 DEF PollsOwn, MediaInv
      <3> QED
        BY <2>2, <3>1 DEF Resumes, MediaInv, FilesOf
    <2> QED
      BY <2>1, <2>2 DEF Resumes
  <1>10. ChatAnswers'
    BY <1>2 DEF ChatAnswers, At, MediaInv, JobOf
  <1> QED
    BY <1>4, <1>5, <1>6, <1>7, <1>8, <1>9, <1>10 DEF MediaInv

LEMMA FilesFrame ==
    ASSUME MediaInv, NEW t \in Tasks, UNCHANGED <<files, saved>>
    PROVE  FilesOf(t)
  BY DEF FilesOf, MediaInv, RunTypeOK, FilesSaved

LEMMA JobFrame ==
    ASSUME MediaInv, NEW t \in Tasks, handler[t].pc # "done", UNCHANGED job, NEW h
    PROVE  JobOf(t, h)
  <1>1. ~job[t].upstream
    BY NotThePollers
  <1> QED
    BY <1>1 DEF JobOf, MediaInv, RunTypeOK

\* A step that makes no task succeed and takes nothing stored back.
LEMMA StoredKept ==
    ASSUME MediaInv, NoNewSuccess,
           \A s \in Tasks : job'[s].kind = job[s].kind,
           saved' \in [Tasks -> SUBSET (1..MediaCount)],
           \A s \in Tasks : saved[s] \subseteq saved'[s]
    PROVE  SucceededHasStoredAll'
  <1> SUFFICES ASSUME NEW s \in Tasks, task'[s].status = "succeeded", job'[s].kind = "async"
               PROVE  saved'[s] = 1..MediaCount
    BY DEF SucceededHasStoredAll
  <1>1. saved[s] = 1..MediaCount
    BY DEF NoNewSuccess, MediaInv, SucceededHasStoredAll
  <1>2. saved'[s] \subseteq 1..MediaCount
    OBVIOUS
  <1> QED
    BY <1>1, <1>2

\* The UPDATE of a success names one task and leaves the status of the others.
LEMMA SucceededOthers ==
    ASSUME LedgerTypeOK, NEW t \in Tasks, MarkSucceeded(t)
    PROVE  \A s \in Tasks \ {t} : task'[s] = task[s]
  BY DEF LedgerTypeOK, MarkSucceeded

\* The verdict is written when the last medium has been stored.
LEMMA VerdictStored ==
    ASSUME LedgerTypeOK, MediaInv, NEW t \in Tasks, NEW next \in 1..(MediaCount + 1),
           WriteVerdict(t, next), UNCHANGED <<job, saved>>,
           1..(next - 1) \subseteq saved[t]
    PROVE  SucceededHasStoredAll'
  <1>1. next = MediaCount + 1
    BY SizesAssumption DEF WriteVerdict
  <1>2. saved[t] = 1..MediaCount
    <2>1. saved[t] \in SUBSET (1..MediaCount)
      BY DEF MediaInv, RunTypeOK
    <2>2. next - 1 = MediaCount
      BY <1>1, SizesAssumption
    <2> QED
      BY <2>1, <2>2
  <1>3. \A s \in Tasks \ {t} : task'[s] = task[s]
    BY SucceededOthers DEF WriteVerdict
  <1> QED
    BY <1>2, <1>3 DEF SucceededHasStoredAll, MediaInv

HandlerPcs == {"idle", "select", "call", "record", "answer", "media", "fail", "done"}

\* Go changes where the handler is and nothing else of it.
LEMMA GoMoves ==
    ASSUME MediaInv, NEW t \in Tasks, NEW pc \in HandlerPcs, pc # "call", Go(t, pc)
    PROVE  \E h : Moves(t, h) /\ h.pc = pc /\ h.next = handler[t].next
  <1> DEFINE h == [handler[t] EXCEPT !.pc = pc]
  <1>1. handler[t] \in HandlerType
    BY DEF MediaInv, RunTypeOK
  <1>2. h \in HandlerType /\ h.pc = pc /\ h.next = handler[t].next
    BY <1>1 DEF HandlerType, HandlerPcs
  <1>3. handler' = [handler EXCEPT ![t] = h]
    BY DEF Go
  <1> QED
    BY <1>2, <1>3 DEF Moves

LEMMA NextAttemptMoves ==
    ASSUME MediaInv, NEW t \in Tasks, At(t, "call"), NextAttempt(t)
    PROVE  \E h : Moves(t, h) /\ h.pc \in {"fail", "select"}
  <1> DEFINE last == handler[t].fixed # NoCred \/ handler[t].attempt = MaxAttempts
             h == [handler[t] EXCEPT
                      !.pc       = IF last THEN "fail" ELSE "select",
                      !.attempt  = IF last THEN @ ELSE @ + 1,
                      !.excluded = @ \cup {handler[t].cred}]
  <1>1. handler[t] \in HandlerType /\ handler[t].cred \in Creds
    BY DEF MediaInv, RunTypeOK, CallsCred
  <1>2. h \in HandlerType /\ h.pc \in {"fail", "select"}
    <2> DEFINE a == IF last THEN handler[t].attempt ELSE handler[t].attempt + 1
               e == handler[t].excluded \cup {handler[t].cred}
               p == IF last THEN "fail" ELSE "select"
    <2>1. a \in 1..MaxAttempts
      BY <1>1, SizesAssumption DEF HandlerType
    <2>2. e \in SUBSET Creds
      BY <1>1 DEF HandlerType
    <2>3. p \in {"fail", "select"}
      OBVIOUS
    <2>4. h = [handler[t] EXCEPT !.pc = p, !.attempt = a, !.excluded = e]
      BY <1>1 DEF HandlerType
    <2> HIDE DEF a, e, p, h
    <2> QED
      BY <1>1, <2>1, <2>2, <2>3, <2>4 DEF HandlerType
  <1>3. handler' = [handler EXCEPT ![t] = h]
    BY DEF NextAttempt
  <1> QED
    BY <1>2, <1>3 DEF Moves

\* Steps of a handler that touch neither money nor files.
LEMMA QuietKeeps ==
    ASSUME MediaInv, RestTypeOK', UNCHANGED <<poller, files, saved>>, NoNewSuccess,
           NEW t \in Tasks, handler[t].pc # "done",
           NEW h, Moves(t, h), JobOf(t, h), job'[t].kind = job[t].kind,
           h.pc = "answer" => job[t].kind = "chat",
           h.pc = "media" => files[t] < h.next /\ 1..(h.next - 1) \subseteq saved[t]
    PROVE  MediaInv'
  <1>1. FilesOf(t)
    BY FilesFrame
  <1>2. \A s \in Tasks : job'[s].kind = job[s].kind
    BY DEF JobOf
  <1>3. SucceededHasStoredAll'
    BY <1>2, StoredKept DEF MediaInv, RunTypeOK
  <1> QED
    BY <1>1, <1>3, HandlerKeeps

LEMMA SelectCredentialMedia ==
    ASSUME MediaInv, NEW t \in Tasks, SelectCredential(t)
    PROVE  MediaInv'
  <1>1. RestTypeOK'
    <2>1. Sound \/ FaultsCost(1)
      BY DEF SelectCredential
    <2>2. faults' \in 0..MaxFaults
      BY <2>1, SizesAssumption DEF FaultsCost, Sound, MediaInv, RunTypeOK
    <2> QED
      BY <2>2 DEF SelectCredential, RestTypeOK, MediaInv, RunTypeOK
  <1>2. handler[t].pc # "done" /\ NoNewSuccess /\ UNCHANGED <<poller, files, saved>>
    BY FrameStatus DEF SelectCredential, At
  <1>3. ~job[t].upstream
    BY <1>2, NotThePollers
  <1>4. ASSUME NEW c \in Selectable(t),
               handler' = [handler EXCEPT ![t].pc = "call", ![t].cred = c, ![t].tries = 0],
               \/ job' = [job EXCEPT ![t].cred = c]
               \/ UNCHANGED job
        PROVE  MediaInv'
    <2> DEFINE h == [handler[t] EXCEPT !.pc = "call", !.cred = c, !.tries = 0]
    <2>1. handler[t] \in HandlerType /\ job[t] \in JobType
      BY DEF MediaInv, RunTypeOK
    <2>2. c \in Creds
      BY <2>1 DEF Selectable, HandlerType
    <2>3. h \in HandlerType /\ h.pc = "call" /\ h.cred = c
      <3>1. 0 \in 0..(NetTries - 1)
        BY SizesAssumption
      <3> QED
        BY <2>1, <2>2, <3>1 DEF HandlerType
    <2>4. handler' = [handler EXCEPT ![t] = h]
      BY <1>4
    <2>5. Moves(t, h)
      BY <2>2, <2>3, <2>4 DEF Moves
    <2>6. JobOf(t, h) /\ job'[t].kind = job[t].kind
      BY <1>3, <1>4, <2>1, <2>2 DEF JobOf, JobType, MediaInv, RunTypeOK
    <2> HIDE DEF h
    <2> QED
      BY <1>1, <1>2, <2>3, <2>5, <2>6, QuietKeeps
  <1>5. ASSUME Go(t, "fail"), UNCHANGED job PROVE MediaInv'
    <2>1. PICK h : Moves(t, h) /\ h.pc = "fail"
      BY <1>5, GoMoves DEF HandlerPcs
    <2>2. JobOf(t, h)
      BY <1>2, <1>5, JobFrame
    <2> QED
      BY <1>1, <1>2, <1>5, <2>1, <2>2, QuietKeeps
  <1> QED
    BY <1>4, <1>5 DEF SelectCredential

\* What the steps at the provider call have in common.
LEMMA CallKeeps ==
    ASSUME MediaInv, NEW t \in Tasks, At(t, "call"), CallFrame,
           remote' \in [Tasks -> RemoteType],
           NEW h, Moves(t, h), h.pc = "answer" => job[t].kind = "chat",
           h.pc = "media" => files[t] < h.next /\ 1..(h.next - 1) \subseteq saved[t]
    PROVE  MediaInv'
  <1>1. RestTypeOK'
    BY DEF CallFrame, bounds, RestTypeOK, MediaInv, RunTypeOK
  <1>2. handler[t].pc # "done" /\ NoNewSuccess /\ UNCHANGED <<poller, files, saved, job>>
    BY FrameStatus DEF CallFrame, At
  <1>3. JobOf(t, h)
    BY <1>2, JobFrame
  <1> QED
    BY <1>1, <1>2, <1>3, QuietKeeps

LEMMA CallFails ==
    ASSUME MediaInv, NEW t \in Tasks, At(t, "call"), CallFrame, MayHaveTakenJob(t),
           NextAttempt(t) \/ Go(t, "fail")
    PROVE  MediaInv'
  <1>1. PICK h : Moves(t, h) /\ h.pc \in {"fail", "select"}
    BY NextAttemptMoves, GoMoves DEF HandlerPcs
  <1>2. remote' \in [Tasks -> RemoteType]
    BY DEF MayHaveTakenJob, RemoteType, MediaInv, RunTypeOK
  <1> QED
    BY <1>1, <1>2, CallKeeps

LEMMA NetworkErrorMedia ==
    ASSUME MediaInv, NEW t \in Tasks, NetworkError(t)
    PROVE  MediaInv'
  <1>1. At(t, "call") /\ CallFrame /\ MayHaveTakenJob(t)
    BY DEF NetworkError
  <1>2. CASE NextAttempt(t)
    BY <1>1, <1>2, CallFails
  <1>3. CASE handler[t].tries + 1 < NetTries
             /\ handler' = [handler EXCEPT ![t].tries = @ + 1]
    <2> DEFINE h == [handler[t] EXCEPT !.tries = @ + 1]
    <2>1. handler[t] \in HandlerType /\ handler[t].pc = "call" /\ handler[t].cred \in Creds
      BY <1>1 DEF MediaInv, RunTypeOK, CallsCred, At
    <2>2. handler[t].tries + 1 \in 0..(NetTries - 1)
      BY <1>3, <2>1, SizesAssumption DEF HandlerType
    <2>3. h \in HandlerType /\ h.pc = "call" /\ h.cred \in Creds
      BY <2>1, <2>2 DEF HandlerType
    <2>4. handler' = [handler EXCEPT ![t] = h]
      BY <1>3
    <2>5. Moves(t, h)
      BY <2>3, <2>4 DEF Moves
    <2>6. remote' \in [Tasks -> RemoteType]
      BY <1>1 DEF MayHaveTakenJob, RemoteType, MediaInv, RunTypeOK
    <2> HIDE DEF h
    <2> QED
      BY <1>1, <2>3, <2>5, <2>6, CallKeeps
  <1> QED
    BY <1>2, <1>3 DEF NetworkError

LEMMA AcceptedMedia ==
    ASSUME MediaInv, NEW t \in Tasks, Accepted(t)
    PROVE  MediaInv'
  <1>1. At(t, "call") /\ CallFrame
    BY DEF Accepted
  <1>2. remote' \in [Tasks -> RemoteType]
    <2>1. remote[t].jobs + 1 \in Nat
      BY DEF RemoteType, MediaInv, RunTypeOK
    <2> QED
      BY <2>1 DEF Accepted, RemoteType, MediaInv, RunTypeOK
  <1>3. CASE Go(t, "answer") /\ job[t].kind = "chat"
    <2>1. PICK h : Moves(t, h) /\ h.pc = "answer"
      BY <1>3, GoMoves DEF HandlerPcs
    <2> QED
      BY <1>1, <1>2, <1>3, <2>1, CallKeeps
  <1>4. CASE Go(t, "record")
    <2>1. PICK h : Moves(t, h) /\ h.pc = "record"
      BY <1>4, GoMoves DEF HandlerPcs
    <2> QED
      BY <1>1, <1>2, <2>1, CallKeeps
  <1>5. CASE handler' = [handler EXCEPT ![t].pc = "media", ![t].next = ResumeFrom(t) + 1]
    <2> DEFINE h == [handler[t] EXCEPT !.pc = "media", !.next = ResumeFrom(t) + 1]
    <2>1. handler[t] \in HandlerType /\ files[t] \in 0..MediaCount
      BY DEF MediaInv, RunTypeOK
    <2>2. ResumeFrom(t) = files[t]
      BY <2>1, SizesAssumption DEF ResumeFrom
    <2>3. files[t] + 1 \in 1..(MediaCount + 1)
      BY <2>1, SizesAssumption
    <2>4. h \in HandlerType /\ h.pc = "media" /\ h.next = files[t] + 1
      BY <2>1, <2>2, <2>3 DEF HandlerType
    <2>5. handler' = [handler EXCEPT ![t] = h]
      BY <1>5
    <2>6. Moves(t, h)
      BY <2>4, <2>5 DEF Moves
    <2> HIDE DEF h
    <2>7. files[t] < h.next /\ h.next - 1 = files[t]
      BY <2>1, <2>4
    <2>8. 1..(h.next - 1) \subseteq saved[t]
      BY <2>7 DEF MediaInv, FilesSaved
    <2> QED
      BY <1>1, <1>2, <2>4, <2>6, <2>7, <2>8, CallKeeps
  <1> QED
    BY <1>3, <1>4, <1>5 DEF Accepted

LEMMA RecordMedia ==
    ASSUME MediaInv, NEW t \in Tasks, RecordUpstreamTask(t)
    PROVE  MediaInv'
  <1>1. RestTypeOK'
    <2>1. Sound \/ FaultsCost(1)
      BY DEF RecordUpstreamTask
    <2>2. faults' \in 0..MaxFaults
      BY <2>1, SizesAssumption DEF FaultsCost, Sound, MediaInv, RunTypeOK
    <2> QED
      BY <2>2 DEF RecordUpstreamTask, RestTypeOK, MediaInv, RunTypeOK
  <1>2. handler[t].pc # "done" /\ NoNewSuccess /\ UNCHANGED <<poller, files, saved>>
    BY FrameStatus DEF RecordUpstreamTask, At
  <1>3. CASE job' = [job EXCEPT ![t].upstream = TRUE] /\ Go(t, "done")
    <2>1. PICK h : Moves(t, h) /\ h.pc = "done"
      BY <1>3, GoMoves DEF HandlerPcs
    <2>2. JobOf(t, h) /\ job'[t].kind = job[t].kind
      BY <1>3, <2>1 DEF JobOf, JobType, MediaInv, RunTypeOK
    <2> QED
      BY <1>1, <1>2, <2>1, <2>2, QuietKeeps
  <1>4. CASE UNCHANGED job /\ Go(t, "fail")
    <2>1. PICK h : Moves(t, h) /\ h.pc = "fail"
      BY <1>4, GoMoves DEF HandlerPcs
    <2>2. JobOf(t, h)
      BY <1>2, <1>4, JobFrame
    <2> QED
      BY <1>1, <1>2, <1>4, <2>1, <2>2, QuietKeeps
  <1> QED
    BY <1>3, <1>4 DEF RecordUpstreamTask

\* Chat tasks have no media, so their success needs none.
LEMMA AnswerChatMedia ==
    ASSUME LedgerTypeOK, MediaInv, NEW t \in Tasks, AnswerChat(t)
    PROVE  MediaInv'
  <1>1. RestTypeOK'
    <2>1. Sound \/ FaultsCost(1)
      BY DEF AnswerChat
    <2>2. faults' \in 0..MaxFaults
      BY <2>1, SizesAssumption DEF FaultsCost, Sound, MediaInv, RunTypeOK
    <2> QED
      BY <2>2 DEF AnswerChat, RestTypeOK, MediaInv, RunTypeOK
  <1>2. handler[t].pc # "done" /\ UNCHANGED <<poller, files, saved, job>>
    BY DEF AnswerChat, At
  <1>3. job[t].kind = "chat"
    BY DEF AnswerChat, MediaInv, ChatAnswers
  <1>4. \A s \in Tasks \ {t} : task'[s] = task[s]
    BY SucceededOthers DEF AnswerChat, ledgerVars
  <1>5. SucceededHasStoredAll'
    BY <1>2, <1>3, <1>4 DEF SucceededHasStoredAll, MediaInv
  <1>6. PICK h : Moves(t, h) /\ h.pc = "done"
    BY GoMoves DEF AnswerChat, HandlerPcs
  <1>7. JobOf(t, h) /\ FilesOf(t)
    BY <1>2, JobFrame, FilesFrame
  <1> QED
    BY <1>1, <1>2, <1>5, <1>6, <1>7, HandlerKeeps

LEMMA HandlerFailsMedia ==
    ASSUME LedgerTypeOK, MediaInv, NEW t \in Tasks, HandlerFails(t)
    PROVE  MediaInv'
  <1>1. RestTypeOK' /\ NoNewSuccess
    BY SettleStatus DEF HandlerFails, RestTypeOK, MediaInv, RunTypeOK
  <1>2. handler[t].pc # "done" /\ UNCHANGED <<poller, files, saved, job>>
    BY DEF HandlerFails, At
  <1>3. PICK h : Moves(t, h) /\ h.pc = "done"
    BY GoMoves DEF HandlerFails, HandlerPcs
  <1>4. JobOf(t, h)
    BY <1>2, JobFrame
  <1> QED
    BY <1>1, <1>2, <1>3, <1>4, QuietKeeps

\* One more medium: whoever stores it was past the rows it counted, so there
\* are never more rows than media.
LEMMA StoreMediumFiles ==
    ASSUME MediaInv, NEW t \in Tasks, NEW next \in 1..(MediaCount + 1),
           files[t] < next, 1..(next - 1) \subseteq saved[t], StoreMedium(t, next)
    PROVE  /\ FilesOf(t)
           /\ files'[t] < next + 1
           /\ 1..next \subseteq saved'[t]
           /\ \A s \in Tasks : saved[s] \subseteq saved'[s]
  <1>1. /\ files \in [Tasks -> 0..MediaCount]
        /\ saved \in [Tasks -> SUBSET (1..MediaCount)]
    BY DEF MediaInv, RunTypeOK
  <1>2. next \in 1..MediaCount /\ files[t] + 1 \in 0..MediaCount /\ files[t] + 1 <= next
    BY <1>1, SizesAssumption DEF StoreMedium
  <1>3. /\ files' = [files EXCEPT ![t] = files[t] + 1]
        /\ saved' = [saved EXCEPT ![t] = saved[t] \cup {next}]
    BY DEF StoreMedium
  <1>4. /\ files'[t] = files[t] + 1
        /\ saved'[t] = saved[t] \cup {next}
        /\ \A s \in Tasks \ {t} : files'[s] = files[s] /\ saved'[s] = saved[s]
    BY <1>1, <1>3
  <1>5. /\ files' \in [Tasks -> 0..MediaCount]
        /\ saved' \in [Tasks -> SUBSET (1..MediaCount)]
    <2>1. saved[t] \cup {next} \in SUBSET (1..MediaCount)
      BY <1>1, <1>2
    <2> QED
      BY <1>1, <1>2, <1>3, <2>1
  <1>6. 1..next \subseteq saved'[t]
    <2>1. 1..next = (1..(next - 1)) \cup {next}
      BY <1>2, SizesAssumption
    <2> QED
      BY <1>4, <2>1
  <1>7. 1..files'[t] \subseteq saved'[t]
    <2>1. 1..(files[t] + 1) \subseteq 1..next
      BY <1>1, <1>2, SizesAssumption
    <2> QED
      BY <1>4, <1>6, <2>1
  <1>8. files'[t] < next + 1
    BY <1>1, <1>2, <1>4, SizesAssumption
  <1> QED
    BY <1>4, <1>5, <1>6, <1>7, <1>8 DEF FilesOf

LEMMA HandlerStoresMedia ==
    ASSUME MediaInv, NEW t \in Tasks, HandlerStoresMedium(t)
    PROVE  MediaInv'
  <1> DEFINE next == handler[t].next
             h    == [handler[t] EXCEPT !.next = @ + 1]
  <1>1. RestTypeOK'
    BY DEF HandlerStoresMedium, bounds, RestTypeOK, MediaInv, RunTypeOK
  <1>2. handler[t].pc = "media" /\ UNCHANGED <<poller, job>> /\ NoNewSuccess
    BY FrameStatus DEF HandlerStoresMedium, At
  <1>3. handler[t] \in HandlerType /\ next \in 1..(MediaCount + 1)
    BY DEF MediaInv, RunTypeOK, HandlerType
  <1>4. files[t] < next /\ 1..(next - 1) \subseteq saved[t]
    BY <1>2 DEF MediaInv, Resumes, At
  <1>5. StoreMedium(t, next) /\ next + 1 \in 1..(MediaCount + 1) /\ (next + 1) - 1 = next
    BY <1>3, SizesAssumption DEF HandlerStoresMedium, StoreMedium
  <1>6. /\ FilesOf(t)
        /\ files'[t] < next + 1
        /\ 1..next \subseteq saved'[t]
        /\ \A s \in Tasks : saved[s] \subseteq saved'[s]
    BY <1>3, <1>4, <1>5, StoreMediumFiles
  <1>7. h \in HandlerType /\ h.pc = "media" /\ h.next = next + 1
    BY <1>2, <1>3, <1>5 DEF HandlerType
  <1>8. Moves(t, h)
    <2>1. handler' = [handler EXCEPT ![t] = h]
      BY DEF HandlerStoresMedium
    <2> QED
      BY <1>7, <2>1 DEF Moves
  <1>9. SucceededHasStoredAll'
    BY <1>2, <1>6, StoredKept DEF FilesOf
  <1> HIDE DEF h, next
  <1>10. JobOf(t, h)
    BY <1>2, JobFrame
  <1>11. h.next - 1 = next
    BY <1>5, <1>7
  <1> QED
    BY <1>1, <1>2, <1>6, <1>7, <1>8, <1>9, <1>10, <1>11, HandlerKeeps

LEMMA HandlerVerdictMedia ==
    ASSUME LedgerTypeOK, MediaInv, NEW t \in Tasks, HandlerWritesVerdict(t)
    PROVE  MediaInv'
  <1>1. RestTypeOK'
    BY DEF HandlerWritesVerdict, WriteVerdict, NotifyTaskStatus, bounds, RestTypeOK,
           MediaInv, RunTypeOK
  <1>2. handler[t].pc = "media" /\ UNCHANGED <<poller, files, saved, job>>
    BY DEF HandlerWritesVerdict, At
  <1>3. handler[t].next \in 1..(MediaCount + 1)
    BY DEF MediaInv, RunTypeOK, HandlerType
  <1>4. 1..(handler[t].next - 1) \subseteq saved[t]
    BY <1>2 DEF MediaInv, Resumes, At
  <1>5. SucceededHasStoredAll'
    BY <1>2, <1>3, <1>4, VerdictStored DEF HandlerWritesVerdict
  <1>6. PICK h : Moves(t, h) /\ h.pc = "done"
    BY GoMoves DEF HandlerWritesVerdict, HandlerPcs
  <1>7. JobOf(t, h) /\ FilesOf(t)
    BY <1>2, JobFrame, FilesFrame
  <1> QED
    BY <1>1, <1>2, <1>5, <1>6, <1>7, HandlerKeeps

LEMMA HandlerUndoesMediaKeeps ==
    ASSUME MediaInv, NEW t \in Tasks, HandlerUndoesMedia(t)
    PROVE  MediaInv'
  <1> DEFINE met == IF handler[t].next <= MediaCount THEN 0 ELSE 1
  <1>1. FaultsCost(met) \/ FaultsCost(met + 1)
    BY DEF HandlerUndoesMedia
  <1>2. RestTypeOK'
    <2>1. met \in Nat
      OBVIOUS
    <2> HIDE DEF met
    <2>2. faults' \in 0..MaxFaults
      BY <1>1, <2>1, SizesAssumption DEF FaultsCost, MediaInv, RunTypeOK
    <2> QED
      BY <2>2 DEF HandlerUndoesMedia, RestTypeOK, MediaInv, RunTypeOK
  <1>3. handler[t].pc = "media" /\ UNCHANGED <<poller, saved, job>> /\ NoNewSuccess
    BY FrameStatus DEF HandlerUndoesMedia, At
  <1>4. PICK left \in 0..files[t] : files' = [files EXCEPT ![t] = left]
    BY DEF HandlerUndoesMedia, MediaInv, RunTypeOK
  <1>5. FilesOf(t)
    <2>1. files[t] \in 0..MediaCount /\ files \in [Tasks -> 0..MediaCount]
      BY DEF MediaInv, RunTypeOK
    <2>2. left \in 0..MediaCount /\ 1..left \subseteq 1..files[t]
      BY <2>1, SizesAssumption
    <2>3. 1..left \subseteq saved[t]
      BY <2>2 DEF MediaInv, FilesSaved
    <2> QED
      BY <1>3, <1>4, <2>1, <2>2, <2>3 DEF FilesOf, MediaInv, RunTypeOK
  <1>6. PICK h : Moves(t, h) /\ h.pc = "fail"
    BY GoMoves DEF HandlerUndoesMedia, HandlerPcs
  <1>7. JobOf(t, h)
    BY <1>3, JobFrame
  <1>8. SucceededHasStoredAll'
    BY <1>3, StoredKept DEF MediaInv, RunTypeOK
  <1> QED
    BY <1>2, <1>3, <1>5, <1>6, <1>7, <1>8, HandlerKeeps

LEMMA HandlerMedia ==
    ASSUME LedgerTypeOK, MediaInv, NEW t \in Tasks, HandlerStep(t)
    PROVE  MediaInv'
  <1>1. CASE DecryptFails(t)
    BY <1>1, CallFails DEF DecryptFails, MayHaveTakenJob
  <1>2. CASE RetriableRefusal(t)
    BY <1>2, CallFails DEF RetriableRefusal, MayHaveTakenJob
  <1>3. CASE FinalRefusal(t)
    BY <1>3, CallFails DEF FinalRefusal
  <1> QED
    BY <1>1, <1>2, <1>3, SelectCredentialMedia, NetworkErrorMedia, AcceptedMedia,
       RecordMedia, AnswerChatMedia, HandlerFailsMedia, HandlerStoresMedia,
       HandlerVerdictMedia, HandlerUndoesMediaKeeps
    DEF HandlerStep

LEMMA SubmitMedia ==
    ASSUME LedgerTypeOK, MediaInv, NEW t \in Tasks, NEW u \in Users,
           NEW kind \in {"chat", "async"}, NEW c \in Costs, NEW fixed \in Creds \cup {NoCred},
           Submit(t, u, kind, c, fixed)
    PROVE  MediaInv'
  <1> DEFINE h == [handler[t] EXCEPT !.pc = "select", !.fixed = fixed]
  <1>1. RestTypeOK'
    BY DEF Submit, bounds, RestTypeOK, MediaInv, RunTypeOK
  <1>2. handler[t].pc = "idle" /\ UNCHANGED <<poller, files, saved>>
    BY DEF Submit, At
  <1>3. handler[t] \in HandlerType
    BY DEF MediaInv, RunTypeOK
  <1>4. h \in HandlerType /\ h.pc = "select"
    BY <1>3 DEF HandlerType
  <1>5. Moves(t, h)
    <2>1. handler' = [handler EXCEPT ![t] = h]
      BY DEF Submit
    <2> QED
      BY <1>4, <2>1 DEF Moves
  <1>6. ~job[t].upstream
    BY <1>2, NotThePollers
  <1>7. JobOf(t, h)
    <2>1. job' = [job EXCEPT ![t].kind = kind]
      BY DEF Submit
    <2> QED
      BY <1>6, <2>1 DEF JobOf, JobType, MediaInv, RunTypeOK
  <1>8. SucceededHasStoredAll'
    <2>1. task'[t].status = "running" /\ \A s \in Tasks \ {t} : task'[s] = task[s]
      BY DEF Submit, ReserveAndCreateTask, LedgerTypeOK
    <2> QED
      BY <1>2, <1>7, <2>1 DEF SucceededHasStoredAll, MediaInv, JobOf
  <1> HIDE DEF h
  <1> QED
    BY <1>1, <1>2, <1>4, <1>5, <1>7, <1>8, FilesFrame, HandlerKeeps

-----------------------------------------------------------------------------
(* The poller.                                                             *)

\* The poller goes on with tasks that were given away.
PollerMoves ==
    /\ poller' \in PollerType
    /\ poller'.pc \in {"poll", "media"} => \A s \in poller'.batch : job[s].upstream
    /\ poller'.pc = "media" => poller'.cur \in poller'.batch

\* A step of the poller about task t keeps the invariant.
LEMMA PollerKeeps ==
    ASSUME MediaInv, RestTypeOK', UNCHANGED <<handler, job>>, PollerMoves,
           NEW t \in Tasks, FilesOf(t),
           handler[t].pc = "media" => UNCHANGED <<files, saved>>,
           poller'.pc = "media" =>
               /\ files'[poller'.cur] < poller'.next
               /\ 1..(poller'.next - 1) \subseteq saved'[poller'.cur],
           SucceededHasStoredAll'
    PROVE  MediaInv'
  <1>1. RunTypeOK'
    BY DEF RunTypeOK, RestTypeOK, FilesOf, PollerMoves, MediaInv
  <1>2. CallsCred' /\ HandsOver' /\ ChatAnswers'
    BY DEF CallsCred, HandsOver, ChatAnswers, At, MediaInv
  <1>3. PollsOwn'
    BY DEF PollsOwn, PollerMoves
  <1>4. FilesSaved'
    BY DEF FilesSaved, MediaInv, FilesOf
  <1>5. Resumes'
    <2>1. ASSUME NEW s \in Tasks, handler[s].pc = "media"
          PROVE  files'[s] < handler[s].next /\ 1..(handler[s].next - 1) \subseteq saved'[s]
      BY <2>1 DEF Resumes, At, MediaInv, FilesOf
    <2> QED
      BY <2>1 DEF Resumes, At
  <1> QED
    BY <1>1, <1>2, <1>3, <1>4, <1>5 DEF MediaInv

\* Steps of the poller that store nothing.
LEMMA PollerQuiet ==
    ASSUME MediaInv, RestTypeOK', UNCHANGED <<handler, job, files, saved>>, PollerMoves,
           NEW t \in Tasks,
           poller'.pc = "media" =>
               /\ files[poller'.cur] < poller'.next
               /\ 1..(poller'.next - 1) \subseteq saved[poller'.cur],
           NoNewSuccess
    PROVE  MediaInv'
  <1>1. SucceededHasStoredAll'
    BY StoredKept DEF MediaInv, RunTypeOK
  <1> QED
    BY <1>1, FilesFrame, PollerKeeps

LEMMA DropMoves ==
    ASSUME MediaInv, NEW t \in Tasks, Drop(t), UNCHANGED job
    PROVE  PollerMoves /\ poller'.pc # "media"
  <1> DEFINE p == IF poller.pc = "media" THEN "poll" ELSE poller.pc
  <1>1. poller \in PollerType
    BY DEF MediaInv, RunTypeOK
  <1>2. poller' = [poller EXCEPT !.batch = poller.batch \ {t}, !.cur = NoTask, !.next = 1,
                                 !.pc = p]
    BY DEF Drop
  <1>3. 1 \in 1..(MediaCount + 1)
    BY SizesAssumption
  <1>4. /\ poller' \in PollerType
        /\ poller'.pc = p
        /\ poller'.batch = poller.batch \ {t}
    BY <1>1, <1>2, <1>3 DEF PollerType
  <1>5. p # "media" /\ (p = "poll" => poller.pc \in {"poll", "media"})
    OBVIOUS
  <1> QED
    BY <1>4, <1>5 DEF PollerMoves, MediaInv, PollsOwn

\* Steps of the poller that end its work on a task without storing anything.
LEMMA DropKeeps ==
    ASSUME MediaInv, RestTypeOK', UNCHANGED <<handler, job, files, saved>>,
           NEW t \in Tasks, Drop(t), NoNewSuccess
    PROVE  MediaInv'
  BY DropMoves, PollerQuiet

LEMMA SettleDropKeeps ==
    ASSUME LedgerTypeOK, MediaInv, NEW t \in Tasks, NEW n \in Nat,
           SettleAsFailed(t, TRUE, n), Drop(t),
           UNCHANGED <<job, handler, creds, remote, files, saved, answered, crashes, toggles>>
    PROVE  MediaInv'
  <1>1. RestTypeOK' /\ NoNewSuccess
    BY SettleStatus DEF RestTypeOK, MediaInv, RunTypeOK
  <1> QED
    BY <1>1, DropKeeps

LEMMA ListMedia ==
    ASSUME MediaInv, ListStale \/ ListDue \/ RoundEnds
    PROVE  MediaInv'
  <1>1. /\ RestTypeOK' /\ NoNewSuccess
        /\ UNCHANGED <<handler, job, files, saved>>
    BY FrameStatus DEF ListStale, ListDue, RoundEnds, PollerFrame, bounds, RestTypeOK,
                       MediaInv, RunTypeOK
  <1>2. poller \in PollerType
    BY DEF MediaInv, RunTypeOK
  <1>3. PollerMoves /\ poller'.pc # "media"
    <2>1. CASE ListStale
      <3>1. PICK s \in SUBSET Tasks : poller' = [poller EXCEPT !.pc = "cleanup", !.batch = s]
        BY <2>1 DEF ListStale, Fetch, Stale
      <3> QED
        BY <1>2, <3>1 DEF PollerMoves, PollerType
    <2>2. CASE ListDue
      <3>1. PICK s \in SUBSET Pollable : poller' = [poller EXCEPT !.pc = "poll", !.batch = s]
        BY <2>2 DEF ListDue, Fetch
      <3>2. s \subseteq Tasks /\ \A x \in s : job[x].upstream
        BY DEF Pollable
      <3> QED
        BY <1>2, <3>1, <3>2 DEF PollerMoves, PollerType
    <2>3. CASE RoundEnds
      <3>1. Resting \in PollerType /\ Resting.pc = "idle"
        BY SizesAssumption DEF Resting, PollerType
      <3> QED
        BY <2>3, <3>1 DEF RoundEnds, PollerMoves
    <2> QED
      BY <2>1, <2>2, <2>3
  <1>4. ASSUME NEW t \in Tasks PROVE MediaInv'
    BY <1>1, <1>3, PollerQuiet
  <1>5. CASE Tasks = {}
    BY <1>1, <1>3, <1>5 DEF MediaInv, RunTypeOK, RestTypeOK, CallsCred, HandsOver, PollsOwn,
       FilesSaved, Resumes, ChatAnswers, SucceededHasStoredAll, PollerMoves
  <1> QED
    BY <1>4, <1>5

LEMMA RemoteDoneMedia ==
    ASSUME MediaInv, NEW t \in Tasks, AdvanceRemoteDone(t)
    PROVE  MediaInv'
  <1>1. /\ RestTypeOK' /\ NoNewSuccess
        /\ UNCHANGED <<handler, job, files, saved>>
    BY FrameStatus DEF AdvanceRemoteDone, PollerFrame, bounds, RestTypeOK, MediaInv, RunTypeOK
  <1>2. poller \in PollerType /\ files[t] \in 0..MediaCount
    BY DEF MediaInv, RunTypeOK
  <1>3. ResumeFrom(t) = files[t] /\ files[t] + 1 \in 1..(MediaCount + 1)
    BY <1>2, SizesAssumption DEF ResumeFrom
  <1>4. poller' = [poller EXCEPT !.pc = "media", !.cur = t, !.next = files[t] + 1]
    BY <1>3 DEF AdvanceRemoteDone
  <1>5. /\ poller' \in PollerType
        /\ poller'.batch = poller.batch /\ poller'.cur = t /\ poller'.next = files[t] + 1
    BY <1>2, <1>3, <1>4 DEF PollerType
  <1>6. poller.pc = "poll" /\ t \in poller.batch
    BY DEF AdvanceRemoteDone, Advancing, InBatch
  <1>7. PollerMoves
    BY <1>5, <1>6 DEF PollerMoves, MediaInv, PollsOwn
  <1>8. files[t] < poller'.next /\ poller'.next - 1 = files[t]
    BY <1>2, <1>5
  <1>9. 1..(poller'.next - 1) \subseteq saved[t]
    BY <1>8 DEF MediaInv, FilesSaved
  <1> QED
    BY <1>1, <1>5, <1>7, <1>8, <1>9, PollerQuiet

\* While the poller finalizes a task, it is the poller's and nobody else's.
LEMMA PollerFinalizes ==
    ASSUME MediaInv, NEW t \in Tasks, poller.pc = "media", poller.cur = t
    PROVE  /\ handler[t].pc = "done"
           /\ poller.next \in 1..(MediaCount + 1)
           /\ files[t] < poller.next
           /\ 1..(poller.next - 1) \subseteq saved[t]
  BY DEF MediaInv, PollsOwn, HandsOver, At, Resumes, RunTypeOK, PollerType

LEMMA PollerStoresMedia ==
    ASSUME MediaInv, NEW t \in Tasks, PollerStoresMedium(t)
    PROVE  MediaInv'
  <1> DEFINE next == poller.next
  <1>1. /\ RestTypeOK' /\ NoNewSuccess
        /\ UNCHANGED <<handler, job>>
    BY FrameStatus DEF PollerStoresMedium, bounds, RestTypeOK, MediaInv, RunTypeOK
  <1>2. poller.pc = "media" /\ poller.cur = t /\ StoreMedium(t, next)
    BY DEF PollerStoresMedium
  <1>3. /\ handler[t].pc = "done"
        /\ next \in 1..(MediaCount + 1)
        /\ files[t] < next
        /\ 1..(next - 1) \subseteq saved[t]
    BY <1>2, PollerFinalizes
  <1>4. next + 1 \in 1..(MediaCount + 1) /\ (next + 1) - 1 = next
    BY <1>2, <1>3, SizesAssumption DEF StoreMedium
  <1>5. /\ FilesOf(t)
        /\ files'[t] < next + 1
        /\ 1..next \subseteq saved'[t]
        /\ \A s \in Tasks : saved[s] \subseteq saved'[s]
    BY <1>2, <1>3, StoreMediumFiles
  <1>6. poller' = [poller EXCEPT !.next = next + 1]
    BY DEF PollerStoresMedium
  <1>7. /\ poller' \in PollerType /\ poller'.next = next + 1
        /\ poller'.cur = t /\ poller'.batch = poller.batch
    BY <1>2, <1>4, <1>6 DEF PollerType, MediaInv, RunTypeOK
  <1>8. PollerMoves
    BY <1>2, <1>7 DEF PollerMoves, MediaInv, PollsOwn
  <1>9. SucceededHasStoredAll'
    BY <1>1, <1>5, StoredKept DEF FilesOf
  <1> HIDE DEF next
  <1> QED
    BY <1>1, <1>3, <1>4, <1>5, <1>7, <1>8, <1>9, PollerKeeps

LEMMA PollerVerdictMedia ==
    ASSUME LedgerTypeOK, MediaInv, NEW t \in Tasks, PollerWritesVerdict(t)
    PROVE  MediaInv'
  <1>1. /\ RestTypeOK'
        /\ UNCHANGED <<handler, job, files, saved>>
    BY DEF PollerWritesVerdict, WriteVerdict, NotifyTaskStatus, bounds, RestTypeOK,
           MediaInv, RunTypeOK
  <1>2. /\ poller.next \in 1..(MediaCount + 1)
        /\ 1..(poller.next - 1) \subseteq saved[t]
    BY PollerFinalizes DEF PollerWritesVerdict
  <1>3. SucceededHasStoredAll'
    BY <1>1, <1>2, VerdictStored DEF PollerWritesVerdict
  <1>4. PollerMoves /\ poller'.pc # "media"
    BY <1>1, DropMoves DEF PollerWritesVerdict
  <1> QED
    BY <1>1, <1>3, <1>4, FilesFrame, PollerKeeps

LEMMA PollerGivesUpKeeps ==
    ASSUME MediaInv, NEW t \in Tasks, PollerGivesUpMedia(t)
    PROVE  MediaInv'
  <1>1. faults' \in 0..MaxFaults
    <2>1. Sound \/ FaultsCost(1)
      BY DEF PollerGivesUpMedia
    <2> QED
      BY <2>1, SizesAssumption DEF FaultsCost, Sound, MediaInv, RunTypeOK
  <1>2. RestTypeOK' /\ NoNewSuccess
    BY <1>1, FrameStatus DEF PollerGivesUpMedia, RestTypeOK, MediaInv, RunTypeOK
  <1> QED
    BY <1>2, DropKeeps DEF PollerGivesUpMedia

LEMMA PollerMedia ==
    ASSUME LedgerTypeOK, MediaInv, PollerStep
    PROVE  MediaInv'
  <1>1. ASSUME NEW t \in Tasks, CleanupStale(t) PROVE MediaInv'
    BY <1>1, SettleDropKeeps DEF CleanupStale
  <1>2. ASSUME NEW t \in Tasks, AdvanceOne(t) PROVE MediaInv'
    <2>1. CASE AdvanceTimedOut(t)
      BY <2>1, SettleDropKeeps DEF AdvanceTimedOut
    <2>2. CASE AdvanceWithoutCredential(t)
      BY <2>2, SettleDropKeeps DEF AdvanceWithoutCredential
    <2>3. CASE AdvanceLater(t)
      <3>1. RestTypeOK' /\ NoNewSuccess
        BY <2>3, FrameStatus DEF AdvanceLater, PollerFrame, bounds, RestTypeOK,
                                 MediaInv, RunTypeOK
      <3> QED
        BY <2>3, <3>1, DropKeeps DEF AdvanceLater, PollerFrame
    <2>4. CASE AdvanceRemoteFailed(t)
      BY <2>4, SettleDropKeeps DEF AdvanceRemoteFailed
    <2> QED
      BY <1>2, <2>1, <2>2, <2>3, <2>4, RemoteDoneMedia, PollerStoresMedia,
         PollerVerdictMedia, PollerGivesUpKeeps
      DEF AdvanceOne
  <1> QED
    BY <1>1, <1>2, ListMedia DEF PollerStep

-----------------------------------------------------------------------------
(* The world around.                                                       *)

\* Steps that leave the goroutines, the files and the owner of a job alone.
LEMMA WorldKeeps ==
    ASSUME MediaInv, RestTypeOK', UNCHANGED <<handler, poller, files, saved>>,
           job' \in [Tasks -> JobType],
           \A t \in Tasks : job'[t].kind = job[t].kind /\ job'[t].upstream = job[t].upstream,
           NoNewSuccess
    PROVE  MediaInv'
  <1>1. RunTypeOK'
    BY DEF RunTypeOK, RestTypeOK, MediaInv
  <1>2. CallsCred' /\ HandsOver' /\ ChatAnswers'
    BY DEF CallsCred, HandsOver, ChatAnswers, At, MediaInv
  <1>3. PollsOwn'
    BY DEF PollsOwn, MediaInv, RunTypeOK, PollerType
  <1>4. FilesSaved' /\ Resumes'
    BY DEF FilesSaved, Resumes, At, MediaInv
  <1>5. SucceededHasStoredAll'
    BY StoredKept DEF MediaInv, RunTypeOK
  <1> QED
    BY <1>1, <1>2, <1>3, <1>4, <1>5 DEF MediaInv

LEMMA FileRemovedMedia ==
    ASSUME MediaInv, NEW t \in Tasks, FileRemoved(t)
    PROVE  MediaInv'
  <1>1. /\ files \in [Tasks -> 0..MediaCount]
        /\ UNCHANGED <<ledgerVars, job, handler, poller, creds, remote, saved, told,
                       answered, bounds>>
    BY DEF FileRemoved, MediaInv, RunTypeOK
  <1>2. /\ files' \in [Tasks -> 0..MediaCount]
        /\ \A s \in Tasks : files'[s] <= files[s]
    BY <1>1, SizesAssumption DEF FileRemoved
  <1>3. RunTypeOK'
    BY <1>1, <1>2 DEF RunTypeOK, MediaInv, bounds
  <1>4. CallsCred' /\ HandsOver' /\ PollsOwn' /\ ChatAnswers' /\ SucceededHasStoredAll'
    BY <1>1 DEF CallsCred, HandsOver, PollsOwn, ChatAnswers, SucceededHasStoredAll, At,
                MediaInv, ledgerVars
  <1>5. FilesSaved'
    <2>1. ASSUME NEW s \in Tasks PROVE 1..files'[s] \subseteq saved[s]
      <3>1. 1..files'[s] \subseteq 1..files[s]
        BY <1>1, <1>2, SizesAssumption
      <3> QED
        BY <3>1 DEF FilesSaved, MediaInv
    <2> QED
      BY <1>1, <2>1 DEF FilesSaved
  <1>6. Resumes'
    <2>1. ASSUME NEW s \in Tasks, NEW next \in Int, files[s] < next PROVE files'[s] < next
      BY <1>1, <1>2, <2>1, SizesAssumption
    <2>2. ASSUME NEW s \in Tasks, handler[s].pc = "media" PROVE files'[s] < handler[s].next
      <3>1. handler[s].next \in Int
        BY DEF MediaInv, RunTypeOK, HandlerType
      <3> QED
        BY <2>1, <2>2, <3>1 DEF MediaInv, Resumes, At
    <2>3. ASSUME poller.pc = "media" PROVE files'[poller.cur] < poller.next
      <3>1. poller.cur \in Tasks /\ poller.next \in Int
        BY <2>3 DEF MediaInv, RunTypeOK, PollerType, PollsOwn
      <3> QED
        BY <2>1, <2>3, <3>1 DEF MediaInv, Resumes
    <2> QED
      BY <1>1, <2>2, <2>3 DEF Resumes, MediaInv, At
  <1> QED
    BY <1>3, <1>4, <1>5, <1>6 DEF MediaInv

LEMMA CrashMedia ==
    ASSUME MediaInv, Crash
    PROVE  MediaInv'
  <1>1. UNCHANGED <<ledgerVars, job, creds, remote, files, saved, told, answered,
                    faults, toggles>>
    BY DEF Crash
  <1>2. crashes' \in 0..MaxCrashes
    BY SizesAssumption DEF Crash, MediaInv, RunTypeOK
  <1>3. poller' = Resting /\ Resting \in PollerType /\ Resting.pc = "idle"
    BY SizesAssumption DEF Crash, Resting, PollerType
  <1>4. ASSUME NEW t \in Tasks
        PROVE  /\ handler'[t] \in HandlerType
               /\ handler'[t].pc \in {"idle", "done"}
               /\ handler[t].pc = "done" => handler'[t].pc = "done"
    <2>1. handler[t] \in HandlerType
      BY DEF MediaInv, RunTypeOK
    <2>2. CASE handler[t].pc = "idle"
      <3>1. handler'[t] = handler[t]
        BY <2>2 DEF Crash, At
      <3> QED
        BY <2>1, <2>2, <3>1
    <2>3. CASE handler[t].pc # "idle"
      <3>1. handler'[t] = [handler[t] EXCEPT !.pc = "done"]
        BY <2>3 DEF Crash, At
      <3> QED
        BY <2>1, <3>1 DEF HandlerType
    <2> QED
      BY <2>2, <2>3
  <1>5. handler' \in [Tasks -> HandlerType]
    <2>1. \E f : handler' = [t \in Tasks |-> f[t]]
      <3> DEFINE g == [t \in Tasks |-> IF At(t, "idle") THEN handler[t]
                                       ELSE [handler[t] EXCEPT !.pc = "done"]]
      <3>1. g = [t \in Tasks |-> g[t]]
        OBVIOUS
      <3> QED
        BY <3>1 DEF Crash
    <2> QED
      BY <1>4, <2>1
  <1>6. RunTypeOK'
    BY <1>1, <1>2, <1>3, <1>5 DEF RunTypeOK, MediaInv
  <1>7. CallsCred' /\ ChatAnswers' /\ HandsOver'
    BY <1>1, <1>4 DEF CallsCred, ChatAnswers, HandsOver, At, MediaInv
  <1>8. PollsOwn' /\ Resumes'
    BY <1>3, <1>4 DEF PollsOwn, Resumes, At
  <1>9. FilesSaved' /\ SucceededHasStoredAll'
    BY <1>1 DEF FilesSaved, SucceededHasStoredAll, MediaInv, ledgerVars
  <1> QED
    BY <1>6, <1>7, <1>8, <1>9 DEF MediaInv

LEMMA EnvironmentMedia ==
    ASSUME MediaInv, Environment
    PROVE  MediaInv'
  <1>1. ASSUME UNCHANGED <<runVars, bounds>>, NoNewSuccess PROVE MediaInv'
    BY <1>1, WorldKeeps DEF runVars, bounds, RestTypeOK, MediaInv, RunTypeOK
  <1>2. ASSUME NEW u \in Users, NEW a \in Amounts, OperatorAdjusts(u, a) PROVE MediaInv'
    BY <1>1, <1>2 DEF OperatorAdjusts, Adjust, NoNewSuccess
  <1>3. ASSUME NEW u \in Users, NEW l \in Limits, OperatorLimits(u, l) PROVE MediaInv'
    BY <1>1, <1>3 DEF OperatorLimits, SetConcurrentLimit, NoNewSuccess
  <1>4. ASSUME NEW c \in Creds, OperatorSetsCredential(c) PROVE MediaInv'
    <2>1. RestTypeOK'
      BY <1>4, SizesAssumption DEF OperatorSetsCredential, RestTypeOK, MediaInv, RunTypeOK
    <2>2. job' \in [Tasks -> JobType] /\ NoNewSuccess
      BY <1>4, FrameStatus DEF OperatorSetsCredential, MediaInv, RunTypeOK
    <2> QED
      BY <1>4, <2>1, <2>2, WorldKeeps DEF OperatorSetsCredential
  <1>5. ASSUME NEW t \in Tasks, RemoteEnds(t) PROVE MediaInv'
    <2>1. remote' \in [Tasks -> RemoteType]
      BY <1>5 DEF RemoteEnds, RemoteType, MediaInv, RunTypeOK
    <2>2. RestTypeOK' /\ job' \in [Tasks -> JobType] /\ NoNewSuccess
      BY <1>5, <2>1, FrameStatus DEF RemoteEnds, bounds, RestTypeOK, MediaInv, RunTypeOK
    <2> QED
      BY <1>5, <2>2, WorldKeeps DEF RemoteEnds
  <1>6. ASSUME NEW t \in Tasks, Age(t) PROVE MediaInv'
    <2>1. /\ job' \in [Tasks -> JobType]
          /\ \A s \in Tasks : job'[s].kind = job[s].kind /\ job'[s].upstream = job[s].upstream
      BY <1>6 DEF Age, JobType, MediaInv, RunTypeOK
    <2>2. RestTypeOK' /\ NoNewSuccess
      BY <1>6, FrameStatus DEF Age, bounds, RestTypeOK, MediaInv, RunTypeOK
    <2> QED
      BY <1>6, <2>1, <2>2, WorldKeeps DEF Age
  <1> QED
    BY <1>2, <1>3, <1>4, <1>5, <1>6, FileRemovedMedia, CrashMedia DEF Environment

-----------------------------------------------------------------------------
LEMMA MediaInit == Init => MediaInv
  <1> SUFFICES ASSUME Init PROVE MediaInv
    OBVIOUS
  <1>1. NoJob \in JobType
    BY DEF NoJob, JobType
  <1>2. Idle \in HandlerType /\ Idle.pc = "idle"
    <2>1. 1 \in 1..MaxAttempts /\ 0 \in 0..(NetTries - 1) /\ 1 \in 1..(MediaCount + 1)
      BY SizesAssumption
    <2> QED
      BY <2>1 DEF Idle, HandlerType
  <1>3. Resting \in PollerType /\ Resting.pc = "idle"
    BY SizesAssumption DEF Resting, PollerType
  <1>4. 0 \in 0..MediaCount /\ 0 \in 0..MaxFaults /\ 0 \in 0..MaxCrashes /\ 0 \in 0..MaxToggles
    BY SizesAssumption
  <1>5. RunTypeOK
    <2>1. remote \in [Tasks -> RemoteType]
      BY DEF Init, RemoteType
    <2> QED
      BY <1>1, <1>2, <1>3, <1>4, <2>1 DEF Init, RunTypeOK
  <1>6. CallsCred /\ ChatAnswers
    BY <1>2 DEF Init, CallsCred, ChatAnswers, At
  <1>7. HandsOver /\ PollsOwn /\ Resumes
    BY <1>2, <1>3 DEF Init, HandsOver, PollsOwn, Resumes, At, NoJob
  <1>8. FilesSaved
    BY DEF Init, FilesSaved
  <1>9. SucceededHasStoredAll
    BY DEF Init, LedgerInit, Absent, SucceededHasStoredAll
  <1> QED
    BY <1>5, <1>6, <1>7, <1>8, <1>9 DEF MediaInv

LEMMA MediaNext == LedgerTypeOK /\ MediaInv /\ [Next]_vars => MediaInv'
  <1> SUFFICES ASSUME LedgerTypeOK, MediaInv, [Next]_vars PROVE MediaInv'
    OBVIOUS
  <1>1. CASE UNCHANGED vars
    <2>1. UNCHANGED <<ledgerVars, runVars, bounds>>
      BY <1>1 DEF vars
    <2>2. RestTypeOK' /\ NoNewSuccess /\ job' \in [Tasks -> JobType]
      BY <2>1, FrameStatus DEF runVars, bounds, RestTypeOK, MediaInv, RunTypeOK
    <2> QED
      BY <2>1, <2>2, WorldKeeps DEF runVars
  <1> QED
    BY <1>1, SubmitMedia, HandlerMedia, PollerMedia, EnvironmentMedia DEF Next

\* The inductive invariant holds on every run of the gateway.
THEOREM MediaInvariant == Spec => []MediaInv
  BY GatewayImplementsLedger, LedgerTypeCorrect, MediaInit, MediaNext, PTL DEF Spec

\* Every row, goroutine and queue of the gateway has its type.
THEOREM GatewayTypeCorrect == Spec => []TypeOK
  <1>1. LedgerTypeOK /\ MediaInv => TypeOK
    BY DEF MediaInv, RunTypeOK, TypeOK
  <1> QED
    BY <1>1, GatewayImplementsLedger, LedgerTypeCorrect, MediaInvariant, PTL

\* A handler and the poller never store the media of one task at a time, even
\* when the clean-up of tasks without a job races the handlers.
THEOREM OneFinalizerAlways == Spec => []OneFinalizer
  <1>1. MediaInv => OneFinalizer
    BY DEF MediaInv, PollsOwn, HandsOver, OneFinalizer, At
  <1> QED
    BY <1>1, MediaInvariant, PTL

\* A finished job has been stored in full when its task shows success, however
\* often downloads failed, files were deleted or the server restarted.
THEOREM StoredAllAlways == Spec => []SucceededHasStoredAll
  <1>1. MediaInv => SucceededHasStoredAll
    BY DEF MediaInv
  <1> QED
    BY <1>1, MediaInvariant, PTL

-----------------------------------------------------------------------------
(* Verdicts, when the task timeout is longer than a handler can take: each *)
(* task is settled once, by whoever has it, and row, money and what others *)
(* are told go together.  Hence the promise of TaskCharge.                 *)

\* The places of a handler that has its task to itself.
AtWork(t) == handler[t].pc \in {"select", "call", "record", "answer", "media", "fail"}

\* A task has one owner at a time: its handler, while it is at work, or else
\* the poller's list.  Whoever owns it finds it running.
OneOwner ==
    \A t \in Tasks :
        /\ AtWork(t) => task[t].status = "running"
        /\ job[t].aged => At(t, "done")
        /\ t \in poller.batch => At(t, "done") /\ task[t].status = "running"

\* Only failed tasks have been refunded.
RefundsFailed == \A t \in Tasks : RowsOf(t, "refund") # {} => task[t].status = "failed"

VerdictInv == OneOwner /\ RefundsFailed /\ SoundOutcomes

-----------------------------------------------------------------------------
(* What the transactions of the ledger do to a running task: they settle   *)
(* its deal as TaskCharge says.                                            *)

\* The verdict on t: its status and its refund rows change, no other task's.
Verdict(t, status) ==
    /\ task[t].status = "running"
    /\ task'[t].status = status
    /\ task'[t].user = task[t].user /\ task'[t].cost = task[t].cost
    /\ \A s \in Tasks \ {t} : /\ task'[s] = task[s]
                              /\ RowsOf(s, "refund")' = RowsOf(s, "refund")

\* The price of t is back in the purse of its payer.
PriceReturned(t) ==
    \A u \in Users : account'[u].balance =
        IF u = task[t].user THEN account[u].balance + task[t].cost ELSE account[u].balance

Kept(t)     == Verdict(t, "succeeded") /\ RowsOf(t, "refund")' = {} /\ account' = account
Owed(t)     == Verdict(t, "failed") /\ RowsOf(t, "refund")' = {} /\ account' = account
Returned(t) == Verdict(t, "failed") /\ RowsOf(t, "refund")' # {} /\ PriceReturned(t)

LEMMA MarkFailedColumns ==
    ASSUME LedgerTypeOK, NEW t \in Tasks, NEW rs, NEW ra, MarkFailed(t, rs, ra)
    PROVE  /\ task'[t].status = "failed"
           /\ task'[t].user = task[t].user /\ task'[t].cost = task[t].cost
           /\ \A s \in Tasks \ {t} : task'[s] = task[s]
  BY DEF LedgerTypeOK, TaskType, MarkFailed

\* FailTaskAndRefund of a running task gives the price back: neither columns
\* nor ledger can say that it has been given back before.
LEMMA FailReturns ==
    ASSUME MoneyInv, RefundsFailed, NEW t \in Tasks, task[t].status = "running",
           FailTaskAndRefund(t)
    PROVE  Returned(t)
  <1>1. /\ LedgerTypeOK /\ Exists(t) /\ TaskInv(t) /\ RowsOf(t, "refund") = {}
        /\ account \in [Users -> AccountType] /\ ledger \in [Users -> Seq(RowType)]
    BY DEF MoneyInv, LedgerTypeOK, RefundsFailed, Exists
  <1>2. FailAndRefund(t)
    <2>1. ~FailSettled(t)
      BY <1>1 DEF TaskInv, ColumnsBacked, FailSettled
    <2>2. ~FailAlreadyRefunded(t)
      BY <1>1 DEF FailAlreadyRefunded, AlreadyRefunded
    <2> QED
      BY <2>1, <2>2 DEF FailTaskAndRefund
  <1>3. PICK u \in Users, c \in Nat : u = task[t].user /\ c = task[t].cost
    BY <1>1, ChargeFound
  <1>4. Post(u, "refund", c, t, -c) /\ MarkFailed(t, "refunded", c)
    <2>1. /\ RowsOf(t, "consume") # {}
          /\ FirstRow(t, "consume")[1] = u
          /\ -AmountAt(FirstRow(t, "consume")) = c
      BY <1>1, <1>3, ChargeFound
    <2> QED
      BY <1>2, <2>1 DEF FailAndRefund
  <1> DEFINE nb == account[u].balance + c
             tc == account[u].total_consumed + (-c)
             r  == Row("refund", c, t, nb)
  <1>5. nb \in Int /\ tc \in Int
    BY <1>1 DEF AccountType
  <1>6. r \in RowType /\ r.task = t /\ r.type = "refund"
    BY <1>5 DEF Row, RowType
  <1>7. /\ ledger' = [ledger EXCEPT ![u] = Append(@, r)]
        /\ account' = [account EXCEPT ![u].balance = nb, ![u].total_consumed = tc]
    BY <1>4 DEF Post
  <1>8. nb = account[u].balance + c
    OBVIOUS
  <1> HIDE DEF nb, tc, r
  <1>9. PriceReturned(t)
    <2>1. account'[u].balance = nb /\ \A v \in Users \ {u} : account'[v] = account[v]
      BY <1>1, <1>5, <1>7, WriteAccount
    <2> QED
      BY <1>3, <1>8, <2>1 DEF PriceReturned
  <1>10. RowsOf(t, "refund")' # {}
    <2>1. Appended(ledger, ledger', u, r)
      BY <1>7 DEF Appended
    <2>2. ledger \in [Users -> Seq(RowType)] /\ r \in RowType
      BY <1>1, <1>6
    <2>3. r.task = t /\ r.type = "refund"
      BY <1>6
    <2>4. RowsOf(t, "refund")' = RowsOf(t, "refund") \cup {<<u, Len(ledger[u]) + 1>>}
      BY <2>1, <2>2, <2>3, AppendOwn DEF RowsOf
    <2> QED
      BY <2>4
  <1>11. ASSUME NEW s \in Tasks \ {t} PROVE RowsOf(s, "refund")' = RowsOf(s, "refund")
    <2>1. r.task # s
      BY <1>6
    <2> QED
      BY <1>6, <1>7, <2>1, RefundsOfOthers
  <1>12. Verdict(t, "failed")
    BY <1>1, <1>4, <1>11, MarkFailedColumns DEF Verdict
  <1> QED
    BY <1>9, <1>10, <1>12 DEF Returned

LEMMA ForceFailOwes ==
    ASSUME MoneyInv, RefundsFailed, NEW t \in Tasks, task[t].status = "running", ForceFail(t)
    PROVE  Owed(t)
  <1>1. /\ LedgerTypeOK /\ RowsOf(t, "refund") = {}
        /\ ledger' = ledger /\ account' = account
    BY DEF MoneyInv, RefundsFailed, ForceFail
  <1>2. \A s \in Tasks : RowsOf(s, "refund")' = RowsOf(s, "refund")
    BY <1>1 DEF RowsOf
  <1> QED
    BY <1>1, <1>2, MarkFailedColumns DEF ForceFail, Verdict, Owed

LEMMA SuccessKeeps ==
    ASSUME MoneyInv, RefundsFailed, NEW t \in Tasks, task[t].status = "running",
           MarkSucceeded(t)
    PROVE  Kept(t)
  <1>1. /\ LedgerTypeOK /\ RowsOf(t, "refund") = {}
        /\ ledger' = ledger /\ account' = account
    BY DEF MoneyInv, RefundsFailed, MarkSucceeded
  <1>2. \A s \in Tasks : RowsOf(s, "refund")' = RowsOf(s, "refund")
    BY <1>1 DEF RowsOf
  <1>3. /\ task'[t].status = "succeeded"
        /\ task'[t].user = task[t].user /\ task'[t].cost = task[t].cost
        /\ \A s \in Tasks \ {t} : task'[s] = task[s]
    BY <1>1 DEF MarkSucceeded, LedgerTypeOK, TaskType
  <1> QED
    BY <1>1, <1>2, <1>3 DEF Verdict, Kept

\* A charge opens the deal of a task that had none.
Opened(t, u, c) ==
    /\ task[t].status = "absent" /\ c > 0 /\ account[u].balance >= c
    /\ task'[t].status = "running" /\ task'[t].user = u /\ task'[t].cost = c
    /\ \A s \in Tasks \ {t} : task'[s] = task[s]
    /\ \A s \in Tasks : RowsOf(s, "refund")' = RowsOf(s, "refund")
    /\ \A v \in Users : account'[v].balance =
          IF v = u THEN account[v].balance - c ELSE account[v].balance

LEMMA ReserveOpens ==
    ASSUME MoneyInv, NEW t \in Tasks, NEW u \in Users, NEW c \in Costs,
           ReserveAndCreateTask(t, u, c)
    PROVE  Opened(t, u, c)
  <1>1. /\ account \in [Users -> AccountType] /\ task \in [Tasks -> TaskType]
        /\ c \in Nat
    BY CostsAssumption DEF MoneyInv, LedgerTypeOK
  <1> DEFINE nb == account[u].balance + (-c)
             tc == account[u].total_consumed + c
             r  == Row("consume", -c, t, nb)
  <1>2. nb \in Int /\ tc \in Int /\ nb = account[u].balance - c
    BY <1>1 DEF AccountType
  <1>3. r \in RowType /\ r.type # "refund"
    BY <1>1, <1>2 DEF Row, RowType
  <1>4. /\ ledger' = [ledger EXCEPT ![u] = Append(@, r)]
        /\ account' = [account EXCEPT ![u].balance = nb, ![u].total_consumed = tc]
    BY DEF ReserveAndCreateTask, Post
  <1> HIDE DEF nb, tc, r
  <1>5. account'[u].balance = nb /\ \A v \in Users \ {u} : account'[v] = account[v]
    BY <1>1, <1>2, <1>4, WriteAccount
  <1>6. \A s \in Tasks : RowsOf(s, "refund")' = RowsOf(s, "refund")
    BY <1>3, <1>4, RefundsOfOthers
  <1>7. /\ task[t].status = "absent" /\ c > 0 /\ account[u].balance >= c
        /\ task'[t].status = "running" /\ task'[t].user = u /\ task'[t].cost = c
        /\ \A s \in Tasks \ {t} : task'[s] = task[s]
    BY <1>1 DEF ReserveAndCreateTask, Exists, Affords
  <1> QED
    BY <1>2, <1>5, <1>6, <1>7 DEF Opened

\* An operator's adjustment concerns no task.
Deposited(u, a) ==
    /\ account[u].balance + a >= 0
    /\ task' = task
    /\ \A s \in Tasks : RowsOf(s, "refund")' = RowsOf(s, "refund")
    /\ \A v \in Users : account'[v].balance =
          IF v = u THEN account[v].balance + a ELSE account[v].balance

LEMMA AdjustDeposits ==
    ASSUME MoneyInv, NEW u \in Users, NEW a \in Amounts, Adjust(u, a)
    PROVE  Deposited(u, a)
  <1>1. account \in [Users -> AccountType] /\ a \in Int
    BY AmountsAssumption DEF MoneyInv, LedgerTypeOK
  <1> DEFINE nb == account[u].balance + a
             tt == IF a > 0 THEN account[u].total_topup + a ELSE account[u].total_topup
             r  == Row("adjust", a, NoTask, nb)
  <1>2. nb \in Int /\ tt \in Int
    BY <1>1 DEF AccountType
  <1>3. r \in RowType /\ r.type # "refund"
    BY <1>1, <1>2 DEF Row, RowType
  <1>4. /\ ledger' = [ledger EXCEPT ![u] = Append(@, r)]
        /\ account' = [account EXCEPT ![u].balance = nb, ![u].total_topup = tt]
        /\ nb = account[u].balance + a /\ nb >= 0 /\ task' = task
    BY DEF Adjust
  <1> HIDE DEF nb, tt, r
  <1>5. account'[u].balance = nb /\ \A v \in Users \ {u} : account'[v] = account[v]
    BY <1>1, <1>2, <1>4, WriteAccount
  <1>6. \A s \in Tasks : RowsOf(s, "refund")' = RowsOf(s, "refund")
    BY <1>3, <1>4, RefundsOfOthers
  <1> QED
    BY <1>1, <1>2, <1>4, <1>5, <1>6 DEF Deposited, AccountType

\* Nothing a deal depends on changes.
Untouched ==
    /\ task' = task
    /\ \A s \in Tasks : RowsOf(s, "refund")' = RowsOf(s, "refund")
    /\ \A v \in Users : account'[v].balance = account[v].balance

LEMMA LimitTouchesNothing ==
    ASSUME MoneyInv, NEW u \in Users, NEW l \in Limits, SetConcurrentLimit(u, l)
    PROVE  Untouched
  <1>1. account \in [Users -> AccountType]
    BY DEF MoneyInv, LedgerTypeOK
  <1>2. \A v \in Users : account'[v].balance = account[v].balance
    BY <1>1 DEF SetConcurrentLimit, AccountType
  <1> QED
    BY <1>2 DEF SetConcurrentLimit, Untouched, RowsOf

LEMMA FrameTouchesNothing ==
    ASSUME UNCHANGED ledgerVars
    PROVE  Untouched
  BY DEF ledgerVars, Untouched, RowsOf

\* What a step of the gateway may do to deals.
LedgerMoves ==
    \/ Untouched
    \/ \E u \in Users, a \in Amounts : Deposited(u, a)
    \/ \E t \in Tasks, u \in Users, c \in Costs : Opened(t, u, c)
    \/ \E t \in Tasks : Kept(t) \/ Owed(t) \/ Returned(t)

\* Verdicts stay, and so do refunds.
SettledStays ==
    \A s \in Tasks :
        /\ task[s].status \in {"succeeded", "failed"} => task'[s].status = task[s].status
        /\ RowsOf(s, "refund") # {} => RowsOf(s, "refund")' # {}

LEMMA MovesSettle ==
    ASSUME RefundsFailed, LedgerMoves
    PROVE  SettledStays /\ RefundsFailed'
  <1>1. CASE Untouched
    BY <1>1 DEF Untouched, SettledStays, RefundsFailed
  <1>2. ASSUME NEW u \in Users, NEW a \in Amounts, Deposited(u, a)
        PROVE  SettledStays /\ RefundsFailed'
    BY <1>2 DEF Deposited, SettledStays, RefundsFailed
  <1>3. ASSUME NEW t \in Tasks, NEW u \in Users, NEW c \in Costs, Opened(t, u, c)
        PROVE  SettledStays /\ RefundsFailed'
    BY <1>3 DEF Opened, SettledStays, RefundsFailed
  <1>4. ASSUME NEW t \in Tasks, Kept(t) \/ Owed(t) \/ Returned(t)
        PROVE  SettledStays /\ RefundsFailed'
    <2>1. RowsOf(t, "refund") = {}
      BY <1>4 DEF Kept, Owed, Returned, Verdict, RefundsFailed
    <2> QED
      BY <1>4, <2>1 DEF Kept, Owed, Returned, Verdict, SettledStays, RefundsFailed
  <1> QED
    BY <1>1, <1>2, <1>3, <1>4 DEF LedgerMoves

-----------------------------------------------------------------------------
(* They are the steps of TaskCharge.                                       *)

\* Two deals are equal when status, refund rows, payer and price are.
DealOf(t) == [state |-> DealState(t), user |-> task[t].user, price |-> task[t].cost]

LEMMA DealSame ==
    ASSUME NEW t \in Tasks, task'[t] = task[t], RowsOf(t, "refund")' = RowsOf(t, "refund")
    PROVE  DealState(t)' = DealState(t) /\ DealOf(t)' = DealOf(t)
  BY DEF DealState, DealOf

LEMMA UntouchedStutters ==
    ASSUME Untouched
    PROVE  UNCHANGED Promise!vars
  <1>1. \A t \in Tasks : DealState(t)' = DealState(t)
    BY DealSame DEF Untouched
  <1> QED
    BY <1>1 DEF Untouched, Promise!vars

LEMMA DepositPromised ==
    ASSUME NEW u \in Users, NEW a \in Amounts, Deposited(u, a)
    PROVE  Promise!Deposit(u, a)
  <1>1. \A t \in Tasks : DealState(t)' = DealState(t)
    BY DealSame DEF Deposited
  <1> QED
    BY <1>1 DEF Deposited, Promise!Deposit

LEMMA PayPromised ==
    ASSUME NEW t \in Tasks, NEW u \in Users, NEW c \in Costs, Opened(t, u, c)
    PROVE  Promise!Pay(t, u, c)
  <1>1. \A s \in Tasks \ {t} : DealState(s)' = DealState(s) /\ task'[s] = task[s]
    BY DealSame DEF Opened
  <1>2. DealState(t) = "none" /\ DealState(t)' = "held"
    BY DEF Opened, DealState
  <1> QED
    BY <1>1, <1>2 DEF Opened, Promise!Pay

\* A verdict settles a held deal.
LEMMA VerdictPromised ==
    ASSUME NEW t \in Tasks, NEW status, Verdict(t, status)
    PROVE  /\ DealState(t) = "held"
           /\ \A s \in Tasks \ {t} : DealState(s)' = DealState(s) /\ task'[s] = task[s]
           /\ task'[t].user = task[t].user /\ task'[t].cost = task[t].cost
  <1>1. \A s \in Tasks \ {t} : DealState(s)' = DealState(s) /\ task'[s] = task[s]
    BY DealSame DEF Verdict
  <1> QED
    BY <1>1 DEF Verdict, DealState

LEMMA KeepPromised ==
    ASSUME NEW t \in Tasks, Kept(t)
    PROVE  Promise!Keep(t)
  <1>1. DealState(t)' = "kept" /\ account' = account
    BY DEF Kept, Verdict, DealState
  <1> QED
    BY <1>1, VerdictPromised DEF Kept, Promise!Keep

LEMMA OwePromised ==
    ASSUME NEW t \in Tasks, Owed(t)
    PROVE  Promise!Owe(t)
  <1>1. DealState(t)' = "owed" /\ account' = account
    BY DEF Owed, Verdict, DealState
  <1> QED
    BY <1>1, VerdictPromised DEF Owed, Promise!Owe

LEMMA ReturnPromised ==
    ASSUME NEW t \in Tasks, Returned(t), task[t].user \in Users
    PROVE  Promise!Return(t)
  <1>1. DealState(t)' = "returned"
    BY DEF Returned, Verdict, DealState
  <1>2. PriceReturned(t)
    BY DEF Returned
  <1> QED
    BY <1>1, <1>2, VerdictPromised DEF Returned, PriceReturned, Promise!Return

LEMMA MovesPromised ==
    ASSUME MoneyInv, LedgerMoves
    PROVE  [Promise!Next]_(Promise!vars)
  <1>1. CASE Untouched
    BY <1>1, UntouchedStutters
  <1>2. ASSUME NEW u \in Users, NEW a \in Amounts, Deposited(u, a)
        PROVE  Promise!Next
    BY <1>2, DepositPromised DEF Promise!Next
  <1>3. ASSUME NEW t \in Tasks, NEW u \in Users, NEW c \in Costs, Opened(t, u, c)
        PROVE  Promise!Next
    BY <1>3, PayPromised DEF Promise!Next
  <1>4. ASSUME NEW t \in Tasks, Kept(t) \/ Owed(t) \/ Returned(t)
        PROVE  Promise!Next
    <2>1. task[t].user \in Users
      BY <1>4 DEF MoneyInv, TaskInv, Owned, Exists, Kept, Owed, Returned, Verdict
    <2>2. Promise!Settle(t)
      BY <1>4, <2>1, KeepPromised, OwePromised, ReturnPromised DEF Promise!Settle
    <2> QED
      BY <2>2 DEF Promise!Next
  <1> QED
    BY <1>1, <1>2, <1>3, <1>4 DEF LedgerMoves

-----------------------------------------------------------------------------
(* What a step may tell.                                                   *)

\* While nothing fails: who fails a task has refunded it, an answer goes out
\* with success, an event names the status that is written with it.
SoundMoves ==
    faults' = 0 =>
        /\ faults = 0
        /\ \A s \in Tasks :
              /\ task'[s].status = "failed" =>
                    task[s].status = "failed" \/ RowsOf(s, "refund")' # {}
              /\ answered'[s] => answered[s] \/ task'[s].status = "succeeded"
              /\ told'[s] = told[s] \/ task'[s].status = told'[s]

LEMMA SoundKeeps ==
    ASSUME MediaInv, SoundOutcomes, SettledStays, SoundMoves
    PROVE  SoundOutcomes'
  <1> SUFFICES ASSUME faults' = 0, NEW t \in Tasks
               PROVE  /\ task'[t].status = "failed" => RowsOf(t, "refund")' # {}
                      /\ answered'[t] => task'[t].status = "succeeded"
                      /\ told'[t] # "none" => task'[t].status = told'[t]
    BY DEF SoundOutcomes
  <1>1. /\ task[t].status = "failed" => RowsOf(t, "refund") # {}
        /\ answered[t] => task[t].status = "succeeded"
        /\ told[t] # "none" => task[t].status = told[t]
    BY DEF SoundMoves, SoundOutcomes
  <1>2. told[t] \in {"none", "succeeded", "failed"}
    BY DEF MediaInv, RunTypeOK
  <1> QED
    BY <1>1, <1>2 DEF SoundMoves, SettledStays

\* A step that touches no deal and tells nothing.
LEMMA QuietMoves ==
    ASSUME UNCHANGED <<ledgerVars, told, answered>>, faults' = 0 => faults = 0
    PROVE  LedgerMoves /\ SoundMoves
  <1>1. Untouched
    BY FrameTouchesNothing
  <1> QED
    BY <1>1 DEF LedgerMoves, SoundMoves, Untouched

LEMMA FaultsShow ==
    ASSUME MediaInv, NEW n \in Nat, FaultsCost(n)
    PROVE  faults' = 0 => n = 0 /\ faults = 0
  BY DEF MediaInv, RunTypeOK, FaultsCost

\* Failing a running task: refunded, or a statement has failed on the way.
LEMMA SettleMoves ==
    ASSUME MoneyInv, MediaInv, RefundsFailed, NEW t \in Tasks, task[t].status = "running",
           NEW announces, NEW n \in Nat, SettleAsFailed(t, announces, n), UNCHANGED answered
    PROVE  /\ LedgerMoves /\ SoundMoves
           /\ \A s \in Tasks \ {t} : task'[s] = task[s]
  <1>0. told \in [Tasks -> {"none", "succeeded", "failed"}]
    BY DEF MediaInv, RunTypeOK
  <1>1. CASE /\ FailTaskAndRefund(t) /\ FaultsCost(n)
             /\ IF announces THEN NotifyTaskStatus(t, "failed") ELSE UNCHANGED told
    <2>1. Returned(t)
      BY <1>1, FailReturns
    <2>2. faults' = 0 => faults = 0
      BY <1>1, FaultsShow
    <2>3. \A s \in Tasks : told'[s] = told[s] \/ (s = t /\ told'[s] = "failed")
      BY <1>0, <1>1 DEF NotifyTaskStatus
    <2>4. SoundMoves
      BY <2>1, <2>2, <2>3 DEF SoundMoves, Returned, Verdict
    <2> QED
      BY <2>1, <2>4 DEF LedgerMoves, Returned, Verdict
  <1>2. CASE ForceFail(t) /\ FaultsCost(n + 1)
    <2>1. Owed(t)
      BY <1>2, ForceFailOwes
    <2>2. faults' # 0
      BY <1>2 DEF MediaInv, RunTypeOK, FaultsCost
    <2> QED
      BY <2>1, <2>2 DEF LedgerMoves, SoundMoves, Owed, Verdict
  <1>3. CASE UNCHANGED ledgerVars /\ FaultsCost(n + 2)
    <2>1. Untouched
      BY <1>3, FrameTouchesNothing
    <2>2. faults' # 0
      BY <1>3 DEF MediaInv, RunTypeOK, FaultsCost
    <2> QED
      BY <2>1, <2>2 DEF LedgerMoves, SoundMoves, Untouched
  <1> QED
    BY <1>1, <1>2, <1>3 DEF SettleAsFailed

\* A success is written before it is told.
LEMMA SuccessMoves ==
    ASSUME MoneyInv, MediaInv, RefundsFailed, NEW t \in Tasks, task[t].status = "running",
           MarkSucceeded(t), UNCHANGED faults,
           \A s \in Tasks : told'[s] = told[s] \/ (s = t /\ told'[s] = "succeeded"),
           \A s \in Tasks : answered'[s] => answered[s] \/ s = t
    PROVE  /\ LedgerMoves /\ SoundMoves
           /\ \A s \in Tasks \ {t} : task'[s] = task[s]
  <1>1. Kept(t)
    BY SuccessKeeps
  <1> QED
    BY <1>1 DEF LedgerMoves, SoundMoves, Kept, Verdict

-----------------------------------------------------------------------------
(* Who owns a task.                                                        *)

\* A handler that is not done owns its task; when it leaves the task to the
\* poller or settles it, it is done.
LEMMA HandlerOwns ==
    ASSUME OneOwner, UNCHANGED poller, NEW t \in Tasks, handler[t].pc # "done",
           \A s \in Tasks \ {t} : handler'[s] = handler[s] /\ task'[s] = task[s],
           \A s \in Tasks : job'[s].aged = job[s].aged,
           AtWork(t)' => task'[t].status = "running"
    PROVE  OneOwner'
  <1> SUFFICES ASSUME NEW s \in Tasks
               PROVE  /\ AtWork(s)' => task'[s].status = "running"
                      /\ job'[s].aged => At(s, "done")'
                      /\ s \in poller'.batch => At(s, "done")' /\ task'[s].status = "running"
    BY DEF OneOwner
  <1>1. CASE s = t
    <2>1. ~job[t].aged /\ t \notin poller.batch
      BY DEF OneOwner, At
    <2> QED
      BY <1>1, <2>1
  <1>2. CASE s # t
    BY <1>2 DEF OneOwner, AtWork, At
  <1> QED
    BY <1>1, <1>2

\* The poller settles what is on its list, and strikes it off.
LEMMA PollerOwns ==
    ASSUME OneOwner, UNCHANGED <<handler, job>>,
           \A s \in Tasks : task'[s] = task[s] \/ ~AtWork(s),
           \A s \in Tasks : s \in poller'.batch => At(s, "done") /\ task'[s].status = "running"
    PROVE  OneOwner'
  BY DEF OneOwner, AtWork, At

VerdictMoves == LedgerMoves /\ SoundMoves /\ OneOwner'

LEMMA VerdictKeeps ==
    ASSUME MediaInv, VerdictInv, VerdictMoves
    PROVE  VerdictInv'
  BY MovesSettle, SoundKeeps DEF VerdictInv, VerdictMoves

-----------------------------------------------------------------------------
(* The handlers.                                                           *)

\* The handler of t takes a step, the others do not.
OnlyHandler(t) ==
    /\ \A s \in Tasks \ {t} : handler'[s] = handler[s]
    /\ \A s \in Tasks : job'[s].aged = job[s].aged
    /\ UNCHANGED poller

LEMMA GoOnly ==
    ASSUME MediaInv, NEW t \in Tasks, NEW pc, Go(t, pc), UNCHANGED poller,
           \A s \in Tasks : job'[s].aged = job[s].aged
    PROVE  OnlyHandler(t) /\ handler'[t].pc = pc
  <1>1. handler \in [Tasks -> HandlerType]
    BY DEF MediaInv, RunTypeOK
  <1> QED
    BY <1>1 DEF Go, OnlyHandler, HandlerType

LEMMA NextAttemptOnly ==
    ASSUME MediaInv, NEW t \in Tasks, NextAttempt(t), UNCHANGED <<poller, job>>
    PROVE  OnlyHandler(t)
  <1>1. handler \in [Tasks -> HandlerType]
    BY DEF MediaInv, RunTypeOK
  <1> QED
    BY <1>1 DEF NextAttempt, OnlyHandler

LEMMA QuietHandler ==
    ASSUME MediaInv, VerdictInv, NEW t \in Tasks, AtWork(t), OnlyHandler(t),
           UNCHANGED <<ledgerVars, told, answered>>, faults' = 0 => faults = 0
    PROVE  VerdictMoves
  <1>1. LedgerMoves /\ SoundMoves
    BY QuietMoves
  <1>2. task' = task /\ task[t].status = "running" /\ handler[t].pc # "done"
    BY DEF ledgerVars, VerdictInv, OneOwner, AtWork
  <1>3. OneOwner'
    BY <1>2, HandlerOwns DEF VerdictInv, OnlyHandler
  <1> QED
    BY <1>1, <1>3 DEF VerdictMoves

LEMMA SelectVerdict ==
    ASSUME MediaInv, VerdictInv, NEW t \in Tasks, SelectCredential(t)
    PROVE  VerdictMoves
  <1>1. AtWork(t) /\ UNCHANGED <<ledgerVars, told, answered, poller>>
    BY DEF SelectCredential, AtWork, At
  <1>2. faults' = 0 => faults = 0
    <2>1. Sound \/ FaultsCost(1)
      BY DEF SelectCredential
    <2> QED
      BY <2>1, FaultsShow DEF Sound
  <1>3. \A s \in Tasks : job'[s].aged = job[s].aged
    <2>1. \A s \in Tasks : job[s] \in JobType
      BY DEF MediaInv, RunTypeOK
    <2>2. (\E c : job' = [job EXCEPT ![t].cred = c]) \/ UNCHANGED job
      BY DEF SelectCredential
    <2>3. DOMAIN job = Tasks
      BY DEF MediaInv, RunTypeOK
    <2> QED
      BY <2>1, <2>2, <2>3 DEF JobType
  <1>4. OnlyHandler(t)
    <2>1. CASE Go(t, "fail")
      BY <1>1, <1>3, <2>1, GoOnly
    <2>2. CASE \E c \in Selectable(t) :
                  handler' = [handler EXCEPT ![t].pc = "call", ![t].cred = c, ![t].tries = 0]
      <3>1. handler \in [Tasks -> HandlerType]
        BY DEF MediaInv, RunTypeOK
      <3> QED
        BY <1>1, <1>3, <2>2, <3>1 DEF OnlyHandler
    <2> QED
      BY <2>1, <2>2 DEF SelectCredential
  <1> QED
    BY <1>1, <1>2, <1>4, QuietHandler

LEMMA CallVerdict ==
    ASSUME MediaInv, VerdictInv, NEW t \in Tasks, At(t, "call"), CallFrame,
           OnlyHandler(t)
    PROVE  VerdictMoves
  <1>1. AtWork(t) /\ UNCHANGED <<ledgerVars, told, answered, poller>> /\ faults' = faults
    BY DEF CallFrame, AtWork, At, bounds
  <1> QED
    BY <1>1, QuietHandler

LEMMA CallsVerdict ==
    ASSUME MediaInv, VerdictInv, NEW t \in Tasks,
           \/ DecryptFails(t) \/ NetworkError(t) \/ RetriableRefusal(t)
           \/ FinalRefusal(t) \/ Accepted(t)
    PROVE  VerdictMoves
  <1>1. At(t, "call") /\ CallFrame
    BY DEF DecryptFails, NetworkError, RetriableRefusal, FinalRefusal, Accepted
  <1>2. UNCHANGED <<poller, job>> /\ \A s \in Tasks : job'[s].aged = job[s].aged
    BY <1>1 DEF CallFrame
  <1>3. handler \in [Tasks -> HandlerType]
    BY DEF MediaInv, RunTypeOK
  <1>4. OnlyHandler(t)
    <2>1. CASE DecryptFails(t)
      BY <1>2, <2>1, GoOnly, NextAttemptOnly DEF DecryptFails
    <2>2. CASE NetworkError(t)
      <3>1. CASE handler' = [handler EXCEPT ![t].tries = @ + 1]
        BY <1>2, <1>3, <3>1 DEF OnlyHandler
      <3> QED
        BY <1>2, <2>2, <3>1, NextAttemptOnly DEF NetworkError
    <2>3. CASE RetriableRefusal(t)
      BY <1>2, <2>3, NextAttemptOnly DEF RetriableRefusal
    <2>4. CASE FinalRefusal(t)
      BY <1>2, <2>4, GoOnly DEF FinalRefusal
    <2>5. CASE Accepted(t)
      <3>1. CASE handler' = [handler EXCEPT ![t].pc = "media", ![t].next = ResumeFrom(t) + 1]
        BY <1>2, <1>3, <3>1 DEF OnlyHandler
      <3>2. CASE Go(t, "answer") \/ Go(t, "record")
        BY <1>2, <3>2, GoOnly
      <3> QED
        BY <2>5, <3>1, <3>2 DEF Accepted
    <2> QED
      BY <2>1, <2>2, <2>3, <2>4, <2>5
  <1> QED
    BY <1>1, <1>4, CallVerdict

LEMMA RecordVerdict ==
    ASSUME MediaInv, VerdictInv, NEW t \in Tasks, RecordUpstreamTask(t)
    PROVE  VerdictMoves
  <1>1. AtWork(t) /\ UNCHANGED <<ledgerVars, told, answered, poller>>
    BY DEF RecordUpstreamTask, AtWork, At
  <1>2. faults' = 0 => faults = 0
    <2>1. Sound \/ FaultsCost(1)
      BY DEF RecordUpstreamTask
    <2> QED
      BY <2>1, FaultsShow DEF Sound
  <1>3. \A s \in Tasks : job'[s].aged = job[s].aged
    BY DEF RecordUpstreamTask, MediaInv, RunTypeOK, JobType
  <1>4. OnlyHandler(t)
    BY <1>1, <1>3, GoOnly DEF RecordUpstreamTask
  <1> QED
    BY <1>1, <1>2, <1>4, QuietHandler

LEMMA MediaStepsVerdict ==
    ASSUME MediaInv, VerdictInv, NEW t \in Tasks,
           HandlerStoresMedium(t) \/ HandlerUndoesMedia(t)
    PROVE  VerdictMoves
  <1>1. /\ AtWork(t) /\ UNCHANGED <<ledgerVars, told, answered, poller, job>>
        /\ handler \in [Tasks -> HandlerType]
    BY DEF HandlerStoresMedium, HandlerUndoesMedia, AtWork, At, MediaInv, RunTypeOK
  <1>2. CASE HandlerStoresMedium(t)
    <2>1. OnlyHandler(t) /\ faults' = faults
      BY <1>1, <1>2 DEF HandlerStoresMedium, OnlyHandler, bounds
    <2> QED
      BY <1>1, <2>1, QuietHandler
  <1>3. CASE HandlerUndoesMedia(t)
    <2> DEFINE met == IF handler[t].next <= MediaCount THEN 0 ELSE 1
    <2>1. FaultsCost(met) \/ FaultsCost(met + 1)
      BY <1>3 DEF HandlerUndoesMedia
    <2>2. met \in Nat /\ met + 1 \in Nat
      OBVIOUS
    <2> HIDE DEF met
    <2>3. faults' = 0 => faults = 0
      BY <2>1, <2>2, FaultsShow
    <2>4. OnlyHandler(t)
      BY <1>1, <1>3, GoOnly DEF HandlerUndoesMedia
    <2> QED
      BY <1>1, <2>3, <2>4, QuietHandler
  <1> QED
    BY <1>2, <1>3

\* The steps of a handler that write the verdict end its work.
LEMMA HandlerSettles ==
    ASSUME MediaInv, VerdictInv, NEW t \in Tasks, AtWork(t), LedgerMoves, SoundMoves,
           \A s \in Tasks \ {t} : task'[s] = task[s],
           Go(t, "done"), UNCHANGED <<poller, job>>
    PROVE  VerdictMoves
  <1>1. OnlyHandler(t) /\ handler'[t].pc = "done"
    BY GoOnly
  <1>2. handler[t].pc # "done" /\ ~AtWork(t)'
    BY <1>1 DEF AtWork
  <1>3. OneOwner'
    BY <1>1, <1>2, HandlerOwns DEF VerdictInv, OnlyHandler
  <1> QED
    BY <1>3 DEF VerdictMoves

LEMMA AnswerVerdict ==
    ASSUME MoneyInv, MediaInv, VerdictInv, NEW t \in Tasks, AnswerChat(t)
    PROVE  VerdictMoves
  <1>1. /\ AtWork(t) /\ task[t].status = "running" /\ RefundsFailed
        /\ Go(t, "done") /\ UNCHANGED <<poller, job, told>>
        /\ \A s \in Tasks : answered'[s] => answered[s] \/ s = t
    BY DEF AnswerChat, AtWork, At, VerdictInv, OneOwner, MediaInv, RunTypeOK
  <1>2. CASE MarkSucceeded(t) /\ Sound
    BY <1>1, <1>2, SuccessMoves, HandlerSettles DEF Sound
  <1>3. CASE UNCHANGED ledgerVars /\ FaultsCost(1)
    <2>1. LedgerMoves
      BY <1>3, FrameTouchesNothing DEF LedgerMoves
    <2>2. SoundMoves
      BY <1>3, FaultsShow DEF SoundMoves
    <2>3. task' = task
      BY <1>3 DEF ledgerVars
    <2> QED
      BY <1>1, <2>1, <2>2, <2>3, HandlerSettles
  <1> QED
    BY <1>2, <1>3 DEF AnswerChat

LEMMA FailsVerdict ==
    ASSUME MoneyInv, MediaInv, VerdictInv, NEW t \in Tasks, HandlerFails(t)
    PROVE  VerdictMoves
  <1>1. /\ AtWork(t) /\ task[t].status = "running" /\ RefundsFailed
        /\ Go(t, "done") /\ UNCHANGED <<poller, job, answered>>
    BY DEF HandlerFails, AtWork, At, VerdictInv, OneOwner
  <1>2. PICK announces : SettleAsFailed(t, announces, 0)
    BY DEF HandlerFails
  <1>3. LedgerMoves /\ SoundMoves /\ \A s \in Tasks \ {t} : task'[s] = task[s]
    BY <1>1, <1>2, SettleMoves
  <1> QED
    BY <1>1, <1>3, HandlerSettles

LEMMA HandlerVerdict ==
    ASSUME MoneyInv, MediaInv, VerdictInv, NEW t \in Tasks, HandlerWritesVerdict(t)
    PROVE  VerdictMoves
  <1>1. /\ AtWork(t) /\ task[t].status = "running" /\ RefundsFailed
        /\ Go(t, "done") /\ UNCHANGED <<poller, job, answered, faults>>
        /\ MarkSucceeded(t)
    BY DEF HandlerWritesVerdict, WriteVerdict, AtWork, At, VerdictInv, OneOwner, bounds
  <1>2. \A s \in Tasks : told'[s] = told[s] \/ (s = t /\ told'[s] = "succeeded")
    BY DEF HandlerWritesVerdict, WriteVerdict, NotifyTaskStatus, MediaInv, RunTypeOK
  <1>3. LedgerMoves /\ SoundMoves /\ \A s \in Tasks \ {t} : task'[s] = task[s]
    BY <1>1, <1>2, SuccessMoves
  <1> QED
    BY <1>1, <1>3, HandlerSettles

LEMMA HandlerStepVerdict ==
    ASSUME MoneyInv, MediaInv, VerdictInv, NEW t \in Tasks, HandlerStep(t)
    PROVE  VerdictMoves
  BY SelectVerdict, CallsVerdict, RecordVerdict, MediaStepsVerdict, AnswerVerdict,
     FailsVerdict, HandlerVerdict DEF HandlerStep

LEMMA SubmitVerdict ==
    ASSUME MoneyInv, MediaInv, VerdictInv, NEW t \in Tasks, NEW u \in Users,
           NEW kind \in {"chat", "async"}, NEW c \in Costs, NEW fixed \in Creds \cup {NoCred},
           Submit(t, u, kind, c, fixed)
    PROVE  VerdictMoves
  <1>1. Opened(t, u, c)
    BY ReserveOpens DEF Submit
  <1>2. LedgerMoves
    BY <1>1 DEF LedgerMoves
  <1>3. SoundMoves
    BY <1>1 DEF Submit, Opened, SoundMoves, bounds
  <1>4. /\ handler[t].pc # "done" /\ UNCHANGED poller
        /\ \A s \in Tasks \ {t} : handler'[s] = handler[s]
        /\ \A s \in Tasks : job'[s].aged = job[s].aged
    BY DEF Submit, At, MediaInv, RunTypeOK, JobType
  <1>5. OneOwner'
    BY <1>1, <1>4, HandlerOwns DEF Opened, VerdictInv
  <1> QED
    BY <1>2, <1>3, <1>5 DEF VerdictMoves

-----------------------------------------------------------------------------
(* The poller.                                                             *)

LEMMA DropStrikes ==
    ASSUME MediaInv, NEW t \in Tasks, Drop(t)
    PROVE  poller'.batch = poller.batch \ {t}
  BY DEF Drop, MediaInv, RunTypeOK, PollerType

\* The poller settles a task of its list.
LEMMA PollerSettles ==
    ASSUME MediaInv, VerdictInv, NEW t \in poller.batch, t \in Tasks,
           LedgerMoves, SoundMoves, \A s \in Tasks \ {t} : task'[s] = task[s],
           Drop(t), UNCHANGED <<handler, job>>
    PROVE  VerdictMoves
  <1>1. poller'.batch = poller.batch \ {t}
    BY DropStrikes
  <1>2. ~AtWork(t)
    BY DEF VerdictInv, OneOwner, AtWork, At
  <1>3. \A s \in Tasks : s \in poller'.batch => At(s, "done") /\ task'[s].status = "running"
    BY <1>1 DEF VerdictInv, OneOwner
  <1>4. OneOwner'
    BY <1>2, <1>3, PollerOwns DEF VerdictInv
  <1> QED
    BY <1>4 DEF VerdictMoves

LEMMA SettleDropVerdict ==
    ASSUME MoneyInv, MediaInv, VerdictInv, NEW t \in Tasks, t \in poller.batch,
           NEW n \in Nat, SettleAsFailed(t, TRUE, n), Drop(t),
           UNCHANGED <<job, handler, answered>>
    PROVE  VerdictMoves
  <1>1. task[t].status = "running" /\ RefundsFailed
    BY DEF VerdictInv, OneOwner
  <1>2. LedgerMoves /\ SoundMoves /\ \A s \in Tasks \ {t} : task'[s] = task[s]
    BY <1>1, SettleMoves
  <1> QED
    BY <1>2, PollerSettles

LEMMA PollerVerdict ==
    ASSUME MoneyInv, MediaInv, VerdictInv, NEW t \in Tasks, PollerWritesVerdict(t)
    PROVE  VerdictMoves
  <1>1. /\ t \in poller.batch /\ task[t].status = "running" /\ RefundsFailed
        /\ Drop(t) /\ UNCHANGED <<handler, job, answered, faults>> /\ MarkSucceeded(t)
    BY DEF PollerWritesVerdict, WriteVerdict, MediaInv, PollsOwn, VerdictInv, OneOwner, bounds
  <1>2. \A s \in Tasks : told'[s] = told[s] \/ (s = t /\ told'[s] = "succeeded")
    BY DEF PollerWritesVerdict, WriteVerdict, NotifyTaskStatus, MediaInv, RunTypeOK
  <1>3. LedgerMoves /\ SoundMoves /\ \A s \in Tasks \ {t} : task'[s] = task[s]
    BY <1>1, <1>2, SuccessMoves
  <1> QED
    BY <1>1, <1>3, PollerSettles

\* The poller takes a new list, works on, or lets a task go.
LEMMA QuietPoller ==
    ASSUME MediaInv, VerdictInv, UNCHANGED <<ledgerVars, told, answered, handler, job>>,
           faults' = 0 => faults = 0,
           \A s \in Tasks : s \in poller'.batch => At(s, "done") /\ task[s].status = "running"
    PROVE  VerdictMoves
  <1>1. LedgerMoves /\ SoundMoves
    BY QuietMoves
  <1>2. task' = task
    BY DEF ledgerVars
  <1>3. OneOwner'
    BY <1>2, PollerOwns DEF VerdictInv
  <1> QED
    BY <1>1, <1>3 DEF VerdictMoves

LEMMA ListsVerdict ==
    ASSUME MediaInv, VerdictInv, ListStale \/ ListDue \/ RoundEnds
    PROVE  VerdictMoves
  <1>1. UNCHANGED <<ledgerVars, told, answered, handler, job>> /\ faults' = faults
    BY DEF ListStale, ListDue, RoundEnds, PollerFrame, bounds
  <1>2. poller \in PollerType
    BY DEF MediaInv, RunTypeOK
  <1>3. CASE ListStale
    <2>1. poller'.batch \subseteq Stale
      BY <1>2, <1>3 DEF ListStale, Fetch, PollerType
    <2>2. \A s \in Stale : At(s, "done") /\ task[s].status = "running"
      BY DEF Stale, VerdictInv, OneOwner
    <2> QED
      BY <1>1, <2>1, <2>2, QuietPoller
  <1>4. CASE ListDue
    <2>1. poller'.batch \subseteq Pollable
      BY <1>2, <1>4 DEF ListDue, Fetch, PollerType
    <2>2. \A s \in Pollable : At(s, "done") /\ task[s].status = "running"
      BY DEF Pollable, MediaInv, HandsOver
    <2> QED
      BY <1>1, <2>1, <2>2, QuietPoller
  <1>5. CASE RoundEnds
    <2>1. poller'.batch = {}
      BY <1>5 DEF RoundEnds, Resting
    <2> QED
      BY <1>1, <2>1, QuietPoller
  <1> QED
    BY <1>3, <1>4, <1>5

LEMMA PollerWorksOn ==
    ASSUME MediaInv, VerdictInv, NEW t \in Tasks,
           \/ AdvanceLater(t) \/ AdvanceRemoteDone(t)
           \/ PollerStoresMedium(t) \/ PollerGivesUpMedia(t)
    PROVE  VerdictMoves
  <1>1. UNCHANGED <<ledgerVars, told, answered, handler, job>>
    BY DEF AdvanceLater, AdvanceRemoteDone, PollerStoresMedium, PollerGivesUpMedia, PollerFrame
  <1>2. faults' = 0 => faults = 0
    BY FaultsShow DEF AdvanceLater, AdvanceRemoteDone, PollerStoresMedium,
                      PollerGivesUpMedia, PollerFrame, bounds, Sound
  <1>3. poller'.batch \subseteq poller.batch
    <2>1. CASE Drop(t)
      BY <2>1, DropStrikes
    <2>2. CASE AdvanceRemoteDone(t)
      BY <2>2 DEF AdvanceRemoteDone, MediaInv, RunTypeOK, PollerType
    <2>3. CASE PollerStoresMedium(t)
      BY <2>3 DEF PollerStoresMedium, MediaInv, RunTypeOK, PollerType
    <2> QED
      BY <2>1, <2>2, <2>3 DEF AdvanceLater, PollerGivesUpMedia
  <1>4. \A s \in Tasks : s \in poller'.batch => At(s, "done") /\ task[s].status = "running"
    BY <1>3 DEF VerdictInv, OneOwner
  <1> QED
    BY <1>1, <1>2, <1>4, QuietPoller

LEMMA PollerStepVerdict ==
    ASSUME MoneyInv, MediaInv, VerdictInv, PollerStep
    PROVE  VerdictMoves
  <1>1. ASSUME NEW t \in Tasks, CleanupStale(t) PROVE VerdictMoves
    BY <1>1, SettleDropVerdict DEF CleanupStale, InBatch
  <1>2. ASSUME NEW t \in Tasks, AdvanceTimedOut(t) PROVE VerdictMoves
    BY <1>2, SettleDropVerdict DEF AdvanceTimedOut, Advancing, InBatch
  <1>3. ASSUME NEW t \in Tasks, AdvanceWithoutCredential(t) PROVE VerdictMoves
    <2>1. PICK n \in Nat : SettleAsFailed(t, TRUE, n)
      BY <1>3 DEF AdvanceWithoutCredential
    <2> QED
      BY <1>3, <2>1, SettleDropVerdict DEF AdvanceWithoutCredential, Advancing, InBatch
  <1>4. ASSUME NEW t \in Tasks, AdvanceRemoteFailed(t) PROVE VerdictMoves
    BY <1>4, SettleDropVerdict DEF AdvanceRemoteFailed, Advancing, InBatch
  <1> QED
    BY <1>1, <1>2, <1>3, <1>4, ListsVerdict, PollerWorksOn, PollerVerdict
    DEF PollerStep, AdvanceOne

-----------------------------------------------------------------------------
(* The world around.                                                       *)

\* Nobody but a handler or the poller takes a task or gives it away.
LEMMA WorldOwns ==
    ASSUME OneOwner, UNCHANGED <<handler, poller, job, task>>
    PROVE  OneOwner'
  BY DEF OneOwner, AtWork, At

LEMMA WorldVerdict ==
    ASSUME MediaInv, VerdictInv, UNCHANGED <<ledgerVars, job, handler, poller, told, answered, faults>>
    PROVE  VerdictMoves
  <1>1. task' = task
    BY DEF ledgerVars
  <1> QED
    BY <1>1, QuietMoves, WorldOwns DEF VerdictInv, VerdictMoves

LEMMA OperatorVerdict ==
    ASSUME MoneyInv, VerdictInv, NEW u \in Users,
           \/ \E a \in Amounts : OperatorAdjusts(u, a)
           \/ \E l \in Limits : OperatorLimits(u, l)
    PROVE  VerdictMoves
  <1>1. Untouched \/ \E a \in Amounts : Deposited(u, a)
    BY AdjustDeposits, LimitTouchesNothing DEF OperatorAdjusts, OperatorLimits
  <1>2. task' = task /\ UNCHANGED <<runVars, bounds>>
    BY <1>1 DEF Untouched, Deposited, OperatorAdjusts, OperatorLimits
  <1>3. LedgerMoves
    BY <1>1 DEF LedgerMoves
  <1>4. SoundMoves
    BY <1>2 DEF SoundMoves, runVars, bounds
  <1> QED
    BY <1>2, <1>3, <1>4, WorldOwns DEF VerdictInv, VerdictMoves, runVars

\* A timeout that cannot race finds the handler gone.
LEMMA AgeVerdict ==
    ASSUME ~TimeoutMayRace, MediaInv, VerdictInv, NEW t \in Tasks, Age(t)
    PROVE  VerdictMoves
  <1>1. LedgerMoves /\ SoundMoves
    BY QuietMoves DEF Age, bounds
  <1>2. /\ At(t, "done") /\ UNCHANGED <<handler, poller, task>>
        /\ \A s \in Tasks \ {t} : job'[s] = job[s]
    BY DEF Age, ledgerVars, MediaInv, RunTypeOK
  <1>3. OneOwner'
    BY <1>2 DEF VerdictInv, OneOwner, AtWork, At
  <1> QED
    BY <1>1, <1>3 DEF VerdictMoves

\* After a restart no one owns any task.
LEMMA CrashVerdict ==
    ASSUME MediaInv, VerdictInv, Crash
    PROVE  VerdictMoves
  <1>1. LedgerMoves /\ SoundMoves
    BY QuietMoves DEF Crash
  <1>2. ASSUME NEW t \in Tasks
        PROVE  /\ handler'[t].pc \in {"idle", "done"}
               /\ handler[t].pc = "done" => handler'[t].pc = "done"
    <2>1. handler[t] \in HandlerType
      BY DEF MediaInv, RunTypeOK
    <2>2. CASE handler[t].pc = "idle"
      BY <2>2 DEF Crash, At
    <2>3. CASE handler[t].pc # "idle"
      <3>1. handler'[t] = [handler[t] EXCEPT !.pc = "done"]
        BY <2>3 DEF Crash, At
      <3> QED
        BY <2>1, <3>1 DEF HandlerType
    <2> QED
      BY <2>2, <2>3
  <1>3. poller'.batch = {} /\ job' = job
    BY DEF Crash, Resting
  <1>4. OneOwner'
    BY <1>2, <1>3 DEF VerdictInv, OneOwner, AtWork, At
  <1> QED
    BY <1>1, <1>4 DEF VerdictMoves

LEMMA EnvironmentVerdict ==
    ASSUME ~TimeoutMayRace, MoneyInv, MediaInv, VerdictInv, Environment
    PROVE  VerdictMoves
  <1>1. ASSUME NEW c \in Creds, OperatorSetsCredential(c) PROVE VerdictMoves
    BY <1>1, WorldVerdict DEF OperatorSetsCredential
  <1>2. ASSUME NEW t \in Tasks, FileRemoved(t) \/ RemoteEnds(t) PROVE VerdictMoves
    BY <1>2, WorldVerdict DEF FileRemoved, RemoteEnds, bounds
  <1> QED
    BY <1>1, <1>2, OperatorVerdict, AgeVerdict, CrashVerdict DEF Environment

-----------------------------------------------------------------------------
LEMMA VerdictInit == Init => VerdictInv
  <1> SUFFICES ASSUME Init PROVE VerdictInv
    OBVIOUS
  <1>1. \A t \in Tasks : RowsOf(t, "refund") = {}
    BY MoneyInit DEF Init, MoneyInv, TaskInv, Charged, Exists, LedgerInit, Absent
  <1>2. \A t \in Tasks : task[t].status = "absent"
    BY DEF Init, LedgerInit, Absent
  <1>3. OneOwner
    BY DEF Init, OneOwner, AtWork, Idle, NoJob, Resting
  <1>4. SoundOutcomes
    BY <1>2 DEF Init, SoundOutcomes
  <1> QED
    BY <1>1, <1>3, <1>4 DEF VerdictInv, RefundsFailed

LEMMA NextVerdict ==
    ASSUME ~TimeoutMayRace, MoneyInv, MediaInv, VerdictInv, [Next]_vars
    PROVE  VerdictMoves
  <1>1. CASE UNCHANGED vars
    BY <1>1, WorldVerdict DEF vars, runVars, bounds
  <1> QED
    BY <1>1, SubmitVerdict, HandlerStepVerdict, PollerStepVerdict, EnvironmentVerdict DEF Next

\* The inductive invariant holds on every run on which the task timeout does
\* not race the handlers.
THEOREM VerdictInvariant ==
    ASSUME ~TimeoutMayRace
    PROVE  Spec => []VerdictInv
  <1>1. MoneyInv /\ MediaInv /\ VerdictInv /\ [Next]_vars => VerdictInv'
    BY NextVerdict, VerdictKeeps
  <1> QED
    BY <1>1, VerdictInit, GatewayImplementsLedger, MoneyInvariant, MediaInvariant, PTL DEF Spec

\* Handlers, poller, restarts and failing statements do to a deal only what
\* TaskCharge promises: paid in full before it starts, then kept, returned or,
\* when the refund transaction fails, owed; and settled once.
THEOREM GatewayKeepsPromise ==
    ASSUME ~TimeoutMayRace
    PROVE  Spec => Promise!Spec
  <1>0. Spec => []VerdictInv
    BY VerdictInvariant
  <1>1. Init => Promise!Init
    <2>1. ASSUME Init PROVE Promise!Init
      <3>1. \A t \in Tasks : DealState(t) = "none" /\ task[t] = Absent
        BY <2>1 DEF Init, LedgerInit, Absent, DealState
      <3> QED
        BY <2>1, <3>1 DEF Init, LedgerInit, Absent, Promise!Init, Promise!Nothing
    <2> QED
      BY <2>1
  <1>2. MoneyInv /\ MediaInv /\ VerdictInv /\ [Next]_vars
            => [Promise!Next]_(Promise!vars)
    BY NextVerdict, MovesPromised DEF VerdictMoves
  <1> QED
    BY <1>1, <1>2, <1>0, GatewayImplementsLedger, MoneyInvariant,
       MediaInvariant, PTL DEF Spec, Promise!Spec

\* A verdict is final: no late answer of the provider, no stale list of the
\* poller and no restart turns failed into succeeded or the reverse.
THEOREM VerdictsAreFinal ==
    ASSUME ~TimeoutMayRace
    PROVE  Spec => VerdictIsFinal
  <1>0. Spec => []VerdictInv
    BY VerdictInvariant
  <1>1. MoneyInv /\ MediaInv /\ VerdictInv /\ [Next]_vars
            => [\A t \in Tasks : task[t].status \in {"succeeded", "failed"} =>
                                    task'[t].status = task[t].status]_vars
    BY NextVerdict, MovesSettle DEF VerdictMoves, VerdictInv, SettledStays
  <1> QED
    BY <1>1, <1>0, GatewayImplementsLedger, MoneyInvariant, MediaInvariant,
       PTL DEF Spec, VerdictIsFinal

\* A task that shows success has kept its price: nothing was refunded for it.
THEOREM SuccessKeepsCharge ==
    ASSUME ~TimeoutMayRace
    PROVE  Spec => []SucceededKeepsCharge
  <1>0. Spec => []VerdictInv
    BY VerdictInvariant
  <1>1. VerdictInv => SucceededKeepsCharge
    BY DEF VerdictInv, RefundsFailed, SucceededKeepsCharge
  <1> QED
    BY <1>1, <1>0, PTL

\* While no statement has failed, a failed task has been refunded, an answered
\* chat shows success, and the last event told is the status of the row.
THEOREM OutcomesAreSound ==
    ASSUME ~TimeoutMayRace
    PROVE  Spec => []SoundOutcomes
  <1>0. Spec => []VerdictInv
    BY VerdictInvariant
  <1>1. VerdictInv => SoundOutcomes
    BY DEF VerdictInv
  <1> QED
    BY <1>1, <1>0, PTL
=============================================================================
