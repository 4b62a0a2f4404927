------------------------------ MODULE CreditTx ------------------------------
(***************************************************************************)
(* The transactions of internal/service/credit.go, statement by statement, *)
(* run by several database sessions at once.  The exported Reserve and     *)
(* Refund, which nothing in the program calls, are left out.               *)
(*                                                                         *)
(* A session locks a row with SELECT ... FOR UPDATE and keeps the lock     *)
(* until it commits or rolls back.  A plain SELECT sees what is committed. *)
(* gorm's Save writes the whole user_credits row back as it was read.  The *)
(* writes of a transaction become visible together, when it commits.  A    *)
(* single UPDATE outside a transaction waits for the lock of its row.      *)
(*                                                                         *)
(* The module uses the tables of CreditLedger and shows that the sessions  *)
(* together take exactly its atomic steps.  MUTx definitions are plausible *)
(* mistakes the properties must notice.                                    *)
(***************************************************************************)
EXTENDS CreditLedger

CONSTANTS
    Sessions,     \* database connections that run credit transactions
    Free          \* the holder of a lock nobody holds

ASSUME SessionsAssumption == Free \notin Sessions

VARIABLES
    tx,           \* the open transaction of each session
    userLock,     \* who holds the lock of each user_credits row
    taskLock      \* who holds the lock of each generation_tasks row

txVars == <<ledgerVars, tx, userLock, taskLock>>

NoRow  == [balance |-> 0, total_topup |-> 0, total_consumed |-> 0, concurrent_limit |-> 0]
Closed == [op |-> "none", pc |-> "closed", user |-> NoUser, task |-> NoTask,
           amount |-> 0, row |-> NoRow, refund_status |-> "none", refund_amount |-> 0]

TxInit ==
    /\ LedgerInit
    /\ tx       = [s \in Sessions |-> Closed]
    /\ userLock = [u \in Users |-> Free]
    /\ taskLock = [t \in Tasks |-> Free]

At(s, pc)   == tx[s].pc = pc
Runs(s, op) == tx[s].op = op
Tables      == ledgerVars

-----------------------------------------------------------------------------
(* BEGIN: what each function does before its first statement.              *)

Begin(s, op, pc, u, t, amount) ==
    /\ At(s, "closed")
    /\ tx' = [tx EXCEPT ![s] = [Closed EXCEPT !.op = op, !.pc = pc, !.user = u,
                                              !.task = t, !.amount = amount]]
    /\ UNCHANGED <<Tables, userLock, taskLock>>

BeginAdjust(s, u, a)     == a # 0 /\ Begin(s, "adjust", "lock_user", u, NoTask, a)
BeginReserve(s, u, t, c) == c > 0 /\ ~Exists(t) /\ Begin(s, "reserve", "lock_user", u, t, c)
BeginFail(s, t)          == Begin(s, "fail", "lock_task", NoUser, t, 0)

-----------------------------------------------------------------------------
(* The statements.                                                         *)

MUTLockUserPlain(s) ==
    LET u == tx[s].user IN
    /\ At(s, "lock_user")
    /\ tx' = [tx EXCEPT ![s].row = account[u],
                        ![s].pc = IF Runs(s, "reserve") THEN "count" ELSE "write"]
    /\ UNCHANGED <<Tables, userLock, taskLock>>

\* SELECT user_credits ... FOR UPDATE
LockUser(s) ==
    LET u == tx[s].user IN
    /\ At(s, "lock_user") /\ userLock[u] = Free
    /\ userLock' = [userLock EXCEPT ![u] = s]
    /\ tx' = [tx EXCEPT ![s].row = account[u],
                        ![s].pc = IF Runs(s, "reserve") THEN "count" ELSE "write"]
    /\ UNCHANGED <<Tables, taskLock>>

MUTLockTaskPlain(s) ==
    /\ At(s, "lock_task") /\ Exists(tx[s].task)
    /\ tx' = [tx EXCEPT ![s].pc = "read"]
    /\ UNCHANGED <<Tables, userLock, taskLock>>

\* SELECT generation_tasks ... FOR UPDATE
LockTask(s) ==
    LET t == tx[s].task IN
    /\ At(s, "lock_task") /\ Exists(t) /\ taskLock[t] = Free
    /\ taskLock' = [taskLock EXCEPT ![t] = s]
    /\ tx' = [tx EXCEPT ![s].pc = "read"]
    /\ UNCHANGED <<Tables, userLock>>

MUTCountForUpdate(s) ==
    LET running == Running(tx[s].user) IN
    /\ At(s, "count")
    /\ \/ running = {} /\ tx' = [tx EXCEPT ![s].pc = "write"]
       \/ \E t \in running : tx' = [tx EXCEPT ![s].pc = "lock_task", ![s].task = t]
    /\ UNCHANGED <<Tables, userLock, taskLock>>

\* SELECT count(*) of the running tasks
CountRunning(s) ==
    LET row == tx[s].row IN
    /\ At(s, "count")
    /\ row.concurrent_limit > 0 => Cardinality(Running(tx[s].user)) < row.concurrent_limit
    /\ tx' = [tx EXCEPT ![s].pc = "write"]
    /\ UNCHANGED <<Tables, userLock, taskLock>>

\* What FailTaskAndRefund learns from the task row and the ledger: it decides
\* what to write, and whether a user row has to be locked for it.
Decide(s, pc, u, amount, refundStatus, refundAmount) ==
    /\ tx' = [tx EXCEPT ![s].pc = pc, ![s].user = u, ![s].amount = amount,
                        ![s].refund_status = refundStatus,
                        ![s].refund_amount = refundAmount]
    /\ UNCHANGED <<Tables, userLock, taskLock>>

Settled(t) == task[t].refund_status \in {"refunded", "skipped"}

ReadSettled(s) ==
    LET t == tx[s].task IN
    /\ At(s, "read") /\ Settled(t)
    /\ Decide(s, "write", NoUser, 0, task[t].refund_status, task[t].refund_amount)

ReadRefunded(s) ==
    LET t == tx[s].task IN
    /\ At(s, "read") /\ ~Settled(t) /\ AlreadyRefunded(t)
    /\ Decide(s, "write", NoUser, 0, "refunded",
              IF task[t].refund_amount = 0 THEN AmountAt(FirstRow(t, "refund"))
                                           ELSE task[t].refund_amount)

\* A task without a charge would be "skipped".
ReadCharge(s) ==
    LET t      == tx[s].task
        charge == FirstRow(t, "consume")
    IN
    /\ At(s, "read") /\ ~Settled(t) /\ ~AlreadyRefunded(t)
    /\ IF RowsOf(t, "consume") = {}
       THEN Decide(s, "write", NoUser, 0, "skipped", task[t].refund_amount)
       ELSE Decide(s, "lock_user", charge[1], -AmountAt(charge),
                   "refunded", -AmountAt(charge))

-----------------------------------------------------------------------------
(* The last writes and COMMIT; or ROLLBACK.                                *)

Release(s) ==
    /\ userLock' = [u \in Users |-> IF userLock[u] = s THEN Free ELSE userLock[u]]
    /\ taskLock' = [t \in Tasks |-> IF taskLock[t] = s THEN Free ELSE taskLock[t]]
    /\ tx' = [tx EXCEPT ![s] = Closed]

\* Save(&row) with the new balance and totals, and the ledger row that goes
\* with it.
SaveAndPost(s, type, amount, topup, consumed) ==
    LET u     == tx[s].user
        row   == tx[s].row
        after == row.balance + amount
    IN
    /\ account' = [account EXCEPT ![u] = [row EXCEPT !.balance = after,
                                                     !.total_topup = row.total_topup + topup,
                                                     !.total_consumed = row.total_consumed + consumed]]
    /\ ledger'  = [ledger EXCEPT ![u] = Append(@, Row(type, amount, tx[s].task, after))]

CommitAdjust(s) ==
    LET a == tx[s].amount IN
    /\ At(s, "write") /\ Runs(s, "adjust")
    /\ Cardinality(AdjustRows(tx[s].user)) < MaxAdjusts
    /\ tx[s].row.balance + a >= 0
    /\ SaveAndPost(s, "adjust", a, IF a > 0 THEN a ELSE 0, 0)
    /\ Release(s)
    /\ UNCHANGED task

CommitReserve(s) ==
    LET c == tx[s].amount IN
    /\ At(s, "write") /\ Runs(s, "reserve")
    /\ ~Exists(tx[s].task)
    /\ tx[s].row.balance >= c
    /\ SaveAndPost(s, "consume", -c, 0, c)
    /\ task' = [task EXCEPT ![tx[s].task] =
                   [status |-> "running", user |-> tx[s].user, cost |-> c,
                    refund_status |-> "none", refund_amount |-> 0]]
    /\ Release(s)

CommitFail(s) ==
    /\ At(s, "write") /\ Runs(s, "fail")
    /\ IF tx[s].user = NoUser
       THEN UNCHANGED <<account, ledger>>
       ELSE SaveAndPost(s, "refund", tx[s].amount, 0, -tx[s].amount)
    /\ MarkFailed(tx[s].task, tx[s].refund_status, tx[s].refund_amount)
    /\ Release(s)

\* A refusal, a missing row, a failed statement or a lost connection.
Rollback(s) ==
    /\ ~At(s, "closed")
    /\ Release(s)
    /\ UNCHANGED Tables

-----------------------------------------------------------------------------
(* Single UPDATEs.                                                         *)

UpdateLimit(u, l) ==
    userLock[u] = Free /\ SetConcurrentLimit(u, l) /\ UNCHANGED <<tx, userLock, taskLock>>

UpdateForceFail(t) ==
    taskLock[t] = Free /\ ForceFail(t) /\ UNCHANGED <<tx, userLock, taskLock>>

UpdateSucceeded(t) ==
    taskLock[t] = Free /\ MarkSucceeded(t) /\ UNCHANGED <<tx, userLock, taskLock>>

-----------------------------------------------------------------------------
Statement(s) ==
    \/ LockUser(s) \/ LockTask(s) \/ CountRunning(s)
    \/ ReadSettled(s) \/ ReadRefunded(s) \/ ReadCharge(s)
    \/ CommitAdjust(s) \/ CommitReserve(s) \/ CommitFail(s)

BeginAny(s) ==
    \/ \E u \in Users, a \in Amounts : BeginAdjust(s, u, a)
    \/ \E u \in Users, t \in Tasks, c \in Costs : BeginReserve(s, u, t, c)
    \/ \E t \in Tasks : BeginFail(s, t)

TxNext ==
    \/ \E s \in Sessions : BeginAny(s) \/ Statement(s) \/ Rollback(s)
    \/ \E u \in Users, l \in Limits : UpdateLimit(u, l)
    \/ \E t \in Tasks : UpdateForceFail(t) \/ UpdateSucceeded(t)

TxSpec == TxInit /\ [][TxNext]_txVars

-----------------------------------------------------------------------------
(* Properties                                                              *)

\* Sessions that lock, read, decide and write in turn take the atomic steps of
\* CreditLedger and no others: no lost update of a balance or a limit, no
\* charge on a stale balance, no second refund, whoever commits first.
TakesLedgerSteps == LedgerSpec

\* The session whose lock s is blocked on.
WaitsFor(s) ==
    IF At(s, "lock_user") THEN userLock[tx[s].user]
    ELSE IF At(s, "lock_task") THEN taskLock[tx[s].task] ELSE Free

\* Sessions deadlocked with each other, two or more in a circle, would be a set
\* of which each member waits for a member.  The two locks are always taken in
\* the order task, user, so there is no such set.
NoCircularWait ==
    \A blocked \in (SUBSET Sessions) \ {{}} : \E s \in blocked : WaitsFor(s) \notin blocked
=============================================================================
