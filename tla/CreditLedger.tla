---------------------------- MODULE CreditLedger ----------------------------
(***************************************************************************)
(* The prepaid credit of the AI users: internal/service/credit.go with the *)
(* tables of internal/model/user_credit.go and the money columns of        *)
(* generation_tasks.                                                       *)
(*                                                                         *)
(* Every operation below is one database transaction of the code.  The     *)
(* code takes SELECT ... FOR UPDATE on the rows it is about to change      *)
(* before it reads anything else, so a transaction is one atomic step;     *)
(* module CreditTx splits the transactions into their statements and shows *)
(* that the interleaved statements still implement these steps.            *)
(*                                                                         *)
(* MUTx definitions are plausible mistakes in the definition below them,   *)
(* kept to show that the properties notice them; no specification uses     *)
(* them.                                                                   *)
(*                                                                         *)
(* A user without a user_credits row is indistinguishable from one with    *)
(* the row EnsureUser creates, so every user starts with that row.         *)
(***************************************************************************)
EXTENDS Integers, Sequences, FiniteSets, SequencesExt

CONSTANTS
    Users,        \* user ids (team members and customers)
    Tasks,        \* the task ids uuid.New will ever return
    Costs,        \* the costs a pricing rule may give
    Amounts,      \* the amounts an operator may enter in Adjust
    Limits,       \* the values of concurrent_limit (0 = unlimited)
    NoUser,       \* the owner of a task row that does not exist
    NoTask,       \* task_id of an adjust row
    MaxAdjusts    \* bound: number of adjust rows of one user

ASSUME UsersAssumption   == NoUser \notin Users
ASSUME TasksAssumption   == NoTask \notin Tasks
ASSUME CostsAssumption   == Costs \subseteq Nat
ASSUME AmountsAssumption == Amounts \subseteq Int
ASSUME LimitsAssumption  == Limits \subseteq Nat
ASSUME BoundsAssumption  == MaxAdjusts \in Nat

VARIABLES
    account,      \* user_credits, one row per user
    ledger,       \* credit_transactions of each user, in id order
    task          \* generation_tasks: owner, price, status, refund columns

ledgerVars == <<account, ledger, task>>

Statuses       == {"running", "succeeded", "failed"}
RefundStatuses == {"none", "refunded", "refund_failed", "skipped"}

Absent == [status |-> "absent", user |-> NoUser, cost |-> 0,
           refund_status |-> "none", refund_amount |-> 0]

Exists(t) == task[t].status # "absent"

-----------------------------------------------------------------------------
(* The ledger table.                                                       *)

MUTRowUntitled(type, amount, t, after) ==
    [type |-> type, amount |-> amount, task |-> NoTask, balance_after |-> after]
MUTRowBalanceBefore(type, amount, t, after) ==
    [type |-> type, amount |-> amount, task |-> t, balance_after |-> after - amount]

Row(type, amount, t, after) ==
    [type |-> type, amount |-> amount, task |-> t, balance_after |-> after]

\* The (user, position) pairs of the rows of one type that name task t.
RowsIn(rows, t, type) ==
    {p \in UNION {{u} \X DOMAIN rows[u] : u \in Users} :
        rows[p[1]][p[2]].task = t /\ rows[p[1]][p[2]].type = type}

RowsOf(t, type) == RowsIn(ledger, t, type)

\* Order("id ASC").First: the oldest of them.
FirstRow(t, type) ==
    CHOOSE p \in RowsOf(t, type) : \A q \in RowsOf(t, type) : p[2] <= q[2]

AmountAt(p) == ledger[p[1]][p[2]].amount

\* The iron rule of the model's comment: the balance and a ledger row change
\* together.  Adds amount to u's balance and dc to its total_consumed.
Post(u, type, amount, t, dc) ==
    LET after == account[u].balance + amount IN
    /\ account' = [account EXCEPT ![u].balance = after,
                                  ![u].total_consumed = @ + dc]
    /\ ledger'  = [ledger EXCEPT ![u] = Append(@, Row(type, amount, t, after))]

-----------------------------------------------------------------------------
LedgerInit ==
    /\ account = [u \in Users |-> [balance |-> 0, total_topup |-> 0,
                                   total_consumed |-> 0, concurrent_limit |-> 1]]
    /\ ledger  = [u \in Users |-> << >>]
    /\ task    = [t \in Tasks |-> Absent]

AdjustRows(u) == {i \in DOMAIN ledger[u] : ledger[u][i].type = "adjust"}

Adjust(u, amount) ==
    LET newBalance == account[u].balance + amount IN
    /\ Cardinality(AdjustRows(u)) < MaxAdjusts
    /\ amount # 0
    /\ newBalance >= 0
    /\ account' = [account EXCEPT
                     ![u].balance = newBalance,
                     ![u].total_topup = IF amount > 0 THEN @ + amount ELSE @]
    /\ ledger'  = [ledger EXCEPT
                     ![u] = Append(@, Row("adjust", amount, NoTask, newBalance))]
    /\ UNCHANGED task

SetConcurrentLimit(u, limit) ==
    /\ account' = [account EXCEPT ![u].concurrent_limit = limit]
    /\ UNCHANGED <<ledger, task>>

\* The tasks that count against the concurrency limit; status pending is
\* never written, so running is the whole of (pending, running).
Running(u) == {t \in Tasks : task[t].user = u /\ task[t].status = "running"}

Admits(u) ==
    \/ account[u].concurrent_limit = 0
    \/ Cardinality(Running(u)) < account[u].concurrent_limit

Affords(u, cost) == account[u].balance >= cost

ReserveAndCreateTask(t, u, cost) ==
    /\ ~Exists(t)
    /\ cost > 0
    /\ Admits(u)
    /\ Affords(u, cost)
    /\ Post(u, "consume", -cost, t, cost)
    /\ task' = [task EXCEPT ![t] = [status |-> "running", user |-> u, cost |-> cost,
                                    refund_status |-> "none", refund_amount |-> 0]]

-----------------------------------------------------------------------------
(* FailTaskAndRefund.  It marks the task failed whatever its status was,   *)
(* and returns the charge unless the refund columns or the ledger say that *)
(* this has been done.                                                     *)

MarkFailed(t, refundStatus, refundAmount) ==
    task' = [task EXCEPT ![t].status = "failed",
                         ![t].refund_status = refundStatus,
                         ![t].refund_amount = refundAmount]

\* The idempotence check asks the ledger, not the row.
AlreadyRefunded(t) == RowsOf(t, "refund") # {}

\* Settled by the columns of the task row.
FailSettled(t) ==
    /\ task[t].refund_status \in {"refunded", "skipped"}
    /\ MarkFailed(t, task[t].refund_status, task[t].refund_amount)
    /\ UNCHANGED <<account, ledger>>

\* Already refunded according to the ledger: the columns are repaired.
FailAlreadyRefunded(t) ==
    /\ task[t].refund_status \in {"none", "refund_failed"}
    /\ AlreadyRefunded(t)
    /\ MarkFailed(t, "refunded",
                  IF task[t].refund_amount = 0 THEN AmountAt(FirstRow(t, "refund"))
                                               ELSE task[t].refund_amount)
    /\ UNCHANGED <<account, ledger>>

\* The charge goes back to the user of the consume row; a task that was never
\* charged has nothing to give back.
FailAndRefund(t) ==
    LET charge == FirstRow(t, "consume")
        amount == -AmountAt(charge)
    IN
    /\ task[t].refund_status \in {"none", "refund_failed"}
    /\ ~AlreadyRefunded(t)
    /\ IF RowsOf(t, "consume") = {}
       THEN /\ MarkFailed(t, "skipped", task[t].refund_amount)
            /\ UNCHANGED <<account, ledger>>
       ELSE /\ Post(charge[1], "refund", amount, t, -amount)
            /\ MarkFailed(t, "refunded", amount)

MUTFailKeepsCharge(t) ==
    /\ Exists(t)
    /\ MarkFailed(t, task[t].refund_status, task[t].refund_amount)
    /\ UNCHANGED <<account, ledger>>

FailTaskAndRefund(t) ==
    /\ Exists(t)
    /\ \/ FailSettled(t)
       \/ FailAlreadyRefunded(t)
       \/ FailAndRefund(t)

\* The fallback of failTaskAndRefund when that transaction returned an error.
ForceFail(t) ==
    /\ Exists(t)
    /\ MarkFailed(t, "refund_failed", task[t].refund_amount)
    /\ UNCHANGED <<account, ledger>>

\* The UPDATE that ends a task well; it names the task and nothing else, so
\* it applies whatever the status is.
MarkSucceeded(t) ==
    /\ Exists(t)
    /\ task' = [task EXCEPT ![t].status = "succeeded"]
    /\ UNCHANGED <<account, ledger>>

LedgerNext ==
    \/ \E u \in Users, a \in Amounts : Adjust(u, a)
    \/ \E u \in Users, l \in Limits : SetConcurrentLimit(u, l)
    \/ \E t \in Tasks, u \in Users, c \in Costs : ReserveAndCreateTask(t, u, c)
    \/ \E t \in Tasks : FailTaskAndRefund(t)
    \/ \E t \in Tasks : ForceFail(t)
    \/ \E t \in Tasks : MarkSucceeded(t)

LedgerSpec == LedgerInit /\ [][LedgerNext]_ledgerVars

-----------------------------------------------------------------------------
(* Properties                                                              *)

RowType == [type : {"adjust", "consume", "refund"}, amount : Int,
            task : Tasks \cup {NoTask}, balance_after : Int]

AccountType == [balance : Int, total_topup : Int, total_consumed : Int,
                concurrent_limit : Nat]

TaskType == [status : Statuses \cup {"absent"}, user : Users \cup {NoUser},
             cost : Nat, refund_status : RefundStatuses, refund_amount : Int]

\* The three tables hold values of their columns' types.
LedgerTypeOK ==
    /\ account \in [Users -> AccountType]
    /\ ledger \in [Users -> Seq(RowType)]
    /\ task \in [Tasks -> TaskType]

\* No sequence of adjustments, charges and refunds drives a balance below
\* zero (the checks of Adjust and ReserveAndCreateTask).
BalanceNonNegative == \A u \in Users : account[u].balance >= 0

LastBalance(s) == IF s = << >> THEN 0 ELSE s[Len(s)].balance_after

PreviousBalance(s, i) == IF i = 1 THEN 0 ELSE s[i-1].balance_after

\* The same rule as an auditor reads it off the rows: balance_after of each
\* row is the one before it plus the amount, and the stored balance is the
\* last of them.
LedgerChained ==
    \A u \in Users :
        /\ account[u].balance = LastBalance(ledger[u])
        /\ \A i \in DOMAIN ledger[u] :
              ledger[u][i].balance_after
                  = PreviousBalance(ledger[u], i) + ledger[u][i].amount

\* A task is charged exactly once, when it is created, to its owner and for
\* its price: so FailTaskAndRefund always finds what to give back and the
\* refund status "skipped" is never written.
ChargedExactlyOnce ==
    \A t \in Tasks :
        IF Exists(t)
        THEN /\ \E i \in DOMAIN ledger[task[t].user] :
                    /\ RowsOf(t, "consume") = {<<task[t].user, i>>}
                    /\ ledger[task[t].user][i].amount = -task[t].cost
             /\ task[t].refund_status # "skipped"
        ELSE RowsOf(t, "consume") = {}

\* However often and in whatever order failing, forced failing and success
\* are written, the charge of a task returns at most once, to its owner, in
\* full, and after it was taken.
RefundedAtMostOnce ==
    \A t \in Tasks : \A p, q \in RowsOf(t, "refund") :
        /\ p = q
        /\ p[1] = task[t].user
        /\ AmountAt(p) = task[t].cost
        /\ \E c \in RowsOf(t, "consume") : c[1] = p[1] /\ c[2] < p[2]

\* The columns shown to the user never claim a refund the ledger lacks.
RefundColumnsBacked ==
    \A t \in Tasks :
        task[t].refund_status = "refunded" =>
            /\ RowsOf(t, "refund") # {}
            /\ task[t].refund_amount = task[t].cost

=============================================================================
