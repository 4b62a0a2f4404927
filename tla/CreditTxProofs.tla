--------------------------- MODULE CreditTxProofs ---------------------------
(***************************************************************************)
(* Sessions that run the statements of credit transactions in any order,   *)
(* any number of them on any users and tasks, take the steps of            *)
(* CreditLedger: the row locks make every transaction of credit.go atomic. *)
(***************************************************************************)
EXTENDS CreditTx, CreditLedgerProofs, FiniteSetTheorems

Ops == {"none", "adjust", "reserve", "fail"}
Pcs == {"closed", "lock_user", "lock_task", "count", "read", "write"}

TxType == [op : Ops, pc : Pcs, user : Users \cup {NoUser}, task : Tasks \cup {NoTask},
           amount : Int, row : AccountType, refund_status : RefundStatuses,
           refund_amount : Int]

TxTypeOK ==
    /\ tx \in [Sessions -> TxType]
    /\ userLock \in [Users -> Sessions \cup {Free}]
    /\ taskLock \in [Tasks -> Sessions \cup {Free}]

-----------------------------------------------------------------------------
(* What is true of one session between two of its statements.              *)

\* The places at which a transaction has locked a user row, or a task row.
UserHolder(s, u) == tx[s].user = u /\ tx[s].pc \in {"count", "write"}
TaskHolder(s, t) ==
    tx[s].op = "fail" /\ tx[s].task = t /\ tx[s].pc \in {"read", "lock_user", "write"}

\* It holds the locks it took, and no others.
HoldsLocks(s) ==
    /\ \A u \in Users : userLock[u] = s <=> UserHolder(s, u)
    /\ \A t \in Tasks : taskLock[t] = s <=> TaskHolder(s, t)

\* The arguments it was begun with.
Arguments(s) ==
    /\ tx[s].op = "none" <=> tx[s].pc = "closed"
    /\ tx[s].op = "adjust" =>
          /\ tx[s].pc \in {"lock_user", "write"} /\ tx[s].user \in Users
          /\ tx[s].amount \in Amounts /\ tx[s].amount # 0 /\ tx[s].task = NoTask
    /\ tx[s].op = "reserve" =>
          /\ tx[s].pc \in {"lock_user", "count", "write"} /\ tx[s].user \in Users
          /\ tx[s].amount \in Costs /\ tx[s].amount > 0 /\ tx[s].task \in Tasks
    /\ tx[s].op = "fail" =>
          /\ tx[s].pc \in {"lock_task", "read", "lock_user", "write"}
          /\ tx[s].task \in Tasks
          /\ tx[s].pc = "lock_user" => tx[s].user \in Users

\* The row it read under a lock is still the row of the table.
FreshRow(s) == \A u \in Users : UserHolder(s, u) => tx[s].row = account[u]

\* What it counted is still within the limit it read.
WithinLimit(s) ==
    tx[s].op = "reserve" /\ tx[s].pc = "write" =>
        \/ tx[s].row.concurrent_limit = 0
        \/ Cardinality(Running(tx[s].user)) < tx[s].row.concurrent_limit

\* What FailTaskAndRefund decided is still what is to be done: repair the
\* columns when the charge has been given back, or else give it back, in full
\* and to the owner.
Verdict(s) ==
    \A x \in Tasks : TaskHolder(s, x) =>
        /\ Exists(x)
        /\ tx[s].pc # "read" =>
              /\ tx[s].refund_status = "refunded" /\ tx[s].refund_amount = task[x].cost
              /\ IF AlreadyRefunded(x)
                 THEN tx[s].user = NoUser
                 ELSE tx[s].user = task[x].user /\ tx[s].amount = task[x].cost

SessionInv(s) ==
    HoldsLocks(s) /\ Arguments(s) /\ FreshRow(s) /\ WithinLimit(s) /\ Verdict(s)

TxInv ==
    /\ MoneyInv
    /\ TxTypeOK
    /\ \A u \in Users : IsFiniteSet(Running(u))
    /\ \A s \in Sessions : SessionInv(s)
-----------------------------------------------------------------------------
(* Facts of the tables.                                                    *)

\* The columns of a settled task say what the ledger says.
LEMMA SettledIsRefunded ==
    ASSUME MoneyInv, NEW t \in Tasks
    PROVE  /\ task[t].refund_status \in RefundStatuses
           /\ Settled(t) => /\ AlreadyRefunded(t)
                            /\ task[t].refund_status = "refunded"
                            /\ task[t].refund_amount = task[t].cost
           /\ task[t].refund_amount # 0 => task[t].refund_amount = task[t].cost
  <1>1. ColumnsBacked(t) /\ task[t].refund_status \in RefundStatuses
    BY DEF MoneyInv, TaskInv, LedgerTypeOK, TaskType
  <1> QED
    BY <1>1 DEF ColumnsBacked, Settled, AlreadyRefunded

-----------------------------------------------------------------------------
(* What others do to a session: nothing, as long as they leave its locks,  *)
(* the rows it has locked, and the task rows of its user alone.            *)

LEMMA SessionFrame ==
    ASSUME NEW s \in Sessions, SessionInv(s), tx'[s] = tx[s],
           \A u \in Users : userLock'[u] = s <=> userLock[u] = s,
           \A t \in Tasks : taskLock'[t] = s <=> taskLock[t] = s,
           \A u \in Users : userLock[u] = s =>
               /\ account'[u] = account[u]
               /\ IsFiniteSet(Running(u)) /\ Running(u)' \subseteq Running(u)
               /\ Cardinality(Running(u)) \in Nat /\ tx[s].row.concurrent_limit \in Nat,
           \A t \in Tasks : taskLock[t] = s =>
               task'[t] = task[t] /\ (AlreadyRefunded(t)' <=> AlreadyRefunded(t))
    PROVE  SessionInv(s)'
  <1> USE DEF SessionInv
  <1>1. HoldsLocks(s)'
    BY DEF HoldsLocks, UserHolder, TaskHolder
  <1>2. Arguments(s)'
    BY DEF Arguments
  <1>3. FreshRow(s)'
    BY DEF FreshRow, HoldsLocks, UserHolder
  <1>4. WithinLimit(s)'
    <2> SUFFICES ASSUME tx[s].op = "reserve", tx[s].pc = "write",
                        tx[s].row.concurrent_limit # 0
                 PROVE  Cardinality(Running(tx[s].user))' < tx[s].row.concurrent_limit
      BY DEF WithinLimit
    <2> DEFINE u == tx[s].user
    <2>1. u \in Users
      BY DEF Arguments
    <2>2. userLock[u] = s
      BY <2>1 DEF HoldsLocks, UserHolder
    <2>3. Cardinality(Running(u)) < tx[s].row.concurrent_limit
      BY DEF WithinLimit
    <2>4. /\ Cardinality(Running(u)') <= Cardinality(Running(u))
          /\ IsFiniteSet(Running(u)')
      BY <2>1, <2>2, FS_Subset
    <2>5. Cardinality(Running(u)') \in Nat
      BY <2>4, FS_CardinalityType
    <2>6. Cardinality(Running(u)') < tx[s].row.concurrent_limit
      BY <2>1, <2>2, <2>3, <2>4, <2>5
    <2> QED
      BY <2>6
  <1>5. Verdict(s)'
    <2> SUFFICES ASSUME NEW x \in Tasks, TaskHolder(s, x)
                 PROVE  /\ Exists(x)'
                        /\ tx[s].pc # "read" =>
                              /\ tx[s].refund_status = "refunded"
                              /\ tx[s].refund_amount = task'[x].cost
                              /\ IF AlreadyRefunded(x)'
                                 THEN tx[s].user = NoUser
                                 ELSE /\ tx[s].user = task'[x].user
                                      /\ tx[s].amount = task'[x].cost
      BY DEF Verdict, TaskHolder
    <2>1. task'[x] = task[x] /\ (AlreadyRefunded(x)' <=> AlreadyRefunded(x))
      BY DEF HoldsLocks
    <2> QED
      BY <2>1 DEF Verdict, Exists
  <1> QED
    BY <1>1, <1>2, <1>3, <1>4, <1>5

LEMMA ClosedType == Closed \in TxType
  <1>1. NoRow \in AccountType
    BY DEF NoRow, AccountType
  <1> QED
    BY <1>1 DEF TxType, Closed, Ops, Pcs, RefundStatuses

\* What the invariant says of the rows a session works with.
LEMMA SessionTypes ==
    ASSUME TxInv, NEW s \in Sessions
    PROVE  /\ SessionInv(s) /\ tx[s] \in TxType
           /\ tx[s].row \in AccountType /\ tx[s].row.concurrent_limit \in Nat
           /\ \A u \in Users : IsFiniteSet(Running(u)) /\ Cardinality(Running(u)) \in Nat
  <1>1. SessionInv(s) /\ tx[s] \in TxType /\ \A u \in Users : IsFiniteSet(Running(u))
    BY DEF TxInv, TxTypeOK
  <1>2. tx[s].row \in AccountType
    BY <1>1 DEF TxType
  <1>3. tx[s].row.concurrent_limit \in Nat
    BY <1>2 DEF AccountType
  <1> QED
    BY <1>1, <1>2, <1>3, FS_CardinalityType

\* A statement that writes no table and takes no lock but free ones keeps the
\* invariant if it keeps its own session's part.
LEMMA StatementKeeps ==
    ASSUME TxInv, NEW s \in Sessions, NEW r \in TxType, UNCHANGED ledgerVars,
           tx' = [tx EXCEPT ![s] = r],
           \/ userLock' = userLock
           \/ \E u \in Users : userLock[u] = Free /\ userLock' = [userLock EXCEPT ![u] = s],
           \/ taskLock' = taskLock
           \/ \E t \in Tasks : taskLock[t] = Free /\ taskLock' = [taskLock EXCEPT ![t] = s],
           SessionInv(s)'
    PROVE  TxInv'
  <1> USE DEF TxInv
  <1>1. account' = account /\ ledger' = ledger /\ task' = task
    BY DEF ledgerVars
  <1>2. MoneyInv'
    BY MoneyStutter
  <1>3. TxTypeOK'
    BY DEF TxTypeOK
  <1>4. \A u \in Users : Running(u)' = Running(u)
    BY <1>1 DEF Running
  <1>5. \A t \in Tasks : AlreadyRefunded(t)' <=> AlreadyRefunded(t)
    BY <1>1 DEF AlreadyRefunded, RowsOf
  <1>6. ASSUME NEW x \in Sessions, x # s PROVE SessionInv(x)'
    <2>1. tx'[x] = tx[x]
      BY <1>6 DEF TxTypeOK
    <2>2. /\ \A u \in Users : userLock'[u] = x <=> userLock[u] = x
          /\ \A t \in Tasks : taskLock'[t] = x <=> taskLock[t] = x
      BY <1>6, SessionsAssumption DEF TxTypeOK
    <2> QED
      BY <1>1, <1>4, <1>5, <2>1, <2>2, SessionTypes, SessionFrame
  <1>7. \A u \in Users : IsFiniteSet(Running(u))'
    BY <1>4
  <1> QED
    BY <1>2, <1>3, <1>6, <1>7

\* The end of a transaction keeps it if what was written concerns the rows it
\* had locked and a task that did not exist.
LEMMA EndKeeps ==
    ASSUME TxInv, NEW s \in Sessions, Release(s), MoneyInv',
           \A u \in Users : userLock[u] # s =>
               account'[u] = account[u] /\ Running(u)' \subseteq Running(u),
           \A u \in Users : IsFiniteSet(Running(u)'),
           \A t \in Tasks : taskLock[t] # s /\ Exists(t) =>
               task'[t] = task[t] /\ (AlreadyRefunded(t)' <=> AlreadyRefunded(t))
    PROVE  TxInv'
  <1> USE DEF TxInv
  <1>1. /\ tx' = [tx EXCEPT ![s] = Closed]
        /\ \A u \in Users : userLock'[u] = IF userLock[u] = s THEN Free ELSE userLock[u]
        /\ \A t \in Tasks : taskLock'[t] = IF taskLock[t] = s THEN Free ELSE taskLock[t]
    BY DEF Release
  <1>2. Closed \in TxType
    BY ClosedType
  <1>3. TxTypeOK'
    BY <1>1, <1>2 DEF TxTypeOK, Release
  <1>4. ASSUME NEW x \in Sessions, x # s PROVE SessionInv(x)'
    <2>1. tx'[x] = tx[x]
      BY <1>1, <1>4 DEF TxTypeOK
    <2>2. /\ \A u \in Users : userLock'[u] = x <=> userLock[u] = x
          /\ \A t \in Tasks : taskLock'[t] = x <=> taskLock[t] = x
      BY <1>1, <1>4, SessionsAssumption DEF TxTypeOK
    <2>3. \A t \in Tasks : taskLock[t] = x => Exists(t)
      BY SessionTypes DEF SessionInv, HoldsLocks, Verdict
    <2> QED
      BY <1>4, <2>1, <2>2, <2>3, SessionTypes, SessionFrame
  <1>5. SessionInv(s)'
    <2>1. /\ tx'[s] = Closed /\ tx'[s].op = "none" /\ tx'[s].pc = "closed"
      BY <1>1 DEF TxTypeOK, Closed
    <2>2. /\ \A u \in Users : userLock'[u] # s
          /\ \A t \in Tasks : taskLock'[t] # s
      BY <1>1, SessionsAssumption
    <2> QED
      BY <2>1, <2>2 DEF SessionInv, HoldsLocks, UserHolder, TaskHolder, Arguments,
                        FreshRow, WithinLimit, Verdict
  <1> QED
    BY <1>3, <1>4, <1>5

-----------------------------------------------------------------------------
(* The statements, one by one.                                             *)

LEMMA BeginKeeps ==
    ASSUME TxInv, NEW s \in Sessions, BeginAny(s)
    PROVE  TxInv' /\ UNCHANGED ledgerVars
  <1>1. ASSUME NEW op \in Ops, NEW pc \in Pcs, NEW u \in Users \cup {NoUser},
               NEW t \in Tasks \cup {NoTask}, NEW a \in Int, Begin(s, op, pc, u, t, a),
               \/ op = "adjust" /\ pc = "lock_user" /\ u \in Users /\ a \in Amounts
                                /\ a # 0 /\ t = NoTask
               \/ op = "reserve" /\ pc = "lock_user" /\ u \in Users /\ a \in Costs
                                /\ a > 0 /\ t \in Tasks
               \/ op = "fail" /\ pc = "lock_task" /\ t \in Tasks
        PROVE  TxInv' /\ UNCHANGED ledgerVars
    <2> DEFINE r == [Closed EXCEPT !.op = op, !.pc = pc, !.user = u,
                                   !.task = t, !.amount = a]
    <2>1. /\ tx' = [tx EXCEPT ![s] = r] /\ userLock' = userLock /\ taskLock' = taskLock
          /\ UNCHANGED ledgerVars /\ tx[s].pc = "closed"
      BY <1>1 DEF Begin, At, Tables
    <2>2. r \in TxType
      <3> DEFINE U == Users \cup {NoUser}
                 V == Tasks \cup {NoTask}
                 N == Int
      <3>1. /\ Closed \in TxType /\ u \in U /\ t \in V /\ a \in N
            /\ TxType = [op : Ops, pc : Pcs, user : U, task : V, amount : N,
                         row : AccountType, refund_status : RefundStatuses,
                         refund_amount : Int]
        BY ClosedType DEF TxType
      <3> HIDE DEF U, V, N
      <3> QED
        BY <3>1
    <2>3. r.op = op /\ r.pc = pc /\ r.user = u /\ r.task = t /\ r.amount = a
      BY DEF Closed
    <2>4. tx'[s] = r
      BY <2>1 DEF TxInv, TxTypeOK
    <2> HIDE DEF r
    <2>5. HoldsLocks(s) /\ Arguments(s)
      BY SessionTypes DEF SessionInv
    <2>6. HoldsLocks(s)'
      BY <1>1, <2>1, <2>3, <2>4, <2>5 DEF HoldsLocks, UserHolder, TaskHolder
    <2>7. Arguments(s)'
      BY <1>1, <2>3, <2>4 DEF Arguments
    <2>8. FreshRow(s)' /\ WithinLimit(s)' /\ Verdict(s)'
      BY <1>1, <2>3, <2>4 DEF FreshRow, WithinLimit, Verdict, UserHolder, TaskHolder
    <2> QED
      BY <2>1, <2>2, <2>6, <2>7, <2>8, StatementKeeps DEF SessionInv
  <1> USE DEF Ops, Pcs
  <1>2. ASSUME NEW u \in Users, NEW a \in Amounts, BeginAdjust(s, u, a)
        PROVE  TxInv' /\ UNCHANGED ledgerVars
    BY <1>1, <1>2, AmountsAssumption DEF BeginAdjust
  <1>3. ASSUME NEW u \in Users, NEW t \in Tasks, NEW c \in Costs, BeginReserve(s, u, t, c)
        PROVE  TxInv' /\ UNCHANGED ledgerVars
    BY <1>1, <1>3, CostsAssumption DEF BeginReserve
  <1>4. ASSUME NEW t \in Tasks, BeginFail(s, t)
        PROVE  TxInv' /\ UNCHANGED ledgerVars
    BY <1>1, <1>4 DEF BeginFail
  <1> QED
    BY <1>2, <1>3, <1>4 DEF BeginAny

\* SELECT user_credits ... FOR UPDATE
LEMMA LockUserKeeps ==
    ASSUME TxInv, NEW s \in Sessions, LockUser(s)
    PROVE  TxInv' /\ UNCHANGED ledgerVars
  <1> DEFINE u == tx[s].user
             r == [tx[s] EXCEPT !.row = account[u],
                                !.pc = IF Runs(s, "reserve") THEN "count" ELSE "write"]
  <1>1. /\ tx[s].pc = "lock_user" /\ userLock[u] = Free
        /\ userLock' = [userLock EXCEPT ![u] = s] /\ taskLock' = taskLock
        /\ UNCHANGED ledgerVars
    BY DEF LockUser, At, Tables
  <1>2. /\ SessionInv(s) /\ tx[s] \in TxType
        /\ tx \in [Sessions -> TxType]
    BY SessionTypes DEF TxInv, TxTypeOK
  <1>3. u \in Users /\ tx[s].op \in {"adjust", "reserve", "fail"}
    BY <1>1, <1>2 DEF SessionInv, Arguments, TxType, Ops
  <1>4. account[u] \in AccountType
    BY <1>3 DEF TxInv, MoneyInv, LedgerTypeOK
  <1>5. /\ r \in TxType /\ r.op = tx[s].op /\ r.user = u /\ r.task = tx[s].task
        /\ r.amount = tx[s].amount /\ r.row = account[u]
        /\ r.pc = IF tx[s].op = "reserve" THEN "count" ELSE "write"
        /\ r.refund_status = tx[s].refund_status /\ r.refund_amount = tx[s].refund_amount
    BY <1>2, <1>4 DEF TxType, Pcs, Runs
  <1>6. tx' = [tx EXCEPT ![s] = r]
    BY <1>2 DEF LockUser
  <1> HIDE DEF r
  <1>7. tx'[s] = r
    BY <1>2, <1>6
  <1> USE DEF SessionInv
  <1>8. HoldsLocks(s)'
    BY <1>1, <1>2, <1>3, <1>5, <1>7 DEF HoldsLocks, UserHolder, TaskHolder, TxInv, TxTypeOK
  <1>9. Arguments(s)'
    BY <1>1, <1>2, <1>3, <1>5, <1>7 DEF Arguments
  <1>10. FreshRow(s)' /\ WithinLimit(s)'
    BY <1>1, <1>5, <1>7 DEF FreshRow, WithinLimit, UserHolder, ledgerVars
  <1>11. Verdict(s)'
    BY <1>1, <1>2, <1>5, <1>7 DEF Verdict, TaskHolder, ledgerVars, Exists, AlreadyRefunded, RowsOf
  <1> QED
    BY <1>1, <1>3, <1>5, <1>6, <1>8, <1>9, <1>10, <1>11, StatementKeeps

\* SELECT generation_tasks ... FOR UPDATE
LEMMA LockTaskKeeps ==
    ASSUME TxInv, NEW s \in Sessions, LockTask(s)
    PROVE  TxInv' /\ UNCHANGED ledgerVars
  <1> DEFINE t == tx[s].task
             r == [tx[s] EXCEPT !.pc = "read"]
  <1>1. /\ tx[s].pc = "lock_task" /\ taskLock[t] = Free /\ Exists(t)
        /\ taskLock' = [taskLock EXCEPT ![t] = s] /\ userLock' = userLock
        /\ UNCHANGED ledgerVars
    BY DEF LockTask, At, Tables
  <1>2. SessionInv(s) /\ tx[s] \in TxType /\ tx \in [Sessions -> TxType]
    BY SessionTypes DEF TxInv, TxTypeOK
  <1>3. t \in Tasks /\ tx[s].op = "fail"
    BY <1>1, <1>2 DEF SessionInv, Arguments, TxType, Ops
  <1>4. /\ r \in TxType /\ r.op = "fail" /\ r.user = tx[s].user /\ r.task = t
        /\ r.pc = "read"
    BY <1>2, <1>3 DEF TxType, Pcs
  <1>5. tx' = [tx EXCEPT ![s] = r]
    BY <1>2 DEF LockTask
  <1> HIDE DEF r
  <1>6. tx'[s] = r
    BY <1>2, <1>5
  <1> USE DEF SessionInv
  <1>7. HoldsLocks(s)'
    BY <1>1, <1>2, <1>3, <1>4, <1>6 DEF HoldsLocks, UserHolder, TaskHolder, TxInv, TxTypeOK
  <1>8. Arguments(s)' /\ FreshRow(s)' /\ WithinLimit(s)'
    BY <1>3, <1>4, <1>6 DEF Arguments, FreshRow, WithinLimit, UserHolder
  <1>9. Verdict(s)'
    BY <1>1, <1>4, <1>6 DEF Verdict, TaskHolder, ledgerVars, Exists
  <1> QED
    BY <1>1, <1>3, <1>4, <1>5, <1>7, <1>8, <1>9, StatementKeeps

\* SELECT count(*): what it saw may only shrink while the user's row is locked.
LEMMA CountRunningKeeps ==
    ASSUME TxInv, NEW s \in Sessions, CountRunning(s)
    PROVE  TxInv' /\ UNCHANGED ledgerVars
  <1> DEFINE r == [tx[s] EXCEPT !.pc = "write"]
  <1>1. /\ tx[s].pc = "count" /\ taskLock' = taskLock /\ userLock' = userLock
        /\ tx[s].row.concurrent_limit > 0 =>
              Cardinality(Running(tx[s].user)) < tx[s].row.concurrent_limit
        /\ UNCHANGED ledgerVars
    BY DEF CountRunning, At, Tables
  <1>2. /\ SessionInv(s) /\ tx[s] \in TxType /\ tx \in [Sessions -> TxType]
        /\ tx[s].row.concurrent_limit \in Nat
    BY SessionTypes DEF TxInv, TxTypeOK
  <1>3. tx[s].op = "reserve"
    BY <1>1, <1>2 DEF SessionInv, Arguments, TxType, Ops
  <1>4. /\ r \in TxType /\ r.op = "reserve" /\ r.user = tx[s].user /\ r.task = tx[s].task
        /\ r.amount = tx[s].amount /\ r.row = tx[s].row /\ r.pc = "write"
    BY <1>2, <1>3 DEF TxType, Pcs
  <1>5. tx' = [tx EXCEPT ![s] = r]
    BY <1>2 DEF CountRunning
  <1> HIDE DEF r
  <1>6. tx'[s] = r
    BY <1>2, <1>5
  <1> USE DEF SessionInv
  <1>7. HoldsLocks(s)' /\ Arguments(s)'
    BY <1>1, <1>2, <1>3, <1>4, <1>6 DEF HoldsLocks, UserHolder, TaskHolder, Arguments
  <1>8. FreshRow(s)' /\ Verdict(s)'
    BY <1>1, <1>2, <1>4, <1>6 DEF FreshRow, UserHolder, Verdict, TaskHolder, ledgerVars
  <1>9. WithinLimit(s)'
    <2>1. Running(tx[s].user)' = Running(tx[s].user)
      BY <1>1, <1>4, <1>6 DEF Running, ledgerVars
    <2> QED
      BY <1>1, <1>2, <1>4, <1>6, <2>1 DEF WithinLimit
  <1> QED
    BY <1>1, <1>4, <1>5, <1>7, <1>8, <1>9, StatementKeeps

\* A decision of FailTaskAndRefund that is right keeps the invariant.
LEMMA DecideKeeps ==
    ASSUME TxInv, NEW s \in Sessions, At(s, "read"), NEW pc, NEW u, NEW a,
           Decide(s, pc, u, a, "refunded", task[tx[s].task].cost),
           IF AlreadyRefunded(tx[s].task)
           THEN pc = "write" /\ u = NoUser /\ a = 0
           ELSE pc = "lock_user" /\ u = task[tx[s].task].user /\ u \in Users
                                 /\ a = task[tx[s].task].cost
    PROVE  TxInv' /\ UNCHANGED ledgerVars
  <1> DEFINE t == tx[s].task
             r == [tx[s] EXCEPT !.pc = pc, !.user = u, !.amount = a,
                                !.refund_status = "refunded",
                                !.refund_amount = task[tx[s].task].cost]
  <1>1. /\ tx[s].pc = "read" /\ taskLock' = taskLock /\ userLock' = userLock
        /\ UNCHANGED ledgerVars
    BY DEF Decide, At, Tables
  <1>2. SessionInv(s) /\ tx[s] \in TxType /\ tx \in [Sessions -> TxType]
    BY SessionTypes DEF TxInv, TxTypeOK
  <1>3. t \in Tasks /\ tx[s].op = "fail"
    BY <1>1, <1>2 DEF SessionInv, Arguments, TxType, Ops
  <1>4. task[t].cost \in Int
    BY <1>3 DEF TxInv, MoneyInv, LedgerTypeOK, TaskType
  <1>5. /\ r \in TxType /\ r.op = "fail" /\ r.user = u /\ r.task = t
        /\ r.amount = a /\ r.pc = pc
        /\ r.refund_status = "refunded" /\ r.refund_amount = task[t].cost
    <2> DEFINE U == Users \cup {NoUser}
               V == Tasks \cup {NoTask}
               N == Int
               c == task[t].cost
    <2>1. /\ u \in U /\ a \in N /\ c \in N /\ pc \in Pcs /\ "refunded" \in RefundStatuses
          /\ TxType = [op : Ops, pc : Pcs, user : U, task : V, amount : N,
                       row : AccountType, refund_status : RefundStatuses,
                       refund_amount : N]
      BY <1>4 DEF TxType, Pcs, RefundStatuses
    <2>2. r = [tx[s] EXCEPT !.pc = pc, !.user = u, !.amount = a,
                            !.refund_status = "refunded", !.refund_amount = c]
      OBVIOUS
    <2> HIDE DEF U, V, N, c, r
    <2>3. /\ r \in TxType /\ r.op = tx[s].op /\ r.user = u /\ r.task = tx[s].task
          /\ r.amount = a /\ r.pc = pc
          /\ r.refund_status = "refunded" /\ r.refund_amount = c
      BY <1>2, <2>1, <2>2
    <2> QED
      BY <1>3, <2>3 DEF c
  <1>6. tx' = [tx EXCEPT ![s] = r]
    BY <1>2 DEF Decide
  <1> HIDE DEF r
  <1>7. tx'[s] = r
    BY <1>2, <1>6
  <1> USE DEF SessionInv
  <1>8. HoldsLocks(s)' /\ Arguments(s)'
    BY <1>1, <1>2, <1>3, <1>5, <1>7, UsersAssumption
    DEF HoldsLocks, UserHolder, TaskHolder, Arguments
  <1>9. FreshRow(s)' /\ WithinLimit(s)'
    BY <1>5, <1>7, UsersAssumption DEF FreshRow, WithinLimit, UserHolder
  <1>10. Verdict(s)'
    <2>1. PICK x \in Tasks : x = t
      BY <1>3
    <2>2. Exists(x) /\ task' = task /\ (AlreadyRefunded(x)' <=> AlreadyRefunded(x))
      BY <1>1, <1>2, <1>3, <2>1 DEF Verdict, TaskHolder, ledgerVars, AlreadyRefunded, RowsOf
    <2>3. /\ r.user = u /\ r.task = x /\ r.amount = a
          /\ r.refund_status = "refunded" /\ r.refund_amount = task[x].cost
          /\ IF AlreadyRefunded(x) THEN u = NoUser ELSE u = task[x].user /\ a = task[x].cost
      BY <1>5, <2>1
    <2> QED
      BY <1>7, <2>2, <2>3 DEF Verdict, TaskHolder, Exists
  <1> QED
    BY <1>1, <1>5, <1>6, <1>8, <1>9, <1>10, StatementKeeps

LEMMA ReadKeeps ==
    ASSUME TxInv, NEW s \in Sessions, ReadSettled(s) \/ ReadRefunded(s) \/ ReadCharge(s)
    PROVE  TxInv' /\ UNCHANGED ledgerVars
  <1> DEFINE t == tx[s].task
  <1>1. At(s, "read") /\ SessionInv(s) /\ tx[s] \in TxType /\ MoneyInv
    BY SessionTypes DEF ReadSettled, ReadRefunded, ReadCharge, TxInv
  <1>2. t \in Tasks /\ Exists(t)
    BY <1>1 DEF SessionInv, Arguments, Verdict, TaskHolder, TxType, Ops, At
  <1> HIDE DEF t
  <1>3. CASE ReadSettled(s)
    <2>1. /\ AlreadyRefunded(t)
          /\ Decide(s, "write", NoUser, 0, "refunded", task[t].cost)
      BY <1>1, <1>2, <1>3, SettledIsRefunded DEF ReadSettled, t
    <2> QED
      BY <1>1, <2>1, DecideKeeps DEF t
  <1>4. CASE ReadRefunded(s)
    <2>1. AlreadyRefunded(t) /\ AmountAt(FirstRow(t, "refund")) = task[t].cost
      BY <1>1, <1>2, <1>4, RefundFound DEF ReadRefunded, t
    <2>2. PICK a : a = IF task[t].refund_amount = 0 THEN AmountAt(FirstRow(t, "refund"))
                                                   ELSE task[t].refund_amount
      OBVIOUS
    <2>3. a = task[t].cost
      BY <1>1, <1>2, <2>1, <2>2, SettledIsRefunded
    <2>4. Decide(s, "write", NoUser, 0, "refunded", a)
      BY <1>4, <2>2 DEF ReadRefunded, t
    <2> QED
      BY <1>1, <2>1, <2>3, <2>4, DecideKeeps DEF t
  <1>5. CASE ReadCharge(s)
    <2>1. ~AlreadyRefunded(t)
      BY <1>5 DEF ReadCharge, t
    <2>2. /\ RowsOf(t, "consume") # {}
          /\ FirstRow(t, "consume")[1] = task[t].user
          /\ -AmountAt(FirstRow(t, "consume")) = task[t].cost
          /\ task[t].user \in Users
      BY <1>1, <1>2, ChargeFound
    <2>3. Decide(s, "lock_user", task[t].user, task[t].cost, "refunded", task[t].cost)
      BY <1>5, <2>2 DEF ReadCharge, t
    <2> QED
      BY <1>1, <2>1, <2>2, <2>3, DecideKeeps DEF t
  <1> QED
    BY <1>3, <1>4, <1>5

-----------------------------------------------------------------------------
(* COMMIT: what a session writes is what the atomic step writes.           *)

\* A session about to save a user row holds its lock and has its current value.
LEMMA SavesFreshRow ==
    ASSUME TxInv, NEW s \in Sessions, NEW u \in Users, tx[s].user = u, tx[s].pc = "write"
    PROVE  /\ userLock[u] = s /\ tx[s].row = account[u] /\ account[u] \in AccountType
           /\ account[u].balance \in Int /\ account[u].total_topup \in Int
           /\ account[u].total_consumed \in Int
  <1>1. SessionInv(s)
    BY SessionTypes
  <1>2. account[u] \in AccountType
    BY DEF TxInv, MoneyInv, LedgerTypeOK
  <1>3. /\ account[u].balance \in Int /\ account[u].total_topup \in Int
        /\ account[u].total_consumed \in Int
    BY <1>2 DEF AccountType
  <1> QED
    BY <1>1, <1>2, <1>3 DEF SessionInv, HoldsLocks, FreshRow, UserHolder

\* Save and the ledger row, in the terms of CreditLedger: one row r at the end
\* of u's ledger, and the columns that go with it.
Posted(u, type, amount, t, topup, consumed) ==
    LET after == account[u].balance + amount
        r     == Row(type, amount, t, after)
    IN
    /\ consumed = 0 => account' = [account EXCEPT ![u].balance = after,
                                                  ![u].total_topup = @ + topup]
    /\ topup = 0 => account' = [account EXCEPT ![u].balance = after,
                                               ![u].total_consumed = @ + consumed]
    /\ ledger' = [ledger EXCEPT ![u] = Append(@, r)]
    /\ r \in RowType /\ r.task = t /\ r.type = type
    /\ \A v \in Users \ {u} : account'[v] = account[v]

LEMMA SaveIsPost ==
    ASSUME TxInv, NEW s \in Sessions, tx[s].user \in Users, tx[s].pc = "write",
           NEW type \in {"adjust", "consume", "refund"}, NEW amount \in Int,
           NEW topup \in Int, NEW consumed \in Int,
           SaveAndPost(s, type, amount, topup, consumed)
    PROVE  Posted(tx[s].user, type, amount, tx[s].task, topup, consumed)
  <1>u. PICK u \in Users : tx[s].user = u
    OBVIOUS
  <1>r. PICK t, after, r : /\ tx[s].task = t
                           /\ after = account[u].balance + amount
                           /\ r = Row(type, amount, t, after)
    OBVIOUS
  <1>0. /\ tx[s].user = u /\ tx[s].task = t
        /\ after = account[u].balance + amount
        /\ r = Row(type, amount, t, after)
    BY <1>u, <1>r
  <1>1. /\ tx[s].row = account[u] /\ account[u] \in AccountType
        /\ account[u].total_topup \in Int /\ account[u].total_consumed \in Int
        /\ after \in Int
    BY <1>0, SavesFreshRow
  <1>2. account \in [Users -> AccountType]
    BY DEF TxInv, MoneyInv, LedgerTypeOK
  <1>3. PICK tt \in Int, tc \in Int : /\ tt = account[u].total_topup + topup
                                      /\ tc = account[u].total_consumed + consumed
    BY <1>1
  <1>4. /\ account' = [account EXCEPT ![u] = [account[u] EXCEPT !.balance = after,
                                                !.total_topup = tt, !.total_consumed = tc]]
        /\ ledger' = [ledger EXCEPT ![u] = Append(@, r)]
    BY <1>0, <1>1, <1>3 DEF SaveAndPost
  <1>5. ASSUME consumed = 0
        PROVE  account' = [account EXCEPT ![u].balance = after,
                                          ![u].total_topup = @ + topup]
    <2>1. tc = account[u].total_consumed
      BY <1>1, <1>3, <1>5
    <2>2. [account[u] EXCEPT !.balance = after, !.total_topup = tt, !.total_consumed = tc]
            = [account[u] EXCEPT !.balance = after, !.total_topup = tt]
      BY <1>1, <2>1 DEF AccountType
    <2>3. [account EXCEPT ![u].balance = after, ![u].total_topup = tt]
            = [account EXCEPT ![u] = [account[u] EXCEPT !.balance = after, !.total_topup = tt]]
      BY <1>1, <1>2
    <2> QED
      BY <1>1, <1>2, <1>3, <1>4, <2>2, <2>3
  <1>6. ASSUME topup = 0
        PROVE  account' = [account EXCEPT ![u].balance = after,
                                          ![u].total_consumed = @ + consumed]
    <2>1. tt = account[u].total_topup
      BY <1>1, <1>3, <1>6
    <2>2. [account[u] EXCEPT !.balance = after, !.total_topup = tt, !.total_consumed = tc]
            = [account[u] EXCEPT !.balance = after, !.total_consumed = tc]
      BY <1>1, <2>1 DEF AccountType
    <2>3. [account EXCEPT ![u].balance = after, ![u].total_consumed = tc]
            = [account EXCEPT ![u] = [account[u] EXCEPT !.balance = after, !.total_consumed = tc]]
      BY <1>1, <1>2
    <2> QED
      BY <1>1, <1>2, <1>3, <1>4, <2>2, <2>3
  <1>7. t \in Tasks \cup {NoTask}
    BY <1>0, SessionTypes DEF TxType
  <1>8. r \in RowType /\ r.task = t /\ r.type = type
    BY <1>0, <1>1, <1>7 DEF Row, RowType
  <1>9. \A v \in Users \ {u} : account'[v] = account[v]
    BY <1>2, <1>4
  <1> QED
    BY <1>0, <1>4, <1>5, <1>6, <1>8, <1>9 DEF Posted

\* A step of the ledger keeps its invariant.
LEMMA MoneyKept ==
    ASSUME TxInv, LedgerNext
    PROVE  MoneyInv'
    BY MoneyNext DEF TxInv

\* A task that no longer runs, or is written by another user's transaction,
\* adds nothing to what runs for a user.
LEMMA RunningShrinks ==
    ASSUME NEW u \in Users, NEW t \in Tasks,
           \A x \in Tasks \ {t} : task'[x] = task[x],
           task'[t].user # u \/ task'[t].status # "running"
    PROVE  Running(u)' \subseteq Running(u)
    BY DEF Running

LEMMA RunningFinite ==
    ASSUME TxInv, NEW u \in Users, NEW t \in Tasks, \A x \in Tasks \ {t} : task'[x] = task[x]
    PROVE  IsFiniteSet(Running(u)')
  <1>1. IsFiniteSet(Running(u) \cup {t})
    BY FS_AddElement DEF TxInv
  <1>2. Running(u)' \subseteq Running(u) \cup {t}
    BY DEF Running
  <1> QED
    BY <1>1, <1>2, FS_Subset

LEMMA CommitAdjustKeeps ==
    ASSUME TxInv, NEW s \in Sessions, CommitAdjust(s)
    PROVE  TxInv' /\ LedgerNext
  <1>0. account \in [Users -> AccountType]
    BY DEF TxInv, MoneyInv, LedgerTypeOK
  <1>1. /\ tx[s].pc = "write" /\ tx[s].op = "adjust" /\ SessionInv(s)
        /\ Release(s) /\ task' = task
    BY SessionTypes DEF CommitAdjust, At, Runs
  <1>2. PICK u \in Users, a \in Amounts :
           u = tx[s].user /\ a = tx[s].amount /\ a # 0 /\ tx[s].task = NoTask
    BY <1>1 DEF SessionInv, Arguments
  <1>3. PICK topup \in Int : topup = IF a > 0 THEN a ELSE 0
    BY AmountsAssumption
  <1>4. SaveAndPost(s, "adjust", a, topup, 0) /\ a \in Int
    BY <1>2, <1>3, AmountsAssumption DEF CommitAdjust
  <1> DEFINE after == account[u].balance + a
             r     == Row("adjust", a, NoTask, after)
  <1>5. /\ userLock[u] = s /\ tx[s].row = account[u] /\ account[u] \in AccountType
    BY <1>1, <1>2, SavesFreshRow
  <1>6. /\ account' = [account EXCEPT ![u].balance = after, ![u].total_topup = @ + topup]
        /\ ledger' = [ledger EXCEPT ![u] = Append(@, r)]
        /\ r \in RowType /\ r.type = "adjust"
        /\ \A v \in Users \ {u} : account'[v] = account[v]
    <2>1. Posted(u, "adjust", a, NoTask, topup, 0)
      <3>1. tx[s].user \in Users /\ tx[s].pc = "write"
        BY <1>1, <1>2
      <3>2. Posted(tx[s].user, "adjust", a, tx[s].task, topup, 0)
        BY <1>4, <3>1, SaveIsPost
      <3> QED
        BY <1>2, <3>2
    <2> QED
      BY <2>1 DEF Posted
  <1>7. account' = [account EXCEPT ![u].balance = after,
                                   ![u].total_topup = IF a > 0 THEN @ + a ELSE @]
    <2>1. account[u].total_topup + 0 = account[u].total_topup
      BY <1>5 DEF AccountType
    <2>2. CASE a > 0
      BY <1>3, <1>6, <2>2
    <2>3. CASE ~(a > 0)
      <3>1. topup = 0
        BY <1>3, <2>3
      <3>2. account[u].total_topup + topup = account[u].total_topup
        BY <2>1, <3>1
      <3> QED
        BY <1>6, <2>3, <3>2, <1>0
    <2> QED
      BY <2>2, <2>3
  <1>8. Adjust(u, a)
    BY <1>1, <1>2, <1>5, <1>6, <1>7 DEF CommitAdjust, Adjust
  <1>9. LedgerNext
    BY <1>8 DEF LedgerNext
  <1>10. \A v \in Users : Running(v)' = Running(v) /\ IsFiniteSet(Running(v)')
    BY <1>1 DEF Running, TxInv
  <1>11. \A t \in Tasks : AlreadyRefunded(t)' <=> AlreadyRefunded(t)
    BY <1>6, RefundsOfOthers DEF TxInv
  <1> QED
    BY <1>1, <1>5, <1>6, <1>9, <1>10, <1>11, MoneyKept, EndKeeps

LEMMA CommitReserveKeeps ==
    ASSUME TxInv, NEW s \in Sessions, CommitReserve(s)
    PROVE  TxInv' /\ LedgerNext
  <1>1. /\ tx[s].pc = "write" /\ tx[s].op = "reserve" /\ SessionInv(s) /\ Release(s)
    BY SessionTypes DEF CommitReserve, At, Runs
  <1>2. PICK u \in Users, t \in Tasks, c \in Costs :
           u = tx[s].user /\ t = tx[s].task /\ c = tx[s].amount /\ c > 0
    BY <1>1 DEF SessionInv, Arguments
  <1>3. /\ SaveAndPost(s, "consume", -c, 0, c) /\ c \in Int /\ -c \in Int
        /\ ~Exists(t) /\ tx[s].row.balance >= c
        /\ task' = [task EXCEPT ![t] = [status |-> "running", user |-> u, cost |-> c,
                                       refund_status |-> "none", refund_amount |-> 0]]
    BY <1>2, CostsAssumption DEF CommitReserve
  <1> DEFINE after == account[u].balance + -c
             r     == Row("consume", -c, t, after)
  <1>4. /\ userLock[u] = s /\ tx[s].row = account[u] /\ account[u] \in AccountType
    BY <1>1, <1>2, SavesFreshRow
  <1>5. /\ account' = [account EXCEPT ![u].balance = after, ![u].total_consumed = @ + c]
        /\ ledger' = [ledger EXCEPT ![u] = Append(@, r)]
        /\ r \in RowType /\ r.type = "consume"
        /\ \A v \in Users \ {u} : account'[v] = account[v]
    <2>1. Posted(u, "consume", -c, t, 0, c)
      BY <1>1, <1>2, <1>3, SaveIsPost
    <2> QED
      BY <2>1 DEF Posted
  <1>6. Post(u, "consume", -c, t, c)
    BY <1>5 DEF Post
  <1>7. Admits(u)
    BY <1>1, <1>2, <1>4 DEF SessionInv, WithinLimit, Admits
  <1>8. ReserveAndCreateTask(t, u, c)
    BY <1>2, <1>3, <1>4, <1>6, <1>7 DEF ReserveAndCreateTask, Affords
  <1>9. LedgerNext
    BY <1>8 DEF LedgerNext
  <1>10. /\ task'[t].user = u
         /\ \A x \in Tasks \ {t} : task'[x] = task[x]
    BY <1>3 DEF TxInv, MoneyInv, LedgerTypeOK
  <1>11. \A v \in Users : /\ IsFiniteSet(Running(v)')
                          /\ v # u => Running(v)' \subseteq Running(v)
    BY <1>10, RunningShrinks, RunningFinite
  <1>12. \A x \in Tasks : AlreadyRefunded(x)' <=> AlreadyRefunded(x)
    BY <1>5, RefundsOfOthers DEF TxInv
  <1> QED
    BY <1>1, <1>3, <1>4, <1>5, <1>9, <1>10, <1>11, <1>12, MoneyKept, EndKeeps

LEMMA CommitFailKeeps ==
    ASSUME TxInv, NEW s \in Sessions, CommitFail(s)
    PROVE  TxInv' /\ LedgerNext
  <1>1. /\ tx[s].pc = "write" /\ tx[s].op = "fail" /\ SessionInv(s) /\ Release(s)
        /\ MoneyInv
    BY SessionTypes DEF CommitFail, At, Runs, TxInv
  <1>2. PICK t \in Tasks : t = tx[s].task
    BY <1>1 DEF SessionInv, Arguments
  <1>3. /\ taskLock[t] = s /\ Exists(t)
        /\ tx[s].refund_status = "refunded" /\ tx[s].refund_amount = task[t].cost
        /\ IF AlreadyRefunded(t) THEN tx[s].user = NoUser
                                 ELSE tx[s].user = task[t].user /\ tx[s].amount = task[t].cost
    BY <1>1, <1>2 DEF SessionInv, HoldsLocks, Verdict, TaskHolder
  <1>4. MarkFailed(t, "refunded", task[t].cost)
    BY <1>2, <1>3 DEF CommitFail
  <1>5. /\ RowsOf(t, "consume") # {}
        /\ FirstRow(t, "consume")[1] = task[t].user
        /\ -AmountAt(FirstRow(t, "consume")) = task[t].cost
        /\ task[t].user \in Users /\ task[t].cost \in Nat
    BY <1>1, <1>3, ChargeFound
  <1>6. /\ \A x \in Tasks \ {t} : task'[x] = task[x]
        /\ task'[t].status # "running"
    BY <1>1, <1>4 DEF MarkFailed, MoneyInv, LedgerTypeOK, TaskType
  <1>7. \A v \in Users : IsFiniteSet(Running(v)') /\ Running(v)' \subseteq Running(v)
    BY <1>6, RunningShrinks, RunningFinite
  <1>8. CASE AlreadyRefunded(t)
    <2>1. UNCHANGED <<account, ledger>>
      BY <1>3, <1>8 DEF CommitFail
    <2>2. FailTaskAndRefund(t)
      <3>1. CASE Settled(t)
        <4>1. task[t].refund_status = "refunded" /\ task[t].refund_amount = task[t].cost
          BY <1>1, <3>1, SettledIsRefunded
        <4> QED
          BY <1>3, <1>4, <2>1, <4>1 DEF FailTaskAndRefund, FailSettled
      <3>2. CASE ~Settled(t)
        <4>1. task[t].refund_status \in {"none", "refund_failed"}
          BY <1>1, <3>2, SettledIsRefunded DEF Settled, RefundStatuses
        <4>2. PICK a : a = IF task[t].refund_amount = 0
                           THEN AmountAt(FirstRow(t, "refund")) ELSE task[t].refund_amount
          OBVIOUS
        <4>3. a = task[t].cost
          BY <1>1, <1>8, <4>2, SettledIsRefunded, RefundFound
        <4> QED
          BY <1>3, <1>4, <1>8, <2>1, <4>1, <4>2, <4>3
          DEF FailTaskAndRefund, FailAlreadyRefunded
      <3> QED
        BY <3>1, <3>2
    <2>3. LedgerNext
      BY <2>2 DEF LedgerNext
    <2>4. \A x \in Tasks : AlreadyRefunded(x)' <=> AlreadyRefunded(x)
      BY <2>1 DEF AlreadyRefunded, RowsOf
    <2> QED
      BY <1>1, <1>3, <1>6, <1>7, <2>1, <2>3, <2>4, MoneyKept, EndKeeps
  <1>9. CASE ~AlreadyRefunded(t)
    <2>1. PICK u \in Users, c \in Nat : u = task[t].user /\ c = task[t].cost
      BY <1>5
    <2>2. /\ tx[s].user = u /\ u # NoUser /\ tx[s].amount = c
          /\ SaveAndPost(s, "refund", c, 0, -c) /\ c \in Int /\ -c \in Int
      BY <1>3, <1>9, <2>1, UsersAssumption DEF CommitFail
    <2> DEFINE after == account[u].balance + c
               r     == Row("refund", c, t, after)
    <2>3. /\ userLock[u] = s /\ account[u] \in AccountType
      BY <1>1, <2>2, SavesFreshRow
    <2>4. /\ account' = [account EXCEPT ![u].balance = after, ![u].total_consumed = @ + -c]
          /\ ledger' = [ledger EXCEPT ![u] = Append(@, r)]
          /\ r \in RowType /\ r.task = t
          /\ \A v \in Users \ {u} : account'[v] = account[v]
      <3> HIDE DEF after, r
      <3>m. PICK m \in Int : m = -c
        BY <2>2
      <3>s. /\ tx[s].user \in Users /\ tx[s].pc = "write" /\ tx[s].task = t
            /\ SaveAndPost(s, "refund", c, 0, m)
        BY <1>1, <1>2, <2>2, <3>m
      <3>p. Posted(tx[s].user, "refund", c, tx[s].task, 0, m)
        BY <2>2, <3>s, SaveIsPost
      <3>1. Posted(u, "refund", c, t, 0, -c)
        BY <2>2, <3>m, <3>s, <3>p
      <3> USE DEF after, r
      <3> QED
        BY <3>1 DEF Posted
    <2>5. Post(u, "refund", c, t, -c)
      BY <2>4 DEF Post
    <2>6. FailTaskAndRefund(t)
      <3>1. ~Settled(t) /\ task[t].refund_status \in RefundStatuses
        BY <1>1, <1>9, SettledIsRefunded
      <3>2. task[t].refund_status \in {"none", "refund_failed"}
        BY <3>1 DEF Settled, RefundStatuses
      <3>3. /\ FirstRow(t, "consume")[1] = u /\ -AmountAt(FirstRow(t, "consume")) = c
            /\ MarkFailed(t, "refunded", c)
        BY <1>4, <1>5, <2>1
      <3> QED
        BY <1>3, <1>5, <1>9, <2>5, <3>2, <3>3 DEF FailTaskAndRefund, FailAndRefund
    <2>7. LedgerNext
      BY <2>6 DEF LedgerNext
    <2>8. \A x \in Tasks \ {t} : AlreadyRefunded(x)' <=> AlreadyRefunded(x)
      BY <1>1, <2>4, RefundsOfOthers
    <2> QED
      BY <1>1, <1>3, <1>6, <1>7, <2>3, <2>4, <2>7, <2>8, MoneyKept, EndKeeps
  <1> QED
    BY <1>8, <1>9

-----------------------------------------------------------------------------
(* ROLLBACK, single UPDATEs, and all steps together.                       *)

LEMMA RollbackKeeps ==
    ASSUME TxInv, NEW s \in Sessions, Rollback(s)
    PROVE  TxInv' /\ UNCHANGED ledgerVars
  <1>1. /\ Release(s) /\ UNCHANGED ledgerVars
        /\ account' = account /\ task' = task /\ ledger' = ledger
    BY DEF Rollback, Tables, ledgerVars
  <1>2. MoneyInv'
    BY <1>1, MoneyStutter DEF TxInv
  <1>3. \A u \in Users : Running(u)' = Running(u) /\ IsFiniteSet(Running(u)')
    BY <1>1 DEF Running, TxInv
  <1>4. \A t \in Tasks : AlreadyRefunded(t)' <=> AlreadyRefunded(t)
    BY <1>1 DEF AlreadyRefunded, RowsOf
  <1> QED
    BY <1>1, <1>2, <1>3, <1>4, EndKeeps

\* An UPDATE outside a transaction writes a row nobody has locked.
LEMMA UpdateKeeps ==
    ASSUME TxInv, LedgerNext, UNCHANGED <<tx, userLock, taskLock>>, ledger' = ledger,
           \A u \in Users : userLock[u] # Free => account'[u] = account[u],
           \A u \in Users : Running(u)' \subseteq Running(u) /\ IsFiniteSet(Running(u)'),
           \A t \in Tasks : taskLock[t] # Free => task'[t] = task[t]
    PROVE  TxInv'
  <1>1. MoneyInv'
    BY MoneyKept
  <1>2. TxTypeOK'
    BY DEF TxInv, TxTypeOK
  <1>3. \A t \in Tasks : AlreadyRefunded(t)' <=> AlreadyRefunded(t)
    BY DEF AlreadyRefunded, RowsOf
  <1>4. ASSUME NEW s \in Sessions PROVE SessionInv(s)'
    <2>1. /\ \A u \in Users : userLock[u] = s => account'[u] = account[u]
          /\ \A t \in Tasks : taskLock[t] = s => task'[t] = task[t]
      BY SessionsAssumption
    <2> QED
      BY <1>3, <2>1, SessionTypes, SessionFrame
  <1> QED
    BY <1>1, <1>2, <1>4 DEF TxInv

LEMMA SingleUpdatesKeep ==
    ASSUME TxInv,
           \/ \E u \in Users, l \in Limits : UpdateLimit(u, l)
           \/ \E t \in Tasks : UpdateForceFail(t) \/ UpdateSucceeded(t)
    PROVE  TxInv' /\ LedgerNext
  <1>1. /\ account \in [Users -> AccountType] /\ task \in [Tasks -> TaskType]
        /\ \A u \in Users : IsFiniteSet(Running(u))
    BY DEF TxInv, MoneyInv, LedgerTypeOK
  <1>2. ASSUME NEW u \in Users, NEW l \in Limits, UpdateLimit(u, l)
        PROVE  TxInv' /\ LedgerNext
    <2>1. /\ SetConcurrentLimit(u, l) /\ userLock[u] = Free
          /\ UNCHANGED <<tx, userLock, taskLock, ledger, task>>
      BY <1>2 DEF UpdateLimit, SetConcurrentLimit
    <2>2. LedgerNext
      BY <2>1 DEF LedgerNext
    <2>3. \A v \in Users \ {u} : account'[v] = account[v]
      BY <1>1, <2>1 DEF SetConcurrentLimit
    <2>4. \A v \in Users : Running(v)' = Running(v)
      BY <2>1 DEF Running
    <2> QED
      BY <1>1, <2>1, <2>2, <2>3, <2>4, UpdateKeeps
  <1>3. ASSUME NEW t \in Tasks, UpdateForceFail(t) \/ UpdateSucceeded(t)
        PROVE  TxInv' /\ LedgerNext
    <2>1. /\ ForceFail(t) \/ MarkSucceeded(t)
          /\ taskLock[t] = Free /\ UNCHANGED <<tx, userLock, taskLock, ledger, account>>
      BY <1>3 DEF UpdateForceFail, UpdateSucceeded, ForceFail, MarkSucceeded
    <2>2. LedgerNext
      BY <2>1 DEF LedgerNext
    <2>3. \A x \in Tasks \ {t} : task'[x] = task[x]
      BY <1>1, <2>1 DEF ForceFail, MarkFailed, MarkSucceeded
    <2>4. task'[t].status # "running"
      BY <1>1, <2>1 DEF ForceFail, MarkFailed, MarkSucceeded, TaskType
    <2>5. \A v \in Users : Running(v)' \subseteq Running(v) /\ IsFiniteSet(Running(v)')
      BY <2>3, <2>4, RunningShrinks, RunningFinite
    <2> QED
      BY <2>1, <2>2, <2>3, <2>5, UpdateKeeps
  <1> QED
    BY <1>2, <1>3

LEMMA TxInvInit == TxInit => TxInv
  <1> SUFFICES ASSUME TxInit PROVE TxInv
    OBVIOUS
  <1>1. /\ LedgerInit /\ tx = [s \in Sessions |-> Closed]
        /\ userLock = [u \in Users |-> Free] /\ taskLock = [t \in Tasks |-> Free]
    BY DEF TxInit
  <1>2. MoneyInv
    BY <1>1, MoneyInit
  <1>3. TxTypeOK
    BY <1>1, ClosedType DEF TxTypeOK
  <1>4. ASSUME NEW u \in Users PROVE IsFiniteSet(Running(u))
    <2>1. Running(u) = {}
      BY <1>1 DEF Running, LedgerInit, Absent
    <2> QED
      BY <2>1, FS_EmptySet
  <1>5. ASSUME NEW s \in Sessions PROVE SessionInv(s)
    <2>1. tx[s].op = "none" /\ tx[s].pc = "closed"
      BY <1>1 DEF Closed
    <2> QED
      BY <1>1, <2>1, SessionsAssumption
      DEF SessionInv, HoldsLocks, UserHolder, TaskHolder, Arguments, FreshRow,
          WithinLimit, Verdict
  <1> QED
    BY <1>2, <1>3, <1>4, <1>5 DEF TxInv

LEMMA TxInvNext ==
    TxInv /\ [TxNext]_txVars => TxInv' /\ [LedgerNext]_ledgerVars
  <1> SUFFICES ASSUME TxInv, [TxNext]_txVars
               PROVE  TxInv' /\ [LedgerNext]_ledgerVars
    OBVIOUS
  <1>1. ASSUME NEW s \in Sessions, BeginAny(s) \/ Statement(s) \/ Rollback(s)
        PROVE  TxInv' /\ (LedgerNext \/ UNCHANGED ledgerVars)
    BY <1>1, BeginKeeps, LockUserKeeps, LockTaskKeeps, CountRunningKeeps, ReadKeeps,
       CommitAdjustKeeps, CommitReserveKeeps, CommitFailKeeps, RollbackKeeps
    DEF Statement
  <1>2. ASSUME \/ \E u \in Users, l \in Limits : UpdateLimit(u, l)
               \/ \E t \in Tasks : UpdateForceFail(t) \/ UpdateSucceeded(t)
        PROVE  TxInv' /\ LedgerNext
    BY <1>2, SingleUpdatesKeep
  <1>3. CASE UNCHANGED txVars
    <2>1. /\ UNCHANGED ledgerVars /\ UNCHANGED <<tx, userLock, taskLock>>
          /\ account' = account /\ ledger' = ledger /\ task' = task
      BY <1>3 DEF txVars, ledgerVars
    <2>2. MoneyInv' /\ TxTypeOK'
      BY <2>1, MoneyStutter DEF TxInv, TxTypeOK
    <2>3. \A u \in Users : Running(u)' = Running(u)
      BY <2>1 DEF Running
    <2>4. \A t \in Tasks : AlreadyRefunded(t)' <=> AlreadyRefunded(t)
      BY <2>1 DEF AlreadyRefunded, RowsOf
    <2>5. \A s \in Sessions : SessionInv(s)'
      BY <2>1, <2>3, <2>4, SessionTypes, SessionFrame
    <2> QED
      BY <2>1, <2>2, <2>3, <2>5 DEF TxInv
  <1> QED
    BY <1>1, <1>2, <1>3 DEF TxNext

-----------------------------------------------------------------------------
(* The theorems.                                                           *)

\* Between any two statements of any sessions, locks, copies, counts and
\* decisions agree with the tables.
THEOREM TxInvariant == TxSpec => []TxInv
  BY TxInvInit, TxInvNext, PTL DEF TxSpec

\* However the statements of the transactions of credit.go interleave, and
\* whichever of them roll back, together they do what CreditLedger does in
\* single steps: no balance is lost by a Save, no charge or limit is judged on
\* an old row, no refund is decided twice.
THEOREM LocksMakeAtomic == TxSpec => TakesLedgerSteps
  <1>1. TxInit => LedgerInit
    BY DEF TxInit
  <1> QED
    BY <1>1, TxInvInit, TxInvNext, PTL DEF TxSpec, TakesLedgerSteps, LedgerSpec

\* So what CreditLedgerProofs shows of the transactions holds of sessions.
THEOREM TxMoney ==
    TxSpec => [](LedgerChained /\ ChargedExactlyOnce /\ RefundedAtMostOnce)
  <1>1. TxInv => LedgerChained /\ ChargedExactlyOnce /\ RefundedAtMostOnce
    BY MoneyInvImplies DEF TxInv, MoneyInv
  <1> QED
    BY <1>1, TxInvariant, PTL

\* However many sessions there are, no set of them is deadlocked: who waits for
\* a user row waits for a session that waits for nobody, and who waits for a
\* task row waits for one that at most waits for a user row.
THEOREM NoDeadlock == TxSpec => []NoCircularWait
  <1>1. ASSUME TxInv PROVE NoCircularWait
    <2> SUFFICES ASSUME NEW blocked \in (SUBSET Sessions) \ {{}},
                        \A s \in blocked : WaitsFor(s) \in blocked
                 PROVE  FALSE
      BY DEF NoCircularWait
    <2>1. \A s \in blocked : /\ s \in Sessions /\ SessionInv(s) /\ tx[s] \in TxType
                             /\ WaitsFor(s) # Free
      BY <1>1, SessionTypes, SessionsAssumption
    <2>2. ASSUME NEW a \in blocked
          PROVE  LET b == WaitsFor(a) IN
                 \/ tx[b].pc \in {"count", "write"}
                 \/ tx[a].pc = "lock_task" /\ tx[b].pc \in {"read", "lock_user", "write"}
      <3> DEFINE b == WaitsFor(a)
      <3>1. /\ SessionInv(a) /\ SessionInv(b) /\ tx[a] \in TxType /\ b # Free
            /\ b \in Sessions
        BY <2>1
      <3>2. CASE tx[a].pc = "lock_user"
        <4>1. tx[a].user \in Users /\ userLock[tx[a].user] = b
          BY <3>1, <3>2 DEF WaitsFor, At, SessionInv, Arguments, TxType, Ops
        <4> QED
          BY <3>1, <4>1 DEF SessionInv, HoldsLocks, UserHolder
      <3>3. CASE tx[a].pc = "lock_task"
        <4>1. tx[a].task \in Tasks /\ taskLock[tx[a].task] = b
          BY <3>1, <3>3 DEF WaitsFor, At, SessionInv, Arguments, TxType, Ops
        <4> QED
          BY <3>1, <3>3, <4>1 DEF SessionInv, HoldsLocks, TaskHolder
      <3> QED
        BY <3>1, <3>2, <3>3 DEF WaitsFor, At
    <2>3. \A s \in blocked : tx[s].pc \in {"lock_user", "lock_task"}
      BY <2>1 DEF WaitsFor, At
    <2>4. PICK s \in blocked : TRUE
      OBVIOUS
    <2>5. tx[WaitsFor(s)].pc = "lock_user" /\ WaitsFor(s) \in blocked
      BY <2>2, <2>3
    <2> QED
      BY <2>2, <2>3, <2>5
  <1> QED
    BY <1>1, TxInvariant, PTL
=============================================================================
