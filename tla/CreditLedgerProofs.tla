------------------------- MODULE CreditLedgerProofs -------------------------
(***************************************************************************)
(* Proofs about CreditLedger for any users, tasks, prices, adjustments and *)
(* bounds: the safety invariants of the ledger are inductive together.    *)
(***************************************************************************)
EXTENDS CreditLedger, TLAPS

-----------------------------------------------------------------------------
(* The ledger rows that name a task, and what one more row does to them.   *)

\* Membership in RowsIn, spelled out.
LEMMA RowsInMember ==
    ASSUME NEW l, NEW t, NEW type, NEW p
    PROVE  p \in RowsIn(l, t, type) <=>
             \E u \in Users : \E i \in DOMAIN l[u] :
                p = <<u, i>> /\ l[u][i].task = t /\ l[u][i].type = type
    BY DEF RowsIn

\* A row that is the only one of its kind is the first one.
LEMMA OnlyRowIsFirst ==
    ASSUME NEW t, NEW type, NEW p, RowsOf(t, type) = {p}, p[2] \in Nat
    PROVE  FirstRow(t, type) = p
    BY DEF FirstRow

\* m is l with one more row at the end of u's ledger.
Appended(l, m, u, r) == m = [l EXCEPT ![u] = Append(@, r)]

\* What that does to the ledgers.
LEMMA AppendLedger ==
    ASSUME NEW l \in [Users -> Seq(RowType)], NEW u \in Users, NEW r \in RowType,
           NEW m, Appended(l, m, u, r)
    PROVE  /\ m \in [Users -> Seq(RowType)]
           /\ DOMAIN m[u] = DOMAIN l[u] \cup {Len(l[u]) + 1}
           /\ Len(l[u]) + 1 \notin DOMAIN l[u]
           /\ Len(l[u]) + 1 \in Nat
           /\ m[u][Len(l[u]) + 1] = r
           /\ \A i \in DOMAIN l[u] : i \in Nat /\ i < Len(l[u]) + 1
           /\ \A v \in Users : \A i \in DOMAIN l[v] :
                 i \in DOMAIN m[v] /\ m[v][i] = l[v][i]
           /\ \A v \in Users \ {u} : m[v] = l[v]
  <1>1. l[u] \in Seq(RowType) /\ m[u] = Append(l[u], r)
    BY DEF Appended
  <1>2. /\ Append(l[u], r) \in Seq(RowType)
        /\ DOMAIN l[u] = 1..Len(l[u])
        /\ DOMAIN Append(l[u], r) = 1..(Len(l[u]) + 1)
        /\ Len(l[u]) \in Nat
        /\ Append(l[u], r)[Len(l[u]) + 1] = r
        /\ \A i \in 1..Len(l[u]) : Append(l[u], r)[i] = l[u][i]
    BY <1>1
  <1> QED
    BY <1>1, <1>2 DEF Appended

\* A row of task t is added to t's rows of its type.
LEMMA AppendOwn ==
    ASSUME NEW l \in [Users -> Seq(RowType)], NEW u \in Users, NEW r \in RowType,
           NEW m, Appended(l, m, u, r),
           NEW t, NEW type, r.task = t, r.type = type
    PROVE  RowsIn(m, t, type) = RowsIn(l, t, type) \cup {<<u, Len(l[u]) + 1>>}
  <1> DEFINE n == Len(l[u]) + 1
  <1>1. /\ DOMAIN m[u] = DOMAIN l[u] \cup {n}
        /\ n \notin DOMAIN l[u]
        /\ m[u][n] = r
        /\ \A v \in Users : \A i \in DOMAIN l[v] : i \in DOMAIN m[v] /\ m[v][i] = l[v][i]
        /\ \A v \in Users \ {u} : m[v] = l[v]
    BY AppendLedger
  <1> HIDE DEF n
  <1>2. ASSUME NEW p
        PROVE  p \in RowsIn(m, t, type) <=> p \in RowsIn(l, t, type) \/ p = <<u, n>>
    <2>1. p \in RowsIn(m, t, type) <=>
             \E v \in Users : \E i \in DOMAIN m[v] :
                p = <<v, i>> /\ m[v][i].task = t /\ m[v][i].type = type
      BY RowsInMember
    <2>2. p \in RowsIn(l, t, type) <=>
             \E v \in Users : \E i \in DOMAIN l[v] :
                p = <<v, i>> /\ l[v][i].task = t /\ l[v][i].type = type
      BY RowsInMember
    <2> QED
      BY <1>1, <2>1, <2>2
  <1>3. RowsIn(m, t, type) = RowsIn(l, t, type) \cup {<<u, n>>}
    BY <1>2
  <1> QED
    BY <1>3 DEF n

\* A row of another task or of another type changes none of them.
LEMMA AppendOther ==
    ASSUME NEW l \in [Users -> Seq(RowType)], NEW u \in Users, NEW r \in RowType,
           NEW m, Appended(l, m, u, r),
           NEW t, NEW type, r.task # t \/ r.type # type
    PROVE  RowsIn(m, t, type) = RowsIn(l, t, type)
  <1>1. /\ DOMAIN m[u] = DOMAIN l[u] \cup {Len(l[u]) + 1}
        /\ m[u][Len(l[u]) + 1] = r
        /\ \A v \in Users : \A i \in DOMAIN l[v] : i \in DOMAIN m[v] /\ m[v][i] = l[v][i]
        /\ \A v \in Users \ {u} : m[v] = l[v]
    BY AppendLedger
  <1>2. ASSUME NEW p
        PROVE  p \in RowsIn(m, t, type) <=> p \in RowsIn(l, t, type)
    <2>1. p \in RowsIn(m, t, type) <=>
             \E v \in Users : \E i \in DOMAIN m[v] :
                p = <<v, i>> /\ m[v][i].task = t /\ m[v][i].type = type
      BY RowsInMember
    <2>2. p \in RowsIn(l, t, type) <=>
             \E v \in Users : \E i \in DOMAIN l[v] :
                p = <<v, i>> /\ l[v][i].task = t /\ l[v][i].type = type
      BY RowsInMember
    <2> QED
      BY <1>1, <2>1, <2>2
  <1>3. RowsIn(m, t, type) \subseteq RowsIn(l, t, type)
    BY <1>2
  <1>4. RowsIn(l, t, type) \subseteq RowsIn(m, t, type)
    BY <1>2
  <1> QED
    BY <1>3, <1>4

-----------------------------------------------------------------------------
(* The inductive invariant.  What it says of one task, beside the three    *)
(* invariants of CreditLedger about charges and refunds: an existing task  *)
(* has an owner and a price, and a refund amount on its row is zero or     *)
(* backed by the ledger.  The last part is what keeps a row honest that    *)
(* FailAlreadyRefunded repairs after a forced failure.                     *)

Owned(t) == Exists(t) => task[t].user \in Users /\ task[t].cost > 0

Charged(t) ==
    /\ ~Exists(t) => RowsOf(t, "consume") = {} /\ RowsOf(t, "refund") = {}
    /\ Exists(t) => \E i \in DOMAIN ledger[task[t].user] :
                        /\ RowsOf(t, "consume") = {<<task[t].user, i>>}
                        /\ AmountAt(<<task[t].user, i>>) = -task[t].cost

RefundedOnce(t) ==
    \A p, q \in RowsOf(t, "refund") :
        /\ p = q
        /\ p[1] = task[t].user
        /\ AmountAt(p) = task[t].cost
        /\ \E c \in RowsOf(t, "consume") : c[1] = p[1] /\ c[2] < p[2]

ColumnsBacked(t) ==
    /\ task[t].refund_status # "skipped"
    /\ task[t].refund_status = "refunded" \/ task[t].refund_amount # 0 =>
          /\ RowsOf(t, "refund") # {}
          /\ task[t].refund_amount = task[t].cost

TaskInv(t) == Owned(t) /\ Charged(t) /\ RefundedOnce(t) /\ ColumnsBacked(t)

MoneyInv ==
    /\ LedgerTypeOK
    /\ LedgerChained
    /\ BalanceNonNegative
    /\ \A t \in Tasks : TaskInv(t)

\* It implies the invariants of CreditLedger.
LEMMA MoneyInvImplies ==
    MoneyInv => ChargedExactlyOnce /\ RefundedAtMostOnce /\ RefundColumnsBacked
  <1> SUFFICES ASSUME MoneyInv
               PROVE  ChargedExactlyOnce /\ RefundedAtMostOnce /\ RefundColumnsBacked
    OBVIOUS
  <1>1. ChargedExactlyOnce
    BY DEF MoneyInv, TaskInv, Charged, ColumnsBacked, ChargedExactlyOnce, AmountAt
  <1>2. RefundedAtMostOnce
    BY DEF MoneyInv, TaskInv, RefundedOnce, RefundedAtMostOnce
  <1>3. RefundColumnsBacked
    BY DEF MoneyInv, TaskInv, ColumnsBacked, RefundColumnsBacked
  <1> QED
    BY <1>1, <1>2, <1>3

\* The charge FailTaskAndRefund finds is the task's own, of its price.
LEMMA ChargeFound ==
    ASSUME MoneyInv, NEW t \in Tasks, Exists(t)
    PROVE  /\ RowsOf(t, "consume") # {}
           /\ FirstRow(t, "consume")[1] = task[t].user
           /\ -AmountAt(FirstRow(t, "consume")) = task[t].cost
           /\ task[t].user \in Users /\ task[t].cost \in Nat
  <1>1. TaskInv(t) /\ task[t].cost \in Nat
    BY DEF MoneyInv, LedgerTypeOK, TaskType
  <1>2. task[t].user \in Users
    BY <1>1 DEF TaskInv, Owned
  <1>3. PICK i \in DOMAIN ledger[task[t].user] :
           /\ RowsOf(t, "consume") = {<<task[t].user, i>>}
           /\ AmountAt(<<task[t].user, i>>) = -task[t].cost
    BY <1>1 DEF TaskInv, Charged
  <1>4. i \in Nat
    BY <1>2 DEF MoneyInv, LedgerTypeOK
  <1>5. PICK p : p = <<task[t].user, i>>
    OBVIOUS
  <1>6. p[1] = task[t].user /\ p[2] \in Nat
    BY <1>4, <1>5
  <1>7. FirstRow(t, "consume") = p
    BY <1>3, <1>5, <1>6, OnlyRowIsFirst
  <1>8. AmountAt(p) = -task[t].cost
    BY <1>3, <1>5
  <1> QED
    BY <1>1, <1>2, <1>3, <1>6, <1>7, <1>8

\* A refund it finds is of the whole price.
LEMMA RefundFound ==
    ASSUME MoneyInv, NEW t \in Tasks, AlreadyRefunded(t)
    PROVE  AmountAt(FirstRow(t, "refund")) = task[t].cost
  <1>1. TaskInv(t) /\ RowsOf(t, "refund") # {}
    BY DEF MoneyInv, AlreadyRefunded
  <1>2. PICK p \in RowsOf(t, "refund") : AmountAt(p) = task[t].cost
    BY <1>1 DEF TaskInv, RefundedOnce
  <1>3. RowsOf(t, "refund") = {p}
    BY <1>1, <1>2 DEF TaskInv, RefundedOnce
  <1>4. PICK u \in Users : \E i \in DOMAIN ledger[u] : p = <<u, i>>
    BY <1>2, RowsInMember DEF RowsOf
  <1>5. PICK i \in DOMAIN ledger[u] : p = <<u, i>>
    BY <1>4
  <1>6. i \in Nat
    BY <1>5 DEF MoneyInv, LedgerTypeOK
  <1>7. p[2] \in Nat
    BY <1>5, <1>6
  <1> QED
    BY <1>2, <1>3, <1>7, OnlyRowIsFirst

\* A row of another type or of another task makes no task refunded.
LEMMA RefundsOfOthers ==
    ASSUME MoneyInv, NEW u \in Users, NEW r \in RowType,
           ledger' = [ledger EXCEPT ![u] = Append(@, r)],
           NEW t, r.task # t \/ r.type # "refund"
    PROVE  /\ RowsOf(t, "refund")' = RowsOf(t, "refund")
           /\ AlreadyRefunded(t)' <=> AlreadyRefunded(t)
  <1>1. ledger \in [Users -> Seq(RowType)] /\ Appended(ledger, ledger', u, r)
    BY DEF MoneyInv, LedgerTypeOK, Appended
  <1>2. RowsIn(ledger', t, "refund") = RowsIn(ledger, t, "refund")
    BY <1>1, AppendOther
  <1> QED
    BY <1>2 DEF AlreadyRefunded, RowsOf

LEMMA MoneyInit == LedgerInit => MoneyInv
  <1> SUFFICES ASSUME LedgerInit PROVE MoneyInv
    OBVIOUS
  <1> USE DEF LedgerInit
  <1>1. LedgerTypeOK
    <2>1. account \in [Users -> AccountType]
      BY DEF AccountType
    <2>2. ledger \in [Users -> Seq(RowType)]
      OBVIOUS
    <2>3. task \in [Tasks -> TaskType]
      BY DEF TaskType, Absent, Statuses, RefundStatuses
    <2> QED
      BY <2>1, <2>2, <2>3 DEF LedgerTypeOK
  <1>2. \A u \in Users : ledger[u] = << >> /\ DOMAIN ledger[u] = {}
    OBVIOUS
  <1>3. ASSUME NEW t, NEW type PROVE RowsOf(t, type) = {}
    BY <1>2, RowsInMember DEF RowsOf
  <1>4. LedgerChained
    BY <1>2 DEF LedgerChained, LastBalance
  <1>5. BalanceNonNegative
    BY DEF BalanceNonNegative
  <1>6. ASSUME NEW t \in Tasks PROVE TaskInv(t)
    <2>1. task[t] = Absent /\ ~Exists(t)
      BY DEF Exists, Absent
    <2> QED
      BY <1>3, <2>1 DEF TaskInv, Owned, Charged, RefundedOnce, ColumnsBacked, Absent
  <1> QED
    BY <1>1, <1>4, <1>5, <1>6 DEF MoneyInv

\* A posting that continues the chain of one user leaves every ledger chained.
LEMMA PostingChains ==
    ASSUME LedgerTypeOK, LedgerChained, NEW u \in Users, NEW r \in RowType,
           Appended(ledger, ledger', u, r),
           r.balance_after = account[u].balance + r.amount,
           account'[u].balance = r.balance_after,
           \A v \in Users \ {u} : account'[v].balance = account[v].balance
    PROVE  LedgerChained'
  <1> SUFFICES ASSUME NEW v \in Users
               PROVE /\ account'[v].balance = LastBalance(ledger'[v])
                     /\ \A i \in DOMAIN ledger'[v] :
                           ledger'[v][i].balance_after
                             = PreviousBalance(ledger'[v], i) + ledger'[v][i].amount
    BY DEF LedgerChained, LastBalance, PreviousBalance
  <1>1. CASE v # u
    <2>1. ledger'[v] = ledger[v]
      BY <1>1 DEF Appended, LedgerTypeOK
    <2> QED
      BY <1>1, <2>1 DEF LedgerChained
  <1>2. CASE v = u
    <2> DEFINE s == ledger[u]
    <2>1. s \in Seq(RowType) /\ ledger'[u] = Append(s, r)
      BY DEF LedgerTypeOK, Appended
    <2>2. /\ Len(Append(s, r)) = Len(s) + 1
          /\ Len(s) \in Nat
          /\ DOMAIN Append(s, r) = 1..(Len(s) + 1)
          /\ DOMAIN s = 1..Len(s)
          /\ Append(s, r)[Len(s) + 1] = r
          /\ \A i \in 1..Len(s) : Append(s, r)[i] = s[i]
          /\ Append(s, r) # << >>
          /\ (s = << >>) <=> (Len(s) = 0)
      BY <2>1
    <2>3. account'[u].balance = LastBalance(ledger'[u])
      BY <2>1, <2>2 DEF LastBalance
    <2>4. PreviousBalance(Append(s, r), Len(s) + 1) = LastBalance(s)
      BY <2>2 DEF PreviousBalance, LastBalance
    <2>5. ASSUME NEW i \in 1..Len(s)
          PROVE  PreviousBalance(Append(s, r), i) = PreviousBalance(s, i)
      BY <2>2 DEF PreviousBalance
    <2>6. account[u].balance = LastBalance(s)
      BY DEF LedgerChained
    <2>7. ASSUME NEW i \in DOMAIN ledger'[u]
          PROVE  ledger'[u][i].balance_after
                   = PreviousBalance(ledger'[u], i) + ledger'[u][i].amount
      <3>1. CASE i = Len(s) + 1
        BY <3>1, <2>1, <2>2, <2>4, <2>6
      <3>2. CASE i \in 1..Len(s)
        BY <3>2, <2>1, <2>2, <2>5 DEF LedgerChained
      <3> QED
        BY <3>1, <3>2, <2>1, <2>2
    <2> QED
      BY <1>2, <2>3, <2>7
  <1> QED
    BY <1>1, <1>2

\* What a task's part of the invariant rests on: if a step keeps the rows of
\* the task, its owner and its price, and writes backed refund columns, it
\* keeps that part.
LEMMA TaskFrame ==
    ASSUME NEW t \in Tasks, TaskInv(t),
           RowsOf(t, "consume")' = RowsOf(t, "consume"),
           RowsOf(t, "refund")' = RowsOf(t, "refund"),
           \A u \in Users : \A i \in DOMAIN ledger[u] :
               i \in DOMAIN ledger'[u] /\ ledger'[u][i] = ledger[u][i],
           Exists(t)' <=> Exists(t),
           task'[t].user = task[t].user, task'[t].cost = task[t].cost,
           task'[t].refund_status # "skipped",
           task'[t].refund_status = "refunded" \/ task'[t].refund_amount # 0 =>
               RowsOf(t, "refund") # {} /\ task'[t].refund_amount = task[t].cost
    PROVE  TaskInv(t)'
  <1> USE DEF TaskInv
  <1>1. Owned(t)'
    BY DEF Owned
  <1>2. Charged(t)'
    BY DEF Charged, Owned, AmountAt
  <1>3. ColumnsBacked(t)'
    BY DEF ColumnsBacked
  <1>4. RefundedOnce(t)'
    <2>1. \A p \in RowsOf(t, "refund") : ledger'[p[1]][p[2]] = ledger[p[1]][p[2]]
      BY RowsInMember DEF RowsOf
    <2> QED
      BY <2>1 DEF RefundedOnce, AmountAt
  <1> QED
    BY <1>1, <1>2, <1>3, <1>4

-----------------------------------------------------------------------------
(* Writing columns of one row.  The column types are hidden behind names,  *)
(* for which the provers settle such updates at once.                      *)

LEMMA WriteTaskColumns ==
    ASSUME task \in [Tasks -> TaskType], NEW t \in Tasks, NEW st \in Statuses,
           NEW rs \in RefundStatuses, NEW ra \in Int,
           task' = [task EXCEPT ![t].status = st, ![t].refund_status = rs,
                                ![t].refund_amount = ra]
    PROVE  /\ task' \in [Tasks -> TaskType]
           /\ task'[t].status = st /\ task'[t].refund_status = rs
           /\ task'[t].refund_amount = ra
           /\ task'[t].user = task[t].user /\ task'[t].cost = task[t].cost
           /\ \A x \in Tasks \ {t} : task'[x] = task[x]
  <1> DEFINE A == Statuses \cup {"absent"}
             B == Users \cup {NoUser}
             C == Nat
             D == RefundStatuses
             E == Int
             T == [status : A, user : B, cost : C, refund_status : D, refund_amount : E]
  <1>1. TaskType = T /\ st \in A /\ rs \in D /\ ra \in E
    BY DEF TaskType
  <1> HIDE DEF A, B, C, D, E
  <1> QED
    BY <1>1

LEMMA WriteAccount ==
    ASSUME account \in [Users -> AccountType], NEW u \in Users, NEW x \in Int, NEW y \in Int,
           \/ account' = [account EXCEPT ![u].balance = x, ![u].total_topup = y]
           \/ account' = [account EXCEPT ![u].balance = x, ![u].total_consumed = y]
    PROVE  /\ account' \in [Users -> AccountType]
           /\ account'[u].balance = x
           /\ \A v \in Users \ {u} : account'[v] = account[v]
    BY DEF AccountType

-----------------------------------------------------------------------------
(* One lemma per kind of step.                                             *)

\* A step that rewrites status and refund columns of one existing row and no
\* money keeps the invariant if the columns it writes are backed.
LEMMA ColumnsStep ==
    ASSUME MoneyInv, NEW t \in Tasks, Exists(t), UNCHANGED <<account, ledger>>,
           task' \in [Tasks -> TaskType], task'[t].status \in Statuses,
           task'[t].user = task[t].user, task'[t].cost = task[t].cost,
           task'[t].refund_status # "skipped",
           task'[t].refund_status = "refunded" \/ task'[t].refund_amount # 0 =>
               RowsOf(t, "refund") # {} /\ task'[t].refund_amount = task[t].cost,
           \A x \in Tasks \ {t} : task'[x] = task[x]
    PROVE  MoneyInv'
  <1> USE DEF MoneyInv
  <1>1. LedgerTypeOK'
    BY DEF LedgerTypeOK
  <1>2. LedgerChained' /\ BalanceNonNegative'
    BY DEF LedgerChained, LastBalance, PreviousBalance, BalanceNonNegative
  <1>3. ASSUME NEW x \in Tasks PROVE TaskInv(x)'
    <2>1. /\ RowsOf(x, "consume")' = RowsOf(x, "consume")
          /\ RowsOf(x, "refund")' = RowsOf(x, "refund")
      BY DEF RowsOf
    <2>2. Exists(x)' <=> Exists(x)
      BY DEF Exists, Statuses
    <2>3. /\ TaskInv(x)
          /\ task'[x].user = task[x].user /\ task'[x].cost = task[x].cost
          /\ task'[x].refund_status # "skipped"
      BY DEF TaskInv, ColumnsBacked
    <2>4. task'[x].refund_status = "refunded" \/ task'[x].refund_amount # 0 =>
             RowsOf(x, "refund") # {} /\ task'[x].refund_amount = task[x].cost
      BY DEF TaskInv, ColumnsBacked
    <2> QED
      BY <2>1, <2>2, <2>3, <2>4, TaskFrame
  <1> QED
    BY <1>1, <1>2, <1>3

\* A step that posts a row which names no task and leaves the tasks alone.
LEMMA AdjustStep ==
    ASSUME MoneyInv, NEW u \in Users, NEW a \in Amounts, Adjust(u, a)
    PROVE  MoneyInv'
  <1> USE DEF MoneyInv
  <1>0. ledger \in [Users -> Seq(RowType)]
    BY DEF LedgerTypeOK
  <1> DEFINE nb == account[u].balance + a
             tt == IF a > 0 THEN account[u].total_topup + a ELSE account[u].total_topup
             r  == Row("adjust", a, NoTask, nb)
             n  == Len(ledger[u]) + 1
  <1>1. account \in [Users -> AccountType] /\ a \in Int
    BY AmountsAssumption DEF LedgerTypeOK
  <1>2. nb \in Int /\ tt \in Int /\ nb >= 0
    BY <1>1 DEF Adjust, AccountType
  <1>3. /\ account' = [account EXCEPT ![u].balance = nb, ![u].total_topup = tt]
        /\ Appended(ledger, ledger', u, r)
        /\ task' = task
    BY DEF Adjust, Appended
  <1>4. r \in RowType /\ r.task = NoTask /\ r.amount = a /\ r.balance_after = nb
    BY <1>1, <1>2 DEF Row, RowType
  <1>5. n = Len(ledger[u]) + 1
    OBVIOUS
  <1>6. nb = account[u].balance + a
    OBVIOUS
  <1> HIDE DEF nb, tt, r, n
  <1>7. /\ account' \in [Users -> AccountType]
        /\ account'[u].balance = nb
        /\ \A v \in Users \ {u} : account'[v] = account[v]
    BY <1>1, <1>2, <1>3, WriteAccount
  <1>8. LedgerTypeOK'
    BY <1>3, <1>4, <1>7, AppendLedger DEF LedgerTypeOK
  <1>9. LedgerChained'
    BY <1>3, <1>4, <1>6, <1>7, PostingChains
  <1>10. BalanceNonNegative'
    BY <1>2, <1>7 DEF BalanceNonNegative
  <1>11. ASSUME NEW x \in Tasks PROVE TaskInv(x)'
    <2>1. /\ RowsOf(x, "consume")' = RowsOf(x, "consume")
          /\ RowsOf(x, "refund")' = RowsOf(x, "refund")
      <3>1. r.task # x
        BY <1>4, TasksAssumption
      <3> QED
        BY <1>3, <1>4, <3>1, AppendOther, <1>0 DEF RowsOf
    <2>2. \A v \in Users : \A i \in DOMAIN ledger[v] :
              i \in DOMAIN ledger'[v] /\ ledger'[v][i] = ledger[v][i]
      BY <1>3, <1>4, AppendLedger DEF LedgerTypeOK
    <2> QED
      BY <1>3, <2>1, <2>2, TaskFrame DEF TaskInv, ColumnsBacked, Exists
  <1> QED
    BY <1>8, <1>9, <1>10, <1>11

\* The limit is no money.
LEMMA SetConcurrentLimitStep ==
    ASSUME MoneyInv, NEW u \in Users, NEW l \in Limits, SetConcurrentLimit(u, l)
    PROVE  MoneyInv'
  <1> USE DEF MoneyInv
  <1>1. account \in [Users -> AccountType] /\ l \in Nat
    BY LimitsAssumption DEF LedgerTypeOK
  <1>2. /\ account' \in [Users -> AccountType]
        /\ \A v \in Users : account'[v].balance = account[v].balance
        /\ ledger' = ledger /\ task' = task
    BY <1>1 DEF SetConcurrentLimit, AccountType
  <1>3. LedgerTypeOK'
    BY <1>2 DEF LedgerTypeOK
  <1>4. LedgerChained' /\ BalanceNonNegative'
    BY <1>2 DEF LedgerChained, LastBalance, PreviousBalance, BalanceNonNegative
  <1>5. ASSUME NEW x \in Tasks PROVE TaskInv(x)'
    BY <1>2 DEF TaskInv, Owned, Charged, RefundedOnce, ColumnsBacked, Exists,
                RowsOf, AmountAt
  <1> QED
    BY <1>3, <1>4, <1>5

\* The charge of a new task: the row names a task that no row named before.
LEMMA ReserveStep ==
    ASSUME MoneyInv, NEW t \in Tasks, NEW u \in Users, NEW c \in Costs,
           ReserveAndCreateTask(t, u, c)
    PROVE  MoneyInv'
  <1> USE DEF MoneyInv
  <1>0. ledger \in [Users -> Seq(RowType)]
    BY DEF LedgerTypeOK
  <1> DEFINE nb == account[u].balance + (-c)
             tc == account[u].total_consumed + c
             r  == Row("consume", -c, t, nb)
             n  == Len(ledger[u]) + 1
             nt == [status |-> "running", user |-> u, cost |-> c,
                    refund_status |-> "none", refund_amount |-> 0]
  <1>1. account \in [Users -> AccountType] /\ c \in Nat /\ c > 0
    BY CostsAssumption DEF LedgerTypeOK, ReserveAndCreateTask
  <1>2. nb \in Int /\ tc \in Int /\ nb >= 0
    BY <1>1 DEF ReserveAndCreateTask, Affords, AccountType
  <1>3. /\ account' = [account EXCEPT ![u].balance = nb, ![u].total_consumed = tc]
        /\ Appended(ledger, ledger', u, r)
        /\ task' = [task EXCEPT ![t] = nt]
        /\ ~Exists(t)
    BY DEF ReserveAndCreateTask, Post, Appended
  <1>4. /\ r \in RowType /\ r.task = t /\ r.amount = -c /\ r.type = "consume"
        /\ r.balance_after = nb
    BY <1>1, <1>2 DEF Row, RowType
  <1>5. n = Len(ledger[u]) + 1 /\ nb = account[u].balance + (-c)
    OBVIOUS
  <1>6. /\ nt \in TaskType
        /\ nt.status = "running" /\ nt.user = u /\ nt.cost = c
        /\ nt.refund_status = "none" /\ nt.refund_amount = 0
    BY <1>1 DEF TaskType, Statuses, RefundStatuses
  <1> HIDE DEF nb, tc, r, n, nt
  <1>7. /\ account' \in [Users -> AccountType]
        /\ account'[u].balance = nb
        /\ \A v \in Users \ {u} : account'[v] = account[v]
    BY <1>1, <1>2, <1>3, WriteAccount
  <1>8. /\ task' \in [Tasks -> TaskType]
        /\ task'[t] = nt
        /\ \A x \in Tasks \ {t} : task'[x] = task[x]
    BY <1>3, <1>6 DEF LedgerTypeOK
  <1>9. LedgerTypeOK'
    BY <1>3, <1>4, <1>7, <1>8, AppendLedger DEF LedgerTypeOK
  <1>10. LedgerChained'
    BY <1>3, <1>4, <1>5, <1>7, PostingChains
  <1>11. BalanceNonNegative'
    BY <1>2, <1>7 DEF BalanceNonNegative
  <1>12. \A v \in Users : \A i \in DOMAIN ledger[v] :
              i \in DOMAIN ledger'[v] /\ ledger'[v][i] = ledger[v][i]
    BY <1>3, <1>4, AppendLedger DEF LedgerTypeOK
  <1>13. ASSUME NEW x \in Tasks, x # t PROVE TaskInv(x)'
    <2>1. /\ RowsOf(x, "consume")' = RowsOf(x, "consume")
          /\ RowsOf(x, "refund")' = RowsOf(x, "refund")
      BY <1>3, <1>4, <1>13, AppendOther, <1>0 DEF RowsOf
    <2> QED
      BY <1>8, <1>12, <1>13, <2>1, TaskFrame DEF TaskInv, ColumnsBacked, Exists
  <1>14. TaskInv(t)'
    <2>1. RowsOf(t, "consume") = {} /\ RowsOf(t, "refund") = {}
      BY <1>3 DEF TaskInv, Charged
    <2>2. RowsOf(t, "consume")' = {<<u, n>>}
      <3>1. r.task = t /\ r.type = "consume"
        BY <1>4
      <3>2. RowsOf(t, "consume")' = RowsOf(t, "consume") \cup {<<u, Len(ledger[u]) + 1>>}
        BY <1>0, <1>3, <1>4, <3>1, AppendOwn DEF RowsOf
      <3> QED
        BY <1>5, <2>1, <3>2
    <2>3. RowsOf(t, "refund")' = {}
      <3>1. r.type # "refund"
        BY <1>4
      <3>2. RowsOf(t, "refund")' = RowsOf(t, "refund")
        BY <1>3, <1>4, <1>5, <3>1, AppendOther, <1>0 DEF RowsOf
      <3> QED
        BY <2>1, <3>2
    <2>4. n \in DOMAIN ledger'[u] /\ ledger'[u][n] = r
      BY <1>3, <1>4, <1>5, AppendLedger DEF LedgerTypeOK
    <2>5. Exists(t)'
      BY <1>6, <1>8 DEF Exists
    <2>6. Owned(t)'
      BY <1>1, <1>6, <1>8 DEF Owned
    <2>7. Charged(t)'
      BY <1>4, <1>6, <1>8, <2>2, <2>4, <2>5 DEF Charged, AmountAt
    <2>8. RefundedOnce(t)' /\ ColumnsBacked(t)'
      BY <1>6, <1>8, <2>3 DEF RefundedOnce, ColumnsBacked
    <2> QED
      BY <2>6, <2>7, <2>8 DEF TaskInv
  <1> QED
    BY <1>9, <1>10, <1>11, <1>13, <1>14

\* Giving the charge back: the refund row follows the only consume row, in the
\* same ledger, with the opposite amount.
LEMMA RefundStep ==
    ASSUME MoneyInv, NEW t \in Tasks, Exists(t), FailAndRefund(t)
    PROVE  MoneyInv'
  <1> USE DEF MoneyInv
  <1>0. ledger \in [Users -> Seq(RowType)]
    BY DEF LedgerTypeOK
  <1>1. PICK u \in Users : u = task[t].user
    BY DEF TaskInv, Owned
  <1>2. PICK c \in Nat : c = task[t].cost /\ c > 0
    BY DEF TaskInv, Owned, LedgerTypeOK, TaskType
  <1>3. PICK i \in DOMAIN ledger[u] : /\ RowsOf(t, "consume") = {<<u, i>>}
                                     /\ AmountAt(<<u, i>>) = -c
    BY <1>1, <1>2 DEF TaskInv, Charged
  <1>4. /\ FirstRow(t, "consume") = <<u, i>>
        /\ RowsOf(t, "refund") = {}
    <2>1. i \in Nat
      BY <1>1, <1>3 DEF LedgerTypeOK
    <2>2. PICK p : p = <<u, i>>
      OBVIOUS
    <2>3. RowsOf(t, "consume") = {p} /\ p[2] \in Nat
      BY <1>3, <2>1, <2>2
    <2>4. FirstRow(t, "consume") = p
      BY <2>3, OnlyRowIsFirst
    <2>5. RowsOf(t, "refund") = {}
      BY DEF FailAndRefund, AlreadyRefunded
    <2> QED
      BY <2>2, <2>4, <2>5
  <1>5. -AmountAt(<<u, i>>) = c /\ -c \in Int
    BY <1>2, <1>3
  <1> DEFINE nb == account[u].balance + c
             tc == account[u].total_consumed + (-c)
             r  == Row("refund", c, t, nb)
             n  == Len(ledger[u]) + 1
  <1>6. account \in [Users -> AccountType] /\ task \in [Tasks -> TaskType]
    BY DEF LedgerTypeOK
  <1>7. nb \in Int /\ tc \in Int /\ nb >= 0
    BY <1>2, <1>6 DEF AccountType, BalanceNonNegative
  <1>8. Post(u, "refund", c, t, -c) /\ MarkFailed(t, "refunded", c)
    <2>1. RowsOf(t, "consume") # {}
      BY <1>3
    <2> QED
      BY <1>4, <1>5, <2>1 DEF FailAndRefund
  <1>9. Appended(ledger, ledger', u, r)
    BY <1>8 DEF Post, Appended
  <1>10. /\ r \in RowType /\ r.task = t /\ r.amount = c /\ r.type = "refund"
         /\ r.balance_after = nb
    BY <1>2, <1>7 DEF Row, RowType
  <1>11. n = Len(ledger[u]) + 1 /\ nb = account[u].balance + c
    OBVIOUS
  <1> HIDE DEF nb, tc, r, n
  <1>12. /\ account' \in [Users -> AccountType]
         /\ account'[u].balance = nb
         /\ \A v \in Users \ {u} : account'[v] = account[v]
    <2>1. account' = [account EXCEPT ![u].balance = nb, ![u].total_consumed = tc]
      BY <1>8 DEF Post, nb, tc
    <2> QED
      BY <1>6, <1>7, <2>1, WriteAccount
  <1>13. /\ task' \in [Tasks -> TaskType]
         /\ task'[t].status = "failed" /\ task'[t].refund_status = "refunded"
         /\ task'[t].refund_amount = c
         /\ task'[t].user = u /\ task'[t].cost = c
         /\ \A x \in Tasks \ {t} : task'[x] = task[x]
    <2>1. PICK st \in Statuses, rs \in RefundStatuses : st = "failed" /\ rs = "refunded"
      BY DEF Statuses, RefundStatuses
    <2>2. task' = [task EXCEPT ![t].status = st, ![t].refund_status = rs,
                               ![t].refund_amount = c]
      BY <1>8, <2>1 DEF MarkFailed
    <2>3. c \in Int
      OBVIOUS
    <2>4. /\ task' \in [Tasks -> TaskType]
          /\ task'[t].status = st /\ task'[t].refund_status = rs
          /\ task'[t].refund_amount = c
          /\ task'[t].user = task[t].user /\ task'[t].cost = task[t].cost
          /\ \A x \in Tasks \ {t} : task'[x] = task[x]
      BY <1>6, <2>2, <2>3, WriteTaskColumns
    <2> QED
      BY <1>1, <1>2, <2>1, <2>4
  <1>14. LedgerTypeOK'
    BY <1>9, <1>10, <1>12, <1>13, AppendLedger DEF LedgerTypeOK
  <1>15. LedgerChained'
    BY <1>9, <1>10, <1>11, <1>12, PostingChains
  <1>16. BalanceNonNegative'
    BY <1>7, <1>12 DEF BalanceNonNegative
  <1>17. \A v \in Users : \A j \in DOMAIN ledger[v] :
              j \in DOMAIN ledger'[v] /\ ledger'[v][j] = ledger[v][j]
    BY <1>9, <1>10, AppendLedger DEF LedgerTypeOK
  <1>18. ASSUME NEW x \in Tasks, x # t PROVE TaskInv(x)'
    <2>1. /\ RowsOf(x, "consume")' = RowsOf(x, "consume")
          /\ RowsOf(x, "refund")' = RowsOf(x, "refund")
      BY <1>9, <1>10, <1>18, AppendOther, <1>0 DEF RowsOf
    <2> QED
      BY <1>13, <1>17, <1>18, <2>1, TaskFrame DEF TaskInv, ColumnsBacked, Exists
  <1>19. TaskInv(t)'
    <2>1. RowsOf(t, "consume")' = {<<u, i>>}
      <3>1. r.type # "consume"
        BY <1>10
      <3>2. RowsOf(t, "consume")' = RowsOf(t, "consume")
        BY <1>9, <1>10, <1>11, <3>1, AppendOther, <1>0 DEF RowsOf
      <3> QED
        BY <1>3, <3>2
    <2>2. RowsOf(t, "refund")' = {<<u, n>>}
      <3>1. r.task = t /\ r.type = "refund"
        BY <1>10
      <3>2. RowsOf(t, "refund")' = RowsOf(t, "refund") \cup {<<u, Len(ledger[u]) + 1>>}
        BY <1>0, <1>9, <1>10, <3>1, AppendOwn DEF RowsOf
      <3> QED
        BY <1>4, <1>11, <3>2
    <2>3. ledger'[u][n] = r /\ i < n
      BY <1>9, <1>10, <1>11, AppendLedger DEF LedgerTypeOK
    <2>4. i \in DOMAIN ledger'[u] /\ ledger'[u][i].amount = -c
      BY <1>3, <1>17 DEF AmountAt
    <2>5. Exists(t)'
      BY <1>13 DEF Exists
    <2>6. Owned(t)' /\ ColumnsBacked(t)'
      BY <1>2, <1>13, <2>2 DEF Owned, ColumnsBacked
    <2>7. Charged(t)'
      BY <1>13, <2>1, <2>4, <2>5 DEF Charged, AmountAt
    <2>8. RefundedOnce(t)'
      <3>1. PICK a, b : a = <<u, n>> /\ b = <<u, i>>
        OBVIOUS
      <3>2. a[1] = u /\ a[2] = n /\ b[1] = u /\ b[2] = i
        BY <3>1
      <3>3. b \in RowsOf(t, "consume")' /\ \A p \in RowsOf(t, "refund")' : p = a
        BY <2>1, <2>2, <3>1
      <3>4. ledger'[u][n].amount = task'[t].cost
        BY <1>10, <1>13, <2>3
      <3>5. ledger'[a[1]][a[2]].amount = task'[t].cost
        BY Zenon, <3>2, <3>4
      <3>6. a[1] = task'[t].user /\ b[1] = a[1] /\ b[2] < a[2]
        BY <1>13, <2>3, <3>2
      <3> QED
        BY <3>3, <3>5, <3>6 DEF RefundedOnce, AmountAt
    <2> QED
      BY <2>6, <2>7, <2>8 DEF TaskInv
  <1> QED
    BY <1>14, <1>15, <1>16, <1>18, <1>19

\* Each way of failing an existing task.
LEMMA FailStep ==
    ASSUME MoneyInv, NEW t \in Tasks, FailTaskAndRefund(t)
    PROVE  MoneyInv'
  <1>1. /\ Exists(t) /\ TaskInv(t)
        /\ task \in [Tasks -> TaskType]
        /\ task[t].refund_status \in RefundStatuses /\ task[t].refund_amount \in Int
    BY DEF FailTaskAndRefund, MoneyInv, LedgerTypeOK, TaskType
  <1>2. "failed" \in Statuses
    BY DEF Statuses
  <1>3. ASSUME NEW rs \in RefundStatuses, NEW ra \in Int, MarkFailed(t, rs, ra),
               UNCHANGED <<account, ledger>>, rs # "skipped",
               rs = "refunded" \/ ra # 0 =>
                   RowsOf(t, "refund") # {} /\ ra = task[t].cost
        PROVE  MoneyInv'
    <2>1. PICK st \in Statuses : st = "failed"
      BY <1>2
    <2>2. task' = [task EXCEPT ![t].status = st, ![t].refund_status = rs,
                               ![t].refund_amount = ra]
      BY <1>3, <2>1 DEF MarkFailed
    <2>3. /\ task' \in [Tasks -> TaskType]
          /\ task'[t].status = st /\ task'[t].refund_status = rs
          /\ task'[t].refund_amount = ra
          /\ task'[t].user = task[t].user /\ task'[t].cost = task[t].cost
          /\ \A x \in Tasks \ {t} : task'[x] = task[x]
      BY <1>1, <2>2, WriteTaskColumns
    <2> QED
      BY <1>1, <1>3, <2>3, ColumnsStep
  <1>4. CASE FailSettled(t)
    <2>1. PICK rs \in RefundStatuses, ra \in Int :
             rs = task[t].refund_status /\ ra = task[t].refund_amount
      BY <1>1
    <2>2. MarkFailed(t, rs, ra) /\ UNCHANGED <<account, ledger>>
      BY <1>4, <2>1 DEF FailSettled
    <2>3. /\ rs # "skipped"
          /\ rs = "refunded" \/ ra # 0 =>
                RowsOf(t, "refund") # {} /\ ra = task[t].cost
      BY <1>1, <2>1 DEF TaskInv, ColumnsBacked
    <2> QED
      BY <1>3, <2>2, <2>3
  <1>5. CASE FailAlreadyRefunded(t)
    <2>1. RowsOf(t, "refund") # {}
      BY <1>5 DEF FailAlreadyRefunded, AlreadyRefunded
    <2>2. AmountAt(FirstRow(t, "refund")) = task[t].cost
      <3>1. PICK p \in RowsOf(t, "refund") : AmountAt(p) = task[t].cost
        BY <1>1, <2>1 DEF TaskInv, RefundedOnce
      <3>2. RowsOf(t, "refund") = {p}
        BY <1>1, <3>1 DEF TaskInv, RefundedOnce
      <3>3. PICK u \in Users : \E i \in DOMAIN ledger[u] : p = <<u, i>>
        BY <3>1, RowsInMember DEF RowsOf
      <3>4. PICK i \in DOMAIN ledger[u] : p = <<u, i>>
        BY <3>3
      <3>5. i \in Nat
        BY <3>4 DEF MoneyInv, LedgerTypeOK
      <3>6. p[2] \in Nat
        BY <3>4, <3>5
      <3>7. FirstRow(t, "refund") = p
        BY <3>2, <3>6, OnlyRowIsFirst
      <3> QED
        BY <3>1, <3>7
    <2>3. PICK ra : ra = IF task[t].refund_amount = 0 THEN AmountAt(FirstRow(t, "refund"))
                                                     ELSE task[t].refund_amount
      OBVIOUS
    <2>4. ra = task[t].cost
      BY <1>1, <2>2, <2>3 DEF TaskInv, ColumnsBacked
    <2>5. ra \in Int
      BY <1>1, <2>4 DEF TaskType
    <2>6. PICK rs \in RefundStatuses : rs = "refunded"
      BY DEF RefundStatuses
    <2>7. MarkFailed(t, rs, ra) /\ UNCHANGED <<account, ledger>>
      BY <1>5, <2>3, <2>6 DEF FailAlreadyRefunded
    <2> QED
      BY <1>3, <2>1, <2>4, <2>5, <2>6, <2>7
  <1>6. CASE FailAndRefund(t)
    BY <1>1, <1>6, RefundStep
  <1> QED
    BY <1>4, <1>5, <1>6 DEF FailTaskAndRefund

LEMMA ForceFailStep ==
    ASSUME MoneyInv, NEW t \in Tasks, ForceFail(t)
    PROVE  MoneyInv'
  <1>1. /\ Exists(t) /\ TaskInv(t) /\ UNCHANGED <<account, ledger>>
        /\ task \in [Tasks -> TaskType]
    BY DEF ForceFail, MoneyInv, LedgerTypeOK
  <1>2. PICK st \in Statuses, rs \in RefundStatuses, ra \in Int :
           /\ st = "failed" /\ rs = "refund_failed" /\ ra = task[t].refund_amount
    BY <1>1 DEF Statuses, RefundStatuses, TaskType
  <1>3. task' = [task EXCEPT ![t].status = st, ![t].refund_status = rs,
                             ![t].refund_amount = ra]
    BY <1>2 DEF ForceFail, MarkFailed
  <1>4. /\ task' \in [Tasks -> TaskType]
        /\ task'[t].status = st /\ task'[t].refund_status = rs
        /\ task'[t].refund_amount = ra
        /\ task'[t].user = task[t].user /\ task'[t].cost = task[t].cost
        /\ \A x \in Tasks \ {t} : task'[x] = task[x]
    BY <1>1, <1>3, WriteTaskColumns
  <1>5. rs # "skipped" /\ rs # "refunded"
    BY <1>2
  <1>6. ra # 0 => RowsOf(t, "refund") # {} /\ ra = task[t].cost
    BY <1>1, <1>2 DEF TaskInv, ColumnsBacked
  <1> QED
    BY <1>1, <1>4, <1>5, <1>6, ColumnsStep

LEMMA MarkSucceededStep ==
    ASSUME MoneyInv, NEW t \in Tasks, MarkSucceeded(t)
    PROVE  MoneyInv'
  <1>1. /\ Exists(t) /\ TaskInv(t) /\ UNCHANGED <<account, ledger>>
        /\ task \in [Tasks -> TaskType]
        /\ task' = [task EXCEPT ![t].status = "succeeded"]
    BY DEF MarkSucceeded, MoneyInv, LedgerTypeOK
  <1>2. PICK st \in Statuses : st = "succeeded"
    BY DEF Statuses
  <1>3. /\ task' \in [Tasks -> TaskType]
        /\ task'[t].status = st /\ task'[t].refund_status = task[t].refund_status
        /\ task'[t].refund_amount = task[t].refund_amount
        /\ task'[t].user = task[t].user /\ task'[t].cost = task[t].cost
        /\ \A x \in Tasks \ {t} : task'[x] = task[x]
    <2> DEFINE A == Statuses \cup {"absent"}
               B == Users \cup {NoUser}
               C == Nat
               D == RefundStatuses
               E == Int
               T == [status : A, user : B, cost : C, refund_status : D, refund_amount : E]
    <2>1. TaskType = T /\ st \in A
      BY DEF TaskType
    <2>2. task' = [task EXCEPT ![t].status = st]
      BY <1>1, <1>2
    <2> HIDE DEF A, B, C, D, E
    <2> QED
      BY <1>1, <2>1, <2>2
  <1> QED
    BY <1>1, <1>3, ColumnsStep DEF TaskInv, ColumnsBacked

\* The invariant speaks of nothing but the three tables.
LEMMA MoneyStutter ==
    ASSUME MoneyInv, UNCHANGED ledgerVars
    PROVE  MoneyInv'
  <1> USE DEF MoneyInv
  <1>1. account' = account /\ ledger' = ledger /\ task' = task
    BY DEF ledgerVars
  <1>2. LedgerTypeOK'
    BY <1>1 DEF LedgerTypeOK
  <1>3. LedgerChained' /\ BalanceNonNegative'
    BY <1>1 DEF LedgerChained, LastBalance, PreviousBalance, BalanceNonNegative
  <1>4. ASSUME NEW x \in Tasks PROVE TaskInv(x)'
    BY <1>1 DEF TaskInv, Owned, Charged, RefundedOnce, ColumnsBacked, Exists,
                RowsOf, AmountAt
  <1> QED
    BY <1>2, <1>3, <1>4

LEMMA MoneyNext == MoneyInv /\ [LedgerNext]_ledgerVars => MoneyInv'
  <1> SUFFICES ASSUME MoneyInv, [LedgerNext]_ledgerVars PROVE MoneyInv'
    OBVIOUS
  <1>1. ASSUME NEW u \in Users, NEW a \in Amounts, Adjust(u, a) PROVE MoneyInv'
    BY <1>1, AdjustStep
  <1>2. ASSUME NEW u \in Users, NEW l \in Limits, SetConcurrentLimit(u, l)
        PROVE  MoneyInv'
    BY <1>2, SetConcurrentLimitStep
  <1>3. ASSUME NEW t \in Tasks, NEW u \in Users, NEW c \in Costs,
               ReserveAndCreateTask(t, u, c)
        PROVE  MoneyInv'
    BY <1>3, ReserveStep
  <1>4. ASSUME NEW t \in Tasks, FailTaskAndRefund(t) PROVE MoneyInv'
    BY <1>4, FailStep
  <1>5. ASSUME NEW t \in Tasks, ForceFail(t) PROVE MoneyInv'
    BY <1>5, ForceFailStep
  <1>6. ASSUME NEW t \in Tasks, MarkSucceeded(t) PROVE MoneyInv'
    BY <1>6, MarkSucceededStep
  <1>7. CASE UNCHANGED ledgerVars
    BY <1>7, MoneyStutter
  <1> QED
    BY <1>1, <1>2, <1>3, <1>4, <1>5, <1>6, <1>7 DEF LedgerNext

-----------------------------------------------------------------------------
(* The theorems.                                                           *)

\* In every reachable state the money invariant holds: whatever the sequence
\* of transactions of credit.go.
THEOREM MoneyInvariant == LedgerSpec => []MoneyInv
  BY MoneyInit, MoneyNext, PTL DEF LedgerSpec

\* The tables hold values of their types.
THEOREM LedgerTypeCorrect == LedgerSpec => []LedgerTypeOK
  <1>1. MoneyInv => LedgerTypeOK
    BY DEF MoneyInv
  <1> QED
    BY <1>1, MoneyInvariant, PTL

\* Adjust and ReserveAndCreateTask never overdraw an account.
THEOREM NoOverdraft == LedgerSpec => []BalanceNonNegative
  <1>1. MoneyInv => BalanceNonNegative
    BY DEF MoneyInv
  <1> QED
    BY <1>1, MoneyInvariant, PTL

\* The stored balance is the one the ledger adds up to, row after row.
THEOREM LedgerIsChained == LedgerSpec => []LedgerChained
  <1>1. MoneyInv => LedgerChained
    BY DEF MoneyInv
  <1> QED
    BY <1>1, MoneyInvariant, PTL

\* A task is charged once, to its owner, for its price.
THEOREM ChargedOnceAlways == LedgerSpec => []ChargedExactlyOnce
  BY MoneyInvImplies, MoneyInvariant, PTL

\* FailTaskAndRefund, however often it runs and whatever forced failures come
\* between, returns a charge at most once and in full.
THEOREM RefundedOnceAlways == LedgerSpec => []RefundedAtMostOnce
  BY MoneyInvImplies, MoneyInvariant, PTL

\* A refund shown on a task row is in the ledger.
THEOREM ColumnsBackedAlways == LedgerSpec => []RefundColumnsBacked
  BY MoneyInvImplies, MoneyInvariant, PTL
=============================================================================
