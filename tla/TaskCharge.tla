----------------------------- MODULE TaskCharge -----------------------------
(***************************************************************************)
(* What the AI gateway promises a user, without handlers, poller, rows or  *)
(* files: a task is paid in full before it starts; then either its result  *)
(* is delivered and the price kept, or the price is returned.  A deal that *)
(* is settled stays settled.  The one way out the code admits is "owed":   *)
(* the refund transaction itself failed and is left to the operators.      *)
(***************************************************************************)
EXTENDS Integers

CONSTANTS Users, Tasks, Costs, Amounts, NoUser

VARIABLES
    purse,    \* what each user can still spend
    deal      \* of each task: its payer, its price and where the price is

Nothing == [state |-> "none", user |-> NoUser, price |-> 0]

Init ==
    /\ purse = [u \in Users |-> 0]
    /\ deal  = [t \in Tasks |-> Nothing]

\* An operator tops the purse up or takes from it, never below zero.
Deposit(u, a) ==
    /\ purse[u] + a >= 0
    /\ purse' = [purse EXCEPT ![u] = @ + a]
    /\ UNCHANGED deal

Pay(t, u, price) ==
    /\ deal[t].state = "none"
    /\ price > 0 /\ purse[u] >= price
    /\ purse' = [purse EXCEPT ![u] = @ - price]
    /\ deal'  = [deal EXCEPT ![t] = [state |-> "held", user |-> u, price |-> price]]

Keep(t) ==
    /\ deal[t].state = "held"
    /\ deal' = [deal EXCEPT ![t].state = "kept"]
    /\ UNCHANGED purse

Return(t) ==
    /\ deal[t].state = "held"
    /\ deal'  = [deal EXCEPT ![t].state = "returned"]
    /\ purse' = [purse EXCEPT ![deal[t].user] = @ + deal[t].price]

Owe(t) ==
    /\ deal[t].state = "held"
    /\ deal' = [deal EXCEPT ![t].state = "owed"]
    /\ UNCHANGED purse

Settle(t) == Keep(t) \/ Return(t) \/ Owe(t)

Next ==
    \/ \E u \in Users, a \in Amounts : Deposit(u, a)
    \/ \E t \in Tasks, u \in Users, c \in Costs : Pay(t, u, c)
    \/ \E t \in Tasks : Settle(t)

vars == <<purse, deal>>
Spec == Init /\ [][Next]_vars

\* No deal stays open for ever.
FairSpec == Spec /\ \A t \in Tasks : WF_vars(Settle(t))
=============================================================================
