----------------------------- MODULE MCCreditTx -----------------------------
(* Instance of CreditTx for TLC. *)
EXTENDS CreditTx

CONSTANTS u1, u2, t1, t2, s1, s2

TwoUsers   == {u1, u2}
TwoTasks   == {t1, t2}
TwoSess    == {s1, s2}
OneCost    == {1}
MCAmounts  == {-1, 2}
MCLimits   == {0, 1}

TxSymmetry == Permutations(TwoUsers) \cup Permutations(TwoTasks) \cup Permutations(TwoSess)
=============================================================================
