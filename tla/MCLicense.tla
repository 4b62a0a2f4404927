----------------------------- MODULE MCLicense ------------------------------
(* Instances of License for TLC. *)
EXTENDS License, TLC

CONSTANTS m1, m2, o1, o2

TwoMachines == {m1, m2}
OneMachine  == {m1}
OneOperator == {o1}
TwoOperators == {o1, o2}
OneOrTwo    == {1, 2}
NoOperators == {}
JustOne     == {1}

MachineSymmetry  == Permutations(TwoMachines)
OperatorSymmetry == Permutations(TwoOperators)

\* Bound: one report under way.
OneReport     == \A m, n \in Machines : reporter[m].pc # "idle" /\ reporter[n].pc # "idle" => m = n
OneReportSpec == Init /\ [][Next /\ OneReport']_vars
=============================================================================
