----------------------------- MODULE MCGenTask ------------------------------
(* Instances of GenTask for TLC. *)
EXTENDS GenTask

CONSTANTS u1, t1, t2, c1, c2

OneUser   == {u1}
OneTask   == {t1}
TwoTasks  == {t1, t2}
OneCred   == {c1}
TwoCreds  == {c1, c2}
OneCost   == {1}
OneAmount == {2}
OnlyTwo   == {2}
NoCreds   == {}
BadCred   == {c2}

TaskSymmetry == Permutations(TwoTasks)
=============================================================================
