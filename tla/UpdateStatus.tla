---------------------------- MODULE UpdateStatus ----------------------------
(***************************************************************************)
(* What the server makes of a device's reports of one hot update.          *)
(* internal/handler/hotupdate.go.  MUTx definitions are plausible          *)
(* mistakes.                                                               *)
(***************************************************************************)
EXTENDS Integers

\* normalizeHotUpdateLogStatus refuses any other; "pending", "downloading" and
\* "installing", which the code treats alike, are "underway".
Reported == {"underway", "success", "failed", "rollback"}

\* isTerminalHotUpdateLogStatus
Terminal(status) == status \in {"success", "failed", "rollback"}

\* shouldApplyHotUpdateLogStatusTransition: a device may try again after a failure.
ShouldApply(old, new) == old \in {"none", new, "failed"} \/ ~Terminal(old)

MUTCounterDelta(old, new, status) == IF new = status THEN 1 ELSE 0

\* hotUpdateStatusCounterDelta, for one of the two counters.
CounterDelta(old, new, status) ==
    (IF new = status THEN 1 ELSE 0) - (IF old = status THEN 1 ELSE 0)

\* nonNegativeCounterExpr
NonNegative(count, delta) == IF count + delta >= 0 THEN count + delta ELSE 0
=============================================================================
