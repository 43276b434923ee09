--------------------------- MODULE MCThreadWorker ---------------------------
(***************************************************************************)
(* Instances of ThreadWorker for TLC: three tasks, so that one may run     *)
(* while two wait in order.                                                *)
(***************************************************************************)
EXTENDS ThreadWorker

CONSTANTS t1, t2, t3

ThreeTasks == {t1, t2, t3}
TwoTasks == {t1, t2}

=============================================================================
