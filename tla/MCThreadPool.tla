---------------------------- MODULE MCThreadPool ----------------------------
(* Four workers, as in main, and four tasks, one of which submits another. *)
EXTENDS ThreadPool, TLC

CONSTANTS w1, w2, w3, w4, t1, t2, t3, t4

MCWorkers == {w1, w2, w3, w4}
MCTasks == {t1, t2, t3, t4}
MCSubmits == [t \in MCTasks |-> IF t = t1 THEN {t4} ELSE {}]
=============================================================================
