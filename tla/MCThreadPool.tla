---------------------------- MODULE MCThreadPool ----------------------------
(***************************************************************************)
(* Small pools for TLC: the one main.c builds and uses (callers refused     *)
(* when the list is full, and stopped before the one tpool_destroy(pool,    *)
(* 1)), one whose callers wait and are not stopped, and one that is         *)
(* destroyed with finish = 0 or 1 and whose malloc may fail.               *)
(***************************************************************************)
EXTENDS ThreadPool

CONSTANTS w1, w2, p1, p2, d1, d2, j1, j2, j3, j4

TwoWorkers == {w1, w2}
TwoProducers == {p1, p2}
OneDestroyer == {d1}
TwoDestroyers == {d1, d2}
ThreeJobs == {j1, j2, j3}
FourJobs == {j1, j2, j3, j4}
AlwaysFinish == {TRUE}
EitherFinish == {TRUE, FALSE}
=============================================================================
