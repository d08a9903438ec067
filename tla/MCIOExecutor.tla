----------------------------- MODULE MCIOExecutor -----------------------------
(* An instance of IOExecutor for TLC: as many contexts as calls, so that a    *)
(* call never lacks one.                                                      *)
EXTENDS IOExecutor

CONSTANTS a, b, t1, t2, k1, k2

TwoCallers == {a, b}
TwoTasks == {t1, t2}
TwoContexts == {k1, k2}
=============================================================================
