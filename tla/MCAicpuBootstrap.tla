---------------------------- MODULE MCAicpuBootstrap ----------------------------
(* Instances of AicpuBootstrap: two threads, two kernels that the runtime may  *)
(* load, hold and drop in any order, and a launch of either.                   *)
EXTENDS AicpuBootstrap

CONSTANTS t1, t2, k1, k2, b1, b2, c1

TwoThreads == {t1, t2}
TwoKernels == {k1, k2}
OneBoot == {b1}
TwoBoots == {b1, b2}
OneCall == {c1}

=============================================================================
