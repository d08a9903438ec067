----------------------------- MODULE MCCudaKernel -----------------------------
(* Instances of CudaKernel for TLC: shared memory of no size, two above the   *)
(* default limit, and one too large; clusters that are and are not portable.  *)
EXTENDS CudaKernel, TLC

CONSTANTS t1, t2, l1, l2, l3

TwoThreads == {t1, t2}
ThreeLibraries == {l1, l2, l3}

DefaultOptions == [num_smem_bytes |-> 0, grid_dim |-> None, cluster_dim |-> 1,
                   nonportable |-> FALSE]

Grid == [f \in LaunchFields |-> IF f = "grid_dim" THEN 1 ELSE None]

LaunchOptions == {[Grid EXCEPT !.grid_dim = None], Grid} \cup
                 {[Grid EXCEPT !.num_smem_bytes = n] : n \in {-1, 2, 3, 4}} \cup
                 {[Grid EXCEPT !.cluster_dim = 2, !.nonportable = b] : b \in BOOLEAN}

Symmetry == Permutations(TwoThreads) \cup Permutations(ThreeLibraries)
=============================================================================
