--------------------------- MODULE CudaKernelProofs ---------------------------
(***************************************************************************)
(* Theorems of CudaKernel: the type of its variables, that libraries are in  *)
(* the driver exactly while somebody owns them, and that launches which do    *)
(* not overlap are only refused for their own options.                        *)
(***************************************************************************)
EXTENDS CudaKernel, TLAPS

(* What is known of the arguments of a launch that passed the checks.         *)
OptionsTyped ==
    \A t \in Threads : Launching(t) => options[t].num_smem_bytes \in Nat

(* A load holds a library of its own, and nobody else's Kernel has it.        *)
LoadInv ==
    \A t \in Threads :
        /\ At(t, "inspect") <=> library[t] # None
        /\ library[t] # None =>
              /\ library[t] \in spent
              /\ owners[library[t]] = {}
              /\ \A u \in Threads : library[u] = library[t] => u = t

(* Who holds a Kernel is among its owners.                                    *)
ShareInv ==
    /\ \A t \in Threads : kernel[t] # None => t \in owners[kernel[t]]
    /\ cached # None => Cache \in owners[cached]
    /\ \A k \in Libraries : owners[k] # {} => k \in spent

(* With serial launches there is one at most, and the limit it set holds      *)
(* until it is over.                                                          *)
LaunchInv ==
    /\ \A t \in Threads : Launching(t) => kernel[t] # None
    /\ SerialLaunches => \A t, u \in Threads : Launching(t) /\ Launching(u) => t = u
    /\ SerialLaunches => \A t \in Threads : pc[t] \in {"cluster", "submit"} =>
                             options[t].num_smem_bytes <= smem[kernel[t]]
    /\ \A t \in Threads : At(t, "submit") /\ options[t].nonportable => big[kernel[t]]

RefusedInv == SerialLaunches => LaunchAdmitted

IInv == /\ TypeOK
        /\ LibrariesOwned
        /\ OptionsTyped
        /\ LoadInv
        /\ ShareInv
        /\ LaunchInv
        /\ RefusedInv

-----------------------------------------------------------------------------
(* What a call leaves open comes from the defaults, which leave nothing open  *)
(* but the grid.                                                              *)
LEMMA OverrideTyped ==
    ASSUME NEW o \in Overrides
    PROVE  OverrideWith(o).num_smem_bytes \in Int
<1>1. "num_smem_bytes" \in LaunchFields \ {"nonportable", "grid_dim"}
  BY DEF LaunchFields
<1>2. Defaults["num_smem_bytes"] \in Int
  BY <1>1, KernelAssumption
<1>3. o["num_smem_bytes"] = None \/ o["num_smem_bytes"] \in Int
  BY <1>1, KernelAssumption
<1> QED
  BY <1>1, <1>2, <1>3 DEF OverrideWith

(* The initial state satisfies the invariant.                                 *)
LEMMA InitHolds == Init => IInv
<1> SUFFICES ASSUME Init PROVE IInv
  OBVIOUS
<1> USE KernelAssumption DEF Init
<1>1. TypeOK
  BY DEF TypeOK
<1>2. LibrariesOwned
  BY DEF LibrariesOwned
<1>3. OptionsTyped /\ LoadInv /\ ShareInv /\ LaunchInv
  BY DEF OptionsTyped, LoadInv, ShareInv, LaunchInv, Launching, At
<1>4. RefusedInv
  BY DEF RefusedInv, LaunchAdmitted
<1> QED
  BY <1>1, <1>2, <1>3, <1>4 DEF IInv

-----------------------------------------------------------------------------
(* Every action preserves the invariant.                                     *)

LEMMA KeepsFindCached ==
    ASSUME IInv, NEW t \in Threads, FindCached(t)
    PROVE  IInv'
<1> USE KernelAssumption DEF IInv, FindCached, At, Goto, End, driver
<1>1. TypeOK'
  BY DEF TypeOK
<1>2. LibrariesOwned'
  BY DEF LibrariesOwned, LoadInv, ShareInv, TypeOK
<1>3. OptionsTyped'
  BY DEF OptionsTyped, Launching, TypeOK
<1>4. LoadInv'
  BY DEF LoadInv, ShareInv, TypeOK
<1>5. ShareInv'
  BY DEF ShareInv, LoadInv, TypeOK
<1>6. LaunchInv'
  BY DEF LaunchInv, Launching, OptionsTyped, TypeOK
<1>7. RefusedInv'
  BY DEF RefusedInv, LaunchAdmitted, TypeOK
<1> QED
  BY <1>1, <1>2, <1>3, <1>4, <1>5, <1>6, <1>7

LEMMA KeepsLoadLibrary ==
    ASSUME IInv, NEW t \in Threads, LoadLibrary(t)
    PROVE  IInv'
<1> USE KernelAssumption DEF IInv, LoadLibrary, At, Goto, End, driver
<1>1. TypeOK'
  BY DEF TypeOK
<1>2. LibrariesOwned'
  BY DEF LibrariesOwned, LoadInv, ShareInv, TypeOK
<1>3. OptionsTyped'
  BY DEF OptionsTyped, Launching, TypeOK
<1>4. LoadInv'
  BY DEF LoadInv, ShareInv, TypeOK
<1>5. ShareInv'
  BY DEF ShareInv, LoadInv, TypeOK
<1>6. LaunchInv'
  BY DEF LaunchInv, Launching, OptionsTyped, TypeOK
<1>7. RefusedInv'
  BY DEF RefusedInv, LaunchAdmitted, TypeOK
<1> QED
  BY <1>1, <1>2, <1>3, <1>4, <1>5, <1>6, <1>7

LEMMA KeepsLoadFails ==
    ASSUME IInv, NEW t \in Threads, LoadFails(t)
    PROVE  IInv'
<1> USE KernelAssumption DEF IInv, LoadFails, At, Goto, End, driver
<1>1. TypeOK'
  BY DEF TypeOK
<1>2. LibrariesOwned'
  BY DEF LibrariesOwned, LoadInv, ShareInv, TypeOK
<1>3. OptionsTyped'
  BY DEF OptionsTyped, Launching, TypeOK
<1>4. LoadInv'
  BY DEF LoadInv, ShareInv, TypeOK
<1>5. ShareInv'
  BY DEF ShareInv, LoadInv, TypeOK
<1>6. LaunchInv'
  BY DEF LaunchInv, Launching, OptionsTyped, TypeOK
<1>7. RefusedInv'
  BY DEF RefusedInv, LaunchAdmitted, TypeOK
<1> QED
  BY <1>1, <1>2, <1>3, <1>4, <1>5, <1>6, <1>7

LEMMA KeepsInspectFails ==
    ASSUME IInv, NEW t \in Threads, InspectFails(t)
    PROVE  IInv'
<1> USE KernelAssumption DEF IInv, InspectFails, At, Goto, End, driver
<1>1. TypeOK'
  BY DEF TypeOK
<1>2. LibrariesOwned'
  BY DEF LibrariesOwned, LoadInv, ShareInv, TypeOK
<1>3. OptionsTyped'
  BY DEF OptionsTyped, Launching, TypeOK
<1>4. LoadInv'
  BY DEF LoadInv, ShareInv, TypeOK
<1>5. ShareInv'
  BY DEF ShareInv, LoadInv, TypeOK
<1>6. LaunchInv'
  BY DEF LaunchInv, Launching, OptionsTyped, TypeOK
<1>7. RefusedInv'
  BY DEF RefusedInv, LaunchAdmitted, TypeOK
<1> QED
  BY <1>1, <1>2, <1>3, <1>4, <1>5, <1>6, <1>7

LEMMA KeepsConstruct ==
    ASSUME IInv, NEW t \in Threads, Construct(t)
    PROVE  IInv'
<1> USE KernelAssumption DEF IInv, Construct, At, Goto, End, driver
<1>1. TypeOK'
  BY DEF TypeOK
<1>2. LibrariesOwned'
  <2> DEFINE k == library[t]
  <2>1. k \in Libraries /\ k # None
    BY DEF LoadInv, TypeOK
  <2>2. {library'[u] : u \in Threads} \ {None} = ({library[u] : u \in Threads} \ {None}) \ {k}
    BY <2>1 DEF LoadInv, TypeOK
  <2>3. {j \in Libraries : owners'[j] # {}} = {j \in Libraries : owners[j] # {}} \cup {k}
    <3>1. t \in owners'[k]
      BY <2>1 DEF TypeOK
    <3>2. \A j \in Libraries : j # k => owners'[j] = owners[j]
      BY <2>1 DEF TypeOK
    <3> HIDE DEF k, Construct
    <3> QED
      BY <2>1, <3>1, <3>2
  <2>4. k \in {library[u] : u \in Threads} \ {None}
    BY <2>1
  <2> QED
    BY <2>2, <2>3, <2>4 DEF LibrariesOwned
<1>3. OptionsTyped'
  BY DEF OptionsTyped, Launching, TypeOK
<1>4. LoadInv'
  BY DEF LoadInv, ShareInv, TypeOK
<1>5. ShareInv'
  BY DEF ShareInv, LoadInv, TypeOK
<1>6. LaunchInv'
  BY DEF LaunchInv, Launching, OptionsTyped, TypeOK
<1>7. RefusedInv'
  BY DEF RefusedInv, LaunchAdmitted, TypeOK
<1> QED
  BY <1>1, <1>2, <1>3, <1>4, <1>5, <1>6, <1>7

LEMMA KeepsDrop ==
    ASSUME IInv, NEW t \in Threads, Drop(t)
    PROVE  IInv'
<1> USE KernelAssumption DEF IInv, Drop, At, Goto, End, driver, Release
<1>1. TypeOK'
  BY DEF TypeOK
<1>2. LibrariesOwned'
  BY DEF LibrariesOwned, LoadInv, ShareInv, TypeOK
<1>3. OptionsTyped'
  BY DEF OptionsTyped, Launching, TypeOK
<1>4. LoadInv'
  BY DEF LoadInv, ShareInv, TypeOK
<1>5. ShareInv'
  BY DEF ShareInv, LoadInv, TypeOK
<1>6. LaunchInv'
  BY DEF LaunchInv, Launching, OptionsTyped, TypeOK
<1>7. RefusedInv'
  BY DEF RefusedInv, LaunchAdmitted, TypeOK
<1> QED
  BY <1>1, <1>2, <1>3, <1>4, <1>5, <1>6, <1>7

LEMMA KeepsDropCache ==
    ASSUME IInv, DropCache
    PROVE  IInv'
<1> USE KernelAssumption DEF IInv, DropCache, At, Goto, End, driver, Release
<1>1. TypeOK'
  BY DEF TypeOK
<1>2. LibrariesOwned'
  BY DEF LibrariesOwned, LoadInv, ShareInv, TypeOK
<1>3. OptionsTyped'
  BY DEF OptionsTyped, Launching, TypeOK
<1>4. LoadInv'
  BY DEF LoadInv, ShareInv, TypeOK
<1>5. ShareInv'
  BY DEF ShareInv, LoadInv, TypeOK
<1>6. LaunchInv'
  BY DEF LaunchInv, Launching, OptionsTyped, TypeOK
<1>7. RefusedInv'
  BY DEF RefusedInv, LaunchAdmitted, TypeOK
<1> QED
  BY <1>1, <1>2, <1>3, <1>4, <1>5, <1>6, <1>7

LEMMA KeepsBegin ==
    ASSUME IInv, NEW t \in Threads, NEW o \in Overrides, Begin(t, o)
    PROVE  IInv'
<1> USE KernelAssumption DEF IInv, Begin, At, Goto, End, driver, Valid, Launching
<1>1. TypeOK'
  BY DEF TypeOK
<1>2. LibrariesOwned'
  BY DEF LibrariesOwned, LoadInv, ShareInv, TypeOK
<1>3. OptionsTyped'
  <2>1. OverrideWith(o).num_smem_bytes \in Int
    BY OverrideTyped
  <2>2. options'[t] = OverrideWith(o)
    BY DEF TypeOK
  <2>3. pc'[t] # "idle" => OverrideWith(o).num_smem_bytes \in Nat
    BY <2>1 DEF TypeOK
  <2> QED
    BY <2>2, <2>3 DEF OptionsTyped, TypeOK
<1>4. LoadInv'
  BY DEF LoadInv, ShareInv, TypeOK
<1>5. ShareInv'
  BY DEF ShareInv, LoadInv, TypeOK
<1>6. LaunchInv'
  BY DEF LaunchInv, Launching, OptionsTyped, TypeOK
<1>7. RefusedInv'
  BY DEF RefusedInv, LaunchAdmitted, TypeOK
<1> QED
  BY <1>1, <1>2, <1>3, <1>4, <1>5, <1>6, <1>7

LEMMA KeepsSetLimit ==
    ASSUME IInv, NEW t \in Threads, SetLimit(t)
    PROVE  IInv'
<1> USE KernelAssumption DEF IInv, SetLimit, At, Goto, End, driver, Launching
<1>1. TypeOK'
  BY DEF TypeOK, OptionsTyped, Launching
<1>2. LibrariesOwned'
  BY DEF LibrariesOwned, LoadInv, ShareInv, TypeOK
<1>3. OptionsTyped'
  BY DEF OptionsTyped, Launching, TypeOK
<1>4. LoadInv'
  BY DEF LoadInv, ShareInv, TypeOK
<1>5. ShareInv'
  BY DEF ShareInv, LoadInv, TypeOK
<1>6. LaunchInv'
  BY DEF LaunchInv, Launching, OptionsTyped, TypeOK
<1>7. RefusedInv'
  BY DEF RefusedInv, LaunchAdmitted, TypeOK
<1> QED
  BY <1>1, <1>2, <1>3, <1>4, <1>5, <1>6, <1>7

LEMMA KeepsAllowCluster ==
    ASSUME IInv, NEW t \in Threads, AllowCluster(t)
    PROVE  IInv'
<1> USE KernelAssumption DEF IInv, AllowCluster, At, Goto, End, driver, Launching
<1>1. TypeOK'
  BY DEF TypeOK
<1>2. LibrariesOwned'
  BY DEF LibrariesOwned, LoadInv, ShareInv, TypeOK
<1>3. OptionsTyped'
  BY DEF OptionsTyped, Launching, TypeOK
<1>4. LoadInv'
  BY DEF LoadInv, ShareInv, TypeOK
<1>5. ShareInv'
  BY DEF ShareInv, LoadInv, TypeOK
<1>6. LaunchInv'
  BY DEF LaunchInv, Launching, OptionsTyped, TypeOK
<1>7. RefusedInv'
  BY DEF RefusedInv, LaunchAdmitted, TypeOK
<1> QED
  BY <1>1, <1>2, <1>3, <1>4, <1>5, <1>6, <1>7

LEMMA KeepsSubmit ==
    ASSUME IInv, NEW t \in Threads, Submit(t)
    PROVE  IInv'
<1> USE KernelAssumption DEF IInv, Submit, At, Goto, End, driver, Admitted, Launching
<1>1. TypeOK'
  BY DEF TypeOK
<1>2. LibrariesOwned'
  BY DEF LibrariesOwned, LoadInv, ShareInv, TypeOK
<1>3. OptionsTyped'
  BY DEF OptionsTyped, Launching, TypeOK
<1>4. LoadInv'
  BY DEF LoadInv, ShareInv, TypeOK
<1>5. ShareInv'
  BY DEF ShareInv, LoadInv, TypeOK
<1>6. LaunchInv'
  BY DEF LaunchInv, Launching, OptionsTyped, TypeOK
<1>7. RefusedInv'
  <2> SUFFICES ASSUME SerialLaunches,
                      outcome'[t] = "refused"
               PROVE  options[t].cluster_dim > Portable /\ ~options[t].nonportable
    BY DEF RefusedInv, LaunchAdmitted, TypeOK
  <2>1. ~Admitted(kernel[t], options[t])
    BY DEF TypeOK
  <2>2. kernel[t] \in loaded
    BY DEF LibrariesOwned, LaunchInv, ShareInv, TypeOK
  <2>3. options[t].num_smem_bytes <= smem[kernel[t]]
    BY DEF LaunchInv
  <2>4. options[t].nonportable => big[kernel[t]]
    BY DEF LaunchInv
  <2> QED
    BY <2>1, <2>2, <2>3, <2>4
<1> QED
  BY <1>1, <1>2, <1>3, <1>4, <1>5, <1>6, <1>7

-----------------------------------------------------------------------------
(* The invariant is inductive.                                                *)
THEOREM Inductive == Spec => []IInv
<1>1. ASSUME IInv, [Next]_vars PROVE IInv'
  <2>1. CASE DropCache
    BY <1>1, <2>1, KeepsDropCache
  <2>2. ASSUME NEW t \in Threads, CallStep(t) PROVE IInv'
    BY <1>1, <2>2, KeepsFindCached, KeepsLoadLibrary, KeepsLoadFails, KeepsInspectFails,
       KeepsConstruct, KeepsDrop, KeepsBegin, KeepsSetLimit, KeepsAllowCluster, KeepsSubmit
       DEF CallStep
  <2>3. CASE UNCHANGED vars
    BY <1>1, <2>3 DEF vars, driver, IInv, TypeOK, LibrariesOwned, OptionsTyped, LoadInv,
       ShareInv, LaunchInv, RefusedInv, LaunchAdmitted, Launching, At
  <2> QED
    BY <1>1, <2>1, <2>2, <2>3 DEF Next
<1> QED
  BY InitHolds, <1>1, PTL DEF Spec

(* Every variable keeps its type, for any threads, libraries and options.     *)
THEOREM TypeCorrect == Spec => []TypeOK
BY Inductive, PTL DEF IInv

(* Whatever loads fail, race or are dropped, in any number of threads, the    *)
(* driver has exactly the libraries that somebody owns (kernel.hpp:84-92 and  *)
(* unload()).                                                                 *)
THEOREM LibrariesAreOwned == Spec => []LibrariesOwned
BY Inductive, PTL DEF IInv

(* Launches that do not overlap are refused only for their own options,       *)
(* whatever the launches before them asked for (kernel.hpp:120-138).          *)
THEOREM LaunchesAreAdmitted ==
    ASSUME SerialLaunches
    PROVE  Spec => []LaunchAdmitted
<1>1. IInv => LaunchAdmitted
  BY DEF IInv, RefusedInv
<1> QED
  BY <1>1, Inductive, PTL

=============================================================================
