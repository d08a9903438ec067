------------------------------ MODULE CudaKernel ------------------------------
(***************************************************************************)
(* Kernels of the CUDA backend (backend/cuda/kernel.hpp): loaded into the    *)
(* driver, shared by the memory cache and the threads that were given them,  *)
(* launched, and unloaded with their last owner.                             *)
(*                                                                           *)
(* Granularity: one action per call of the driver.  A thread that launches    *)
(* gives up the GIL first, so the calls of two launches interleave, unless    *)
(* SerialLaunches: one thread launches, or the build has DJ_DISABLE_GIL=1 and *)
(* its callers keep the GIL.  The attributes that a launch sets live in the   *)
(* driver, one set per function.                                             *)
(***************************************************************************)
EXTENDS Integers, FiniteSets

CONSTANTS Threads,
          Libraries,   (* libraries the driver may ever load; a Kernel has the name of its own *)
          Cache,       (* an owner: Runtime::mem_cache                       *)
          Defaults,    (* Runtime::default_launch_options                    *)
          Overrides,   (* LaunchOptions of the calls                         *)
          DefaultSmem, (* dynamic shared memory a function may use unasked   *)
          DeviceSmem,  (* and at most, as an attribute                       *)
          Portable,    (* largest portable cluster                           *)
          SerialLaunches, (* no two launches overlap                         *)
          MaxLaunches, (* bound: launches                                    *)
          None         (* std::nullopt, nullptr                              *)

LaunchFields == {"num_smem_bytes", "grid_dim", "cluster_dim", "nonportable"}

ASSUME KernelAssumption ==
    /\ Cache \notin Threads /\ None \notin Threads \cup Libraries
    /\ DefaultSmem \in Nat /\ DeviceSmem \in Nat /\ DefaultSmem <= DeviceSmem
    /\ Portable \in Nat /\ MaxLaunches \in Nat /\ SerialLaunches \in BOOLEAN
    /\ \A o \in Overrides \cup {Defaults} : DOMAIN o = LaunchFields
    /\ \A o \in Overrides \cup {Defaults}, f \in LaunchFields \ {"nonportable"} :
          o[f] = None \/ o[f] \in Int
    /\ \A f \in LaunchFields \ {"grid_dim"} : Defaults[f] # None

VARIABLES
    pc,       (* where each thread is                                        *)
    library,  (* the local library_handle of a load                          *)
    kernel,   (* the shared_ptr a thread holds                               *)
    options,  (* the launch options in effect                                *)
    outcome,  (* of a thread's last call                                     *)
    owners,   (* who shares each Kernel                                      *)
    cached,   (* the kernel in mem_cache                                     *)
    loaded,   (* libraries in the driver                                     *)
    spent,    (* those that were ever loaded: a handle is not used again     *)
    smem,     (* CU_FUNC_ATTRIBUTE_MAX_DYNAMIC_SHARED_SIZE_BYTES             *)
    big,      (* CU_FUNC_ATTRIBUTE_NON_PORTABLE_CLUSTER_SIZE_ALLOWED         *)
    launches  (* bound: launches made                                        *)

driver == <<loaded, spent, smem, big>>
vars == <<pc, library, kernel, options, outcome, owners, cached, driver, launches>>

Init == /\ pc = [t \in Threads |-> "idle"]
        /\ library = [t \in Threads |-> None]
        /\ kernel = [t \in Threads |-> None]
        /\ options = [t \in Threads |-> Defaults]
        /\ outcome = [t \in Threads |-> "none"]
        /\ owners = [k \in Libraries |-> {}]
        /\ cached = None
        /\ loaded = {}
        /\ spent = {}
        /\ smem = [k \in Libraries |-> DefaultSmem]
        /\ big = [k \in Libraries |-> FALSE]
        /\ launches = 0

At(t, l) == pc[t] = l
Goto(t, l) == pc' = [pc EXCEPT ![t] = l]

(* The call ends with an outcome.                                             *)
End(t, o) == Goto(t, "idle") /\ outcome' = [outcome EXCEPT ![t] = o]

-----------------------------------------------------------------------------
(* compile(), seen from the kernel: the memory cache, and Kernel::load.       *)

FindCached(t) ==
    /\ At(t, "idle")
    /\ kernel[t] = None
    /\ IF cached # None
       THEN /\ kernel' = [kernel EXCEPT ![t] = cached]
            /\ owners' = [owners EXCEPT ![cached] = @ \cup {t}]
            /\ End(t, "ok")
       ELSE /\ Goto(t, "load")
            /\ UNCHANGED <<kernel, owners, outcome>>
    /\ UNCHANGED <<library, options, cached, driver, launches>>

LoadLibrary(t) ==
    /\ At(t, "load")
    /\ \E k \in Libraries \ spent :
          /\ loaded' = loaded \cup {k}
          /\ spent' = spent \cup {k}
          /\ library' = [library EXCEPT ![t] = k]
    /\ Goto(t, "inspect")
    /\ UNCHANGED <<kernel, options, outcome, owners, cached, smem, big, launches>>

(* The CUBIN is missing or unreadable, or the driver refuses it.              *)
LoadFails(t) ==
    /\ At(t, "load")
    /\ End(t, "error")
    /\ UNCHANGED <<library, kernel, options, owners, cached, driver, launches>>

(* The number of kernels is not one, or a call that looks for it fails.       *)
(* MUTANT: the catch block only rethrows.                                     *)
InspectFailsLoaded(t) ==
    /\ At(t, "inspect")
    /\ library' = [library EXCEPT ![t] = None]
    /\ End(t, "error")
    /\ UNCHANGED <<kernel, options, owners, cached, driver, launches>>

InspectFails(t) ==
    /\ At(t, "inspect")
    /\ loaded' = loaded \ {library[t]}
    /\ library' = [library EXCEPT ![t] = None]
    /\ End(t, "error")
    /\ UNCHANGED <<kernel, options, owners, cached, spent, smem, big, launches>>

(* The Kernel is made; back under the GIL it enters the cache unless another  *)
(* thread's did meanwhile, and is returned in either case.                    *)
Construct(t) ==
    /\ At(t, "inspect")
    /\ LET k == library[t]
       IN /\ kernel' = [kernel EXCEPT ![t] = k]
          /\ cached' = IF cached = None THEN k ELSE cached
          /\ owners' = [owners EXCEPT ![k] = {t} \cup (IF cached = None THEN {Cache} ELSE {})]
    /\ library' = [library EXCEPT ![t] = None]
    /\ End(t, "ok")
    /\ UNCHANGED <<options, driver, launches>>

(* An owner lets go of k; ~Kernel unloads the library after the last one.     *)
Release(k, x) ==
    /\ owners' = [owners EXCEPT ![k] = @ \ {x}]
    /\ loaded' = IF owners[k] = {x} THEN loaded \ {k} ELSE loaded

Drop(t) ==
    /\ At(t, "idle")
    /\ kernel[t] # None
    /\ Release(kernel[t], t)
    /\ kernel' = [kernel EXCEPT ![t] = None]
    /\ UNCHANGED <<pc, library, options, outcome, cached, spent, smem, big, launches>>

(* The runtime is destroyed, and another one created in its place.            *)
DropCache ==
    /\ cached # None
    /\ \A t \in Threads : pc[t] \notin {"load", "inspect"}
    /\ Release(cached, Cache)
    /\ cached' = None
    /\ UNCHANGED <<pc, library, kernel, options, outcome, spent, smem, big, launches>>

-----------------------------------------------------------------------------
(* Runtime::launch and Kernel::launch.                                        *)

OverrideWith(o) == [f \in LaunchFields |-> IF o[f] = None THEN Defaults[f] ELSE o[f]]

Valid(o) == /\ o.num_smem_bytes >= 0
            /\ o.grid_dim # None /\ o.grid_dim > 0
            /\ o.cluster_dim > 0

Launching(t) == pc[t] \in {"limit", "cluster", "submit"}

Begin(t, over) ==
    /\ At(t, "idle")
    /\ launches < MaxLaunches /\ launches' = launches + 1
    /\ SerialLaunches => \A u \in Threads : ~Launching(u)
    /\ options' = [options EXCEPT ![t] = OverrideWith(over)]
    /\ IF kernel[t] # None /\ Valid(OverrideWith(over))
       THEN Goto(t, "limit") /\ outcome' = [outcome EXCEPT ![t] = "none"]
       ELSE End(t, "invalid")
    /\ UNCHANGED <<library, kernel, owners, cached, driver>>

(* "Set maximum dynamic shared memory": to what this launch asks for.         *)
(* MUTANT: only a function that still has the default is given a limit.       *)
SetLimitOnce(t) ==
    /\ At(t, "limit")
    /\ LET n == options[t].num_smem_bytes
       IN IF n > DeviceSmem
          THEN End(t, "error") /\ UNCHANGED smem
          ELSE /\ smem' = IF smem[kernel[t]] = DefaultSmem /\ n > 0
                          THEN [smem EXCEPT ![kernel[t]] = n] ELSE smem
               /\ Goto(t, "cluster")
               /\ UNCHANGED outcome
    /\ UNCHANGED <<library, kernel, options, owners, cached, loaded, spent, big, launches>>

SetLimit(t) ==
    /\ At(t, "limit")
    /\ LET n == options[t].num_smem_bytes
       IN IF n > DeviceSmem
          THEN End(t, "error") /\ UNCHANGED smem
          ELSE /\ smem' = IF n > 0 THEN [smem EXCEPT ![kernel[t]] = n] ELSE smem
               /\ Goto(t, "cluster")
               /\ UNCHANGED outcome
    /\ UNCHANGED <<library, kernel, options, owners, cached, loaded, spent, big, launches>>

(* Set and never reset.                                                       *)
AllowCluster(t) ==
    /\ At(t, "cluster")
    /\ big' = IF options[t].nonportable THEN [big EXCEPT ![kernel[t]] = TRUE] ELSE big
    /\ Goto(t, "submit")
    /\ UNCHANGED <<library, kernel, options, outcome, owners, cached, loaded, spent, smem, launches>>

(* What the driver requires of cuLaunchKernelEx.                              *)
Admitted(k, o) == /\ k \in loaded
                  /\ o.num_smem_bytes <= smem[k]
                  /\ o.cluster_dim > Portable => big[k]

Submit(t) ==
    /\ At(t, "submit")
    /\ End(t, IF Admitted(kernel[t], options[t]) THEN "ok" ELSE "refused")
    /\ UNCHANGED <<library, kernel, options, owners, cached, driver, launches>>

CallStep(t) ==
    \/ FindCached(t) \/ LoadLibrary(t) \/ LoadFails(t) \/ InspectFails(t) \/ Construct(t)
    \/ Drop(t)
    \/ \E o \in Overrides : Begin(t, o)
    \/ SetLimit(t) \/ AllowCluster(t) \/ Submit(t)

Next == DropCache \/ \E t \in Threads : CallStep(t)

Spec == Init /\ [][Next]_vars

-----------------------------------------------------------------------------
TypeOK ==
    /\ pc \in [Threads -> {"idle", "load", "inspect", "limit", "cluster", "submit"}]
    /\ library \in [Threads -> Libraries \cup {None}]
    /\ kernel \in [Threads -> Libraries \cup {None}]
    /\ options \in [Threads -> {OverrideWith(o) : o \in Overrides} \cup {Defaults}]
    /\ outcome \in [Threads -> {"none", "ok", "error", "invalid", "refused"}]
    /\ owners \in [Libraries -> SUBSET (Threads \cup {Cache})]
    /\ cached \in Libraries \cup {None}
    /\ loaded \subseteq Libraries /\ spent \subseteq Libraries
    /\ smem \in [Libraries -> 0 .. DeviceSmem] /\ big \in [Libraries -> BOOLEAN]
    /\ launches \in 0 .. MaxLaunches

(* A library is in the driver exactly while a load in progress holds it or a  *)
(* Kernel that somebody shares does: none is leaked when a load fails after   *)
(* the driver took the CUBIN, or when two threads load one kernel and the     *)
(* cache keeps one, and none is unloaded under a thread that launches it.     *)
LibrariesOwned ==
    loaded = ({library[t] : t \in Threads} \ {None}) \cup {k \in Libraries : owners[k] # {}}

(* Nothing but a launch's own options makes the driver refuse it: what other  *)
(* launches of the shared kernel set before does not.                         *)
LaunchAdmitted ==
    \A t \in Threads : outcome[t] = "refused" =>
        options[t].cluster_dim > Portable /\ ~options[t].nonportable
=============================================================================
