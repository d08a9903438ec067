---------------------------- MODULE AicpuBootstrap ----------------------------
(***************************************************************************)
(* AICPU kernels of the Ascend backend: the bootstrap that the first load     *)
(* creates (backend.hpp, load), its requests to the loader on the device      *)
(* (aicpu/bootstrap.hpp), the loader's modules (aicpu/bootstrap_device.hpp),  *)
(* and the life of a kernel object: load, asynchronous launches, unload by    *)
(* its last owner (kernel.hpp).  The driver's streams are external.           *)
(*                                                                           *)
(* A kernel object names the image it loads, and the module that its load      *)
(* request makes.  A shared pointer is a pair: what it points to, and what it  *)
(* owns; two threads that assign and read one without a lock can tell.        *)
(***************************************************************************)
EXTENDS Naturals, FiniteSets, Sequences

CONSTANTS Threads,     (* host threads that use the runtime                  *)
          Kernels,     (* kernel objects, one per load                       *)
          Boots,       (* AicpuBootstrap objects that may ever be made       *)
          Calls,       (* launches of AICPU kernels                          *)
          None,        (* no thread, kernel, bootstrap or call               *)
          Cache,       (* the runtime's memory cache, as an owner of kernels *)
          Exclusive,   (* the application makes no load beside a first one   *)
          MaxFailures  (* bound: requests, waits and copies that fail        *)

ASSUME BootstrapAssumption ==
    /\ None \notin Threads \cup Kernels \cup Boots \cup Calls
    /\ Cache \notin Threads
    /\ Exclusive \in BOOLEAN
    /\ MaxFailures \in Nat

VARIABLES
    pc,       (* where each thread is                                        *)
    me,       (* the kernel it loads or unloads                              *)
    what,     (* the operation of its loader request                         *)
    on,       (* the bootstrap whose loader it asks, or that it releases     *)
    local,    (* the shared pointer it has in its hands                      *)
    after,    (* where it goes on once that is dropped                       *)
    drain,    (* the launches its SynchronizeDevice waits for                *)
    slot,     (* the backend's shared pointer aicpu_bootstrap                *)
    made,     (* bootstraps constructed                                      *)
    dead,     (* bootstraps released                                         *)
    mutex,    (* owner of each loader_mutex                                  *)
    healthy,  (* each loader_healthy                                         *)
    request,  (* the requests queued on each loader stream                   *)
    result,   (* each result_buffer: the request it answers and the status   *)
    life,     (* "fresh", "loading", "loaded" or "gone"                      *)
    owners,   (* who holds each kernel                                       *)
    boot,     (* each kernel's shared pointer aicpu_bootstrap                *)
    handle,   (* each kernel's aicpu_module                                  *)
    mapped,   (* kernels whose image is mapped for the device                *)
    module,   (* modules on the device: "absent", "live" or "freed"          *)
    run,      (* launches: the module, the loader that enters it, how far    *)
    open,     (* the runtime exists                                          *)
    failures  (* history: ACL calls that failed once the device was involved *)

hostVars == <<me, what, on, local, after, drain>>
slotVars == <<slot, made, open>>
loaderVars == <<mutex, healthy, request, result>>
kernelVars == <<life, owners, boot, handle, mapped>>
vars == <<pc, hostVars, slotVars, dead, loaderVars, kernelVars, module, run, failures>>

Null == [ptr |-> None, own |-> None]
Unused == [of |-> None, by |-> None, state |-> "unused"]
Ask(op, k) == [op |-> op, of |-> k]
NoAsk == Ask("none", None)

Init ==
    /\ pc = [t \in Threads |-> "idle"]
    /\ me = [t \in Threads |-> None]
    /\ what = [t \in Threads |-> "none"]
    /\ on = [t \in Threads |-> None]
    /\ local = [t \in Threads |-> Null]
    /\ after = [t \in Threads |-> "idle"]
    /\ drain = [t \in Threads |-> {}]
    /\ slot = Null
    /\ made = {}
    /\ dead = {}
    /\ mutex = [b \in Boots |-> None]
    /\ healthy = [b \in Boots |-> TRUE]
    /\ request = [b \in Boots |-> <<>>]
    /\ result = [b \in Boots |-> [ask |-> NoAsk, ok |-> TRUE]]
    /\ life = [k \in Kernels |-> "fresh"]
    /\ owners = [k \in Kernels |-> {}]
    /\ boot = [k \in Kernels |-> Null]
    /\ handle = [k \in Kernels |-> None]
    /\ mapped = {}
    /\ module = [k \in Kernels |-> "absent"]
    /\ run = [c \in Calls |-> Unused]
    /\ open = TRUE
    /\ failures = 0

-----------------------------------------------------------------------------
GoTo(t, where) == pc' = [pc EXCEPT ![t] = where]

AclFails == failures < MaxFailures /\ failures' = failures + 1

(* A load that throws: the image is unmapped and the kernel object goes.      *)
Discard(k) == /\ life' = [life EXCEPT ![k] = "gone"]
              /\ mapped' = mapped \ {k}
              /\ UNCHANGED <<owners, boot, handle>>

-----------------------------------------------------------------------------
(* Backend::load, with the GIL released.                                      *)

BeginLoad(t, k) ==
    /\ open
    /\ pc[t] = "idle"
    /\ life[k] = "fresh"
    /\ Exclusive => slot.own # None \/ \A j \in Kernels : life[j] # "loading"
    /\ life' = [life EXCEPT ![k] = "loading"]
    /\ me' = [me EXCEPT ![t] = k]
    /\ after' = [after EXCEPT ![t] = "idle"]
    /\ GoTo(t, "test")
    /\ UNCHANGED <<what, on, local, drain, slotVars, dead, loaderVars,
                   owners, boot, handle, mapped, module, run, failures>>

Test(t) ==
    /\ pc[t] = "test"
    /\ GoTo(t, IF slot.ptr = None THEN "build" ELSE "copy")
    /\ UNCHANGED <<hostVars, slotVars, dead, loaderVars, kernelVars, module, run, failures>>

(* The constructor: stream, buffer, loader library, deployment, registration. *)
Build(t, b) ==
    /\ pc[t] = "build"
    /\ b \notin made
    /\ made' = made \cup {b}
    /\ local' = [local EXCEPT ![t] = [ptr |-> b, own |-> b]]
    /\ GoTo(t, "store")
    /\ UNCHANGED <<me, what, on, after, drain, slot, open, dead, loaderVars, kernelVars,
                   module, run, failures>>

(* A constructor that throws releases what it has; there is no loader yet     *)
(* to ask.                                                                    *)
BuildFails(t) ==
    /\ pc[t] = "build"
    /\ Discard(me[t])
    /\ GoTo(t, "idle")
    /\ UNCHANGED <<hostVars, slotVars, dead, loaderVars, module, run, failures>>

(* The assignment of the shared pointer swaps what it points to, then what it *)
(* owns, and drops the old ownership.                                         *)
StorePointer(t) ==
    /\ pc[t] = "store"
    /\ slot' = [slot EXCEPT !.ptr = local[t].ptr]
    /\ local' = [local EXCEPT ![t].ptr = slot.ptr]
    /\ GoTo(t, "own")
    /\ UNCHANGED <<me, what, on, after, drain, made, open, dead, loaderVars, kernelVars,
                   module, run, failures>>

StoreOwner(t) ==
    /\ pc[t] = "own"
    /\ slot' = [slot EXCEPT !.own = local[t].own]
    /\ local' = [local EXCEPT ![t].own = slot.own]
    /\ after' = [after EXCEPT ![t] = "copy"]
    /\ GoTo(t, "unref")
    /\ UNCHANGED <<me, what, on, drain, made, open, dead, loaderVars, kernelVars,
                   module, run, failures>>

(* Kernel::load's argument.                                                   *)
Copy(t) ==
    /\ pc[t] = "copy"
    /\ local' = [local EXCEPT ![t] = slot]
    /\ after' = [after EXCEPT ![t] = "idle"]
    /\ GoTo(t, "map")
    /\ UNCHANGED <<me, what, on, drain, slotVars, dead, loaderVars, kernelVars,
                   module, run, failures>>

(* The binary is read, parsed and mapped: KernelImage.                        *)
Map(t) ==
    /\ pc[t] = "map"
    /\ mapped' = mapped \cup {me[t]}
    /\ what' = [what EXCEPT ![t] = "Load"]
    /\ on' = [on EXCEPT ![t] = local[t].ptr]
    /\ GoTo(t, "lock")
    /\ UNCHANGED <<me, local, after, drain, slotVars, dead, loaderVars, life, owners,
                   boot, handle, module, run, failures>>

MapFails(t) ==
    /\ pc[t] = "map"
    /\ Discard(me[t])
    /\ GoTo(t, "unref")
    /\ UNCHANGED <<hostVars, slotVars, dead, loaderVars, module, run, failures>>

-----------------------------------------------------------------------------
(* AicpuBootstrap::execute, under loader_mutex.                               *)

NextAsk(t) == Ask(what[t], CASE what[t] = "Load"   -> me[t]
                             [] what[t] = "Unload" -> handle[me[t]]
                             [] OTHER              -> None)

(* An error of execute: a load throws, and its kernel and image go; unload    *)
(* and release swallow it.                                                    *)
Failed(t) == /\ GoTo(t, IF what[t] = "Remove" THEN "teardown" ELSE "unref")
             /\ IF what[t] = "Load" THEN Discard(me[t]) ELSE UNCHANGED kernelVars

Unlock(t) == mutex' = [mutex EXCEPT ![on[t]] = None]

Lock(t) ==
    /\ pc[t] = "lock"
    /\ mutex[on[t]] = None
    /\ mutex' = [mutex EXCEPT ![on[t]] = t]
    /\ GoTo(t, "ask")
    /\ UNCHANGED <<hostVars, slotVars, dead, healthy, request, result, kernelVars,
                   module, run, failures>>

Refuse(t) ==
    /\ pc[t] = "ask"
    /\ ~healthy[on[t]]
    /\ Unlock(t)
    /\ Failed(t)
    /\ UNCHANGED <<hostVars, slotVars, dead, healthy, request, result,
                   module, run, failures>>

Request(t) ==
    /\ pc[t] = "ask"
    /\ healthy[on[t]]
    /\ healthy' = [healthy EXCEPT ![on[t]] = FALSE]
    /\ request' = [request EXCEPT ![on[t]] = Append(@, NextAsk(t))]
    /\ GoTo(t, "sync")
    /\ UNCHANGED <<hostVars, slotVars, dead, mutex, result, kernelVars,
                   module, run, failures>>

(* MUTANT of RequestFails: the lock is not given back with the error.         *)
RequestFailsLocked(t) ==
    /\ pc[t] = "ask"
    /\ healthy[on[t]]
    /\ AclFails
    /\ healthy' = [healthy EXCEPT ![on[t]] = FALSE]
    /\ Failed(t)
    /\ UNCHANGED <<hostVars, slotVars, dead, mutex, request, result, module, run>>

RequestFails(t) ==
    /\ pc[t] = "ask"
    /\ healthy[on[t]]
    /\ AclFails
    /\ healthy' = [healthy EXCEPT ![on[t]] = FALSE]
    /\ Unlock(t)
    /\ Failed(t)
    /\ UNCHANGED <<hostVars, slotVars, dead, request, result, module, run>>

(* MUTANT of Synced: the copy does not wait for the loader.                   *)
SyncedAtOnce(t) ==
    /\ pc[t] = "sync"
    /\ GoTo(t, "fetch")
    /\ UNCHANGED <<hostVars, slotVars, dead, loaderVars, kernelVars, module, run, failures>>

Synced(t) ==
    /\ pc[t] = "sync"
    /\ request[on[t]] = <<>>
    /\ GoTo(t, "fetch")
    /\ UNCHANGED <<hostVars, slotVars, dead, loaderVars, kernelVars, module, run, failures>>

(* MUTANT of SyncFails: the next request may use the stream again.            *)
SyncFailsForgiven(t) ==
    /\ pc[t] = "sync"
    /\ AclFails
    /\ healthy' = [healthy EXCEPT ![on[t]] = TRUE]
    /\ Unlock(t)
    /\ Failed(t)
    /\ UNCHANGED <<hostVars, slotVars, dead, request, result, module, run>>

(* A wait that fails: the request may still be served, or have been.          *)
SyncFails(t) ==
    /\ pc[t] = "sync"
    /\ AclFails
    /\ Unlock(t)
    /\ Failed(t)
    /\ UNCHANGED <<hostVars, slotVars, dead, healthy, request, result, module, run>>

(* MUTANT of Loaded: the kernel points to its bootstrap and does not hold it. *)
LoadedWeakly(t, cached) ==
    LET k == me[t] IN
    /\ life' = [life EXCEPT ![k] = "loaded"]
    /\ handle' = [handle EXCEPT ![k] = result[on[t]].ask.of]
    /\ boot' = [boot EXCEPT ![k] = [local[t] EXCEPT !.own = None]]
    /\ local' = [local EXCEPT ![t] = Null]
    /\ owners' = [owners EXCEPT ![k] = IF cached THEN {t, Cache} ELSE {t}]
    /\ mapped' = mapped \ {k}
    /\ GoTo(t, "idle")

(* The kernel that a load makes keeps the bootstrap that its argument held;   *)
(* its caller holds it, and so does the memory cache unless another kernel    *)
(* is there under its key.                                                    *)
Loaded(t, cached) ==
    LET k == me[t] IN
    /\ life' = [life EXCEPT ![k] = "loaded"]
    /\ handle' = [handle EXCEPT ![k] = result[on[t]].ask.of]
    /\ boot' = [boot EXCEPT ![k] = local[t]]
    /\ local' = [local EXCEPT ![t] = Null]
    /\ owners' = [owners EXCEPT ![k] = IF cached THEN {t, Cache} ELSE {t}]
    /\ mapped' = mapped \ {k}
    /\ GoTo(t, "idle")

(* MUTANT of Trusted: an error of the loader disables it like an ACL failure. *)
TrustedIfOk(t) == healthy' = [healthy EXCEPT ![on[t]] = result[on[t]].ok]

Trusted(t) == healthy' = [healthy EXCEPT ![on[t]] = TRUE]

Fetch(t, cached) ==
    /\ pc[t] = "fetch"
    /\ Trusted(t)
    /\ Unlock(t)
    /\ IF what[t] = "Load" /\ result[on[t]].ok
       THEN Loaded(t, cached)
       ELSE Failed(t) /\ UNCHANGED local
    /\ UNCHANGED <<me, what, on, after, drain, slotVars, dead, request, result,
                   module, run, failures>>

FetchFails(t) ==
    /\ pc[t] = "fetch"
    /\ AclFails
    /\ Unlock(t)
    /\ Failed(t)
    /\ UNCHANGED <<hostVars, slotVars, dead, healthy, request, result, module, run>>

-----------------------------------------------------------------------------
(* The last owner of a bootstrap releases it.                                 *)

Held(b, t) == \/ slot.own = b
              \/ \E k \in Kernels : boot[k].own = b
              \/ \E u \in Threads \ {t} : local[u].own = b

Unref(t) ==
    LET b == local[t].own IN
    /\ pc[t] = "unref"
    /\ local' = [local EXCEPT ![t] = Null]
    /\ IF b # None /\ ~Held(b, t)
       THEN /\ on' = [on EXCEPT ![t] = b]
            /\ what' = [what EXCEPT ![t] = "Remove"]
            /\ GoTo(t, IF healthy[b] THEN "lock" ELSE "teardown")
       ELSE /\ GoTo(t, after[t])
            /\ UNCHANGED <<on, what>>
    /\ UNCHANGED <<me, after, drain, slotVars, dead, loaderVars, kernelVars,
                   module, run, failures>>

(* The stream is waited for and destroyed, with what is still queued on it,   *)
(* and the buffer and the binary go.                                          *)
DestroyAll(t) ==
    /\ dead' = dead \cup {on[t]}
    /\ request' = [request EXCEPT ![on[t]] = <<>>]
    /\ GoTo(t, after[t])
    /\ UNCHANGED <<hostVars, slotVars, mutex, healthy, result, kernelVars, module, run>>

Teardown(t) ==
    /\ pc[t] = "teardown"
    /\ request[on[t]] = <<>>
    /\ DestroyAll(t)
    /\ UNCHANGED failures

(* A wait that fails is ignored.                                              *)
TeardownAnyway(t) ==
    /\ pc[t] = "teardown"
    /\ AclFails
    /\ DestroyAll(t)

-----------------------------------------------------------------------------
(* Kernel: shared ownership, launch, unload.                                  *)

(* A hit in the memory cache.                                                 *)
Get(t, k) ==
    /\ open
    /\ pc[t] = "idle"
    /\ Cache \in owners[k]
    /\ t \notin owners[k]
    /\ owners' = [owners EXCEPT ![k] = @ \cup {t}]
    /\ UNCHANGED <<pc, hostVars, slotVars, dead, loaderVars, life, boot, handle, mapped,
                   module, run, failures>>

Launch(t, k, c) ==
    /\ pc[t] = "idle"
    /\ t \in owners[k]
    /\ run[c] = Unused
    /\ run' = [run EXCEPT ![c] = [of |-> handle[k], by |-> boot[k].ptr, state |-> "queued"]]
    /\ UNCHANGED <<pc, hostVars, slotVars, dead, loaderVars, kernelVars, module, failures>>

Active == {c \in Calls : run[c].state \in {"queued", "running"}}

(* An owner lets go of k and goes on at `next'.  The last one enters ~Kernel, *)
(* where SynchronizeDevice waits for what is launched.                        *)
LetGo(t, o, k, next) ==
    /\ owners' = [owners EXCEPT ![k] = @ \ {o}]
    /\ IF owners[k] = {o}
       THEN /\ me' = [me EXCEPT ![t] = k]
            /\ life' = [life EXCEPT ![k] = "gone"]
            /\ local' = [local EXCEPT ![t] = boot[k]]
            /\ boot' = [boot EXCEPT ![k] = Null]
            /\ on' = [on EXCEPT ![t] = boot[k].ptr]
            /\ drain' = [drain EXCEPT ![t] = Active]
            /\ after' = [after EXCEPT ![t] = next]
            /\ GoTo(t, "drain")
       ELSE UNCHANGED <<pc, me, life, local, boot, on, drain, after>>
    /\ UNCHANGED <<what, slotVars, dead, loaderVars, handle, mapped, module, run, failures>>

Drop(t, k) ==
    /\ pc[t] = "idle"
    /\ t \in owners[k]
    /\ LetGo(t, t, k, "idle")

(* MUTANT of Drained: the kernel goes without its unload.                     *)
DrainedSkip(t) ==
    /\ pc[t] = "drain"
    /\ drain[t] \cap Active = {}
    /\ drain' = [drain EXCEPT ![t] = {}]
    /\ GoTo(t, "unref")
    /\ UNCHANGED <<me, what, on, local, after, slotVars, dead, loaderVars, kernelVars,
                   module, run, failures>>

(* MUTANT of Drained: the unload does not wait for queued launches.           *)
DrainedEarly(t) ==
    /\ pc[t] = "drain"
    /\ what' = [what EXCEPT ![t] = "Unload"]
    /\ drain' = [drain EXCEPT ![t] = {}]
    /\ GoTo(t, "lock")
    /\ UNCHANGED <<me, on, local, after, slotVars, dead, loaderVars, kernelVars,
                   module, run, failures>>

Drained(t) ==
    /\ pc[t] = "drain"
    /\ drain[t] \cap Active = {}
    /\ what' = [what EXCEPT ![t] = "Unload"]
    /\ drain' = [drain EXCEPT ![t] = {}]
    /\ GoTo(t, "lock")
    /\ UNCHANGED <<me, on, local, after, slotVars, dead, loaderVars, kernelVars,
                   module, run, failures>>

(* The module stays on the device.                                            *)
DrainFails(t) ==
    /\ pc[t] = "drain"
    /\ AclFails
    /\ drain' = [drain EXCEPT ![t] = {}]
    /\ GoTo(t, "unref")
    /\ UNCHANGED <<me, what, on, local, after, slotVars, dead, loaderVars, kernelVars,
                   module, run>>

-----------------------------------------------------------------------------
(* The end of the runtime: the memory cache goes before the backend.          *)

Close(t) ==
    /\ open
    /\ pc[t] = "idle"
    /\ \A k \in Kernels : life[k] # "loading"
    /\ open' = FALSE
    /\ GoTo(t, "closing")
    /\ UNCHANGED <<hostVars, slot, made, dead, loaderVars, kernelVars, module, run, failures>>

Uncache(t, k) ==
    /\ pc[t] = "closing"
    /\ Cache \in owners[k]
    /\ LetGo(t, Cache, k, "closing")

DropSlot(t) ==
    /\ pc[t] = "closing"
    /\ \A k \in Kernels : Cache \notin owners[k]
    /\ local' = [local EXCEPT ![t] = slot]
    /\ slot' = Null
    /\ after' = [after EXCEPT ![t] = "idle"]
    /\ GoTo(t, "unref")
    /\ UNCHANGED <<me, what, on, drain, made, open, dead, loaderVars, kernelVars,
                   module, run, failures>>

-----------------------------------------------------------------------------
(* The device: the loader's entry, for a request and for a launch.            *)

Serve(b, ok) ==
    LET ask == Head(request[b]) IN
    /\ request[b] # <<>>
    /\ ask.op = "Unload" => ok
    /\ request' = [request EXCEPT ![b] = Tail(@)]
    /\ result' = [result EXCEPT ![b] = [ask |-> ask, ok |-> ok]]
    /\ module' = CASE ask.op = "Load" /\ ok -> [module EXCEPT ![ask.of] = "live"]
                   [] ask.op = "Unload"     -> [module EXCEPT ![ask.of] = "freed"]
                   [] OTHER                 -> module
    /\ UNCHANGED <<pc, hostVars, slotVars, dead, mutex, healthy, kernelVars, run, failures>>

Invoke(c) ==
    /\ run[c].state = "queued"
    /\ run' = [run EXCEPT ![c].state = "running"]
    /\ UNCHANGED <<pc, hostVars, slotVars, dead, loaderVars, kernelVars, module, failures>>

Return(c) ==
    /\ run[c].state = "running"
    /\ run' = [run EXCEPT ![c].state = "ended"]
    /\ UNCHANGED <<pc, hostVars, slotVars, dead, loaderVars, kernelVars, module, failures>>

-----------------------------------------------------------------------------
(* What a thread does on its own once it is in a call, and what it may start. *)

LoadStep(t) == Test(t) \/ (\E b \in Boots : Build(t, b)) \/ BuildFails(t) \/ StorePointer(t)
               \/ StoreOwner(t) \/ Copy(t) \/ Map(t) \/ MapFails(t)
ExecuteStep(t) == Lock(t) \/ Refuse(t) \/ Request(t) \/ RequestFails(t) \/ Synced(t)
                  \/ SyncFails(t) \/ (\E cached \in BOOLEAN : Fetch(t, cached)) \/ FetchFails(t)
EndStep(t) == Unref(t) \/ Teardown(t) \/ TeardownAnyway(t) \/ Drained(t) \/ DrainFails(t)
              \/ (\E k \in Kernels : Uncache(t, k)) \/ DropSlot(t)
InCall(t) == LoadStep(t) \/ ExecuteStep(t) \/ EndStep(t)

Starts(t) == \/ Close(t)
             \/ \E k \in Kernels : BeginLoad(t, k) \/ Get(t, k) \/ Drop(t, k)
             \/ \E k \in Kernels, c \in Calls : Launch(t, k, c)

Device == \/ \E b \in Boots, ok \in BOOLEAN : Serve(b, ok)
          \/ \E c \in Calls : Invoke(c) \/ Return(c)

Next == Device \/ \E t \in Threads : InCall(t) \/ Starts(t)

Spec == Init /\ [][Next]_vars

(* The host schedules its threads and the device serves its streams; nothing  *)
(* makes the application begin a call.  A mutex need not be fair: a thread     *)
(* that waits for it gets it because the others' calls come to an end.        *)
Fairness ==
    /\ \A t \in Threads : WF_vars(InCall(t))
    /\ \A b \in Boots : WF_vars(\E ok \in BOOLEAN : Serve(b, ok))
    /\ \A c \in Calls : WF_vars(Invoke(c)) /\ WF_vars(Return(c))

FairSpec == Spec /\ Fairness

-----------------------------------------------------------------------------
Executing(t) == pc[t] \in {"lock", "ask", "sync", "fetch", "teardown"}

(* Types, and what load's assertion says of its argument (kernel.hpp, l.201): *)
(* a request is made of a bootstrap, and the lock is its maker's.             *)
TypeOK ==
    /\ pc \in [Threads -> {"idle", "test", "build", "store", "own", "copy", "map", "lock",
                           "ask", "sync", "fetch", "unref", "teardown", "drain", "closing"}]
    /\ me \in [Threads -> Kernels \cup {None}]
    /\ what \in [Threads -> {"none", "Load", "Unload", "Remove"}]
    /\ after \in [Threads -> {"idle", "copy", "closing"}]
    /\ drain \in [Threads -> SUBSET Calls]
    /\ made \subseteq Boots /\ dead \subseteq made /\ mapped \subseteq Kernels
    /\ life \in [Kernels -> {"fresh", "loading", "loaded", "gone"}]
    /\ owners \in [Kernels -> SUBSET (Threads \cup {Cache})]
    /\ module \in [Kernels -> {"absent", "live", "freed"}]
    /\ failures \in 0 .. MaxFailures
    /\ \A t \in Threads :
        /\ Executing(t) => on[t] \in made
        /\ pc[t] \in {"ask", "sync", "fetch"} <=> \E b \in Boots : mutex[b] = t

(* The header's rule (bootstrap.hpp, l.311: "code and memfd must survive all  *)
(* queued calls"): every launch that the device has not ended names a module  *)
(* that is there, failures included.                                          *)
NoStaleInvoke == \A c \in Active : module[run[c].of] = "live"

(* A load that succeeds has the module that its own request made, whoever     *)
(* else used the buffer, and that module stays while the kernel does.         *)
OwnResult == \A k \in Kernels : life[k] = "loaded" => handle[k] = k /\ module[k] = "live"

(* The result buffer has one writer at a time, also after a wait that failed  *)
(* (bootstrap.hpp, l.283: "ACL failures disable reuse").                      *)
OneWriter == \A b \in Boots : Len(request[b]) <= 1

(* The other half of that comment: without an ACL failure no request is ever  *)
(* refused, whatever errors the loader itself has reported.                   *)
NeverRefused == failures = 0 => \A b \in Boots : mutex[b] = None => healthy[b]

(* Nothing is released under whoever uses it.  No thread uses a bootstrap     *)
(* that was released; and as long as no ACL call fails, no launch enters      *)
(* through the binary of one, and the device reads an image only while it is  *)
(* mapped (bootstrap.hpp, l.36: "The mapping is released after Load").        *)
NoUseAfterRelease ==
    /\ \A t \in Threads : Executing(t) => on[t] \notin dead
    /\ failures = 0 =>
        /\ \A c \in Active : run[c].by \notin dead
        /\ \A b \in Boots : \A i \in DOMAIN request[b] :
              request[b][i].op = "Load" => request[b][i].of \in mapped

(* When the runtime is gone, every kernel has been dropped and no ACL call    *)
(* failed, nothing is left: no module, no mapping, no bootstrap.              *)
NoLeak ==
    (/\ ~open /\ failures = 0
     /\ \A t \in Threads : pc[t] = "idle"
     /\ \A k \in Kernels : life[k] \in {"fresh", "gone"})
    => /\ mapped = {} /\ made = dead
       /\ \A k \in Kernels : module[k] # "live"

(* Every call returns: a load, a drop and the end of the runtime do not wait  *)
(* for each other for ever, also with failures and with requests refused.     *)
CallsEnd == \A t \in Threads : pc[t] # "idle" ~> pc[t] = "idle"

(* The class comment (bootstrap.hpp, l.193): "One bootstrap per Runtime,      *)
(* created on the first AICPU load".  Two first loads at once make two.       *)
OneBootstrap == Cardinality(made) <= 1

=============================================================================
