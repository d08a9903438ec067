------------------------- MODULE AicpuBootstrapProofs -------------------------
(***************************************************************************)
(* Theorems of AicpuBootstrap.  Of the loader alone, whatever the host does:  *)
(* the types, that its result buffer has one writer, and that it refuses      *)
(* nothing without an ACL failure.  Of kernels, when the application makes no *)
(* load beside a first one: that one bootstrap is made, that a load gets its  *)
(* own module, that no launch names a module that is gone, that nothing is    *)
(* used after its release, and that nothing is left at the end.               *)
(***************************************************************************)
EXTENDS AicpuBootstrap, FiniteSetTheorems, TLAPS

Pointer == [ptr: Boots \cup {None}, own: Boots \cup {None}]
Asks == [op: {"none", "Load", "Unload", "Remove"}, of: Kernels \cup {None}]
Launched == [of: Kernels \cup {None}, by: Boots \cup {None},
             state: {"unused", "queued", "running", "ended"}]

(* The parts of a call.                                                       *)
InExecute(t) == pc[t] \in {"lock", "ask", "sync", "fetch"}
InLoader(t) == pc[t] \in {"ask", "sync", "fetch"}
Asked(t) == pc[t] \in {"sync", "fetch"}
Loading(t) == \/ pc[t] \in {"test", "build", "store", "own", "copy", "map"}
              \/ after[t] = "copy"
              \/ InExecute(t) /\ what[t] = "Load"
Unloading(t) == \/ pc[t] = "drain"
                \/ InExecute(t) /\ what[t] = "Unload"
Removing(t) == \/ pc[t] = "teardown"
               \/ InExecute(t) /\ what[t] = "Remove"

(* The domains of the variables: those of TypeOK, and those left to Init.     *)
Labels == {"idle", "test", "build", "store", "own", "copy", "map", "lock",
           "ask", "sync", "fetch", "unref", "teardown", "drain", "closing"}

HostTyped ==
    /\ pc \in [Threads -> Labels]
    /\ me \in [Threads -> Kernels \cup {None}]
    /\ what \in [Threads -> {"none", "Load", "Unload", "Remove"}]
    /\ on \in [Threads -> Boots \cup {None}]
    /\ local \in [Threads -> Pointer]
    /\ after \in [Threads -> {"idle", "copy", "closing"}]
    /\ drain \in [Threads -> SUBSET Calls]

LoaderTyped ==
    /\ slot \in Pointer
    /\ made \subseteq Boots /\ dead \subseteq made
    /\ mutex \in [Boots -> Threads \cup {None}]
    /\ healthy \in [Boots -> BOOLEAN]
    /\ DOMAIN request = Boots /\ request = [b \in Boots |-> request[b]]
    /\ \A b \in Boots : request[b] = <<>> \/ \E a \in Asks : request[b] = <<a>>
    /\ result \in [Boots -> [ask: Asks, ok: BOOLEAN]]
    /\ open \in BOOLEAN
    /\ failures \in 0 .. MaxFailures

KernelTyped ==
    /\ mapped \subseteq Kernels
    /\ life \in [Kernels -> {"fresh", "loading", "loaded", "gone"}]
    /\ owners \in [Kernels -> SUBSET (Threads \cup {Cache})]
    /\ boot \in [Kernels -> Pointer]
    /\ handle \in [Kernels -> Kernels \cup {None}]
    /\ module \in [Kernels -> {"absent", "live", "freed"}]
    /\ run \in [Calls -> Launched]

(* A kernel is loaded by one thread, and held only while it is loaded.        *)
LifeInv ==
    /\ \A t \in Threads : Loading(t) => me[t] \in Kernels /\ life[me[t]] = "loading"
    /\ \A t, u \in Threads : Loading(t) /\ Loading(u) /\ me[t] = me[u] => t = u
    /\ \A t \in Threads : Unloading(t) => me[t] \in Kernels /\ life[me[t]] = "gone"
    /\ \A k \in Kernels : owners[k] # {} => life[k] = "loaded"
    /\ \A t \in Threads : Loading(t) => open
    /\ \A t \in Threads : pc[t] = "closing" \/ after[t] = "closing" => ~open
    /\ \A t \in Threads : InExecute(t) => what[t] # "none"
    /\ \A t \in Threads : after[t] = "copy" => pc[t] \in {"unref", "copy"} \/ Removing(t)
    /\ \A t \in Threads : pc[t] = "teardown" => what[t] = "Remove"

(* A pointer that a request will be made through points to a bootstrap.       *)
PointerInv ==
    /\ slot.ptr \in made \cup {None} /\ slot.own \in made \cup {None}
    /\ \A t \in Threads :
          local[t].ptr \in made \cup {None} /\ local[t].own \in made \cup {None}
    /\ \A k \in Kernels :
          boot[k].ptr \in made \cup {None} /\ boot[k].own \in made \cup {None}
    /\ \A k \in Kernels : life[k] = "loaded" => boot[k].ptr \in made
    /\ \A t \in Threads :
        /\ pc[t] \in {"own", "copy"} \/ after[t] = "copy" => slot.ptr \in made
        /\ pc[t] \in {"store", "map"} => local[t].ptr \in made
        /\ InExecute(t) /\ what[t] = "Load" => local[t].ptr \in made
        /\ pc[t] = "drain" \/ Executing(t) => on[t] \in made

(* The lock is its maker's, and the stream is trusted only when it is empty.  *)
LockInv == \A t \in Threads, b \in Boots : mutex[b] = t <=> InLoader(t) /\ on[t] = b

StreamInv ==
    /\ \A b \in Boots : request[b] # <<>> => ~healthy[b]
    /\ \A t \in Threads : Asked(t) => ~healthy[on[t]]
    /\ \A t \in Threads : pc[t] = "fetch" => request[on[t]] = <<>>

(* Without a failure only a request in progress takes the trust away.         *)
ReuseInv ==
    failures = 0 => \A b \in Boots : healthy[b] \/ \E t \in Threads : Asked(t) /\ on[t] = b

Typed == HostTyped /\ LoaderTyped /\ KernelTyped

LInv == Typed /\ LifeInv /\ PointerInv /\ LockInv /\ StreamInv /\ ReuseInv

-----------------------------------------------------------------------------
(* A shared pointer that owns what it points to.                              *)
Whole(p) == p.own \in made /\ p.ptr = p.own

Owned(b) == \/ slot.own = b
            \/ \E k \in Kernels : boot[k].own = b
            \/ \E t \in Threads : local[t].own = b

(* The first load is alone until its bootstrap is stored; so there is one,    *)
(* and nobody copies half a pointer.                                          *)
FirstInv ==
    /\ \A b, c \in made : b = c
    /\ \A t \in Threads :
        /\ pc[t] \in {"build", "store", "own"} => slot.own = None
        /\ pc[t] \in {"test", "build", "store", "own"} /\ slot.own = None =>
              \A k \in Kernels : life[k] = "loading" => k = me[t]
        /\ pc[t] \in {"test", "build"} /\ slot.own = None => made = {}
    /\ open /\ slot.own = None =>
          made = {} \/ \E t \in Threads : pc[t] \in {"store", "own"}
    /\ \A k \in Kernels : life[k] = "loading" => \E t \in Threads : Loading(t) /\ me[t] = k

SlotInv ==
    /\ slot.own # None => Whole(slot)
    /\ slot.own = None /\ slot.ptr # None => \E t \in Threads : pc[t] = "own"
    /\ \A t \in Threads : pc[t] = "copy" \/ after[t] = "copy" => slot.own # None
    /\ \A t \in Threads : after[t] = "copy" => pc[t] \in {"unref", "copy"}
    /\ ~open /\ slot # Null => \E t \in Threads :
          \/ pc[t] = "closing"
          \/ pc[t] \in {"drain", "unref"} \cup {"lock", "ask", "sync", "fetch", "teardown"}
             /\ after[t] = "closing"

LocalOf(t) ==
    CASE pc[t] = "own" -> local[t].ptr = None /\ local[t].own \in made /\ slot.ptr = local[t].own
      [] pc[t] \in {"store", "map", "drain"} -> Whole(local[t])
      [] InExecute(t) /\ what[t] # "Remove" -> Whole(local[t]) /\ local[t].own = on[t]
      [] pc[t] = "unref" /\ after[t] # "copy" -> local[t] = Null \/ Whole(local[t])
      [] OTHER -> local[t] = Null

LocalInv ==
    /\ \A t \in Threads : LocalOf(t)
    /\ \A t \in Threads : pc[t] = "drain" => on[t] = local[t].own
    /\ \A k \in Kernels : IF life[k] = "loaded" THEN Whole(boot[k]) ELSE boot[k] = Null

(* A bootstrap is owned, or being released by one thread, or gone.            *)
ReleaseInv ==
    /\ \A b \in dead : ~Owned(b)
    /\ \A t \in Threads : Removing(t) => ~Owned(on[t]) /\ on[t] \notin dead
    /\ \A t, u \in Threads : Removing(t) /\ Removing(u) /\ on[t] = on[u] => t = u
    /\ \A b \in made : b \in dead \/ Owned(b) \/ \E t \in Threads : Removing(t) /\ on[t] = b

(* The requests in a stream: who made them, or that their maker gave up.      *)
RequestInv ==
    /\ \A b \in Boots, a \in Asks : request[b] = <<a>> =>
        /\ b \in made
        /\ a.op = "Load" => a.of \in Kernels /\ module[a.of] = "absent" /\
              \/ life[a.of] = "gone"
              \/ \E t \in Threads : pc[t] = "sync" /\ on[t] = b /\ NextAsk(t) = a
        /\ a.op = "Unload" =>
              a.of \in Kernels /\ life[a.of] = "gone" /\ \A c \in Active : run[c].of # a.of
        /\ failures = 0 => \E t \in Threads : pc[t] = "sync" /\ on[t] = b /\ NextAsk(t) = a
    /\ \A t \in Threads : pc[t] = "sync" => request[on[t]] \in {<<>>, <<NextAsk(t)>>}

(* What a thread finds in the buffer once its request has been served.        *)
Served(t) == Asked(t) /\ request[on[t]] = <<>>

ResultInv ==
    \A t \in Threads : Served(t) =>
        /\ result[on[t]].ask = NextAsk(t)
        /\ what[t] = "Unload" => module[me[t]] = "freed"

(* The module of a kernel, over its life.                                     *)
ModuleInv ==
    /\ \A k \in Kernels : life[k] = "fresh" => module[k] = "absent"
    /\ \A k \in Kernels : life[k] = "loaded" => module[k] = "live" /\ handle[k] = k
    /\ \A t \in Threads : Loading(t) =>
          module[me[t]] = IF Served(t) /\ result[on[t]].ok THEN "live" ELSE "absent"
    /\ \A t \in Threads : Unloading(t) => handle[me[t]] = me[t]
    /\ failures = 0 => \A k \in Kernels : module[k] = "live" =>
          \/ life[k] = "loaded"
          \/ \E t \in Threads : (Loading(t) \/ Unloading(t)) /\ me[t] = k

(* Launches that the device has not ended.                                    *)
RunInv ==
    /\ \A c \in Active : /\ run[c].of \in Kernels
                         /\ module[run[c].of] = "live"
                         /\ life[run[c].of] \in {"loaded", "gone"}
    /\ \A t \in Threads, c \in Active : Unloading(t) /\ run[c].of = me[t] =>
          pc[t] = "drain" /\ c \in drain[t]
    /\ failures = 0 => \A c \in Active :
          \/ life[run[c].of] = "loaded" /\ boot[run[c].of].own = run[c].by
          \/ \E t \in Threads : pc[t] = "drain" /\ me[t] = run[c].of /\ local[t].own = run[c].by

(* An image is mapped from just before its request to its answer.             *)
MappedInv ==
    \A k \in Kernels : k \in mapped <=>
        \E t \in Threads : InExecute(t) /\ what[t] = "Load" /\ me[t] = k

XInv == /\ FirstInv /\ SlotInv /\ LocalInv /\ ReleaseInv
        /\ RequestInv /\ ResultInv /\ ModuleInv /\ RunInv /\ MappedInv

IInv == LInv /\ XInv

-----------------------------------------------------------------------------
(* A stream holds one request at most: what putting one in and taking it out  *)
(* does.                                                                      *)
LEMMA OneAsk ==
    ASSUME NEW a
    PROVE  /\ <<a>> # <<>> /\ Append(<<>>, a) = <<a>>
           /\ Head(<<a>>) = a /\ Tail(<<a>>) = <<>> /\ Len(<<a>>) = 1
           /\ \A b : <<a>> = <<b>> => a = b
<1>1. <<a>> # <<>> /\ Len(<<a>>) = 1 /\ <<a>>[1] = a
  OBVIOUS
<1>2. Append(<<>>, a) = <<a>>
  OBVIOUS
<1>3. Head(<<a>>) = a
  OBVIOUS
<1>4. Tail(<<a>>) = <<>>
  OBVIOUS
<1>5. ASSUME NEW b, <<a>> = <<b>> PROVE a = b
  BY <1>5
<1> QED
  BY <1>1, <1>2, <1>3, <1>4, <1>5

-----------------------------------------------------------------------------
(* What every step of one thread leaves to the others.                        *)
Others(t) == \A u \in Threads \ {t} :
    /\ pc'[u] = pc[u] /\ me'[u] = me[u] /\ what'[u] = what[u] /\ on'[u] = on[u]
    /\ local'[u] = local[u] /\ after'[u] = after[u] /\ drain'[u] = drain[u]

(* An execute that ends without a kernel: refused, failed, or answered and    *)
(* not by a load that succeeds.                                               *)
GiveUp(t) ==
    /\ InLoader(t)
    /\ Unlock(t)
    /\ Failed(t)
    /\ healthy' \in [Boots -> BOOLEAN]
    /\ \A b \in Boots \ {on[t]} : healthy'[b] = healthy[b]
    /\ healthy'[on[t]] => pc[t] = "fetch"
    /\ pc[t] = "fetch" /\ what[t] = "Load" /\ healthy'[on[t]] => ~result[on[t]].ok
    /\ failures' \in 0 .. MaxFailures
    /\ failures' = 0 => failures = 0 /\ pc[t] = "fetch" /\ healthy'[on[t]]
    /\ UNCHANGED <<hostVars, slotVars, dead, request, result, module, run>>

(* The load that succeeds.                                                    *)
Succeed(t, cached) ==
    /\ pc[t] = "fetch" /\ what[t] = "Load" /\ result[on[t]].ok
    /\ Trusted(t) /\ Unlock(t) /\ Loaded(t, cached)
    /\ UNCHANGED <<me, what, on, after, drain, slotVars, dead, request, result,
                   module, run, failures>>

(* The release of a bootstrap, after a wait that may have failed.             *)
Destroy(t) ==
    /\ pc[t] = "teardown"
    /\ DestroyAll(t)
    /\ failures' \in 0 .. MaxFailures
    /\ failures' = 0 => failures = 0 /\ request[on[t]] = <<>>

LEMMA GivesUp ==
    ASSUME LInv, NEW t \in Threads,
           \/ Refuse(t) \/ RequestFails(t) \/ SyncFails(t) \/ FetchFails(t)
           \/ \E cached \in BOOLEAN : Fetch(t, cached)
    PROVE  GiveUp(t) \/ \E cached \in BOOLEAN : Succeed(t, cached)
<1>1. Typed /\ LockInv /\ StreamInv /\ ReuseInv /\ PointerInv
  BY DEF LInv
<1>2. failures + 1 # 0 /\ (failures < MaxFailures => failures + 1 \in 0 .. MaxFailures)
  BY <1>1, BootstrapAssumption DEF Typed, LoaderTyped
<1>3. InLoader(t) => on[t] \in Boots
  BY <1>1 DEF PointerInv, InLoader, Executing, Typed, LoaderTyped
<1>4. CASE Refuse(t)
  <2>1. InLoader(t) /\ Unlock(t) /\ Failed(t) /\ ~healthy[on[t]] /\ pc[t] = "ask"
        /\ UNCHANGED <<healthy, hostVars, slotVars, dead, request, result, module,
                       run, failures>>
    BY <1>4 DEF Refuse, InLoader
  <2>2. failures # 0
    <3> SUFFICES ASSUME failures = 0 PROVE FALSE
      OBVIOUS
    <3>1. mutex[on[t]] = t
      BY <1>1, <1>3, <2>1 DEF LockInv
    <3>2. PICK u \in Threads : Asked(u) /\ on[u] = on[t]
      BY <1>1, <1>3, <2>1 DEF ReuseInv
    <3>3. mutex[on[t]] = u
      BY <1>1, <1>3, <2>1, <3>2 DEF LockInv, Asked, InLoader
    <3> QED
      BY <2>1, <3>1, <3>2, <3>3 DEF Asked
  <2> QED
    BY <1>1, <2>1, <2>2 DEF GiveUp, Typed, LoaderTyped
<1>5. CASE RequestFails(t)
  <2>1. InLoader(t) /\ Unlock(t) /\ Failed(t) /\ failures < MaxFailures /\ failures' = failures + 1
        /\ healthy' = [healthy EXCEPT ![on[t]] = FALSE]
        /\ UNCHANGED <<hostVars, slotVars, dead, request, result, module, run>>
    BY <1>5 DEF RequestFails, InLoader, AclFails
  <2>2. healthy' \in [Boots -> BOOLEAN] /\ ~healthy'[on[t]]
        /\ \A b \in Boots \ {on[t]} : healthy'[b] = healthy[b]
    BY <1>1, <1>3, <2>1 DEF Typed, LoaderTyped
  <2> QED
    BY <1>2, <2>1, <2>2 DEF GiveUp
<1>6. CASE SyncFails(t) \/ FetchFails(t)
  <2>1. Asked(t) /\ Unlock(t) /\ Failed(t) /\ failures < MaxFailures /\ failures' = failures + 1
        /\ UNCHANGED <<healthy, hostVars, slotVars, dead, request, result, module, run>>
    BY <1>6 DEF SyncFails, FetchFails, Asked, AclFails
  <2>2. ~healthy[on[t]]
    BY <1>1, <2>1 DEF StreamInv
  <2>3. InLoader(t)
    BY <2>1 DEF Asked, InLoader
  <2> QED
    BY <1>1, <1>2, <2>1, <2>2, <2>3 DEF GiveUp, Typed, LoaderTyped
<1>7. ASSUME NEW cached \in BOOLEAN, Fetch(t, cached)
      PROVE  GiveUp(t) \/ Succeed(t, cached)
  <2>1. /\ pc[t] = "fetch" /\ Trusted(t) /\ Unlock(t)
        /\ UNCHANGED <<me, what, on, after, drain, slotVars, dead, request, result,
                       module, run, failures>>
    BY <1>7 DEF Fetch
  <2>2. CASE what[t] = "Load" /\ result[on[t]].ok
    BY <1>7, <2>1, <2>2 DEF Fetch, Succeed
  <2>3. CASE ~(what[t] = "Load" /\ result[on[t]].ok)
    <3>1. Failed(t) /\ UNCHANGED hostVars
      BY <1>7, <2>1, <2>3 DEF Fetch, hostVars
    <3>2. InLoader(t)
      BY <2>1 DEF InLoader
    <3>3. healthy' \in [Boots -> BOOLEAN] /\ healthy'[on[t]]
          /\ \A b \in Boots \ {on[t]} : healthy'[b] = healthy[b]
      BY <1>1, <1>3, <2>1, <3>2 DEF Trusted, Typed, LoaderTyped
    <3> QED
      BY <1>1, <2>1, <2>3, <3>1, <3>2, <3>3 DEF GiveUp, Typed, LoaderTyped
  <2> QED
    BY <2>2, <2>3
<1> QED
  BY <1>4, <1>5, <1>6, <1>7

LEMMA Destroys ==
    ASSUME LInv, NEW t \in Threads, Teardown(t) \/ TeardownAnyway(t)
    PROVE  Destroy(t)
<1>1. failures \in 0 .. MaxFailures
  BY DEF LInv, Typed, LoaderTyped
<1> QED
  BY <1>1, BootstrapAssumption DEF Teardown, TeardownAnyway, AclFails, Destroy

(* What a thread asks of the loader.                                          *)
LEMMA AskTyped ==
    ASSUME LInv, NEW t \in Threads, InExecute(t)
    PROVE  /\ NextAsk(t) \in Asks /\ NextAsk(t).op = what[t]
           /\ what[t] = "Load" => NextAsk(t).of = me[t]
           /\ what[t] = "Unload" => NextAsk(t).of = handle[me[t]]
<1>1. what[t] \in {"Load", "Unload", "Remove"}
  BY DEF LInv, Typed, HostTyped, LifeInv
<1>2. what[t] \in {"Load", "Unload"} => me[t] \in Kernels
  BY DEF LInv, LifeInv, Loading, Unloading
<1>3. \A k \in Kernels : handle[k] \in Kernels \cup {None}
  BY DEF LInv, Typed, KernelTyped
<1> QED
  BY <1>1, <1>2, <1>3 DEF NextAsk, Ask, Asks

(* The pairs that steps make.                                                 *)
LEMMA Made ==
    /\ Null \in Pointer /\ Null.ptr = None /\ Null.own = None
    /\ \A p, o \in Boots \cup {None} : [ptr |-> p, own |-> o] \in Pointer
    /\ \A p \in Pointer : p.ptr \in Boots \cup {None} /\ p.own \in Boots \cup {None}
    /\ \A p \in Pointer, o \in Boots \cup {None} :
          /\ [p EXCEPT !.ptr = o] \in Pointer
          /\ [p EXCEPT !.ptr = o].ptr = o /\ [p EXCEPT !.ptr = o].own = p.own
          /\ [p EXCEPT !.own = o] \in Pointer
          /\ [p EXCEPT !.own = o].own = o /\ [p EXCEPT !.own = o].ptr = p.ptr
BY DEF Null, Pointer

(* TypeOK, and with it load's assertion, is part of the invariant.            *)
LEMMA TypesHold == LInv => TypeOK
<1> SUFFICES ASSUME LInv PROVE TypeOK
  OBVIOUS
<1>1. HostTyped /\ LoaderTyped /\ KernelTyped
  BY DEF LInv, Typed
<1>2. ASSUME NEW t \in Threads
      PROVE  /\ Executing(t) => on[t] \in made
             /\ pc[t] \in {"ask", "sync", "fetch"} <=> \E b \in Boots : mutex[b] = t
  <2>1. Executing(t) => on[t] \in made
    BY DEF LInv, PointerInv
  <2>2. InLoader(t) => on[t] \in Boots
    BY <1>1, <2>1 DEF InLoader, Executing, LoaderTyped
  <2>3. \A b \in Boots : mutex[b] = t <=> InLoader(t) /\ on[t] = b
    BY DEF LInv, LockInv
  <2> QED
    BY <2>1, <2>2, <2>3 DEF InLoader
<1>3. /\ pc \in [Threads -> Labels] /\ me \in [Threads -> Kernels \cup {None}]
      /\ what \in [Threads -> {"none", "Load", "Unload", "Remove"}]
      /\ after \in [Threads -> {"idle", "copy", "closing"}]
      /\ drain \in [Threads -> SUBSET Calls]
  BY <1>1 DEF HostTyped
<1>4. made \subseteq Boots /\ dead \subseteq made /\ failures \in 0 .. MaxFailures
  BY <1>1 DEF LoaderTyped
<1>5. /\ mapped \subseteq Kernels
      /\ life \in [Kernels -> {"fresh", "loading", "loaded", "gone"}]
      /\ owners \in [Kernels -> SUBSET (Threads \cup {Cache})]
      /\ module \in [Kernels -> {"absent", "live", "freed"}]
  BY <1>1 DEF KernelTyped
<1> QED
  BY <1>2, <1>3, <1>4, <1>5 DEF TypeOK, Labels

(* Two pairs with the same parts are one.                                     *)
LEMMA SamePair == \A p, q \in Pointer : p.ptr = q.ptr /\ p.own = q.own => p = q
BY DEF Pointer

-----------------------------------------------------------------------------
(* Every step keeps the invariants.                                           *)

(* The object a load will fill.                                               *)
LEMMA KeepsBeginLoad ==
    ASSUME LInv, NEW t \in Threads, NEW k \in Kernels, BeginLoad(t, k)
    PROVE  LInv' /\ (Exclusive /\ XInv => XInv')
<1>0. /\ HostTyped /\ LoaderTyped /\ KernelTyped
      /\ LifeInv /\ PointerInv /\ LockInv /\ StreamInv /\ ReuseInv
  BY DEF LInv, Typed
<1>1. /\ open
      /\ pc[t] = "idle"
      /\ life[k] = "fresh"
      /\ Exclusive => slot.own # None \/ \A j \in Kernels : life[j] # "loading"
  BY DEF BeginLoad, GoTo
<1>2. HostTyped'
  BY <1>0, <1>1 DEF BeginLoad, GoTo, slotVars, loaderVars, HostTyped, Labels
<1>3. LoaderTyped'
  BY <1>0, <1>1 DEF BeginLoad, GoTo, slotVars, loaderVars, LoaderTyped
<1>4. KernelTyped'
  BY <1>0, <1>1 DEF BeginLoad, GoTo, slotVars, loaderVars, KernelTyped
<1>5. Typed'
  BY <1>2, <1>3, <1>4 DEF Typed
<1>6. /\ Others(t)
      /\ pc'[t] = "test"
      /\ me'[t] = k
      /\ after'[t] = "idle"
      /\ UNCHANGED <<what, on, local, drain>>
  BY <1>0, <1>1 DEF BeginLoad, GoTo, Others, HostTyped
<1>7. /\ life'[k] = "loading"
      /\ \A x \in Kernels \ {k} : life'[x] = life[x]
      /\ UNCHANGED <<slot, made, open, dead, mutex, healthy, request, result,
                     owners, boot, handle, mapped, module, run, failures>>
  BY <1>0, <1>1, BootstrapAssumption DEF BeginLoad, GoTo, slotVars, loaderVars,
     LoaderTyped, KernelTyped
<1>8. LifeInv'
  BY <1>0, <1>1, <1>6, <1>7 DEF LifeInv, Loading, Unloading, Removing, InExecute, Others
<1>9. PointerInv'
  BY <1>0, <1>1, <1>6, <1>7 DEF PointerInv, Loading, Unloading, Removing, InExecute,
     Executing, Others, LifeInv
<1>10. LockInv'
  BY <1>0, <1>1, <1>6, <1>7, BootstrapAssumption DEF LockInv, InLoader, Others
<1>11. StreamInv'
  BY <1>0, <1>1, <1>6, <1>7 DEF StreamInv, Asked, Others
<1>12. ReuseInv'
  BY <1>0, <1>1, <1>6, <1>7 DEF ReuseInv, Asked, Others
<1>13. LInv'
  BY <1>5, <1>8, <1>9, <1>10, <1>11, <1>12 DEF LInv
<1>14. \A u \in Threads : what'[u] = what[u] /\ me'[u] = me[u] => NextAsk(u)' = NextAsk(u)
  BY <1>7 DEF NextAsk, Ask
<1>15. ASSUME Exclusive, XInv PROVE XInv'
  <2>0. FirstInv /\ SlotInv /\ LocalInv /\ ReleaseInv /\ RequestInv /\ ResultInv /\ ModuleInv
        /\ RunInv /\ MappedInv
    BY <1>15 DEF XInv
  <2>11. FirstInv'
    BY <1>0, <1>1, <1>6, <1>7, <1>15, <2>0 DEF FirstInv, LifeInv, Loading, Unloading,
       Removing, InExecute, Others
  <2>12. SlotInv'
    BY <1>0, <1>1, <1>6, <1>7, <1>15, <2>0 DEF SlotInv, Whole, Null, LifeInv, Loading,
       Unloading, Removing, InExecute, Others
  <2>13. LocalInv'
    BY <1>0, <1>1, <1>6, <1>7, <1>15, <2>0 DEF LocalInv, LocalOf, Whole, Null, LifeInv,
       Loading, Unloading, Removing, InExecute, Others
  <2>14. ReleaseInv'
    BY <1>0, <1>1, <1>6, <1>7, <1>15, <2>0 DEF ReleaseInv, Owned, Removing, InExecute,
       Others
  <2>15. RequestInv'
    BY <1>0, <1>1, <1>6, <1>7, <1>14, <1>15, <2>0 DEF RequestInv, Active, Others
  <2>16. ResultInv'
    BY <1>0, <1>1, <1>6, <1>7, <1>14, <1>15, <2>0 DEF ResultInv, Served, Asked, Others
  <2>17. ModuleInv'
    BY <1>0, <1>1, <1>6, <1>7, <1>15, <2>0 DEF ModuleInv, Served, LifeInv, Loading,
       Unloading, Removing, InExecute, Asked, Others
  <2>18. RunInv'
    BY <1>0, <1>1, <1>6, <1>7, <1>15, <2>0 DEF RunInv, Active, Unloading, InExecute,
       Others
  <2>19. MappedInv'
    BY <1>0, <1>1, <1>6, <1>7, <1>15, <2>0 DEF MappedInv, LifeInv, Loading, Unloading,
       Removing, InExecute, Others
  <2> QED
    BY <2>11, <2>12, <2>13, <2>14, <2>15, <2>16, <2>17, <2>18, <2>19 DEF XInv
<1> QED
  BY <1>13, <1>15

(* The test of the backend's pointer.                                         *)
LEMMA KeepsTest ==
    ASSUME LInv, NEW t \in Threads, Test(t)
    PROVE  LInv' /\ (Exclusive /\ XInv => XInv')
<1>0. /\ HostTyped /\ LoaderTyped /\ KernelTyped
      /\ LifeInv /\ PointerInv /\ LockInv /\ StreamInv /\ ReuseInv
  BY DEF LInv, Typed
<1>1. /\ pc[t] = "test"
  BY DEF Test, GoTo
<1>2. HostTyped'
  BY <1>0, <1>1 DEF Test, GoTo, slotVars, loaderVars, kernelVars, hostVars, HostTyped,
     Labels
<1>3. LoaderTyped'
  BY <1>0, <1>1 DEF Test, GoTo, slotVars, loaderVars, kernelVars, hostVars, LoaderTyped
<1>4. KernelTyped'
  BY <1>0, <1>1 DEF Test, GoTo, slotVars, loaderVars, kernelVars, hostVars, KernelTyped
<1>5. Typed'
  BY <1>2, <1>3, <1>4 DEF Typed
<1>6. /\ Others(t)
      /\ pc'[t] = IF slot.ptr = None THEN "build" ELSE "copy"
      /\ UNCHANGED <<me, what, on, local, after, drain>>
  BY <1>0, <1>1 DEF Test, GoTo, Others, hostVars, HostTyped
<1>7. /\ UNCHANGED <<slot, made, open, dead, mutex, healthy, request, result, life,
                     owners, boot, handle, mapped, module, run, failures>>
  BY <1>0, <1>1, BootstrapAssumption DEF Test, GoTo, slotVars, loaderVars, kernelVars,
     hostVars, LoaderTyped, KernelTyped
<1>8. LifeInv'
  BY <1>0, <1>1, <1>6, <1>7 DEF LifeInv, Loading, Unloading, Removing, InExecute, Others
<1>9. PointerInv'
  BY <1>0, <1>1, <1>6, <1>7 DEF PointerInv, Loading, Unloading, Removing, InExecute,
     Executing, Others, LifeInv
<1>10. LockInv'
  BY <1>0, <1>1, <1>6, <1>7, BootstrapAssumption DEF LockInv, InLoader, Others
<1>11. StreamInv'
  BY <1>0, <1>1, <1>6, <1>7 DEF StreamInv, Asked, Others
<1>12. ReuseInv'
  BY <1>0, <1>1, <1>6, <1>7 DEF ReuseInv, Asked, Others
<1>13. LInv'
  BY <1>5, <1>8, <1>9, <1>10, <1>11, <1>12 DEF LInv
<1>14. \A u \in Threads : what'[u] = what[u] /\ me'[u] = me[u] => NextAsk(u)' = NextAsk(u)
  BY <1>7 DEF NextAsk, Ask
<1>15. ASSUME Exclusive, XInv PROVE XInv'
  <2>0. FirstInv /\ SlotInv /\ LocalInv /\ ReleaseInv /\ RequestInv /\ ResultInv /\ ModuleInv
        /\ RunInv /\ MappedInv
    BY <1>15 DEF XInv
  <2>1. slot.ptr = None <=> slot.own = None
    BY <1>0, <1>1, <2>0, BootstrapAssumption DEF SlotInv, FirstInv, Whole, LifeInv,
       Loading, LoaderTyped
  <2>11. FirstInv'
    BY <1>0, <1>1, <1>6, <1>7, <1>15, <2>0, <2>1 DEF FirstInv, LifeInv, Loading,
       Unloading, Removing, InExecute, Others
  <2>12. SlotInv'
    BY <1>0, <1>1, <1>6, <1>7, <1>15, <2>0, <2>1 DEF SlotInv, Whole, Null, LifeInv,
       Loading, Unloading, Removing, InExecute, Others
  <2>13. LocalInv'
    BY <1>0, <1>1, <1>6, <1>7, <1>15, <2>0, <2>1 DEF LocalInv, LocalOf, Whole, Null,
       LifeInv, Loading, Unloading, Removing, InExecute, Others
  <2>14. ReleaseInv'
    BY <1>0, <1>1, <1>6, <1>7, <1>15, <2>0, <2>1 DEF ReleaseInv, Owned, Removing,
       InExecute, Others
  <2>15. RequestInv'
    BY <1>0, <1>1, <1>6, <1>7, <1>14, <1>15, <2>0, <2>1 DEF RequestInv, Active, Others
  <2>16. ResultInv'
    BY <1>0, <1>1, <1>6, <1>7, <1>14, <1>15, <2>0, <2>1 DEF ResultInv, Served, Asked,
       Others
  <2>17. ModuleInv'
    BY <1>0, <1>1, <1>6, <1>7, <1>15, <2>0, <2>1 DEF ModuleInv, Served, LifeInv,
       Loading, Unloading, Removing, InExecute, Asked, Others
  <2>18. RunInv'
    BY <1>0, <1>1, <1>6, <1>7, <1>15, <2>0, <2>1 DEF RunInv, Active, Unloading,
       InExecute, Others
  <2>19. MappedInv'
    BY <1>0, <1>1, <1>6, <1>7, <1>15, <2>0, <2>1 DEF MappedInv, LifeInv, Loading,
       Unloading, Removing, InExecute, Others
  <2> QED
    BY <2>11, <2>12, <2>13, <2>14, <2>15, <2>16, <2>17, <2>18, <2>19 DEF XInv
<1> QED
  BY <1>13, <1>15

(* A bootstrap is constructed.                                                *)
LEMMA KeepsBuild ==
    ASSUME LInv, NEW t \in Threads, NEW b \in Boots, Build(t, b)
    PROVE  LInv' /\ (Exclusive /\ XInv => XInv')
<1>0. /\ HostTyped /\ LoaderTyped /\ KernelTyped
      /\ LifeInv /\ PointerInv /\ LockInv /\ StreamInv /\ ReuseInv
  BY DEF LInv, Typed
<1>1. /\ pc[t] = "build"
      /\ b \notin made
  BY DEF Build, GoTo
<1>2. HostTyped'
  BY <1>0, <1>1, Made DEF Build, GoTo, loaderVars, kernelVars, HostTyped, Labels, Null
<1>3. LoaderTyped'
  BY <1>0, <1>1 DEF Build, GoTo, loaderVars, kernelVars, LoaderTyped
<1>4. KernelTyped'
  BY <1>0, <1>1 DEF Build, GoTo, loaderVars, kernelVars, KernelTyped
<1>5. Typed'
  BY <1>2, <1>3, <1>4 DEF Typed
<1>6. /\ Others(t)
      /\ pc'[t] = "store"
      /\ local'[t].ptr = b
      /\ local'[t].own = b
      /\ UNCHANGED <<me, what, on, after, drain>>
  BY <1>0, <1>1 DEF Build, GoTo, Others, HostTyped
<1>7. /\ made' = made \cup {b}
      /\ UNCHANGED <<slot, open, dead, mutex, healthy, request, result, life,
                     owners, boot, handle, mapped, module, run, failures>>
  BY <1>0, <1>1, BootstrapAssumption DEF Build, GoTo, loaderVars, kernelVars,
     LoaderTyped, KernelTyped
<1>8. LifeInv'
  BY <1>0, <1>1, <1>6, <1>7 DEF LifeInv, Loading, Unloading, Removing, InExecute, Others
<1>9. PointerInv'
  BY <1>0, <1>1, <1>6, <1>7 DEF PointerInv, Loading, Unloading, Removing, InExecute,
     Executing, Others, LifeInv
<1>10. LockInv'
  BY <1>0, <1>1, <1>6, <1>7, BootstrapAssumption DEF LockInv, InLoader, Others
<1>11. StreamInv'
  BY <1>0, <1>1, <1>6, <1>7 DEF StreamInv, Asked, Others
<1>12. ReuseInv'
  BY <1>0, <1>1, <1>6, <1>7 DEF ReuseInv, Asked, Others
<1>13. LInv'
  BY <1>5, <1>8, <1>9, <1>10, <1>11, <1>12 DEF LInv
<1>14. \A u \in Threads : what'[u] = what[u] /\ me'[u] = me[u] => NextAsk(u)' = NextAsk(u)
  BY <1>7 DEF NextAsk, Ask
<1>15. ASSUME Exclusive, XInv PROVE XInv'
  <2>0. FirstInv /\ SlotInv /\ LocalInv /\ ReleaseInv /\ RequestInv /\ ResultInv /\ ModuleInv
        /\ RunInv /\ MappedInv
    BY <1>15 DEF XInv
  <2>1. local[t] = Null /\ local[t].own = None
    BY <1>1, <2>0, Made DEF LocalInv, LocalOf, InExecute
  <2>2. Owned(b)' /\ \A x \in Boots \ {b} : Owned(x)' <=> Owned(x)
    BY <1>0, <1>1, <1>6, <1>7, <2>1, BootstrapAssumption DEF Owned, Others
  <2>11. FirstInv'
    BY <1>0, <1>1, <1>6, <1>7, <1>15, <2>0, <2>1, <2>2 DEF FirstInv, LifeInv, Loading,
       Unloading, Removing, InExecute, Others
  <2>12. SlotInv'
    BY <1>0, <1>1, <1>6, <1>7, <1>15, <2>0, <2>1, <2>2 DEF SlotInv, Whole, Null,
       LifeInv, Loading, Unloading, Removing, InExecute, Others
  <2>13. LocalInv'
    BY <1>0, <1>1, <1>6, <1>7, <1>15, <2>0, <2>1, <2>2 DEF LocalInv, LocalOf, Whole,
       Null, LifeInv, Loading, Unloading, Removing, InExecute, Others
  <2>14. ReleaseInv'
    BY <1>0, <1>1, <1>6, <1>7, <2>0, <2>2 DEF ReleaseInv, Removing, InExecute,
       LoaderTyped, PointerInv, Executing, Others
  <2>15. RequestInv'
    BY <1>0, <1>1, <1>6, <1>7, <1>14, <1>15, <2>0, <2>1, <2>2 DEF RequestInv, Active,
       Others
  <2>16. ResultInv'
    BY <1>0, <1>1, <1>6, <1>7, <1>14, <1>15, <2>0, <2>1, <2>2 DEF ResultInv, Served,
       Asked, Others
  <2>17. ModuleInv'
    BY <1>0, <1>1, <1>6, <1>7, <1>15, <2>0, <2>1, <2>2 DEF ModuleInv, Served, LifeInv,
       Loading, Unloading, Removing, InExecute, Asked, Others
  <2>18. RunInv'
    BY <1>0, <1>1, <1>6, <1>7, <1>15, <2>0, <2>1, <2>2 DEF RunInv, Active, Unloading,
       InExecute, Others
  <2>19. MappedInv'
    BY <1>0, <1>1, <1>6, <1>7, <1>15, <2>0, <2>1, <2>2 DEF MappedInv, LifeInv, Loading,
       Unloading, Removing, InExecute, Others
  <2> QED
    BY <2>11, <2>12, <2>13, <2>14, <2>15, <2>16, <2>17, <2>18, <2>19 DEF XInv
<1> QED
  BY <1>13, <1>15

(* No bootstrap, and no kernel.                                               *)
LEMMA KeepsBuildFails ==
    ASSUME LInv, NEW t \in Threads, BuildFails(t)
    PROVE  LInv' /\ (Exclusive /\ XInv => XInv')
<1>0. /\ HostTyped /\ LoaderTyped /\ KernelTyped
      /\ LifeInv /\ PointerInv /\ LockInv /\ StreamInv /\ ReuseInv
  BY DEF LInv, Typed
<1>1. /\ pc[t] = "build"
  BY DEF BuildFails, GoTo, Discard
<1>2. me[t] \in Kernels /\ life[me[t]] = "loading"
  BY <1>0, <1>1 DEF LifeInv, Loading
<1>3. HostTyped'
  BY <1>0, <1>1, <1>2 DEF BuildFails, GoTo, Discard, slotVars, loaderVars, hostVars,
     HostTyped, Labels
<1>4. LoaderTyped'
  BY <1>0, <1>1, <1>2 DEF BuildFails, GoTo, Discard, slotVars, loaderVars, hostVars,
     LoaderTyped
<1>5. KernelTyped'
  BY <1>0, <1>1, <1>2 DEF BuildFails, GoTo, Discard, slotVars, loaderVars, hostVars,
     KernelTyped
<1>6. Typed'
  BY <1>3, <1>4, <1>5 DEF Typed
<1>7. /\ Others(t)
      /\ pc'[t] = "idle"
      /\ UNCHANGED <<me, what, on, local, after, drain>>
  BY <1>0, <1>1, <1>2 DEF BuildFails, GoTo, Discard, Others, hostVars, HostTyped
<1>8. /\ life'[me[t]] = "gone"
      /\ \A x \in Kernels \ {me[t]} : life'[x] = life[x]
      /\ mapped' = mapped \ {me[t]}
      /\ UNCHANGED <<slot, made, open, dead, mutex, healthy, request, result,
                     owners, boot, handle, module, run, failures>>
  BY <1>0, <1>1, <1>2, BootstrapAssumption DEF BuildFails, GoTo, Discard, slotVars,
     loaderVars, hostVars, LoaderTyped, KernelTyped
<1>9. LifeInv'
  BY <1>0, <1>1, <1>2, <1>7, <1>8 DEF LifeInv, Loading, Unloading, Removing, InExecute,
     Others
<1>10. PointerInv'
  BY <1>0, <1>1, <1>2, <1>7, <1>8 DEF PointerInv, Loading, Unloading, Removing,
     InExecute, Executing, Others, LifeInv
<1>11. LockInv'
  BY <1>0, <1>1, <1>2, <1>7, <1>8, BootstrapAssumption DEF LockInv, InLoader, Others
<1>12. StreamInv'
  BY <1>0, <1>1, <1>2, <1>7, <1>8 DEF StreamInv, Asked, Others
<1>13. ReuseInv'
  BY <1>0, <1>1, <1>2, <1>7, <1>8 DEF ReuseInv, Asked, Others
<1>14. LInv'
  BY <1>6, <1>9, <1>10, <1>11, <1>12, <1>13 DEF LInv
<1>15. \A u \in Threads : what'[u] = what[u] /\ me'[u] = me[u] => NextAsk(u)' = NextAsk(u)
  BY <1>8 DEF NextAsk, Ask
<1>16. ASSUME Exclusive, XInv PROVE XInv'
  <2>0. FirstInv /\ SlotInv /\ LocalInv /\ ReleaseInv /\ RequestInv /\ ResultInv /\ ModuleInv
        /\ RunInv /\ MappedInv
    BY <1>16 DEF XInv
  <2>11. FirstInv'
    BY <1>0, <1>1, <1>2, <1>7, <1>8, <1>16, <2>0 DEF FirstInv, LifeInv, Loading,
       Unloading, Removing, InExecute, Others
  <2>12. SlotInv'
    BY <1>0, <1>1, <1>2, <1>7, <1>8, <1>16, <2>0 DEF SlotInv, Whole, Null, LifeInv,
       Loading, Unloading, Removing, InExecute, Others
  <2>13. LocalInv'
    BY <1>0, <1>1, <1>2, <1>7, <1>8, <1>16, <2>0 DEF LocalInv, LocalOf, Whole, Null,
       LifeInv, Loading, Unloading, Removing, InExecute, Others
  <2>14. ReleaseInv'
    BY <1>0, <1>1, <1>2, <1>7, <1>8, <1>16, <2>0 DEF ReleaseInv, Owned, Removing,
       InExecute, Others
  <2>15. RequestInv'
    BY <1>0, <1>1, <1>2, <1>7, <1>8, <1>15, <1>16, <2>0 DEF RequestInv, Active, Others
  <2>16. ResultInv'
    BY <1>0, <1>1, <1>2, <1>7, <1>8, <1>15, <1>16, <2>0 DEF ResultInv, Served, Asked,
       Others
  <2>17. ModuleInv'
    BY <1>0, <1>1, <1>2, <1>7, <1>8, <1>16, <2>0 DEF ModuleInv, Served, LifeInv,
       Loading, Unloading, Removing, InExecute, Asked, Others
  <2>18. RunInv'
    BY <1>0, <1>1, <1>2, <1>7, <1>8, <1>16, <2>0 DEF RunInv, Active, Unloading,
       InExecute, Others
  <2>19. MappedInv'
    BY <1>0, <1>1, <1>2, <1>7, <1>8, <1>16, <2>0 DEF MappedInv, LifeInv, Loading,
       Unloading, Removing, InExecute, Others
  <2> QED
    BY <2>11, <2>12, <2>13, <2>14, <2>15, <2>16, <2>17, <2>18, <2>19 DEF XInv
<1> QED
  BY <1>14, <1>16

(* The first half of the assignment of the backend's pointer.                 *)
LEMMA KeepsStorePointer ==
    ASSUME LInv, NEW t \in Threads, StorePointer(t)
    PROVE  LInv' /\ (Exclusive /\ XInv => XInv')
<1>0. /\ HostTyped /\ LoaderTyped /\ KernelTyped
      /\ LifeInv /\ PointerInv /\ LockInv /\ StreamInv /\ ReuseInv
  BY DEF LInv, Typed
<1>1. /\ pc[t] = "store"
  BY DEF StorePointer, GoTo
<1>2. slot \in Pointer /\ slot.ptr \in Boots \cup {None} /\ slot.own \in Boots \cup {None}
  BY <1>0, Made DEF LoaderTyped
<1>3. local[t] \in Pointer /\ local[t].ptr \in Boots \cup {None} /\ local[t].own \in Boots \cup {None}
  BY <1>0, Made DEF HostTyped
<1>4. /\ slot' = [slot EXCEPT !.ptr = local[t].ptr]
      /\ local' = [local EXCEPT ![t] = [local[t] EXCEPT !.ptr = slot.ptr]]
  BY DEF StorePointer
<1>5. /\ [slot EXCEPT !.ptr = local[t].ptr] \in Pointer
      /\ [slot EXCEPT !.ptr = local[t].ptr].ptr = local[t].ptr
      /\ [slot EXCEPT !.ptr = local[t].ptr].own = slot.own
      /\ [local[t] EXCEPT !.ptr = slot.ptr] \in Pointer
      /\ [local[t] EXCEPT !.ptr = slot.ptr].ptr = slot.ptr
      /\ [local[t] EXCEPT !.ptr = slot.ptr].own = local[t].own
  BY <1>2, <1>3, Made
<1>6. /\ slot' \in Pointer /\ slot'.ptr = local[t].ptr /\ slot'.own = slot.own
      /\ local'[t] = [local[t] EXCEPT !.ptr = slot.ptr]
  BY <1>0, <1>4, <1>5 DEF HostTyped
<1>7. HostTyped'
  BY <1>0, <1>1, <1>2, <1>3, <1>4, <1>5, <1>6, Made DEF StorePointer, GoTo, loaderVars,
     kernelVars, HostTyped, Labels, Null
<1>8. LoaderTyped'
  BY <1>0, <1>1, <1>2, <1>3, <1>4, <1>5, <1>6, Made DEF StorePointer, GoTo, loaderVars,
     kernelVars, LoaderTyped
<1>9. KernelTyped'
  BY <1>0, <1>1, <1>2, <1>3, <1>4, <1>5, <1>6 DEF StorePointer, GoTo, loaderVars,
     kernelVars, KernelTyped
<1>10. Typed'
  BY <1>7, <1>8, <1>9 DEF Typed
<1>11. /\ Others(t)
       /\ pc'[t] = "own"
       /\ local'[t].ptr = slot.ptr
       /\ local'[t].own = local[t].own
       /\ UNCHANGED <<me, what, on, after, drain>>
  BY <1>0, <1>1, <1>2, <1>3, <1>4, <1>5, <1>6 DEF StorePointer, GoTo, Others, HostTyped
<1>12. /\ slot'.ptr = local[t].ptr
       /\ slot'.own = slot.own
       /\ UNCHANGED <<made, open, dead, mutex, healthy, request, result, life,
                      owners, boot, handle, mapped, module, run, failures>>
  BY <1>0, <1>1, <1>2, <1>3, <1>4, <1>5, <1>6, BootstrapAssumption DEF StorePointer,
     GoTo, loaderVars, kernelVars, LoaderTyped, KernelTyped
<1>13. LifeInv'
  BY <1>0, <1>1, <1>2, <1>3, <1>11, <1>12 DEF LifeInv, Loading, Unloading, Removing,
     InExecute, Others
<1>14. PointerInv'
  BY <1>0, <1>1, <1>2, <1>3, <1>11, <1>12 DEF PointerInv, Loading, Unloading, Removing,
     InExecute, Executing, Others, LifeInv
<1>15. LockInv'
  BY <1>0, <1>1, <1>2, <1>3, <1>11, <1>12, BootstrapAssumption DEF LockInv, InLoader,
     Others
<1>16. StreamInv'
  BY <1>0, <1>1, <1>2, <1>3, <1>11, <1>12 DEF StreamInv, Asked, Others
<1>17. ReuseInv'
  BY <1>0, <1>1, <1>2, <1>3, <1>11, <1>12 DEF ReuseInv, Asked, Others
<1>18. LInv'
  BY <1>10, <1>13, <1>14, <1>15, <1>16, <1>17 DEF LInv
<1>19. \A u \in Threads : what'[u] = what[u] /\ me'[u] = me[u] => NextAsk(u)' = NextAsk(u)
  BY <1>12 DEF NextAsk, Ask
<1>20. ASSUME Exclusive, XInv PROVE XInv'
  <2>0. FirstInv /\ SlotInv /\ LocalInv /\ ReleaseInv /\ RequestInv /\ ResultInv /\ ModuleInv
        /\ RunInv /\ MappedInv
    BY <1>20 DEF XInv
  <2>1. slot.own = None /\ \A u \in Threads : Loading(u) => u = t
    BY <1>0, <1>1, <2>0 DEF FirstInv, LifeInv, Loading
  <2>2. slot.ptr = None
    BY <1>0, <1>1, <2>0, <2>1 DEF SlotInv, Loading
  <2>11. FirstInv'
    BY <1>0, <1>1, <1>2, <1>3, <1>11, <1>12, <1>20, <2>0, <2>1, <2>2 DEF FirstInv,
       LifeInv, Loading, Unloading, Removing, InExecute, Others
  <2>12. SlotInv'
    BY <1>0, <1>1, <1>2, <1>3, <1>11, <1>12, <1>20, <2>0, <2>1, <2>2 DEF SlotInv, Whole,
       Null, LifeInv, Loading, Unloading, Removing, InExecute, Others
  <2>13. LocalInv'
    BY <1>0, <1>1, <1>2, <1>3, <1>11, <1>12, <1>20, <2>0, <2>1, <2>2 DEF LocalInv,
       LocalOf, Whole, Null, LifeInv, Loading, Unloading, Removing, InExecute, Others
  <2>14. ReleaseInv'
    BY <1>0, <1>1, <1>2, <1>3, <1>11, <1>12, <1>20, <2>0, <2>1, <2>2 DEF ReleaseInv,
       Owned, Loading, Removing, InExecute, Others
  <2>15. RequestInv'
    BY <1>0, <1>1, <1>2, <1>3, <1>11, <1>12, <1>19, <1>20, <2>0, <2>1, <2>2 DEF
       RequestInv, Active, Loading, InExecute, Others
  <2>16. ResultInv'
    BY <1>0, <1>1, <1>2, <1>3, <1>11, <1>12, <1>19, <1>20, <2>0, <2>1, <2>2 DEF
       ResultInv, Served, Loading, InExecute, Asked, Others
  <2>17. ModuleInv'
    BY <1>0, <1>1, <1>2, <1>3, <1>11, <1>12, <1>20, <2>0, <2>1, <2>2 DEF ModuleInv,
       Served, LifeInv, Loading, Unloading, Removing, InExecute, Asked, Others
  <2>18. RunInv'
    BY <1>0, <1>1, <1>2, <1>3, <1>11, <1>12, <1>20, <2>0, <2>1, <2>2 DEF RunInv, Active,
       Loading, Unloading, InExecute, Others
  <2>19. MappedInv'
    BY <1>0, <1>1, <1>2, <1>3, <1>11, <1>12, <1>20, <2>0, <2>1, <2>2 DEF MappedInv,
       LifeInv, Loading, Unloading, Removing, InExecute, Others
  <2> QED
    BY <2>11, <2>12, <2>13, <2>14, <2>15, <2>16, <2>17, <2>18, <2>19 DEF XInv
<1> QED
  BY <1>18, <1>20

(* The second half.                                                           *)
LEMMA KeepsStoreOwner ==
    ASSUME LInv, NEW t \in Threads, StoreOwner(t)
    PROVE  LInv' /\ (Exclusive /\ XInv => XInv')
<1>0. /\ HostTyped /\ LoaderTyped /\ KernelTyped
      /\ LifeInv /\ PointerInv /\ LockInv /\ StreamInv /\ ReuseInv
  BY DEF LInv, Typed
<1>1. /\ pc[t] = "own"
  BY DEF StoreOwner, GoTo
<1>2. slot \in Pointer /\ slot.ptr \in Boots \cup {None} /\ slot.own \in Boots \cup {None}
  BY <1>0, Made DEF LoaderTyped
<1>3. local[t] \in Pointer /\ local[t].ptr \in Boots \cup {None} /\ local[t].own \in Boots \cup {None}
  BY <1>0, Made DEF HostTyped
<1>4. /\ slot' = [slot EXCEPT !.own = local[t].own]
      /\ local' = [local EXCEPT ![t] = [local[t] EXCEPT !.own = slot.own]]
  BY DEF StoreOwner
<1>5. /\ [slot EXCEPT !.own = local[t].own] \in Pointer
      /\ [slot EXCEPT !.own = local[t].own].own = local[t].own
      /\ [slot EXCEPT !.own = local[t].own].ptr = slot.ptr
      /\ [local[t] EXCEPT !.own = slot.own] \in Pointer
      /\ [local[t] EXCEPT !.own = slot.own].own = slot.own
      /\ [local[t] EXCEPT !.own = slot.own].ptr = local[t].ptr
  BY <1>2, <1>3, Made
<1>6. /\ slot' \in Pointer /\ slot'.own = local[t].own /\ slot'.ptr = slot.ptr
      /\ local'[t] = [local[t] EXCEPT !.own = slot.own]
  BY <1>0, <1>4, <1>5 DEF HostTyped
<1>7. HostTyped'
  BY <1>0, <1>1, <1>2, <1>3, <1>4, <1>5, <1>6, Made DEF StoreOwner, GoTo, loaderVars,
     kernelVars, HostTyped, Labels, Null
<1>8. LoaderTyped'
  BY <1>0, <1>1, <1>2, <1>3, <1>4, <1>5, <1>6, Made DEF StoreOwner, GoTo, loaderVars,
     kernelVars, LoaderTyped
<1>9. KernelTyped'
  BY <1>0, <1>1, <1>2, <1>3, <1>4, <1>5, <1>6 DEF StoreOwner, GoTo, loaderVars,
     kernelVars, KernelTyped
<1>10. Typed'
  BY <1>7, <1>8, <1>9 DEF Typed
<1>11. /\ Others(t)
       /\ pc'[t] = "unref"
       /\ after'[t] = "copy"
       /\ local'[t].ptr = local[t].ptr
       /\ local'[t].own = slot.own
       /\ UNCHANGED <<me, what, on, drain>>
  BY <1>0, <1>1, <1>2, <1>3, <1>4, <1>5, <1>6 DEF StoreOwner, GoTo, Others, HostTyped
<1>12. /\ slot'.ptr = slot.ptr
       /\ slot'.own = local[t].own
       /\ UNCHANGED <<made, open, dead, mutex, healthy, request, result, life,
                      owners, boot, handle, mapped, module, run, failures>>
  BY <1>0, <1>1, <1>2, <1>3, <1>4, <1>5, <1>6, BootstrapAssumption DEF StoreOwner, GoTo,
     loaderVars, kernelVars, LoaderTyped, KernelTyped
<1>13. LifeInv'
  BY <1>0, <1>1, <1>2, <1>3, <1>11, <1>12 DEF LifeInv, Loading, Unloading, Removing,
     InExecute, Others
<1>14. PointerInv'
  BY <1>0, <1>1, <1>2, <1>3, <1>11, <1>12 DEF PointerInv, Loading, Unloading, Removing,
     InExecute, Executing, Others, LifeInv
<1>15. LockInv'
  BY <1>0, <1>1, <1>2, <1>3, <1>11, <1>12, BootstrapAssumption DEF LockInv, InLoader,
     Others
<1>16. StreamInv'
  BY <1>0, <1>1, <1>2, <1>3, <1>11, <1>12 DEF StreamInv, Asked, Others
<1>17. ReuseInv'
  BY <1>0, <1>1, <1>2, <1>3, <1>11, <1>12 DEF ReuseInv, Asked, Others
<1>18. LInv'
  BY <1>10, <1>13, <1>14, <1>15, <1>16, <1>17 DEF LInv
<1>19. \A u \in Threads : what'[u] = what[u] /\ me'[u] = me[u] => NextAsk(u)' = NextAsk(u)
  BY <1>12 DEF NextAsk, Ask
<1>20. ASSUME Exclusive, XInv PROVE XInv'
  <2>0. FirstInv /\ SlotInv /\ LocalInv /\ ReleaseInv /\ RequestInv /\ ResultInv /\ ModuleInv
        /\ RunInv /\ MappedInv
    BY <1>20 DEF XInv
  <2>1. slot.own = None /\ \A u \in Threads : Loading(u) => u = t
    BY <1>0, <1>1, <2>0 DEF FirstInv, LifeInv, Loading
  <2>2. local[t].ptr = None /\ local[t].own \in made /\ slot.ptr = local[t].own
        /\ local[t].own # None
    BY <1>0, <1>1, <2>0, BootstrapAssumption DEF LoaderTyped, LocalInv, LocalOf,
       InExecute
  <2>3. local'[t] = Null
    <3>1. local'[t] \in Pointer
      BY <1>5, <1>6
    <3>2. local'[t].ptr = None /\ local'[t].own = None
      BY <1>11, <2>1, <2>2
    <3> QED
      BY <3>1, <3>2, SamePair, Made
  <2>11. FirstInv'
    BY <1>0, <1>1, <1>2, <1>3, <1>11, <1>12, <1>20, <2>0, <2>1, <2>2, <2>3 DEF FirstInv,
       LifeInv, Loading, Unloading, Removing, InExecute, Others
  <2>12. SlotInv'
    BY <1>0, <1>1, <1>2, <1>3, <1>11, <1>12, <1>20, <2>0, <2>1, <2>2, <2>3 DEF SlotInv,
       Whole, Null, LifeInv, Loading, Unloading, Removing, InExecute, Others
  <2>13. LocalInv'
    BY <1>0, <1>1, <1>2, <1>3, <1>11, <1>12, <1>20, <2>0, <2>1, <2>2, <2>3 DEF LocalInv,
       LocalOf, Whole, Null, LifeInv, Loading, Unloading, Removing, InExecute, Others
  <2>14. ReleaseInv'
    BY <1>0, <1>1, <1>2, <1>3, <1>11, <1>12, <1>20, <2>0, <2>1, <2>2, <2>3 DEF
       ReleaseInv, Owned, Loading, Removing, InExecute, Others
  <2>15. RequestInv'
    BY <1>0, <1>1, <1>2, <1>3, <1>11, <1>12, <1>19, <1>20, <2>0, <2>1, <2>2, <2>3 DEF
       RequestInv, Active, Loading, InExecute, Others
  <2>16. ResultInv'
    BY <1>0, <1>1, <1>2, <1>3, <1>11, <1>12, <1>19, <1>20, <2>0, <2>1, <2>2, <2>3 DEF
       ResultInv, Served, Loading, InExecute, Asked, Others
  <2>17. ModuleInv'
    BY <1>0, <1>1, <1>2, <1>3, <1>11, <1>12, <1>20, <2>0, <2>1, <2>2, <2>3 DEF
       ModuleInv, Served, LifeInv, Loading, Unloading, Removing, InExecute, Asked,
       Others
  <2>18. RunInv'
    BY <1>0, <1>1, <1>2, <1>3, <1>11, <1>12, <1>20, <2>0, <2>1, <2>2, <2>3 DEF RunInv,
       Active, Loading, Unloading, InExecute, Others
  <2>19. MappedInv'
    BY <1>0, <1>1, <1>2, <1>3, <1>11, <1>12, <1>20, <2>0, <2>1, <2>2, <2>3 DEF
       MappedInv, LifeInv, Loading, Unloading, Removing, InExecute, Others
  <2> QED
    BY <2>11, <2>12, <2>13, <2>14, <2>15, <2>16, <2>17, <2>18, <2>19 DEF XInv
<1> QED
  BY <1>18, <1>20

(* The copy for the load.                                                     *)
LEMMA KeepsCopy ==
    ASSUME LInv, NEW t \in Threads, Copy(t)
    PROVE  LInv' /\ (Exclusive /\ XInv => XInv')
<1>0. /\ HostTyped /\ LoaderTyped /\ KernelTyped
      /\ LifeInv /\ PointerInv /\ LockInv /\ StreamInv /\ ReuseInv
  BY DEF LInv, Typed
<1>1. /\ pc[t] = "copy"
  BY DEF Copy, GoTo
<1>2. slot \in Pointer /\ slot.ptr \in Boots \cup {None} /\ slot.own \in Boots \cup {None}
  BY <1>0, Made DEF LoaderTyped
<1>3. HostTyped'
  BY <1>0, <1>1, <1>2, Made DEF Copy, GoTo, slotVars, loaderVars, kernelVars, HostTyped,
     Labels
<1>4. LoaderTyped'
  BY <1>0, <1>1, <1>2 DEF Copy, GoTo, slotVars, loaderVars, kernelVars, LoaderTyped
<1>5. KernelTyped'
  BY <1>0, <1>1, <1>2 DEF Copy, GoTo, slotVars, loaderVars, kernelVars, KernelTyped
<1>6. Typed'
  BY <1>3, <1>4, <1>5 DEF Typed
<1>7. /\ Others(t)
      /\ pc'[t] = "map"
      /\ local'[t] = slot
      /\ after'[t] = "idle"
      /\ UNCHANGED <<me, what, on, drain>>
  BY <1>0, <1>1, <1>2 DEF Copy, GoTo, Others, HostTyped
<1>8. /\ UNCHANGED <<slot, made, open, dead, mutex, healthy, request, result, life,
                     owners, boot, handle, mapped, module, run, failures>>
  BY <1>0, <1>1, <1>2, BootstrapAssumption DEF Copy, GoTo, slotVars, loaderVars,
     kernelVars, LoaderTyped, KernelTyped
<1>9. LifeInv'
  BY <1>0, <1>1, <1>2, <1>7, <1>8 DEF LifeInv, Loading, Unloading, Removing, InExecute,
     Others
<1>10. PointerInv'
  BY <1>0, <1>1, <1>2, <1>7, <1>8 DEF PointerInv, Loading, Unloading, Removing,
     InExecute, Executing, Others, LifeInv
<1>11. LockInv'
  BY <1>0, <1>1, <1>2, <1>7, <1>8, BootstrapAssumption DEF LockInv, InLoader, Others
<1>12. StreamInv'
  BY <1>0, <1>1, <1>2, <1>7, <1>8 DEF StreamInv, Asked, Others
<1>13. ReuseInv'
  BY <1>0, <1>1, <1>2, <1>7, <1>8 DEF ReuseInv, Asked, Others
<1>14. LInv'
  BY <1>6, <1>9, <1>10, <1>11, <1>12, <1>13 DEF LInv
<1>15. \A u \in Threads : what'[u] = what[u] /\ me'[u] = me[u] => NextAsk(u)' = NextAsk(u)
  BY <1>8 DEF NextAsk, Ask
<1>16. ASSUME Exclusive, XInv PROVE XInv'
  <2>0. FirstInv /\ SlotInv /\ LocalInv /\ ReleaseInv /\ RequestInv /\ ResultInv /\ ModuleInv
        /\ RunInv /\ MappedInv
    BY <1>16 DEF XInv
  <2>1. local[t] = Null /\ local[t].own = None
    BY <1>1, <2>0, Made DEF LocalInv, LocalOf, InExecute
  <2>2. \A x \in Boots : Owned(x)' <=> Owned(x)
    BY <1>0, <1>1, <1>7, <1>8, <2>1, BootstrapAssumption DEF Owned, Others
  <2>11. FirstInv'
    BY <1>0, <1>1, <1>2, <1>7, <1>8, <1>16, <2>0, <2>1, <2>2 DEF FirstInv, LifeInv,
       Loading, Unloading, Removing, InExecute, Others
  <2>12. SlotInv'
    BY <1>0, <1>1, <1>2, <1>7, <1>8, <1>16, <2>0, <2>1, <2>2 DEF SlotInv, Whole, Null,
       LifeInv, Loading, Unloading, Removing, InExecute, Others
  <2>13. LocalInv'
    BY <1>0, <1>1, <1>2, <1>7, <1>8, <1>16, <2>0, <2>1, <2>2 DEF LocalInv, LocalOf,
       Whole, Null, LifeInv, Loading, Unloading, Removing, InExecute, Others, SlotInv
  <2>14. ReleaseInv'
    BY <1>0, <1>1, <1>7, <1>8, <2>0, <2>2 DEF ReleaseInv, Removing, InExecute,
       LoaderTyped, PointerInv, Executing, Others
  <2>15. RequestInv'
    BY <1>0, <1>1, <1>2, <1>7, <1>8, <1>15, <1>16, <2>0, <2>1, <2>2 DEF RequestInv,
       Active, Others
  <2>16. ResultInv'
    BY <1>0, <1>1, <1>2, <1>7, <1>8, <1>15, <1>16, <2>0, <2>1, <2>2 DEF ResultInv,
       Served, Asked, Others
  <2>17. ModuleInv'
    BY <1>0, <1>1, <1>2, <1>7, <1>8, <1>16, <2>0, <2>1, <2>2 DEF ModuleInv, Served,
       LifeInv, Loading, Unloading, Removing, InExecute, Asked, Others
  <2>18. RunInv'
    BY <1>0, <1>1, <1>2, <1>7, <1>8, <1>16, <2>0, <2>1, <2>2 DEF RunInv, Active,
       Unloading, InExecute, Others
  <2>19. MappedInv'
    BY <1>0, <1>1, <1>2, <1>7, <1>8, <1>16, <2>0, <2>1, <2>2 DEF MappedInv, LifeInv,
       Loading, Unloading, Removing, InExecute, Others
  <2> QED
    BY <2>11, <2>12, <2>13, <2>14, <2>15, <2>16, <2>17, <2>18, <2>19 DEF XInv
<1> QED
  BY <1>14, <1>16

(* The image is mapped and the loader will be asked.                          *)
LEMMA KeepsMap ==
    ASSUME LInv, NEW t \in Threads, Map(t)
    PROVE  LInv' /\ (Exclusive /\ XInv => XInv')
<1>0. /\ HostTyped /\ LoaderTyped /\ KernelTyped
      /\ LifeInv /\ PointerInv /\ LockInv /\ StreamInv /\ ReuseInv
  BY DEF LInv, Typed
<1>1. /\ pc[t] = "map"
  BY DEF Map, GoTo
<1>2. me[t] \in Kernels /\ life[me[t]] = "loading"
  BY <1>0, <1>1 DEF LifeInv, Loading
<1>3. local[t] \in Pointer /\ local[t].ptr \in Boots \cup {None} /\ local[t].own \in Boots \cup {None}
  BY <1>0, Made DEF HostTyped
<1>4. HostTyped'
  BY <1>0, <1>1, <1>2, <1>3 DEF Map, GoTo, slotVars, loaderVars, HostTyped, Labels
<1>5. LoaderTyped'
  BY <1>0, <1>1, <1>2, <1>3 DEF Map, GoTo, slotVars, loaderVars, LoaderTyped
<1>6. KernelTyped'
  BY <1>0, <1>1, <1>2, <1>3 DEF Map, GoTo, slotVars, loaderVars, KernelTyped
<1>7. Typed'
  BY <1>4, <1>5, <1>6 DEF Typed
<1>8. /\ Others(t)
      /\ pc'[t] = "lock"
      /\ what'[t] = "Load"
      /\ on'[t] = local[t].ptr
      /\ UNCHANGED <<me, local, after, drain>>
  BY <1>0, <1>1, <1>2, <1>3 DEF Map, GoTo, Others, HostTyped
<1>9. /\ mapped' = mapped \cup {me[t]}
      /\ UNCHANGED <<slot, made, open, dead, mutex, healthy, request, result, life,
                     owners, boot, handle, module, run, failures>>
  BY <1>0, <1>1, <1>2, <1>3, BootstrapAssumption DEF Map, GoTo, slotVars, loaderVars,
     LoaderTyped, KernelTyped
<1>10. LifeInv'
  BY <1>0, <1>1, <1>2, <1>3, <1>8, <1>9 DEF LifeInv, Loading, Unloading, Removing,
     InExecute, Others
<1>11. PointerInv'
  BY <1>0, <1>1, <1>2, <1>3, <1>8, <1>9 DEF PointerInv, Loading, Unloading, Removing,
     InExecute, Executing, Others, LifeInv
<1>12. LockInv'
  BY <1>0, <1>1, <1>2, <1>3, <1>8, <1>9, BootstrapAssumption DEF LockInv, InLoader,
     Others
<1>13. StreamInv'
  BY <1>0, <1>1, <1>2, <1>3, <1>8, <1>9 DEF StreamInv, Asked, Others
<1>14. ReuseInv'
  BY <1>0, <1>1, <1>2, <1>3, <1>8, <1>9 DEF ReuseInv, Asked, Others
<1>15. LInv'
  BY <1>7, <1>10, <1>11, <1>12, <1>13, <1>14 DEF LInv
<1>16. \A u \in Threads : what'[u] = what[u] /\ me'[u] = me[u] => NextAsk(u)' = NextAsk(u)
  BY <1>9 DEF NextAsk, Ask
<1>17. ASSUME Exclusive, XInv PROVE XInv'
  <2>0. FirstInv /\ SlotInv /\ LocalInv /\ ReleaseInv /\ RequestInv /\ ResultInv /\ ModuleInv
        /\ RunInv /\ MappedInv
    BY <1>17 DEF XInv
  <2>11. FirstInv'
    BY <1>0, <1>1, <1>2, <1>3, <1>8, <1>9, <1>17, <2>0 DEF FirstInv, LifeInv, Loading,
       Unloading, Removing, InExecute, Others
  <2>12. SlotInv'
    BY <1>0, <1>1, <1>2, <1>3, <1>8, <1>9, <1>17, <2>0 DEF SlotInv, Whole, Null,
       LifeInv, Loading, Unloading, Removing, InExecute, Others
  <2>13. LocalInv'
    BY <1>0, <1>1, <1>2, <1>3, <1>8, <1>9, <1>17, <2>0 DEF LocalInv, LocalOf, Whole,
       Null, LifeInv, Loading, Unloading, Removing, InExecute, Others
  <2>14. ReleaseInv'
    BY <1>0, <1>1, <1>2, <1>3, <1>8, <1>9, <1>17, <2>0 DEF ReleaseInv, Owned, Removing,
       InExecute, Others
  <2>15. RequestInv'
    BY <1>0, <1>1, <1>2, <1>3, <1>8, <1>9, <1>16, <1>17, <2>0 DEF RequestInv, Active,
       Others
  <2>16. ResultInv'
    BY <1>0, <1>1, <1>2, <1>3, <1>8, <1>9, <1>16, <1>17, <2>0 DEF ResultInv, Served,
       Asked, Others
  <2>17. ModuleInv'
    BY <1>0, <1>1, <1>2, <1>3, <1>8, <1>9, <1>17, <2>0 DEF ModuleInv, Served, LifeInv,
       Loading, Unloading, Removing, InExecute, Asked, Others
  <2>18. RunInv'
    BY <1>0, <1>1, <1>2, <1>3, <1>8, <1>9, <1>17, <2>0 DEF RunInv, Active, Unloading,
       InExecute, Others
  <2>19. MappedInv'
    BY <1>0, <1>1, <1>2, <1>3, <1>8, <1>9, <1>17, <2>0 DEF MappedInv, LifeInv, Loading,
       Unloading, Removing, InExecute, Others
  <2> QED
    BY <2>11, <2>12, <2>13, <2>14, <2>15, <2>16, <2>17, <2>18, <2>19 DEF XInv
<1> QED
  BY <1>15, <1>17

(* The binary cannot be read.                                                 *)
LEMMA KeepsMapFails ==
    ASSUME LInv, NEW t \in Threads, MapFails(t)
    PROVE  LInv' /\ (Exclusive /\ XInv => XInv')
<1>0. /\ HostTyped /\ LoaderTyped /\ KernelTyped
      /\ LifeInv /\ PointerInv /\ LockInv /\ StreamInv /\ ReuseInv
  BY DEF LInv, Typed
<1>1. /\ pc[t] = "map"
  BY DEF MapFails, GoTo, Discard
<1>2. me[t] \in Kernels /\ life[me[t]] = "loading"
  BY <1>0, <1>1 DEF LifeInv, Loading
<1>3. HostTyped'
  BY <1>0, <1>1, <1>2 DEF MapFails, GoTo, Discard, slotVars, loaderVars, hostVars,
     HostTyped, Labels
<1>4. LoaderTyped'
  BY <1>0, <1>1, <1>2 DEF MapFails, GoTo, Discard, slotVars, loaderVars, hostVars,
     LoaderTyped
<1>5. KernelTyped'
  BY <1>0, <1>1, <1>2 DEF MapFails, GoTo, Discard, slotVars, loaderVars, hostVars,
     KernelTyped
<1>6. Typed'
  BY <1>3, <1>4, <1>5 DEF Typed
<1>7. /\ Others(t)
      /\ pc'[t] = "unref"
      /\ UNCHANGED <<me, what, on, local, after, drain>>
  BY <1>0, <1>1, <1>2 DEF MapFails, GoTo, Discard, Others, hostVars, HostTyped
<1>8. /\ life'[me[t]] = "gone"
      /\ \A x \in Kernels \ {me[t]} : life'[x] = life[x]
      /\ mapped' = mapped \ {me[t]}
      /\ UNCHANGED <<slot, made, open, dead, mutex, healthy, request, result,
                     owners, boot, handle, module, run, failures>>
  BY <1>0, <1>1, <1>2, BootstrapAssumption DEF MapFails, GoTo, Discard, slotVars,
     loaderVars, hostVars, LoaderTyped, KernelTyped
<1>9. LifeInv'
  BY <1>0, <1>1, <1>2, <1>7, <1>8 DEF LifeInv, Loading, Unloading, Removing, InExecute,
     Others
<1>10. PointerInv'
  BY <1>0, <1>1, <1>2, <1>7, <1>8 DEF PointerInv, Loading, Unloading, Removing,
     InExecute, Executing, Others, LifeInv
<1>11. LockInv'
  BY <1>0, <1>1, <1>2, <1>7, <1>8, BootstrapAssumption DEF LockInv, InLoader, Others
<1>12. StreamInv'
  BY <1>0, <1>1, <1>2, <1>7, <1>8 DEF StreamInv, Asked, Others
<1>13. ReuseInv'
  BY <1>0, <1>1, <1>2, <1>7, <1>8 DEF ReuseInv, Asked, Others
<1>14. LInv'
  BY <1>6, <1>9, <1>10, <1>11, <1>12, <1>13 DEF LInv
<1>15. \A u \in Threads : what'[u] = what[u] /\ me'[u] = me[u] => NextAsk(u)' = NextAsk(u)
  BY <1>8 DEF NextAsk, Ask
<1>16. ASSUME Exclusive, XInv PROVE XInv'
  <2>0. FirstInv /\ SlotInv /\ LocalInv /\ ReleaseInv /\ RequestInv /\ ResultInv /\ ModuleInv
        /\ RunInv /\ MappedInv
    BY <1>16 DEF XInv
  <2>11. FirstInv'
    BY <1>0, <1>1, <1>2, <1>7, <1>8, <1>16, <2>0 DEF FirstInv, LifeInv, Loading,
       Unloading, Removing, InExecute, Others
  <2>12. SlotInv'
    BY <1>0, <1>1, <1>2, <1>7, <1>8, <1>16, <2>0 DEF SlotInv, Whole, Null, LifeInv,
       Loading, Unloading, Removing, InExecute, Others
  <2>13. LocalInv'
    BY <1>0, <1>1, <1>2, <1>7, <1>8, <1>16, <2>0 DEF LocalInv, LocalOf, Whole, Null,
       LifeInv, Loading, Unloading, Removing, InExecute, Others
  <2>14. ReleaseInv'
    BY <1>0, <1>1, <1>2, <1>7, <1>8, <1>16, <2>0 DEF ReleaseInv, Owned, Removing,
       InExecute, Others
  <2>15. RequestInv'
    BY <1>0, <1>1, <1>2, <1>7, <1>8, <1>15, <1>16, <2>0 DEF RequestInv, Active, Others
  <2>16. ResultInv'
    BY <1>0, <1>1, <1>2, <1>7, <1>8, <1>15, <1>16, <2>0 DEF ResultInv, Served, Asked,
       Others
  <2>17. ModuleInv'
    BY <1>0, <1>1, <1>2, <1>7, <1>8, <1>16, <2>0 DEF ModuleInv, Served, LifeInv,
       Loading, Unloading, Removing, InExecute, Asked, Others
  <2>18. RunInv'
    BY <1>0, <1>1, <1>2, <1>7, <1>8, <1>16, <2>0 DEF RunInv, Active, Unloading,
       InExecute, Others
  <2>19. MappedInv'
    BY <1>0, <1>1, <1>2, <1>7, <1>8, <1>16, <2>0 DEF MappedInv, LifeInv, Loading,
       Unloading, Removing, InExecute, Others
  <2> QED
    BY <2>11, <2>12, <2>13, <2>14, <2>15, <2>16, <2>17, <2>18, <2>19 DEF XInv
<1> QED
  BY <1>14, <1>16

(* The loader's lock.                                                         *)
LEMMA KeepsLock ==
    ASSUME LInv, NEW t \in Threads, Lock(t)
    PROVE  LInv' /\ (Exclusive /\ XInv => XInv')
<1>0. /\ HostTyped /\ LoaderTyped /\ KernelTyped
      /\ LifeInv /\ PointerInv /\ LockInv /\ StreamInv /\ ReuseInv
  BY DEF LInv, Typed
<1>1. /\ pc[t] = "lock"
      /\ mutex[on[t]] = None
  BY DEF Lock, GoTo
<1>2. on[t] \in made /\ on[t] \in Boots
  BY <1>0, <1>1 DEF PointerInv, Executing, LoaderTyped
<1>3. HostTyped'
  BY <1>0, <1>1, <1>2 DEF Lock, GoTo, slotVars, kernelVars, hostVars, HostTyped, Labels
<1>4. LoaderTyped'
  BY <1>0, <1>1, <1>2 DEF Lock, GoTo, slotVars, kernelVars, hostVars, LoaderTyped
<1>5. KernelTyped'
  BY <1>0, <1>1, <1>2 DEF Lock, GoTo, slotVars, kernelVars, hostVars, KernelTyped
<1>6. Typed'
  BY <1>3, <1>4, <1>5 DEF Typed
<1>7. /\ Others(t)
      /\ pc'[t] = "ask"
      /\ UNCHANGED <<me, what, on, local, after, drain>>
  BY <1>0, <1>1, <1>2 DEF Lock, GoTo, Others, hostVars, HostTyped
<1>8. /\ mutex'[on[t]] = t
      /\ \A x \in Boots \ {on[t]} : mutex'[x] = mutex[x]
      /\ UNCHANGED <<slot, made, open, dead, healthy, request, result, life, owners,
                     boot, handle, mapped, module, run, failures>>
  BY <1>0, <1>1, <1>2, BootstrapAssumption DEF Lock, GoTo, slotVars, kernelVars,
     hostVars, LoaderTyped, KernelTyped
<1>9. LifeInv'
  BY <1>0, <1>1, <1>2, <1>7, <1>8 DEF LifeInv, Loading, Unloading, Removing, InExecute,
     Others
<1>10. PointerInv'
  BY <1>0, <1>1, <1>2, <1>7, <1>8 DEF PointerInv, Loading, Unloading, Removing,
     InExecute, Executing, Others, LifeInv
<1>11. LockInv'
  BY <1>0, <1>1, <1>2, <1>7, <1>8, BootstrapAssumption DEF LockInv, InLoader, Others
<1>12. StreamInv'
  BY <1>0, <1>1, <1>2, <1>7, <1>8 DEF StreamInv, Asked, Others
<1>13. ReuseInv'
  BY <1>0, <1>1, <1>2, <1>7, <1>8 DEF ReuseInv, Asked, Others
<1>14. LInv'
  BY <1>6, <1>9, <1>10, <1>11, <1>12, <1>13 DEF LInv
<1>15. \A u \in Threads : what'[u] = what[u] /\ me'[u] = me[u] => NextAsk(u)' = NextAsk(u)
  BY <1>8 DEF NextAsk, Ask
<1>16. ASSUME Exclusive, XInv PROVE XInv'
  <2>0. FirstInv /\ SlotInv /\ LocalInv /\ ReleaseInv /\ RequestInv /\ ResultInv /\ ModuleInv
        /\ RunInv /\ MappedInv
    BY <1>16 DEF XInv
  <2>11. FirstInv'
    BY <1>0, <1>1, <1>2, <1>7, <1>8, <1>16, <2>0 DEF FirstInv, LifeInv, Loading,
       Unloading, Removing, InExecute, Others
  <2>12. SlotInv'
    BY <1>0, <1>1, <1>2, <1>7, <1>8, <1>16, <2>0 DEF SlotInv, Whole, Null, LifeInv,
       Loading, Unloading, Removing, InExecute, Others
  <2>13. LocalInv'
    BY <1>0, <1>1, <1>2, <1>7, <1>8, <1>16, <2>0 DEF LocalInv, LocalOf, Whole, Null,
       LifeInv, Loading, Unloading, Removing, InExecute, Others
  <2>14. ReleaseInv'
    BY <1>0, <1>1, <1>2, <1>7, <1>8, <1>16, <2>0 DEF ReleaseInv, Owned, Removing,
       InExecute, Others
  <2>15. RequestInv'
    BY <1>0, <1>1, <1>2, <1>7, <1>8, <1>15, <1>16, <2>0 DEF RequestInv, Active, Others
  <2>16. ResultInv'
    BY <1>0, <1>1, <1>2, <1>7, <1>8, <1>15, <1>16, <2>0 DEF ResultInv, Served, Asked,
       Others
  <2>17. ModuleInv'
    BY <1>0, <1>1, <1>2, <1>7, <1>8, <1>16, <2>0 DEF ModuleInv, Served, LifeInv,
       Loading, Unloading, Removing, InExecute, Asked, Others
  <2>18. RunInv'
    BY <1>0, <1>1, <1>2, <1>7, <1>8, <1>16, <2>0 DEF RunInv, Active, Unloading,
       InExecute, Others
  <2>19. MappedInv'
    BY <1>0, <1>1, <1>2, <1>7, <1>8, <1>16, <2>0 DEF MappedInv, LifeInv, Loading,
       Unloading, Removing, InExecute, Others
  <2> QED
    BY <2>11, <2>12, <2>13, <2>14, <2>15, <2>16, <2>17, <2>18, <2>19 DEF XInv
<1> QED
  BY <1>14, <1>16

(* The request enters the stream.                                             *)
LEMMA KeepsRequest ==
    ASSUME LInv, NEW t \in Threads, Request(t)
    PROVE  LInv' /\ (Exclusive /\ XInv => XInv')
<1>0. /\ HostTyped /\ LoaderTyped /\ KernelTyped
      /\ LifeInv /\ PointerInv /\ LockInv /\ StreamInv /\ ReuseInv
  BY DEF LInv, Typed
<1>1. /\ pc[t] = "ask"
      /\ healthy[on[t]]
  BY DEF Request, GoTo
<1>2. on[t] \in made /\ on[t] \in Boots
  BY <1>0, <1>1 DEF PointerInv, Executing, LoaderTyped
<1>3. request[on[t]] = <<>>
  BY <1>0, <1>1, <1>2 DEF StreamInv
<1>4. request' = [request EXCEPT ![on[t]] = <<NextAsk(t)>>]
  BY <1>3, OneAsk DEF Request
<1>5. NextAsk(t) \in Asks
  BY <1>1, AskTyped DEF InExecute
<1>6. \A u \in Threads \ {t} : InLoader(u) => on[u] \in Boots /\ on[u] # on[t]
  BY <1>0, <1>1, <1>2 DEF LockInv, PointerInv, Executing, InLoader, LoaderTyped
<1>7. HostTyped'
  BY <1>0, <1>1, <1>2, <1>3, <1>4, <1>5, <1>6 DEF Request, GoTo, slotVars, kernelVars,
     hostVars, HostTyped, Labels
<1>8. LoaderTyped'
  <2>1. /\ DOMAIN request' = Boots /\ request' = [x \in Boots |-> request'[x]]
        /\ \A x \in Boots : request'[x] = <<>> \/ \E y \in Asks : request'[x] = <<y>>
    BY <1>0, <1>4, <1>5 DEF LoaderTyped
  <2> QED
    BY <1>0, <2>1 DEF Request, slotVars, LoaderTyped
<1>9. KernelTyped'
  BY <1>0, <1>1, <1>2, <1>3, <1>4, <1>5, <1>6 DEF Request, GoTo, slotVars, kernelVars,
     hostVars, KernelTyped
<1>10. Typed'
  BY <1>7, <1>8, <1>9 DEF Typed
<1>11. /\ Others(t)
       /\ pc'[t] = "sync"
       /\ UNCHANGED <<me, what, on, local, after, drain>>
  BY <1>0, <1>1, <1>2, <1>3, <1>4, <1>5, <1>6 DEF Request, GoTo, Others, hostVars,
     HostTyped
<1>12. /\ healthy'[on[t]] = FALSE
       /\ \A x \in Boots \ {on[t]} : healthy'[x] = healthy[x]
       /\ request'[on[t]] = <<NextAsk(t)>>
       /\ \A x \in Boots \ {on[t]} : request'[x] = request[x]
       /\ UNCHANGED <<slot, made, open, dead, mutex, result, life, owners, boot,
                      handle, mapped, module, run, failures>>
  BY <1>0, <1>1, <1>2, <1>3, <1>4, <1>5, <1>6, BootstrapAssumption DEF Request, GoTo,
     slotVars, kernelVars, hostVars, LoaderTyped, KernelTyped
<1>13. LifeInv'
  BY <1>0, <1>1, <1>2, <1>3, <1>5, <1>11, <1>12 DEF LifeInv, Loading, Unloading,
     Removing, InExecute, Others
<1>14. PointerInv'
  BY <1>0, <1>1, <1>2, <1>3, <1>5, <1>11, <1>12 DEF PointerInv, Loading, Unloading,
     Removing, InExecute, Executing, Others, LifeInv
<1>15. LockInv'
  BY <1>0, <1>1, <1>2, <1>3, <1>5, <1>6, <1>11, <1>12, BootstrapAssumption DEF LockInv,
     InLoader, Others
<1>16. StreamInv'
  BY <1>0, <1>1, <1>2, <1>3, <1>5, <1>6, <1>11, <1>12 DEF StreamInv, InLoader, Asked,
     Others
<1>17. ReuseInv'
  BY <1>0, <1>1, <1>2, <1>3, <1>5, <1>6, <1>11, <1>12 DEF ReuseInv, InLoader, Asked,
     Others
<1>18. LInv'
  BY <1>10, <1>13, <1>14, <1>15, <1>16, <1>17 DEF LInv
<1>19. \A u \in Threads : what'[u] = what[u] /\ me'[u] = me[u] => NextAsk(u)' = NextAsk(u)
  BY <1>12 DEF NextAsk, Ask
<1>20. ASSUME Exclusive, XInv PROVE XInv'
  <2>0. FirstInv /\ SlotInv /\ LocalInv /\ ReleaseInv /\ RequestInv /\ ResultInv /\ ModuleInv
        /\ RunInv /\ MappedInv
    BY <1>20 DEF XInv
  <2>1. /\ NextAsk(t).op = what[t]
        /\ what[t] = "Load" => NextAsk(t).of = me[t]
        /\ what[t] = "Unload" => NextAsk(t).of = handle[me[t]]
    BY <1>1, AskTyped DEF InExecute
  <2>2. what[t] = "Unload" =>
          /\ handle[me[t]] = me[t] /\ me[t] \in Kernels /\ life[me[t]] = "gone"
          /\ \A c \in Active : run[c].of # me[t]
    BY <1>0, <1>1, <2>0 DEF ModuleInv, RunInv, Unloading, InExecute, LifeInv
  <2>3. what[t] = "Load" => me[t] \in Kernels /\ module[me[t]] = "absent"
    BY <1>0, <1>1, <2>0 DEF ModuleInv, Served, Asked, Loading, InExecute, LifeInv
  <2>4. \A a \in Asks : request'[on[t]] = <<a>> => a = NextAsk(t)
    BY <1>12, OneAsk
  <2>11. FirstInv'
    BY <1>0, <1>1, <1>2, <1>3, <1>5, <1>6, <1>11, <1>12, <1>20, <2>0, <2>1, <2>2, <2>3,
       <2>4 DEF FirstInv, LifeInv, Loading, Unloading, Removing, InExecute, InLoader,
       Others
  <2>12. SlotInv'
    BY <1>0, <1>1, <1>2, <1>3, <1>5, <1>6, <1>11, <1>12, <1>20, <2>0, <2>1, <2>2, <2>3,
       <2>4 DEF SlotInv, Whole, Null, LifeInv, Loading, Unloading, Removing, InExecute,
       InLoader, Others
  <2>13. LocalInv'
    BY <1>0, <1>1, <1>2, <1>3, <1>5, <1>6, <1>11, <1>12, <1>20, <2>0, <2>1, <2>2, <2>3,
       <2>4 DEF LocalInv, LocalOf, Whole, Null, LifeInv, Loading, Unloading, Removing,
       InExecute, InLoader, Others
  <2>14. ReleaseInv'
    BY <1>0, <1>1, <1>2, <1>3, <1>5, <1>6, <1>11, <1>12, <1>20, <2>0, <2>1, <2>2, <2>3,
       <2>4 DEF ReleaseInv, Owned, Removing, InExecute, InLoader, Others
  <2>15. RequestInv'
    <3>1. ASSUME NEW x \in Boots, NEW a \in Asks, request'[x] = <<a>>, x # on[t]
          PROVE  request[x] = <<a>> /\ \A u \in Threads : pc[u] = "sync" /\ on[u] = x /\ NextAsk(u) = a
                    => pc'[u] = "sync" /\ on'[u] = x /\ NextAsk(u)' = a
      BY <1>1, <1>2, <1>11, <1>12, <1>19, <3>1 DEF Others
    <3>2. Active' = Active
      BY <1>12 DEF Active
    <3>3. ASSUME NEW x \in Boots, NEW a \in Asks, request'[x] = <<a>>
          PROVE  /\ x \in made'
                 /\ a.op = "Load" => a.of \in Kernels /\ module'[a.of] = "absent" /\
                       \/ life'[a.of] = "gone"
                       \/ \E u \in Threads : pc'[u] = "sync" /\ on'[u] = x /\ NextAsk(u)' = a
                 /\ a.op = "Unload" =>
                       a.of \in Kernels /\ life'[a.of] = "gone" /\ \A c \in Active' : run'[c].of # a.of
                 /\ failures' = 0 => \E u \in Threads : pc'[u] = "sync" /\ on'[u] = x /\ NextAsk(u)' = a
      <4>1. CASE x = on[t]
        <5>1. a = NextAsk(t) /\ pc'[t] = "sync" /\ on'[t] = x /\ NextAsk(t)' = a
          BY <1>11, <1>19, <2>4, <3>3, <4>1
        <5> QED
          BY <1>2, <1>12, <2>1, <2>2, <2>3, <3>2, <4>1, <5>1
      <4>2. CASE x # on[t]
        <5>1. request[x] = <<a>>
          BY <3>1, <3>3, <4>2
        <5>2. /\ x \in made
              /\ a.op = "Load" => a.of \in Kernels /\ module[a.of] = "absent" /\
                    \/ life[a.of] = "gone"
                    \/ \E u \in Threads : pc[u] = "sync" /\ on[u] = x /\ NextAsk(u) = a
              /\ a.op = "Unload" =>
                    a.of \in Kernels /\ life[a.of] = "gone" /\ \A c \in Active : run[c].of # a.of
              /\ failures = 0 => \E u \in Threads : pc[u] = "sync" /\ on[u] = x /\ NextAsk(u) = a
          BY <2>0, <5>1 DEF RequestInv
        <5> QED
          BY <1>12, <3>1, <3>2, <3>3, <4>2, <5>2
      <4> QED
        BY <4>1, <4>2
    <3>4. ASSUME NEW u \in Threads, pc'[u] = "sync" PROVE request'[on'[u]] \in {<<>>, <<NextAsk(u)'>>}
      <4>1. CASE u = t
        BY <1>11, <1>12, <1>19, <4>1
      <4>2. CASE u # t
        <5>1. pc[u] = "sync" /\ on'[u] = on[u] /\ on[u] \in Boots /\ on[u] # on[t] /\ NextAsk(u)' = NextAsk(u)
          BY <1>6, <1>11, <1>19, <3>4, <4>2 DEF Others, InLoader
        <5> QED
          BY <1>12, <2>0, <5>1 DEF RequestInv
      <4> QED
        BY <4>1, <4>2
    <3> QED
      BY <3>3, <3>4 DEF RequestInv
  <2>16. ResultInv'
    BY <1>0, <1>1, <1>2, <1>3, <1>5, <1>6, <1>11, <1>12, <1>19, <1>20, <2>0, <2>1, <2>2,
       <2>3, <2>4 DEF ResultInv, Served, InLoader, Asked, Others
  <2>17. ModuleInv'
    BY <1>0, <1>1, <1>2, <1>3, <1>5, <1>6, <1>11, <1>12, <1>20, <2>0, <2>1, <2>2, <2>3,
       <2>4 DEF ModuleInv, Served, LifeInv, Loading, Unloading, Removing, InExecute,
       InLoader, Asked, Others
  <2>18. RunInv'
    BY <1>0, <1>1, <1>2, <1>3, <1>5, <1>6, <1>11, <1>12, <1>20, <2>0, <2>1, <2>2, <2>3,
       <2>4 DEF RunInv, Active, Unloading, InExecute, InLoader, Others
  <2>19. MappedInv'
    BY <1>0, <1>1, <1>2, <1>3, <1>5, <1>6, <1>11, <1>12, <1>20, <2>0, <2>1, <2>2, <2>3,
       <2>4 DEF MappedInv, LifeInv, Loading, Unloading, Removing, InExecute, InLoader,
       Others
  <2> QED
    BY <2>11, <2>12, <2>13, <2>14, <2>15, <2>16, <2>17, <2>18, <2>19 DEF XInv
<1> QED
  BY <1>18, <1>20

(* The wait ends with the request.                                            *)
LEMMA KeepsSynced ==
    ASSUME LInv, NEW t \in Threads, Synced(t)
    PROVE  LInv' /\ (Exclusive /\ XInv => XInv')
<1>0. /\ HostTyped /\ LoaderTyped /\ KernelTyped
      /\ LifeInv /\ PointerInv /\ LockInv /\ StreamInv /\ ReuseInv
  BY DEF LInv, Typed
<1>1. /\ pc[t] = "sync"
      /\ request[on[t]] = <<>>
  BY DEF Synced, GoTo
<1>2. on[t] \in made /\ on[t] \in Boots
  BY <1>0, <1>1 DEF PointerInv, Executing, LoaderTyped
<1>3. HostTyped'
  BY <1>0, <1>1, <1>2 DEF Synced, GoTo, slotVars, loaderVars, kernelVars, hostVars,
     HostTyped, Labels
<1>4. LoaderTyped'
  BY <1>0, <1>1, <1>2 DEF Synced, GoTo, slotVars, loaderVars, kernelVars, hostVars,
     LoaderTyped
<1>5. KernelTyped'
  BY <1>0, <1>1, <1>2 DEF Synced, GoTo, slotVars, loaderVars, kernelVars, hostVars,
     KernelTyped
<1>6. Typed'
  BY <1>3, <1>4, <1>5 DEF Typed
<1>7. /\ Others(t)
      /\ pc'[t] = "fetch"
      /\ UNCHANGED <<me, what, on, local, after, drain>>
  BY <1>0, <1>1, <1>2 DEF Synced, GoTo, Others, hostVars, HostTyped
<1>8. /\ UNCHANGED <<slot, made, open, dead, mutex, healthy, request, result, life,
                     owners, boot, handle, mapped, module, run, failures>>
  BY <1>0, <1>1, <1>2, BootstrapAssumption DEF Synced, GoTo, slotVars, loaderVars,
     kernelVars, hostVars, LoaderTyped, KernelTyped
<1>9. LifeInv'
  BY <1>0, <1>1, <1>2, <1>7, <1>8 DEF LifeInv, Loading, Unloading, Removing, InExecute,
     Others
<1>10. PointerInv'
  BY <1>0, <1>1, <1>2, <1>7, <1>8 DEF PointerInv, Loading, Unloading, Removing,
     InExecute, Executing, Others, LifeInv
<1>11. LockInv'
  BY <1>0, <1>1, <1>2, <1>7, <1>8, BootstrapAssumption DEF LockInv, InLoader, Others
<1>12. StreamInv'
  BY <1>0, <1>1, <1>2, <1>7, <1>8 DEF StreamInv, Asked, Others
<1>13. ReuseInv'
  BY <1>0, <1>1, <1>2, <1>7, <1>8 DEF ReuseInv, Asked, Others
<1>14. LInv'
  BY <1>6, <1>9, <1>10, <1>11, <1>12, <1>13 DEF LInv
<1>15. \A u \in Threads : what'[u] = what[u] /\ me'[u] = me[u] => NextAsk(u)' = NextAsk(u)
  BY <1>8 DEF NextAsk, Ask
<1>16. ASSUME Exclusive, XInv PROVE XInv'
  <2>0. FirstInv /\ SlotInv /\ LocalInv /\ ReleaseInv /\ RequestInv /\ ResultInv /\ ModuleInv
        /\ RunInv /\ MappedInv
    BY <1>16 DEF XInv
  <2>11. FirstInv'
    BY <1>0, <1>1, <1>2, <1>7, <1>8, <1>16, <2>0 DEF FirstInv, LifeInv, Loading,
       Unloading, Removing, InExecute, Others
  <2>12. SlotInv'
    BY <1>0, <1>1, <1>2, <1>7, <1>8, <1>16, <2>0 DEF SlotInv, Whole, Null, LifeInv,
       Loading, Unloading, Removing, InExecute, Others
  <2>13. LocalInv'
    BY <1>0, <1>1, <1>2, <1>7, <1>8, <1>16, <2>0 DEF LocalInv, LocalOf, Whole, Null,
       LifeInv, Loading, Unloading, Removing, InExecute, Others
  <2>14. ReleaseInv'
    BY <1>0, <1>1, <1>2, <1>7, <1>8, <1>16, <2>0 DEF ReleaseInv, Owned, Removing,
       InExecute, Others
  <2>15. RequestInv'
    BY <1>0, <1>1, <1>2, <1>7, <1>8, <1>15, <1>16, <2>0, OneAsk DEF RequestInv, Active,
       Others
  <2>16. ResultInv'
    BY <1>0, <1>1, <1>2, <1>7, <1>8, <1>15, <1>16, <2>0 DEF ResultInv, Served, Asked,
       Others
  <2>17. ModuleInv'
    BY <1>0, <1>1, <1>2, <1>7, <1>8, <1>16, <2>0 DEF ModuleInv, Served, LifeInv,
       Loading, Unloading, Removing, InExecute, Asked, Others
  <2>18. RunInv'
    BY <1>0, <1>1, <1>2, <1>7, <1>8, <1>16, <2>0 DEF RunInv, Active, Unloading,
       InExecute, Others
  <2>19. MappedInv'
    BY <1>0, <1>1, <1>2, <1>7, <1>8, <1>16, <2>0 DEF MappedInv, LifeInv, Loading,
       Unloading, Removing, InExecute, Others
  <2> QED
    BY <2>11, <2>12, <2>13, <2>14, <2>15, <2>16, <2>17, <2>18, <2>19 DEF XInv
<1> QED
  BY <1>14, <1>16

(* An execute that ends without a kernel.                                     *)
LEMMA KeepsGiveUp ==
    ASSUME LInv, NEW t \in Threads, GiveUp(t)
    PROVE  LInv' /\ (Exclusive /\ XInv => XInv')
<1>0. /\ HostTyped /\ LoaderTyped /\ KernelTyped
      /\ LifeInv /\ PointerInv /\ LockInv /\ StreamInv /\ ReuseInv
  BY DEF LInv, Typed
<1>1. /\ InLoader(t)
      /\ pc[t] = "fetch" /\ what[t] = "Load" /\ healthy'[on[t]] => ~result[on[t]].ok
  BY DEF GiveUp, GoTo, Failed, Discard, Unlock
<1>2. on[t] \in made /\ on[t] \in Boots
  BY <1>0, <1>1 DEF PointerInv, Executing, InLoader, LoaderTyped
<1>3. what[t] = "Load" => me[t] \in Kernels /\ life[me[t]] = "loading"
  BY <1>0, <1>1 DEF LifeInv, Loading, InExecute, InLoader
<1>4. \A u \in Threads \ {t} : InLoader(u) => on[u] \in Boots /\ on[u] # on[t]
  BY <1>0, <1>1, <1>2 DEF LockInv, PointerInv, Executing, InLoader, LoaderTyped
<1>5. HostTyped'
  BY <1>0, <1>1, <1>2, <1>3, <1>4 DEF GiveUp, GoTo, Failed, Discard, Unlock, slotVars,
     kernelVars, hostVars, HostTyped, Labels
<1>6. LoaderTyped'
  BY <1>0, <1>1, <1>2, <1>3, <1>4 DEF GiveUp, GoTo, Failed, Discard, Unlock, slotVars,
     kernelVars, hostVars, LoaderTyped
<1>7. KernelTyped'
  BY <1>0, <1>1, <1>2, <1>3, <1>4 DEF GiveUp, GoTo, Failed, Discard, Unlock, slotVars,
     kernelVars, hostVars, KernelTyped
<1>8. Typed'
  BY <1>5, <1>6, <1>7 DEF Typed
<1>9. /\ Others(t)
      /\ pc'[t] = IF what[t] = "Remove" THEN "teardown" ELSE "unref"
      /\ UNCHANGED <<me, what, on, local, after, drain>>
  BY <1>0, <1>1, <1>2, <1>3, <1>4 DEF GiveUp, GoTo, Failed, Discard, Unlock, Others,
     hostVars, HostTyped
<1>10. /\ mutex'[on[t]] = None
       /\ \A x \in Boots \ {on[t]} : mutex'[x] = mutex[x]
       /\ \A x \in Boots \ {on[t]} : healthy'[x] = healthy[x]
       /\ healthy'[on[t]] => pc[t] = "fetch"
       /\ failures' = 0 => failures = 0 /\ pc[t] = "fetch" /\ healthy'[on[t]]
       /\ what[t] # "Load" => life' = life
       /\ what[t] = "Load" => life'[me[t]] = "gone" /\ \A x \in Kernels \ {me[t]} : life'[x] = life[x]
       /\ mapped' = IF what[t] = "Load" THEN mapped \ {me[t]} ELSE mapped
       /\ UNCHANGED <<slot, made, open, dead, request, result, owners, boot, handle,
                      module, run>>
  BY <1>0, <1>1, <1>2, <1>3, <1>4, BootstrapAssumption DEF GiveUp, GoTo, Failed,
     Discard, Unlock, slotVars, kernelVars, hostVars, LoaderTyped, KernelTyped
<1>11. LifeInv'
  BY <1>0, <1>1, <1>2, <1>3, <1>9, <1>10 DEF LifeInv, Loading, Unloading, Removing,
     InExecute, InLoader, Others
<1>12. PointerInv'
  BY <1>0, <1>1, <1>2, <1>3, <1>9, <1>10 DEF PointerInv, Loading, Unloading, Removing,
     InExecute, InLoader, Executing, Others, LifeInv
<1>13. LockInv'
  BY <1>0, <1>1, <1>2, <1>3, <1>4, <1>9, <1>10, BootstrapAssumption DEF LockInv,
     InLoader, Others
<1>14. StreamInv'
  BY <1>0, <1>1, <1>2, <1>3, <1>4, <1>9, <1>10 DEF StreamInv, InLoader, Asked, Others
<1>15. ReuseInv'
  BY <1>0, <1>1, <1>2, <1>3, <1>4, <1>9, <1>10 DEF ReuseInv, InLoader, Asked, Others
<1>16. LInv'
  BY <1>8, <1>11, <1>12, <1>13, <1>14, <1>15 DEF LInv
<1>17. \A u \in Threads : what'[u] = what[u] /\ me'[u] = me[u] => NextAsk(u)' = NextAsk(u)
  BY <1>10 DEF NextAsk, Ask
<1>18. ASSUME Exclusive, XInv PROVE XInv'
  <2>0. FirstInv /\ SlotInv /\ LocalInv /\ ReleaseInv /\ RequestInv /\ ResultInv /\ ModuleInv
        /\ RunInv /\ MappedInv
    BY <1>18 DEF XInv
  <2>1. /\ NextAsk(t).op = what[t]
        /\ what[t] = "Load" => NextAsk(t).of = me[t]
    BY <1>1, AskTyped DEF InExecute, InLoader
  <2>2. after[t] # "copy"
    BY <1>1, <2>0 DEF SlotInv, InLoader
  <2>3. pc[t] = "fetch" =>
          /\ what[t] = "Load" /\ healthy'[on[t]] => module[me[t]] = "absent"
          /\ what[t] = "Unload" => module[me[t]] = "freed"
    BY <1>0, <1>1, <2>0 DEF ResultInv, ModuleInv, Served, Asked, StreamInv, Loading,
       InExecute
  <2>11. FirstInv'
    BY <1>0, <1>1, <1>2, <1>3, <1>4, <1>9, <1>10, <1>18, <2>0, <2>1, <2>2, <2>3 DEF
       FirstInv, LifeInv, Loading, Unloading, Removing, InExecute, InLoader, Others
  <2>12. SlotInv'
    BY <1>0, <1>1, <1>2, <1>3, <1>4, <1>9, <1>10, <1>18, <2>0, <2>1, <2>2, <2>3 DEF
       SlotInv, Whole, Null, LifeInv, Loading, Unloading, Removing, InExecute, InLoader,
       Others
  <2>13. LocalInv'
    BY <1>0, <1>1, <1>2, <1>3, <1>4, <1>9, <1>10, <1>18, <2>0, <2>1, <2>2, <2>3 DEF
       LocalInv, LocalOf, Whole, Null, LifeInv, Loading, Unloading, Removing, InExecute,
       InLoader, Others
  <2>14. ReleaseInv'
    BY <1>0, <1>1, <1>2, <1>3, <1>4, <1>9, <1>10, <1>18, <2>0, <2>1, <2>2, <2>3 DEF
       ReleaseInv, Owned, Removing, InExecute, InLoader, Others
  <2>15. RequestInv'
    BY <1>0, <1>1, <1>2, <1>3, <1>4, <1>9, <1>10, <1>17, <1>18, <2>0, <2>1, <2>2, <2>3
       DEF RequestInv, Active, InLoader, Others
  <2>16. ResultInv'
    BY <1>0, <1>1, <1>2, <1>3, <1>4, <1>9, <1>10, <1>17, <1>18, <2>0, <2>1, <2>2, <2>3
       DEF ResultInv, Served, InLoader, Asked, Others
  <2>17. ModuleInv'
    BY <1>0, <1>1, <1>2, <1>3, <1>4, <1>9, <1>10, <1>18, <2>0, <2>1, <2>2, <2>3 DEF
       ModuleInv, Served, LifeInv, Loading, Unloading, Removing, InExecute, InLoader,
       Asked, Others
  <2>18. RunInv'
    BY <1>0, <1>1, <1>2, <1>3, <1>4, <1>9, <1>10, <1>18, <2>0, <2>1, <2>2, <2>3 DEF
       RunInv, Active, Unloading, InExecute, InLoader, Others
  <2>19. MappedInv'
    BY <1>0, <1>1, <1>2, <1>3, <1>4, <1>9, <1>10, <1>18, <2>0, <2>1, <2>2, <2>3 DEF
       MappedInv, LifeInv, Loading, Unloading, Removing, InExecute, InLoader, Others
  <2> QED
    BY <2>11, <2>12, <2>13, <2>14, <2>15, <2>16, <2>17, <2>18, <2>19 DEF XInv
<1> QED
  BY <1>16, <1>18

(* The kernel that a load makes.                                              *)
LEMMA KeepsSucceed ==
    ASSUME LInv, NEW t \in Threads, NEW cached \in BOOLEAN, Succeed(t, cached)
    PROVE  LInv' /\ (Exclusive /\ XInv => XInv')
<1>0. /\ HostTyped /\ LoaderTyped /\ KernelTyped
      /\ LifeInv /\ PointerInv /\ LockInv /\ StreamInv /\ ReuseInv
  BY DEF LInv, Typed
<1>1. /\ pc[t] = "fetch"
      /\ what[t] = "Load"
      /\ result[on[t]].ok
  BY DEF Succeed, GoTo, Loaded, Trusted, Unlock
<1>2. on[t] \in made /\ on[t] \in Boots
  BY <1>0, <1>1 DEF PointerInv, Executing, LoaderTyped
<1>3. me[t] \in Kernels /\ life[me[t]] = "loading"
  BY <1>0, <1>1 DEF LifeInv, Loading, InExecute
<1>4. local[t] \in Pointer /\ local[t].ptr \in Boots \cup {None} /\ local[t].own \in Boots \cup {None}
  BY <1>0, Made DEF HostTyped
<1>5. \A u \in Threads \ {t} : InLoader(u) => on[u] \in Boots /\ on[u] # on[t]
  BY <1>0, <1>1, <1>2 DEF LockInv, PointerInv, Executing, InLoader, LoaderTyped
<1>6. /\ life' = [life EXCEPT ![me[t]] = "loaded"]
      /\ handle' = [handle EXCEPT ![me[t]] = result[on[t]].ask.of]
      /\ boot' = [boot EXCEPT ![me[t]] = local[t]]
      /\ owners' = [owners EXCEPT ![me[t]] = IF cached THEN {t, Cache} ELSE {t}]
      /\ mapped' = mapped \ {me[t]}
      /\ UNCHANGED <<module, run>>
  BY DEF Succeed, Loaded
<1>7. result[on[t]].ask.of \in Kernels \cup {None}
  BY <1>0, <1>2 DEF LoaderTyped, Asks
<1>8. HostTyped'
  BY <1>0, <1>1, <1>2, <1>3, <1>4, <1>5, <1>6, <1>7, Made DEF Succeed, GoTo, Loaded,
     Trusted, Unlock, slotVars, HostTyped, Labels, Null
<1>9. LoaderTyped'
  BY <1>0, <1>1, <1>2, <1>3, <1>4, <1>5, <1>6, <1>7 DEF Succeed, GoTo, Loaded, Trusted,
     Unlock, slotVars, LoaderTyped
<1>10. KernelTyped'
  BY <1>0, <1>3, <1>4, <1>6, <1>7 DEF KernelTyped
<1>11. Typed'
  BY <1>8, <1>9, <1>10 DEF Typed
<1>12. /\ Others(t)
       /\ pc'[t] = "idle"
       /\ local'[t] = Null
       /\ local'[t].ptr = None
       /\ local'[t].own = None
       /\ UNCHANGED <<me, what, on, after, drain>>
  BY <1>0, <1>1, <1>2, <1>3, <1>4, <1>5, <1>6, <1>7 DEF Succeed, GoTo, Loaded, Trusted,
     Unlock, Others, HostTyped, Null
<1>13. /\ mutex'[on[t]] = None
       /\ \A x \in Boots \ {on[t]} : mutex'[x] = mutex[x]
       /\ healthy'[on[t]] = TRUE
       /\ \A x \in Boots \ {on[t]} : healthy'[x] = healthy[x]
       /\ life'[me[t]] = "loaded"
       /\ \A x \in Kernels \ {me[t]} : life'[x] = life[x]
       /\ handle'[me[t]] = result[on[t]].ask.of
       /\ \A x \in Kernels \ {me[t]} : handle'[x] = handle[x]
       /\ boot'[me[t]] = local[t]
       /\ \A x \in Kernels \ {me[t]} : boot'[x] = boot[x]
       /\ \A x \in Kernels \ {me[t]} : owners'[x] = owners[x]
       /\ mapped' = mapped \ {me[t]}
       /\ UNCHANGED <<slot, made, open, dead, request, result, module, run, failures>>
  <2>1. /\ mutex'[on[t]] = None /\ \A x \in Boots \ {on[t]} : mutex'[x] = mutex[x]
        /\ healthy'[on[t]] = TRUE /\ \A x \in Boots \ {on[t]} : healthy'[x] = healthy[x]
    BY <1>0, <1>2 DEF Succeed, Trusted, Unlock, LoaderTyped
  <2>2. /\ life'[me[t]] = "loaded" /\ \A x \in Kernels \ {me[t]} : life'[x] = life[x]
        /\ handle'[me[t]] = result[on[t]].ask.of
        /\ \A x \in Kernels \ {me[t]} : handle'[x] = handle[x]
        /\ boot'[me[t]] = local[t] /\ \A x \in Kernels \ {me[t]} : boot'[x] = boot[x]
        /\ \A x \in Kernels \ {me[t]} : owners'[x] = owners[x]
    BY <1>0, <1>3, <1>6 DEF KernelTyped
  <2>3. UNCHANGED <<slot, made, open, dead, request, result, module, run, failures>>
    BY DEF Succeed, slotVars
  <2> QED
    BY <1>6, <2>1, <2>2, <2>3
<1>14. LifeInv'
  BY <1>0, <1>1, <1>2, <1>3, <1>4, <1>7, <1>12, <1>13 DEF LifeInv, Loading, Unloading,
     Removing, InExecute, Others
<1>15. PointerInv'
  BY <1>0, <1>1, <1>2, <1>3, <1>4, <1>7, <1>12, <1>13 DEF PointerInv, Loading,
     Unloading, Removing, InExecute, Executing, Others, Null, LifeInv
<1>16. LockInv'
  BY <1>0, <1>1, <1>2, <1>3, <1>4, <1>5, <1>7, <1>12, <1>13, BootstrapAssumption DEF
     LockInv, InLoader, Others
<1>17. StreamInv'
  BY <1>0, <1>1, <1>2, <1>3, <1>4, <1>5, <1>7, <1>12, <1>13 DEF StreamInv, InLoader,
     Asked, Others
<1>18. ReuseInv'
  BY <1>0, <1>1, <1>2, <1>3, <1>4, <1>5, <1>7, <1>12, <1>13 DEF ReuseInv, InLoader,
     Asked, Others
<1>19. LInv'
  BY <1>11, <1>14, <1>15, <1>16, <1>17, <1>18 DEF LInv
<1>20. \A u \in Threads \ {t} : InExecute(u) => NextAsk(u)' = NextAsk(u)
  BY <1>0, <1>3, <1>12, <1>13 DEF NextAsk, Ask, Others, LifeInv, Unloading
<1>21. ASSUME Exclusive, XInv PROVE XInv'
  <2>0. FirstInv /\ SlotInv /\ LocalInv /\ ReleaseInv /\ RequestInv /\ ResultInv /\ ModuleInv
        /\ RunInv /\ MappedInv
    BY <1>21 DEF XInv
  <2>1. boot[me[t]] = Null
    BY <1>3, <2>0 DEF LocalInv
  <2>2. \A x \in Boots : Owned(x)' <=> Owned(x)
    BY <1>0, <1>1, <1>12, <1>13, <1>3, <2>1, Made, BootstrapAssumption DEF Owned, Others
  <2>3. result[on[t]].ask.of = me[t] /\ module[me[t]] = "live"
    BY <1>0, <1>1, <2>0, AskTyped DEF ResultInv, ModuleInv, Served, Asked, StreamInv,
       Loading, InExecute
  <2>4. \A u \in Threads : Removing(u)' <=> Removing(u)
    BY <1>1, <1>12 DEF Removing, InExecute, Others
  <2>11. FirstInv'
    BY <1>0, <1>1, <1>2, <1>3, <1>4, <1>5, <1>7, <1>12, <1>13, <1>21, <2>0, <2>1, <2>2,
       <2>3, <2>4 DEF FirstInv, LifeInv, Loading, Unloading, Removing, InExecute,
       InLoader, Others
  <2>12. SlotInv'
    BY <1>0, <1>1, <1>2, <1>3, <1>4, <1>5, <1>7, <1>12, <1>13, <1>21, <2>0, <2>1, <2>2,
       <2>3, <2>4 DEF SlotInv, Whole, Null, LifeInv, Loading, Unloading, Removing,
       InExecute, InLoader, Others
  <2>13. LocalInv'
    BY <1>0, <1>1, <1>2, <1>3, <1>4, <1>5, <1>7, <1>12, <1>13, <1>21, <2>0, <2>1, <2>2,
       <2>3, <2>4 DEF LocalInv, LocalOf, Whole, Null, LifeInv, Loading, Unloading,
       Removing, InExecute, InLoader, Others
  <2>14. ReleaseInv'
    <3>1. dead' = dead /\ made' = made /\ made \subseteq Boots /\ dead \subseteq made /\ on' = on
      BY <1>0, <1>12, <1>13 DEF LoaderTyped
    <3>2. \A u \in Threads : Removing(u) => on[u] \in Boots
      BY <1>0 DEF PointerInv, Executing, Removing, InExecute, LoaderTyped
    <3> QED
      BY <2>0, <2>2, <2>4, <3>1, <3>2 DEF ReleaseInv
  <2>15. RequestInv'
    BY <1>0, <1>1, <1>2, <1>3, <1>4, <1>5, <1>7, <1>12, <1>13, <1>20, <1>21, <2>0, <2>1,
       <2>2, <2>3, <2>4 DEF RequestInv, Active, Removing, InExecute, InLoader, Others
  <2>16. ResultInv'
    BY <1>0, <1>1, <1>2, <1>3, <1>4, <1>5, <1>7, <1>12, <1>13, <1>20, <1>21, <2>0, <2>1,
       <2>2, <2>3, <2>4 DEF ResultInv, Served, Removing, InExecute, InLoader, Asked,
       Others
  <2>17. ModuleInv'
    BY <1>0, <1>1, <1>2, <1>3, <1>4, <1>5, <1>7, <1>12, <1>13, <1>21, <2>0, <2>1, <2>2,
       <2>3, <2>4 DEF ModuleInv, Served, LifeInv, Loading, Unloading, Removing,
       InExecute, InLoader, Asked, Others
  <2>18. RunInv'
    BY <1>0, <1>1, <1>2, <1>3, <1>4, <1>5, <1>7, <1>12, <1>13, <1>21, <2>0, <2>1, <2>2,
       <2>3, <2>4 DEF RunInv, Active, Unloading, Removing, InExecute, InLoader, Others
  <2>19. MappedInv'
    BY <1>0, <1>1, <1>2, <1>3, <1>4, <1>5, <1>7, <1>12, <1>13, <1>21, <2>0, <2>1, <2>2,
       <2>3, <2>4 DEF MappedInv, LifeInv, Loading, Unloading, Removing, InExecute,
       InLoader, Others
  <2> QED
    BY <2>11, <2>12, <2>13, <2>14, <2>15, <2>16, <2>17, <2>18, <2>19 DEF XInv
<1> QED
  BY <1>19, <1>21

(* A pointer that is not the last is dropped.                                 *)
LEMMA KeepsKeep ==
    ASSUME LInv, NEW t \in Threads, local[t].own = None \/ Held(local[t].own, t), Unref(t)
    PROVE  LInv' /\ (Exclusive /\ XInv => XInv')
<1>0. /\ HostTyped /\ LoaderTyped /\ KernelTyped
      /\ LifeInv /\ PointerInv /\ LockInv /\ StreamInv /\ ReuseInv
  BY DEF LInv, Typed
<1>1. /\ pc[t] = "unref"
  BY DEF Unref, GoTo
<1>2. after[t] \in {"idle", "copy", "closing"}
  BY <1>0 DEF HostTyped
<1>3. HostTyped'
  BY <1>0, <1>1, <1>2, Made DEF Unref, GoTo, slotVars, loaderVars, kernelVars,
     HostTyped, Labels, Null
<1>4. LoaderTyped'
  BY <1>0, <1>1, <1>2 DEF Unref, GoTo, slotVars, loaderVars, kernelVars, LoaderTyped
<1>5. KernelTyped'
  BY <1>0, <1>1, <1>2 DEF Unref, GoTo, slotVars, loaderVars, kernelVars, KernelTyped
<1>6. Typed'
  BY <1>3, <1>4, <1>5 DEF Typed
<1>7. /\ Others(t)
      /\ pc'[t] = after[t]
      /\ local'[t] = Null
      /\ local'[t].ptr = None
      /\ local'[t].own = None
      /\ UNCHANGED <<me, what, on, after, drain>>
  BY <1>0, <1>1, <1>2 DEF Unref, GoTo, Others, HostTyped, Null
<1>8. /\ UNCHANGED <<slot, made, open, dead, mutex, healthy, request, result, life,
                     owners, boot, handle, mapped, module, run, failures>>
  BY <1>0, <1>1, <1>2, BootstrapAssumption DEF Unref, GoTo, slotVars, loaderVars,
     kernelVars, LoaderTyped, KernelTyped, Null
<1>9. LifeInv'
  BY <1>0, <1>1, <1>2, <1>7, <1>8 DEF LifeInv, Loading, Unloading, Removing, InExecute,
     Others
<1>10. PointerInv'
  BY <1>0, <1>1, <1>2, <1>7, <1>8 DEF PointerInv, Loading, Unloading, Removing,
     InExecute, Executing, Others, LifeInv
<1>11. LockInv'
  BY <1>0, <1>1, <1>2, <1>7, <1>8, BootstrapAssumption DEF LockInv, InLoader, Others
<1>12. StreamInv'
  BY <1>0, <1>1, <1>2, <1>7, <1>8 DEF StreamInv, Asked, Others
<1>13. ReuseInv'
  BY <1>0, <1>1, <1>2, <1>7, <1>8 DEF ReuseInv, Asked, Others
<1>14. LInv'
  BY <1>6, <1>9, <1>10, <1>11, <1>12, <1>13 DEF LInv
<1>15. \A u \in Threads : what'[u] = what[u] /\ me'[u] = me[u] => NextAsk(u)' = NextAsk(u)
  BY <1>8 DEF NextAsk, Ask
<1>16. ASSUME Exclusive, XInv PROVE XInv'
  <2>0. FirstInv /\ SlotInv /\ LocalInv /\ ReleaseInv /\ RequestInv /\ ResultInv /\ ModuleInv
        /\ RunInv /\ MappedInv
    BY <1>16 DEF XInv
  <2>1. \A x \in Boots : Owned(x)' <=> Owned(x)
    BY <1>0, <1>1, <1>7, <1>8, BootstrapAssumption DEF Owned, Others, Held
  <2>11. FirstInv'
    BY <1>0, <1>1, <1>2, <1>7, <1>8, <1>16, <2>0, <2>1 DEF FirstInv, LifeInv, Loading,
       Unloading, Removing, InExecute, Others
  <2>12. SlotInv'
    BY <1>0, <1>1, <1>2, <1>7, <1>8, <1>16, <2>0, <2>1 DEF SlotInv, Whole, Null,
       LifeInv, Loading, Unloading, Removing, InExecute, Others
  <2>13. LocalInv'
    BY <1>0, <1>1, <1>2, <1>7, <1>8, <1>16, <2>0, <2>1 DEF LocalInv, LocalOf, Whole,
       Null, LifeInv, Loading, Unloading, Removing, InExecute, Others
  <2>14. ReleaseInv'
    BY <1>0, <1>1, <1>7, <1>8, <2>0, <1>2, <2>1 DEF ReleaseInv, Removing, InExecute,
       LoaderTyped, PointerInv, Executing, Others
  <2>15. RequestInv'
    BY <1>0, <1>1, <1>2, <1>7, <1>8, <1>15, <1>16, <2>0, <2>1 DEF RequestInv, Active,
       Others
  <2>16. ResultInv'
    BY <1>0, <1>1, <1>2, <1>7, <1>8, <1>15, <1>16, <2>0, <2>1 DEF ResultInv, Served,
       Asked, Others
  <2>17. ModuleInv'
    BY <1>0, <1>1, <1>2, <1>7, <1>8, <1>16, <2>0, <2>1 DEF ModuleInv, Served, LifeInv,
       Loading, Unloading, Removing, InExecute, Asked, Others
  <2>18. RunInv'
    BY <1>0, <1>1, <1>2, <1>7, <1>8, <1>16, <2>0, <2>1 DEF RunInv, Active, Unloading,
       InExecute, Others
  <2>19. MappedInv'
    BY <1>0, <1>1, <1>2, <1>7, <1>8, <1>16, <2>0, <2>1 DEF MappedInv, LifeInv, Loading,
       Unloading, Removing, InExecute, Others
  <2> QED
    BY <2>11, <2>12, <2>13, <2>14, <2>15, <2>16, <2>17, <2>18, <2>19 DEF XInv
<1> QED
  BY <1>14, <1>16

(* The last pointer is dropped.                                               *)
LEMMA KeepsRelease ==
    ASSUME LInv, NEW t \in Threads, local[t].own # None, ~Held(local[t].own, t), Unref(t)
    PROVE  LInv' /\ (Exclusive /\ XInv => XInv')
<1>0. /\ HostTyped /\ LoaderTyped /\ KernelTyped
      /\ LifeInv /\ PointerInv /\ LockInv /\ StreamInv /\ ReuseInv
  BY DEF LInv, Typed
<1>1. /\ pc[t] = "unref"
      /\ local[t].own # None
  BY DEF Unref, GoTo
<1>2. local[t] \in Pointer /\ local[t].ptr \in Boots \cup {None} /\ local[t].own \in Boots \cup {None}
  BY <1>0, Made DEF HostTyped
<1>3. /\ pc' = [pc EXCEPT ![t] = IF healthy[local[t].own] THEN "lock" ELSE "teardown"]
      /\ on' = [on EXCEPT ![t] = local[t].own] /\ what' = [what EXCEPT ![t] = "Remove"]
      /\ local' = [local EXCEPT ![t] = Null] /\ UNCHANGED <<me, after, drain>>
  BY <1>1 DEF Unref, GoTo
<1>4. HostTyped'
  BY <1>0, <1>2, <1>3, Made DEF HostTyped, Labels
<1>5. LoaderTyped'
  BY <1>0, <1>1, <1>2, <1>3 DEF Unref, GoTo, slotVars, loaderVars, kernelVars,
     LoaderTyped
<1>6. KernelTyped'
  BY <1>0, <1>1, <1>2, <1>3 DEF Unref, GoTo, slotVars, loaderVars, kernelVars,
     KernelTyped
<1>7. Typed'
  BY <1>4, <1>5, <1>6 DEF Typed
<1>8. /\ Others(t)
      /\ pc'[t] = IF healthy[local[t].own] THEN "lock" ELSE "teardown"
      /\ on'[t] = local[t].own
      /\ what'[t] = "Remove"
      /\ local'[t] = Null
      /\ local'[t].ptr = None
      /\ local'[t].own = None
      /\ UNCHANGED <<me, after, drain>>
  BY <1>0, <1>1, <1>2, <1>3 DEF Unref, GoTo, Others, HostTyped, Null
<1>9. /\ UNCHANGED <<slot, made, open, dead, mutex, healthy, request, result, life,
                     owners, boot, handle, mapped, module, run, failures>>
  BY <1>0, <1>1, <1>2, <1>3, BootstrapAssumption DEF Unref, GoTo, slotVars, loaderVars,
     kernelVars, LoaderTyped, KernelTyped, Null
<1>10. LifeInv'
  BY <1>0, <1>1, <1>2, <1>8, <1>9 DEF LifeInv, Loading, Unloading, Removing, InExecute,
     Others
<1>11. PointerInv'
  BY <1>0, <1>1, <1>2, <1>8, <1>9 DEF PointerInv, Loading, Unloading, Removing,
     InExecute, Executing, Others, LifeInv
<1>12. LockInv'
  BY <1>0, <1>1, <1>2, <1>8, <1>9, BootstrapAssumption DEF LockInv, InLoader, Others
<1>13. StreamInv'
  BY <1>0, <1>1, <1>2, <1>8, <1>9 DEF StreamInv, Asked, Others
<1>14. ReuseInv'
  BY <1>0, <1>1, <1>2, <1>8, <1>9 DEF ReuseInv, Asked, Others
<1>15. LInv'
  BY <1>7, <1>10, <1>11, <1>12, <1>13, <1>14 DEF LInv
<1>16. \A u \in Threads : what'[u] = what[u] /\ me'[u] = me[u] => NextAsk(u)' = NextAsk(u)
  BY <1>9 DEF NextAsk, Ask
<1>17. ASSUME Exclusive, XInv PROVE XInv'
  <2>0. FirstInv /\ SlotInv /\ LocalInv /\ ReleaseInv /\ RequestInv /\ ResultInv /\ ModuleInv
        /\ RunInv /\ MappedInv
    BY <1>17 DEF XInv
  <2>1. local[t].own \in made /\ Owned(local[t].own)
    BY <1>0, <1>1 DEF Owned, PointerInv
  <2>2. \A x \in Boots \ {local[t].own} : Owned(x)' <=> Owned(x)
    BY <1>0, <1>1, <1>8, <1>9, BootstrapAssumption DEF Owned, Others
  <2>3. \A x \in Boots : x = local[t].own => ~Owned(x)'
    BY <1>0, <1>1, <1>8, <1>9, BootstrapAssumption DEF Owned, Others, Held
  <2>4. after[t] # "copy"
    BY <1>1, <2>0, Made DEF LocalInv, LocalOf, InExecute
  <2>11. FirstInv'
    BY <1>0, <1>1, <1>2, <1>8, <1>9, <1>17, <2>0, <2>1, <2>2, <2>3, <2>4 DEF FirstInv,
       LifeInv, Loading, Unloading, Removing, InExecute, Others
  <2>12. SlotInv'
    BY <1>0, <1>1, <1>2, <1>8, <1>9, <1>17, <2>0, <2>1, <2>2, <2>3, <2>4 DEF SlotInv,
       Whole, Null, LifeInv, Loading, Unloading, Removing, InExecute, Others
  <2>13. LocalInv'
    BY <1>0, <1>1, <1>2, <1>8, <1>9, <1>17, <2>0, <2>1, <2>2, <2>3, <2>4 DEF LocalInv,
       LocalOf, Whole, Null, LifeInv, Loading, Unloading, Removing, InExecute, Others
  <2>14. ReleaseInv'
    BY <1>0, <1>1, <1>8, <1>9, <2>0, <2>1, <2>2, <2>3 DEF ReleaseInv, Removing,
       InExecute, LoaderTyped, PointerInv, Executing, Others
  <2>15. RequestInv'
    BY <1>0, <1>1, <1>2, <1>8, <1>9, <1>16, <1>17, <2>0, <2>1, <2>2, <2>3, <2>4 DEF
       RequestInv, Active, Others
  <2>16. ResultInv'
    BY <1>0, <1>1, <1>2, <1>8, <1>9, <1>16, <1>17, <2>0, <2>1, <2>2, <2>3, <2>4 DEF
       ResultInv, Served, Asked, Others
  <2>17. ModuleInv'
    BY <1>0, <1>1, <1>2, <1>8, <1>9, <1>17, <2>0, <2>1, <2>2, <2>3, <2>4 DEF ModuleInv,
       Served, LifeInv, Loading, Unloading, Removing, InExecute, Asked, Others
  <2>18. RunInv'
    BY <1>0, <1>1, <1>2, <1>8, <1>9, <1>17, <2>0, <2>1, <2>2, <2>3, <2>4 DEF RunInv,
       Active, Unloading, InExecute, Others
  <2>19. MappedInv'
    BY <1>0, <1>1, <1>2, <1>8, <1>9, <1>17, <2>0, <2>1, <2>2, <2>3, <2>4 DEF MappedInv,
       LifeInv, Loading, Unloading, Removing, InExecute, Others
  <2> QED
    BY <2>11, <2>12, <2>13, <2>14, <2>15, <2>16, <2>17, <2>18, <2>19 DEF XInv
<1> QED
  BY <1>15, <1>17

(* The bootstrap is gone.                                                     *)
LEMMA KeepsDestroy ==
    ASSUME LInv, NEW t \in Threads, Destroy(t)
    PROVE  LInv' /\ (Exclusive /\ XInv => XInv')
<1>0. /\ HostTyped /\ LoaderTyped /\ KernelTyped
      /\ LifeInv /\ PointerInv /\ LockInv /\ StreamInv /\ ReuseInv
  BY DEF LInv, Typed
<1>1. /\ pc[t] = "teardown"
  BY DEF Destroy, DestroyAll, GoTo
<1>2. on[t] \in made /\ on[t] \in Boots
  BY <1>0, <1>1 DEF PointerInv, Executing, LoaderTyped
<1>3. after[t] \in {"idle", "copy", "closing"}
  BY <1>0 DEF HostTyped
<1>4. \A u \in Threads : InLoader(u) => on[u] \in Boots
  BY <1>0 DEF PointerInv, Executing, InLoader, LoaderTyped
<1>5. HostTyped'
  BY <1>0, <1>1, <1>2, <1>3, <1>4 DEF Destroy, DestroyAll, GoTo, slotVars, kernelVars,
     hostVars, HostTyped, Labels
<1>6. LoaderTyped'
  BY <1>0, <1>1, <1>2, <1>3, <1>4 DEF Destroy, DestroyAll, GoTo, slotVars, kernelVars,
     hostVars, LoaderTyped
<1>7. KernelTyped'
  BY <1>0, <1>1, <1>2, <1>3, <1>4 DEF Destroy, DestroyAll, GoTo, slotVars, kernelVars,
     hostVars, KernelTyped
<1>8. Typed'
  BY <1>5, <1>6, <1>7 DEF Typed
<1>9. /\ Others(t)
      /\ pc'[t] = after[t]
      /\ UNCHANGED <<me, what, on, local, after, drain>>
  BY <1>0, <1>1, <1>2, <1>3, <1>4 DEF Destroy, DestroyAll, GoTo, Others, hostVars,
     HostTyped
<1>10. /\ dead' = dead \cup {on[t]}
       /\ request'[on[t]] = <<>>
       /\ \A x \in Boots \ {on[t]} : request'[x] = request[x]
       /\ failures' = 0 => failures = 0 /\ request[on[t]] = <<>>
       /\ UNCHANGED <<slot, made, open, mutex, healthy, result, life, owners, boot,
                      handle, mapped, module, run>>
  BY <1>0, <1>1, <1>2, <1>3, <1>4, BootstrapAssumption DEF Destroy, DestroyAll, GoTo,
     slotVars, kernelVars, hostVars, LoaderTyped, KernelTyped
<1>11. LifeInv'
  BY <1>0, <1>1, <1>2, <1>3, <1>9, <1>10 DEF LifeInv, Loading, Unloading, Removing,
     InExecute, Others
<1>12. PointerInv'
  BY <1>0, <1>1, <1>2, <1>3, <1>9, <1>10 DEF PointerInv, Loading, Unloading, Removing,
     InExecute, Executing, Others, LifeInv
<1>13. LockInv'
  BY <1>0, <1>1, <1>2, <1>3, <1>4, <1>9, <1>10, BootstrapAssumption DEF LockInv,
     InLoader, Others
<1>14. StreamInv'
  BY <1>0, <1>1, <1>2, <1>3, <1>4, <1>9, <1>10 DEF StreamInv, InLoader, Asked, Others
<1>15. ReuseInv'
  BY <1>0, <1>1, <1>2, <1>3, <1>4, <1>9, <1>10 DEF ReuseInv, InLoader, Asked, Others
<1>16. LInv'
  BY <1>8, <1>11, <1>12, <1>13, <1>14, <1>15 DEF LInv
<1>17. \A u \in Threads : what'[u] = what[u] /\ me'[u] = me[u] => NextAsk(u)' = NextAsk(u)
  BY <1>10 DEF NextAsk, Ask
<1>18. ASSUME Exclusive, XInv PROVE XInv'
  <2>0. FirstInv /\ SlotInv /\ LocalInv /\ ReleaseInv /\ RequestInv /\ ResultInv /\ ModuleInv
        /\ RunInv /\ MappedInv
    BY <1>18 DEF XInv
  <2>1. \A u \in Threads : Asked(u) => on[u] \in Boots /\ on[u] # on[t]
    BY <1>0, <1>1, <1>4, <2>0 DEF ReleaseInv, LocalInv, LocalOf, Whole, Owned, Removing,
       Asked, InExecute, InLoader
  <2>2. \A u \in Threads : Served(u)' <=> Served(u)
    BY <1>0, <1>1, <1>9, <1>10, <2>1 DEF Served, Asked, Others, HostTyped
  <2>11. FirstInv'
    BY <1>0, <1>1, <1>2, <1>3, <1>4, <1>9, <1>10, <1>18, <2>0, <2>1, <2>2 DEF FirstInv,
       LifeInv, Loading, Unloading, Removing, InExecute, InLoader, Asked, Others
  <2>12. SlotInv'
    BY <1>0, <1>1, <1>2, <1>3, <1>4, <1>9, <1>10, <1>18, <2>0, <2>1, <2>2 DEF SlotInv,
       Whole, Null, LifeInv, Loading, Unloading, Removing, InExecute, InLoader, Asked,
       Others
  <2>13. LocalInv'
    BY <1>0, <1>1, <1>2, <1>3, <1>4, <1>9, <1>10, <1>18, <2>0, <2>1, <2>2 DEF LocalInv,
       LocalOf, Whole, Null, LifeInv, Loading, Unloading, Removing, InExecute, InLoader,
       Asked, Others
  <2>14. ReleaseInv'
    BY <1>0, <1>1, <1>2, <1>3, <1>4, <1>9, <1>10, <1>18, <2>0, <2>1, <2>2 DEF
       ReleaseInv, Owned, Removing, InExecute, InLoader, Asked, Others
  <2>15. RequestInv'
    BY <1>0, <1>1, <1>2, <1>3, <1>4, <1>9, <1>10, <1>17, <1>18, <2>0, <2>1, <2>2 DEF
       RequestInv, Active, InLoader, Asked, Others
  <2>16. ResultInv'
    BY <1>0, <1>1, <1>2, <1>3, <1>4, <1>9, <1>10, <1>17, <1>18, <2>0, <2>1, <2>2 DEF
       ResultInv, Served, InLoader, Asked, Others
  <2>17. ModuleInv'
    BY <1>0, <1>1, <1>2, <1>3, <1>4, <1>9, <1>10, <1>18, <2>0, <2>1, <2>2 DEF ModuleInv,
       Served, LifeInv, Loading, Unloading, Removing, InExecute, InLoader, Asked, Others
  <2>18. RunInv'
    BY <1>0, <1>1, <1>2, <1>3, <1>4, <1>9, <1>10, <1>18, <2>0, <2>1, <2>2 DEF RunInv,
       Active, Unloading, InExecute, InLoader, Asked, Others
  <2>19. MappedInv'
    BY <1>0, <1>1, <1>2, <1>3, <1>4, <1>9, <1>10, <1>18, <2>0, <2>1, <2>2 DEF MappedInv,
       LifeInv, Loading, Unloading, Removing, InExecute, InLoader, Asked, Others
  <2> QED
    BY <2>11, <2>12, <2>13, <2>14, <2>15, <2>16, <2>17, <2>18, <2>19 DEF XInv
<1> QED
  BY <1>16, <1>18

(* A hit in the memory cache.                                                 *)
LEMMA KeepsGet ==
    ASSUME LInv, NEW t \in Threads, NEW k \in Kernels, Get(t, k)
    PROVE  LInv' /\ (Exclusive /\ XInv => XInv')
<1>0. /\ HostTyped /\ LoaderTyped /\ KernelTyped
      /\ LifeInv /\ PointerInv /\ LockInv /\ StreamInv /\ ReuseInv
  BY DEF LInv, Typed
<1>1. /\ Cache \in owners[k]
      /\ pc[t] = "idle"
      /\ open
  BY DEF Get
<1>2. HostTyped'
  BY <1>0, <1>1 DEF Get, slotVars, loaderVars, hostVars, HostTyped, Labels
<1>3. LoaderTyped'
  BY <1>0, <1>1 DEF Get, slotVars, loaderVars, hostVars, LoaderTyped
<1>4. KernelTyped'
  BY <1>0, <1>1 DEF Get, slotVars, loaderVars, hostVars, KernelTyped
<1>5. Typed'
  BY <1>2, <1>3, <1>4 DEF Typed
<1>6. /\ Others(t)
      /\ UNCHANGED <<pc, me, what, on, local, after, drain>>
  BY <1>0, <1>1 DEF Get, Others, hostVars, HostTyped
<1>7. /\ owners'[k] = owners[k] \cup {t}
      /\ \A x \in Kernels \ {k} : owners'[x] = owners[x]
      /\ UNCHANGED <<slot, made, open, dead, mutex, healthy, request, result, life,
                     boot, handle, mapped, module, run, failures>>
  BY <1>0, <1>1, BootstrapAssumption DEF Get, slotVars, loaderVars, hostVars,
     LoaderTyped, KernelTyped
<1>8. LifeInv'
  BY <1>0, <1>1, <1>6, <1>7 DEF LifeInv, Loading, Unloading, Removing, InExecute, Others
<1>9. PointerInv'
  BY <1>0, <1>1, <1>6, <1>7 DEF PointerInv, Loading, Unloading, Removing, InExecute,
     Executing, Others, LifeInv
<1>10. LockInv'
  BY <1>0, <1>1, <1>6, <1>7, BootstrapAssumption DEF LockInv, InLoader, Others
<1>11. StreamInv'
  BY <1>0, <1>1, <1>6, <1>7 DEF StreamInv, Asked, Others
<1>12. ReuseInv'
  BY <1>0, <1>1, <1>6, <1>7 DEF ReuseInv, Asked, Others
<1>13. LInv'
  BY <1>5, <1>8, <1>9, <1>10, <1>11, <1>12 DEF LInv
<1>14. \A u \in Threads : what'[u] = what[u] /\ me'[u] = me[u] => NextAsk(u)' = NextAsk(u)
  BY <1>7 DEF NextAsk, Ask
<1>15. ASSUME Exclusive, XInv PROVE XInv'
  <2>0. FirstInv /\ SlotInv /\ LocalInv /\ ReleaseInv /\ RequestInv /\ ResultInv /\ ModuleInv
        /\ RunInv /\ MappedInv
    BY <1>15 DEF XInv
  <2>11. FirstInv'
    BY <1>0, <1>1, <1>6, <1>7, <1>15, <2>0 DEF FirstInv, LifeInv, Loading, Unloading,
       Removing, InExecute, Others
  <2>12. SlotInv'
    BY <1>0, <1>1, <1>6, <1>7, <1>15, <2>0 DEF SlotInv, Whole, Null, LifeInv, Loading,
       Unloading, Removing, InExecute, Others
  <2>13. LocalInv'
    BY <1>0, <1>1, <1>6, <1>7, <1>15, <2>0 DEF LocalInv, LocalOf, Whole, Null, LifeInv,
       Loading, Unloading, Removing, InExecute, Others
  <2>14. ReleaseInv'
    BY <1>0, <1>1, <1>6, <1>7, <1>15, <2>0 DEF ReleaseInv, Owned, Removing, InExecute,
       Others
  <2>15. RequestInv'
    BY <1>0, <1>1, <1>6, <1>7, <1>14, <1>15, <2>0 DEF RequestInv, Active, Others
  <2>16. ResultInv'
    BY <1>0, <1>1, <1>6, <1>7, <1>14, <1>15, <2>0 DEF ResultInv, Served, Asked, Others
  <2>17. ModuleInv'
    BY <1>0, <1>1, <1>6, <1>7, <1>15, <2>0 DEF ModuleInv, Served, LifeInv, Loading,
       Unloading, Removing, InExecute, Asked, Others
  <2>18. RunInv'
    BY <1>0, <1>1, <1>6, <1>7, <1>15, <2>0 DEF RunInv, Active, Unloading, InExecute,
       Others
  <2>19. MappedInv'
    BY <1>0, <1>1, <1>6, <1>7, <1>15, <2>0 DEF MappedInv, LifeInv, Loading, Unloading,
       Removing, InExecute, Others
  <2> QED
    BY <2>11, <2>12, <2>13, <2>14, <2>15, <2>16, <2>17, <2>18, <2>19 DEF XInv
<1> QED
  BY <1>13, <1>15

(* A launch.                                                                  *)
LEMMA KeepsLaunch ==
    ASSUME LInv, NEW t \in Threads, NEW k \in Kernels, NEW c \in Calls, Launch(t, k, c)
    PROVE  LInv' /\ (Exclusive /\ XInv => XInv')
<1>0. /\ HostTyped /\ LoaderTyped /\ KernelTyped
      /\ LifeInv /\ PointerInv /\ LockInv /\ StreamInv /\ ReuseInv
  BY DEF LInv, Typed
<1>1. /\ t \in owners[k]
      /\ pc[t] = "idle"
      /\ run[c] = Unused
  BY DEF Launch
<1>2. HostTyped'
  BY <1>0, <1>1 DEF Launch, slotVars, loaderVars, kernelVars, hostVars, HostTyped,
     Labels
<1>3. LoaderTyped'
  BY <1>0, <1>1 DEF Launch, slotVars, loaderVars, kernelVars, hostVars, LoaderTyped
<1>4. KernelTyped'
  BY <1>0, <1>1 DEF Launch, slotVars, loaderVars, kernelVars, hostVars, KernelTyped,
     Launched, Pointer
<1>5. Typed'
  BY <1>2, <1>3, <1>4 DEF Typed
<1>6. /\ Others(t)
      /\ UNCHANGED <<pc, me, what, on, local, after, drain>>
  BY <1>0, <1>1 DEF Launch, Others, hostVars, HostTyped
<1>7. /\ run'[c] = [of |-> handle[k], by |-> boot[k].ptr, state |-> "queued"]
      /\ \A x \in Calls \ {c} : run'[x] = run[x]
      /\ UNCHANGED <<slot, made, open, dead, mutex, healthy, request, result, life,
                     owners, boot, handle, mapped, module, failures>>
  BY <1>0, <1>1, BootstrapAssumption DEF Launch, slotVars, loaderVars, kernelVars,
     hostVars, LoaderTyped, KernelTyped, Launched
<1>8. LifeInv'
  BY <1>0, <1>1, <1>6, <1>7 DEF LifeInv, Loading, Unloading, Removing, InExecute, Others
<1>9. PointerInv'
  BY <1>0, <1>1, <1>6, <1>7 DEF PointerInv, Loading, Unloading, Removing, InExecute,
     Executing, Others, LifeInv
<1>10. LockInv'
  BY <1>0, <1>1, <1>6, <1>7, BootstrapAssumption DEF LockInv, InLoader, Others
<1>11. StreamInv'
  BY <1>0, <1>1, <1>6, <1>7 DEF StreamInv, Asked, Others
<1>12. ReuseInv'
  BY <1>0, <1>1, <1>6, <1>7 DEF ReuseInv, Asked, Others
<1>13. LInv'
  BY <1>5, <1>8, <1>9, <1>10, <1>11, <1>12 DEF LInv
<1>14. \A u \in Threads : what'[u] = what[u] /\ me'[u] = me[u] => NextAsk(u)' = NextAsk(u)
  BY <1>7 DEF NextAsk, Ask
<1>15. ASSUME Exclusive, XInv PROVE XInv'
  <2>0. FirstInv /\ SlotInv /\ LocalInv /\ ReleaseInv /\ RequestInv /\ ResultInv /\ ModuleInv
        /\ RunInv /\ MappedInv
    BY <1>15 DEF XInv
  <2>1. /\ life[k] = "loaded" /\ handle[k] = k /\ module[k] = "live"
        /\ boot[k].own = boot[k].ptr
    BY <1>0, <1>1, <2>0 DEF LifeInv, ModuleInv, LocalInv, Whole
  <2>11. FirstInv'
    BY <1>0, <1>1, <1>6, <1>7, <1>15, <2>0, <2>1 DEF FirstInv, LifeInv, Loading,
       Unloading, Removing, InExecute, Others
  <2>12. SlotInv'
    BY <1>0, <1>1, <1>6, <1>7, <1>15, <2>0, <2>1 DEF SlotInv, Whole, Null, LifeInv,
       Loading, Unloading, Removing, InExecute, Others
  <2>13. LocalInv'
    BY <1>0, <1>1, <1>6, <1>7, <1>15, <2>0, <2>1 DEF LocalInv, LocalOf, Whole, Null,
       LifeInv, Loading, Unloading, Removing, InExecute, Others
  <2>14. ReleaseInv'
    BY <1>0, <1>1, <1>6, <1>7, <1>15, <2>0, <2>1 DEF ReleaseInv, Owned, Removing,
       InExecute, Others
  <2>15. RequestInv'
    BY <1>0, <1>1, <1>6, <1>7, <1>14, <1>15, <2>0, <2>1 DEF RequestInv, Active, Loading,
       Unloading, Removing, InExecute, Others, LifeInv
  <2>16. ResultInv'
    BY <1>0, <1>1, <1>6, <1>7, <1>14, <1>15, <2>0, <2>1 DEF ResultInv, Served, Asked,
       Others
  <2>17. ModuleInv'
    BY <1>0, <1>1, <1>6, <1>7, <1>15, <2>0, <2>1 DEF ModuleInv, Served, LifeInv,
       Loading, Unloading, Removing, InExecute, Asked, Others
  <2>18. RunInv'
    BY <1>0, <1>1, <1>6, <1>7, <1>15, <2>0, <2>1 DEF RunInv, Active, Loading, Unloading,
       Removing, InExecute, Others, LifeInv
  <2>19. MappedInv'
    BY <1>0, <1>1, <1>6, <1>7, <1>15, <2>0, <2>1 DEF MappedInv, LifeInv, Loading,
       Unloading, Removing, InExecute, Others
  <2> QED
    BY <2>11, <2>12, <2>13, <2>14, <2>15, <2>16, <2>17, <2>18, <2>19 DEF XInv
<1> QED
  BY <1>13, <1>15

(* An owner that is not the last.                                             *)
LEMMA KeepsLetOne ==
    ASSUME LInv, NEW t \in Threads, NEW o, NEW k \in Kernels, NEW next, owners[k] # {o}, LetGo(t, o, k, next)
    PROVE  LInv' /\ (Exclusive /\ XInv => XInv')
<1>0. /\ HostTyped /\ LoaderTyped /\ KernelTyped
      /\ LifeInv /\ PointerInv /\ LockInv /\ StreamInv /\ ReuseInv
  BY DEF LInv, Typed
<1>1. TRUE
  OBVIOUS
<1>2. HostTyped'
  BY <1>0, <1>1 DEF LetGo, GoTo, slotVars, loaderVars, HostTyped, Labels
<1>3. LoaderTyped'
  BY <1>0, <1>1 DEF LetGo, GoTo, slotVars, loaderVars, LoaderTyped
<1>4. KernelTyped'
  BY <1>0, <1>1 DEF LetGo, GoTo, slotVars, loaderVars, KernelTyped
<1>5. Typed'
  BY <1>2, <1>3, <1>4 DEF Typed
<1>6. /\ Others(t)
      /\ UNCHANGED <<pc, me, what, on, local, after, drain>>
  BY <1>0, <1>1 DEF LetGo, GoTo, Others, HostTyped, Null
<1>7. /\ owners'[k] = owners[k] \ {o}
      /\ \A x \in Kernels \ {k} : owners'[x] = owners[x]
      /\ UNCHANGED <<slot, made, open, dead, mutex, healthy, request, result, life,
                     boot, handle, mapped, module, run, failures>>
  BY <1>0, <1>1, BootstrapAssumption DEF LetGo, GoTo, slotVars, loaderVars, LoaderTyped,
     KernelTyped, Null
<1>8. LifeInv'
  BY <1>0, <1>1, <1>6, <1>7 DEF LifeInv, Loading, Unloading, Removing, InExecute, Others
<1>9. PointerInv'
  BY <1>0, <1>1, <1>6, <1>7 DEF PointerInv, Loading, Unloading, Removing, InExecute,
     Executing, Others, LifeInv
<1>10. LockInv'
  BY <1>0, <1>1, <1>6, <1>7, BootstrapAssumption DEF LockInv, InLoader, Others
<1>11. StreamInv'
  BY <1>0, <1>1, <1>6, <1>7 DEF StreamInv, Asked, Others
<1>12. ReuseInv'
  BY <1>0, <1>1, <1>6, <1>7 DEF ReuseInv, Asked, Others
<1>13. LInv'
  BY <1>5, <1>8, <1>9, <1>10, <1>11, <1>12 DEF LInv
<1>14. \A u \in Threads : what'[u] = what[u] /\ me'[u] = me[u] => NextAsk(u)' = NextAsk(u)
  BY <1>7 DEF NextAsk, Ask
<1>15. ASSUME Exclusive, XInv PROVE XInv'
  <2>0. FirstInv /\ SlotInv /\ LocalInv /\ ReleaseInv /\ RequestInv /\ ResultInv /\ ModuleInv
        /\ RunInv /\ MappedInv
    BY <1>15 DEF XInv
  <2>11. FirstInv'
    BY <1>0, <1>1, <1>6, <1>7, <1>15, <2>0 DEF FirstInv, LifeInv, Loading, Unloading,
       Removing, InExecute, Others
  <2>12. SlotInv'
    BY <1>0, <1>1, <1>6, <1>7, <1>15, <2>0 DEF SlotInv, Whole, Null, LifeInv, Loading,
       Unloading, Removing, InExecute, Others
  <2>13. LocalInv'
    BY <1>0, <1>1, <1>6, <1>7, <1>15, <2>0 DEF LocalInv, LocalOf, Whole, Null, LifeInv,
       Loading, Unloading, Removing, InExecute, Others
  <2>14. ReleaseInv'
    BY <1>0, <1>1, <1>6, <1>7, <1>15, <2>0 DEF ReleaseInv, Owned, Removing, InExecute,
       Others
  <2>15. RequestInv'
    BY <1>0, <1>1, <1>6, <1>7, <1>14, <1>15, <2>0 DEF RequestInv, Active, Others
  <2>16. ResultInv'
    BY <1>0, <1>1, <1>6, <1>7, <1>14, <1>15, <2>0 DEF ResultInv, Served, Asked, Others
  <2>17. ModuleInv'
    BY <1>0, <1>1, <1>6, <1>7, <1>15, <2>0 DEF ModuleInv, Served, LifeInv, Loading,
       Unloading, Removing, InExecute, Asked, Others
  <2>18. RunInv'
    BY <1>0, <1>1, <1>6, <1>7, <1>15, <2>0 DEF RunInv, Active, Unloading, InExecute,
       Others
  <2>19. MappedInv'
    BY <1>0, <1>1, <1>6, <1>7, <1>15, <2>0 DEF MappedInv, LifeInv, Loading, Unloading,
       Removing, InExecute, Others
  <2> QED
    BY <2>11, <2>12, <2>13, <2>14, <2>15, <2>16, <2>17, <2>18, <2>19 DEF XInv
<1> QED
  BY <1>13, <1>15

(* The last owner of a kernel.                                                *)
LEMMA KeepsLetLast ==
    ASSUME LInv, NEW t \in Threads, NEW o, NEW k \in Kernels, NEW next,
           owners[k] = {o}, pc[t] = next, next \in {"idle", "closing"}, LetGo(t, o, k, next)
    PROVE  LInv' /\ (Exclusive /\ XInv => XInv')
<1>0. /\ HostTyped /\ LoaderTyped /\ KernelTyped
      /\ LifeInv /\ PointerInv /\ LockInv /\ StreamInv /\ ReuseInv
  BY DEF LInv, Typed
<1>1. /\ pc[t] = next
      /\ next \in {"idle", "closing"}
      /\ owners[k] # {}
  BY DEF LetGo, GoTo
<1>2. life[k] = "loaded" /\ boot[k].ptr \in made /\ boot[k].ptr \in Boots
  BY <1>0, <1>1 DEF LifeInv, PointerInv, LoaderTyped
<1>3. boot[k] \in Pointer /\ boot[k].ptr \in Boots \cup {None}
  BY <1>0, Made DEF KernelTyped
<1>4. /\ pc' = [pc EXCEPT ![t] = "drain"] /\ me' = [me EXCEPT ![t] = k]
      /\ local' = [local EXCEPT ![t] = boot[k]] /\ on' = [on EXCEPT ![t] = boot[k].ptr]
      /\ drain' = [drain EXCEPT ![t] = Active] /\ after' = [after EXCEPT ![t] = next]
      /\ UNCHANGED what
  BY DEF LetGo, GoTo
<1>5. Active \in SUBSET Calls
  BY DEF Active
<1>6. HostTyped'
  BY <1>0, <1>1, <1>3, <1>4, <1>5 DEF HostTyped, Labels
<1>7. LoaderTyped'
  BY <1>0, <1>1, <1>2, <1>3, <1>4, <1>5 DEF LetGo, GoTo, slotVars, loaderVars,
     LoaderTyped
<1>8. KernelTyped'
  BY <1>0, <1>1, <1>2, <1>3, <1>4, <1>5, Made DEF LetGo, GoTo, slotVars, loaderVars,
     KernelTyped
<1>9. Typed'
  BY <1>6, <1>7, <1>8 DEF Typed
<1>10. /\ Others(t)
       /\ pc'[t] = "drain"
       /\ me'[t] = k
       /\ local'[t] = boot[k]
       /\ on'[t] = boot[k].ptr
       /\ drain'[t] = Active
       /\ after'[t] = next
       /\ UNCHANGED <<what>>
  BY <1>0, <1>1, <1>2, <1>3, <1>4, <1>5 DEF LetGo, GoTo, Others, HostTyped, Null
<1>11. /\ owners'[k] = {}
       /\ \A x \in Kernels \ {k} : owners'[x] = owners[x]
       /\ life'[k] = "gone"
       /\ \A x \in Kernels \ {k} : life'[x] = life[x]
       /\ boot'[k] = Null
       /\ \A x \in Kernels \ {k} : boot'[x] = boot[x]
       /\ UNCHANGED <<slot, made, open, dead, mutex, healthy, request, result,
                      handle, mapped, module, run, failures>>
  BY <1>0, <1>1, <1>2, <1>3, <1>4, <1>5, BootstrapAssumption DEF LetGo, GoTo, slotVars,
     loaderVars, LoaderTyped, KernelTyped, Null
<1>12. LifeInv'
  BY <1>0, <1>1, <1>2, <1>3, <1>5, <1>10, <1>11 DEF LifeInv, Loading, Unloading,
     Removing, InExecute, Others
<1>13. PointerInv'
  BY <1>0, <1>1, <1>2, <1>3, <1>5, <1>10, <1>11 DEF PointerInv, Loading, Unloading,
     Removing, InExecute, Executing, Others, Null, LifeInv
<1>14. LockInv'
  BY <1>0, <1>1, <1>2, <1>3, <1>5, <1>10, <1>11, BootstrapAssumption DEF LockInv,
     InLoader, Others
<1>15. StreamInv'
  BY <1>0, <1>1, <1>2, <1>3, <1>5, <1>10, <1>11 DEF StreamInv, Asked, Others
<1>16. ReuseInv'
  BY <1>0, <1>1, <1>2, <1>3, <1>5, <1>10, <1>11 DEF ReuseInv, Asked, Others
<1>17. LInv'
  BY <1>9, <1>12, <1>13, <1>14, <1>15, <1>16 DEF LInv
<1>18. \A u \in Threads : what'[u] = what[u] /\ me'[u] = me[u] => NextAsk(u)' = NextAsk(u)
  BY <1>11 DEF NextAsk, Ask
<1>19. ASSUME Exclusive, XInv PROVE XInv'
  <2>0. FirstInv /\ SlotInv /\ LocalInv /\ ReleaseInv /\ RequestInv /\ ResultInv /\ ModuleInv
        /\ RunInv /\ MappedInv
    BY <1>19 DEF XInv
  <2>1. local[t] = Null /\ local[t].own = None
    BY <1>1, <2>0, Made DEF LocalInv, LocalOf, InExecute
  <2>2. \A x \in Boots : Owned(x)' <=> Owned(x)
    BY <1>0, <1>1, <1>10, <1>11, <2>1, Made, BootstrapAssumption DEF Owned, Others
  <2>11. FirstInv'
    BY <1>0, <1>1, <1>2, <1>3, <1>5, <1>10, <1>11, <1>19, <2>0, <2>1, <2>2 DEF FirstInv,
       LifeInv, Loading, Unloading, Removing, InExecute, Others
  <2>12. SlotInv'
    BY <1>0, <1>1, <1>2, <1>3, <1>5, <1>10, <1>11, <1>19, <2>0, <2>1, <2>2 DEF SlotInv,
       Whole, Null, LifeInv, Loading, Unloading, Removing, InExecute, Others
  <2>13. LocalInv'
    BY <1>0, <1>1, <1>2, <1>3, <1>5, <1>10, <1>11, <1>19, <2>0, <2>1, <2>2 DEF LocalInv,
       LocalOf, Whole, Null, LifeInv, Loading, Unloading, Removing, InExecute, Others
  <2>14. ReleaseInv'
    BY <1>0, <1>1, <1>10, <1>11, <2>0, <2>2 DEF ReleaseInv, Removing, InExecute,
       LoaderTyped, PointerInv, Executing, Others
  <2>15. RequestInv'
    BY <1>0, <1>1, <1>2, <1>3, <1>5, <1>10, <1>11, <1>18, <1>19, <2>0, <2>1, <2>2 DEF
       RequestInv, Active, Others
  <2>16. ResultInv'
    BY <1>0, <1>1, <1>2, <1>3, <1>5, <1>10, <1>11, <1>18, <1>19, <2>0, <2>1, <2>2 DEF
       ResultInv, Served, Asked, Others
  <2>17. ModuleInv'
    BY <1>0, <1>1, <1>2, <1>3, <1>5, <1>10, <1>11, <1>19, <2>0, <2>1, <2>2 DEF
       ModuleInv, Served, LifeInv, Loading, Unloading, Removing, InExecute, Asked,
       Others
  <2>18. RunInv'
    BY <1>0, <1>1, <1>2, <1>3, <1>5, <1>10, <1>11, <1>19, <2>0, <2>1, <2>2 DEF RunInv,
       Active, Unloading, InExecute, Others
  <2>19. MappedInv'
    BY <1>0, <1>1, <1>2, <1>3, <1>5, <1>10, <1>11, <1>19, <2>0, <2>1, <2>2 DEF
       MappedInv, LifeInv, Loading, Unloading, Removing, InExecute, Others
  <2> QED
    BY <2>11, <2>12, <2>13, <2>14, <2>15, <2>16, <2>17, <2>18, <2>19 DEF XInv
<1> QED
  BY <1>17, <1>19

(* The launches are over, and the unload is asked for.                        *)
LEMMA KeepsDrained ==
    ASSUME LInv, NEW t \in Threads, Drained(t)
    PROVE  LInv' /\ (Exclusive /\ XInv => XInv')
<1>0. /\ HostTyped /\ LoaderTyped /\ KernelTyped
      /\ LifeInv /\ PointerInv /\ LockInv /\ StreamInv /\ ReuseInv
  BY DEF LInv, Typed
<1>1. /\ pc[t] = "drain"
      /\ drain[t] \cap Active = {}
  BY DEF Drained, GoTo
<1>2. HostTyped'
  BY <1>0, <1>1 DEF Drained, GoTo, slotVars, loaderVars, kernelVars, HostTyped, Labels
<1>3. LoaderTyped'
  BY <1>0, <1>1 DEF Drained, GoTo, slotVars, loaderVars, kernelVars, LoaderTyped
<1>4. KernelTyped'
  BY <1>0, <1>1 DEF Drained, GoTo, slotVars, loaderVars, kernelVars, KernelTyped
<1>5. Typed'
  BY <1>2, <1>3, <1>4 DEF Typed
<1>6. /\ Others(t)
      /\ pc'[t] = "lock"
      /\ what'[t] = "Unload"
      /\ drain'[t] = {}
      /\ UNCHANGED <<me, on, local, after>>
  BY <1>0, <1>1 DEF Drained, GoTo, Others, HostTyped
<1>7. /\ UNCHANGED <<slot, made, open, dead, mutex, healthy, request, result, life,
                     owners, boot, handle, mapped, module, run, failures>>
  BY <1>0, <1>1, BootstrapAssumption DEF Drained, GoTo, slotVars, loaderVars,
     kernelVars, LoaderTyped, KernelTyped
<1>8. LifeInv'
  BY <1>0, <1>1, <1>6, <1>7 DEF LifeInv, Loading, Unloading, Removing, InExecute, Others
<1>9. PointerInv'
  BY <1>0, <1>1, <1>6, <1>7 DEF PointerInv, Loading, Unloading, Removing, InExecute,
     Executing, Others, LifeInv
<1>10. LockInv'
  BY <1>0, <1>1, <1>6, <1>7, BootstrapAssumption DEF LockInv, InLoader, Others
<1>11. StreamInv'
  BY <1>0, <1>1, <1>6, <1>7 DEF StreamInv, Asked, Others
<1>12. ReuseInv'
  BY <1>0, <1>1, <1>6, <1>7 DEF ReuseInv, Asked, Others
<1>13. LInv'
  BY <1>5, <1>8, <1>9, <1>10, <1>11, <1>12 DEF LInv
<1>14. \A u \in Threads : what'[u] = what[u] /\ me'[u] = me[u] => NextAsk(u)' = NextAsk(u)
  BY <1>7 DEF NextAsk, Ask
<1>15. ASSUME Exclusive, XInv PROVE XInv'
  <2>0. FirstInv /\ SlotInv /\ LocalInv /\ ReleaseInv /\ RequestInv /\ ResultInv /\ ModuleInv
        /\ RunInv /\ MappedInv
    BY <1>15 DEF XInv
  <2>11. FirstInv'
    BY <1>0, <1>1, <1>6, <1>7, <1>15, <2>0 DEF FirstInv, LifeInv, Loading, Unloading,
       Removing, InExecute, Others
  <2>12. SlotInv'
    BY <1>0, <1>1, <1>6, <1>7, <1>15, <2>0 DEF SlotInv, Whole, Null, LifeInv, Loading,
       Unloading, Removing, InExecute, Others
  <2>13. LocalInv'
    BY <1>0, <1>1, <1>6, <1>7, <1>15, <2>0 DEF LocalInv, LocalOf, Whole, Null, LifeInv,
       Loading, Unloading, Removing, InExecute, Others
  <2>14. ReleaseInv'
    BY <1>0, <1>1, <1>6, <1>7, <1>15, <2>0 DEF ReleaseInv, Owned, Removing, InExecute,
       Others
  <2>15. RequestInv'
    BY <1>0, <1>1, <1>6, <1>7, <1>14, <1>15, <2>0 DEF RequestInv, Active, Others
  <2>16. ResultInv'
    BY <1>0, <1>1, <1>6, <1>7, <1>14, <1>15, <2>0 DEF ResultInv, Served, Asked, Others
  <2>17. ModuleInv'
    BY <1>0, <1>1, <1>6, <1>7, <1>15, <2>0 DEF ModuleInv, Served, LifeInv, Loading,
       Unloading, Removing, InExecute, Asked, Others
  <2>18. RunInv'
    BY <1>0, <1>1, <1>6, <1>7, <1>15, <2>0 DEF RunInv, Active, Unloading, InExecute,
       Others
  <2>19. MappedInv'
    BY <1>0, <1>1, <1>6, <1>7, <1>15, <2>0 DEF MappedInv, LifeInv, Loading, Unloading,
       Removing, InExecute, Others
  <2> QED
    BY <2>11, <2>12, <2>13, <2>14, <2>15, <2>16, <2>17, <2>18, <2>19 DEF XInv
<1> QED
  BY <1>13, <1>15

(* The wait for the launches fails.                                           *)
LEMMA KeepsDrainFails ==
    ASSUME LInv, NEW t \in Threads, DrainFails(t)
    PROVE  LInv' /\ (Exclusive /\ XInv => XInv')
<1>0. /\ HostTyped /\ LoaderTyped /\ KernelTyped
      /\ LifeInv /\ PointerInv /\ LockInv /\ StreamInv /\ ReuseInv
  BY DEF LInv, Typed
<1>1. /\ pc[t] = "drain"
  BY DEF DrainFails, GoTo, AclFails
<1>2. HostTyped'
  BY <1>0, <1>1 DEF DrainFails, GoTo, AclFails, slotVars, loaderVars, kernelVars,
     HostTyped, Labels
<1>3. LoaderTyped'
  BY <1>0, <1>1, BootstrapAssumption DEF DrainFails, GoTo, AclFails, slotVars,
     loaderVars, kernelVars, LoaderTyped
<1>4. KernelTyped'
  BY <1>0, <1>1 DEF DrainFails, GoTo, AclFails, slotVars, loaderVars, kernelVars,
     KernelTyped
<1>5. Typed'
  BY <1>2, <1>3, <1>4 DEF Typed
<1>6. /\ Others(t)
      /\ pc'[t] = "unref"
      /\ drain'[t] = {}
      /\ UNCHANGED <<me, what, on, local, after>>
  BY <1>0, <1>1 DEF DrainFails, GoTo, AclFails, Others, HostTyped
<1>7. /\ failures' # 0
      /\ UNCHANGED <<slot, made, open, dead, mutex, healthy, request, result, life,
                     owners, boot, handle, mapped, module, run>>
  BY <1>0, <1>1, BootstrapAssumption DEF DrainFails, GoTo, AclFails, slotVars,
     loaderVars, kernelVars, LoaderTyped, KernelTyped
<1>8. LifeInv'
  BY <1>0, <1>1, <1>6, <1>7 DEF LifeInv, Loading, Unloading, Removing, InExecute, Others
<1>9. PointerInv'
  BY <1>0, <1>1, <1>6, <1>7 DEF PointerInv, Loading, Unloading, Removing, InExecute,
     Executing, Others, LifeInv
<1>10. LockInv'
  BY <1>0, <1>1, <1>6, <1>7, BootstrapAssumption DEF LockInv, InLoader, Others
<1>11. StreamInv'
  BY <1>0, <1>1, <1>6, <1>7 DEF StreamInv, Asked, Others
<1>12. ReuseInv'
  BY <1>0, <1>1, <1>6, <1>7 DEF ReuseInv, Asked, Others
<1>13. LInv'
  BY <1>5, <1>8, <1>9, <1>10, <1>11, <1>12 DEF LInv
<1>14. \A u \in Threads : what'[u] = what[u] /\ me'[u] = me[u] => NextAsk(u)' = NextAsk(u)
  BY <1>7 DEF NextAsk, Ask
<1>15. ASSUME Exclusive, XInv PROVE XInv'
  <2>0. FirstInv /\ SlotInv /\ LocalInv /\ ReleaseInv /\ RequestInv /\ ResultInv /\ ModuleInv
        /\ RunInv /\ MappedInv
    BY <1>15 DEF XInv
  <2>11. FirstInv'
    BY <1>0, <1>1, <1>6, <1>7, <1>15, <2>0 DEF FirstInv, LifeInv, Loading, Unloading,
       Removing, InExecute, Others
  <2>12. SlotInv'
    BY <1>0, <1>1, <1>6, <1>7, <1>15, <2>0 DEF SlotInv, Whole, Null, LifeInv, Loading,
       Unloading, Removing, InExecute, Others
  <2>13. LocalInv'
    BY <1>0, <1>1, <1>6, <1>7, <1>15, <2>0 DEF LocalInv, LocalOf, Whole, Null, LifeInv,
       Loading, Unloading, Removing, InExecute, Others
  <2>14. ReleaseInv'
    BY <1>0, <1>1, <1>6, <1>7, <1>15, <2>0 DEF ReleaseInv, Owned, Removing, InExecute,
       Others
  <2>15. RequestInv'
    BY <1>0, <1>1, <1>6, <1>7, <1>14, <1>15, <2>0 DEF RequestInv, Active, Others
  <2>16. ResultInv'
    BY <1>0, <1>1, <1>6, <1>7, <1>14, <1>15, <2>0 DEF ResultInv, Served, Asked, Others
  <2>17. ModuleInv'
    BY <1>0, <1>1, <1>6, <1>7, <1>15, <2>0 DEF ModuleInv, Served, LifeInv, Loading,
       Unloading, Removing, InExecute, Asked, Others
  <2>18. RunInv'
    BY <1>0, <1>1, <1>6, <1>7, <1>15, <2>0 DEF RunInv, Active, Unloading, InExecute,
       Others
  <2>19. MappedInv'
    BY <1>0, <1>1, <1>6, <1>7, <1>15, <2>0 DEF MappedInv, LifeInv, Loading, Unloading,
       Removing, InExecute, Others
  <2> QED
    BY <2>11, <2>12, <2>13, <2>14, <2>15, <2>16, <2>17, <2>18, <2>19 DEF XInv
<1> QED
  BY <1>13, <1>15

(* The end of the runtime.                                                    *)
LEMMA KeepsClose ==
    ASSUME LInv, NEW t \in Threads, Close(t)
    PROVE  LInv' /\ (Exclusive /\ XInv => XInv')
<1>0. /\ HostTyped /\ LoaderTyped /\ KernelTyped
      /\ LifeInv /\ PointerInv /\ LockInv /\ StreamInv /\ ReuseInv
  BY DEF LInv, Typed
<1>1. /\ pc[t] = "idle"
      /\ open
      /\ \A k \in Kernels : life[k] # "loading"
  BY DEF Close, GoTo
<1>2. HostTyped'
  BY <1>0, <1>1 DEF Close, GoTo, loaderVars, kernelVars, hostVars, HostTyped, Labels
<1>3. LoaderTyped'
  BY <1>0, <1>1 DEF Close, GoTo, loaderVars, kernelVars, hostVars, LoaderTyped
<1>4. KernelTyped'
  BY <1>0, <1>1 DEF Close, GoTo, loaderVars, kernelVars, hostVars, KernelTyped
<1>5. Typed'
  BY <1>2, <1>3, <1>4 DEF Typed
<1>6. /\ Others(t)
      /\ pc'[t] = "closing"
      /\ UNCHANGED <<me, what, on, local, after, drain>>
  BY <1>0, <1>1 DEF Close, GoTo, Others, hostVars, HostTyped
<1>7. /\ ~open'
      /\ UNCHANGED <<slot, made, dead, mutex, healthy, request, result, life,
                     owners, boot, handle, mapped, module, run, failures>>
  BY <1>0, <1>1, BootstrapAssumption DEF Close, GoTo, loaderVars, kernelVars, hostVars,
     LoaderTyped, KernelTyped
<1>8. LifeInv'
  BY <1>0, <1>1, <1>6, <1>7 DEF LifeInv, Loading, Unloading, Removing, InExecute, Others
<1>9. PointerInv'
  BY <1>0, <1>1, <1>6, <1>7 DEF PointerInv, Loading, Unloading, Removing, InExecute,
     Executing, Others, LifeInv
<1>10. LockInv'
  BY <1>0, <1>1, <1>6, <1>7, BootstrapAssumption DEF LockInv, InLoader, Others
<1>11. StreamInv'
  BY <1>0, <1>1, <1>6, <1>7 DEF StreamInv, Asked, Others
<1>12. ReuseInv'
  BY <1>0, <1>1, <1>6, <1>7 DEF ReuseInv, Asked, Others
<1>13. LInv'
  BY <1>5, <1>8, <1>9, <1>10, <1>11, <1>12 DEF LInv
<1>14. \A u \in Threads : what'[u] = what[u] /\ me'[u] = me[u] => NextAsk(u)' = NextAsk(u)
  BY <1>7 DEF NextAsk, Ask
<1>15. ASSUME Exclusive, XInv PROVE XInv'
  <2>0. FirstInv /\ SlotInv /\ LocalInv /\ ReleaseInv /\ RequestInv /\ ResultInv /\ ModuleInv
        /\ RunInv /\ MappedInv
    BY <1>15 DEF XInv
  <2>11. FirstInv'
    BY <1>0, <1>1, <1>6, <1>7, <1>15, <2>0 DEF FirstInv, LifeInv, Loading, Unloading,
       Removing, InExecute, Others
  <2>12. SlotInv'
    BY <1>0, <1>1, <1>6, <1>7, <1>15, <2>0 DEF SlotInv, Whole, Null, LifeInv, Loading,
       Unloading, Removing, InExecute, Others
  <2>13. LocalInv'
    BY <1>0, <1>1, <1>6, <1>7, <1>15, <2>0 DEF LocalInv, LocalOf, Whole, Null, LifeInv,
       Loading, Unloading, Removing, InExecute, Others
  <2>14. ReleaseInv'
    BY <1>0, <1>1, <1>6, <1>7, <1>15, <2>0 DEF ReleaseInv, Owned, Removing, InExecute,
       Others
  <2>15. RequestInv'
    BY <1>0, <1>1, <1>6, <1>7, <1>14, <1>15, <2>0 DEF RequestInv, Active, Others
  <2>16. ResultInv'
    BY <1>0, <1>1, <1>6, <1>7, <1>14, <1>15, <2>0 DEF ResultInv, Served, Asked, Others
  <2>17. ModuleInv'
    BY <1>0, <1>1, <1>6, <1>7, <1>15, <2>0 DEF ModuleInv, Served, LifeInv, Loading,
       Unloading, Removing, InExecute, Asked, Others
  <2>18. RunInv'
    BY <1>0, <1>1, <1>6, <1>7, <1>15, <2>0 DEF RunInv, Active, Unloading, InExecute,
       Others
  <2>19. MappedInv'
    BY <1>0, <1>1, <1>6, <1>7, <1>15, <2>0 DEF MappedInv, LifeInv, Loading, Unloading,
       Removing, InExecute, Others
  <2> QED
    BY <2>11, <2>12, <2>13, <2>14, <2>15, <2>16, <2>17, <2>18, <2>19 DEF XInv
<1> QED
  BY <1>13, <1>15

(* The backend's pointer goes.                                                *)
LEMMA KeepsDropSlot ==
    ASSUME LInv, NEW t \in Threads, DropSlot(t)
    PROVE  LInv' /\ (Exclusive /\ XInv => XInv')
<1>0. /\ HostTyped /\ LoaderTyped /\ KernelTyped
      /\ LifeInv /\ PointerInv /\ LockInv /\ StreamInv /\ ReuseInv
  BY DEF LInv, Typed
<1>1. /\ pc[t] = "closing"
  BY DEF DropSlot, GoTo
<1>2. slot \in Pointer /\ slot.ptr \in Boots \cup {None} /\ slot.own \in Boots \cup {None}
  BY <1>0, Made DEF LoaderTyped
<1>3. HostTyped'
  BY <1>0, <1>1, <1>2, Made DEF DropSlot, GoTo, loaderVars, kernelVars, HostTyped,
     Labels, Null
<1>4. LoaderTyped'
  BY <1>0, <1>1, <1>2, Made DEF DropSlot, GoTo, loaderVars, kernelVars, LoaderTyped
<1>5. KernelTyped'
  BY <1>0, <1>1, <1>2 DEF DropSlot, GoTo, loaderVars, kernelVars, KernelTyped
<1>6. Typed'
  BY <1>3, <1>4, <1>5 DEF Typed
<1>7. /\ Others(t)
      /\ pc'[t] = "unref"
      /\ local'[t] = slot
      /\ after'[t] = "idle"
      /\ UNCHANGED <<me, what, on, drain>>
  BY <1>0, <1>1, <1>2 DEF DropSlot, GoTo, Others, HostTyped, Null
<1>8. /\ slot' = Null
      /\ UNCHANGED <<made, open, dead, mutex, healthy, request, result, life,
                     owners, boot, handle, mapped, module, run, failures>>
  BY <1>0, <1>1, <1>2, BootstrapAssumption DEF DropSlot, GoTo, loaderVars, kernelVars,
     LoaderTyped, KernelTyped, Null
<1>9. LifeInv'
  BY <1>0, <1>1, <1>2, <1>7, <1>8 DEF LifeInv, Loading, Unloading, Removing, InExecute,
     Others
<1>10. PointerInv'
  BY <1>0, <1>1, <1>2, <1>7, <1>8 DEF PointerInv, Loading, Unloading, Removing,
     InExecute, Executing, Others, Null, LifeInv
<1>11. LockInv'
  BY <1>0, <1>1, <1>2, <1>7, <1>8, BootstrapAssumption DEF LockInv, InLoader, Others
<1>12. StreamInv'
  BY <1>0, <1>1, <1>2, <1>7, <1>8 DEF StreamInv, Asked, Others
<1>13. ReuseInv'
  BY <1>0, <1>1, <1>2, <1>7, <1>8 DEF ReuseInv, Asked, Others
<1>14. LInv'
  BY <1>6, <1>9, <1>10, <1>11, <1>12, <1>13 DEF LInv
<1>15. \A u \in Threads : what'[u] = what[u] /\ me'[u] = me[u] => NextAsk(u)' = NextAsk(u)
  BY <1>8 DEF NextAsk, Ask
<1>16. ASSUME Exclusive, XInv PROVE XInv'
  <2>0. FirstInv /\ SlotInv /\ LocalInv /\ ReleaseInv /\ RequestInv /\ ResultInv /\ ModuleInv
        /\ RunInv /\ MappedInv
    BY <1>16 DEF XInv
  <2>1. local[t] = Null /\ local[t].own = None
    BY <1>1, <2>0, Made DEF LocalInv, LocalOf, InExecute
  <2>2. slot = Null \/ Whole(slot)
    BY <1>0, <1>1, <2>0, SamePair, Made DEF SlotInv, LoaderTyped, LifeInv, Loading
  <2>3. \A x \in Boots : Owned(x)' <=> Owned(x)
    BY <1>0, <1>1, <1>7, <1>8, <2>1, Made, BootstrapAssumption DEF Owned, Others
  <2>11. FirstInv'
    BY <1>0, <1>1, <1>2, <1>7, <1>8, <1>16, <2>0, <2>1, <2>2, <2>3 DEF FirstInv,
       LifeInv, Loading, Unloading, Removing, InExecute, Others
  <2>12. SlotInv'
    BY <1>0, <1>1, <1>2, <1>7, <1>8, <1>16, <2>0, <2>1, <2>2, <2>3 DEF SlotInv, Whole,
       Null, LifeInv, Loading, Unloading, Removing, InExecute, Others
  <2>13. LocalInv'
    BY <1>0, <1>1, <1>2, <1>7, <1>8, <1>16, <2>0, <2>1, <2>2, <2>3 DEF LocalInv,
       LocalOf, Whole, Null, LifeInv, Loading, Unloading, Removing, InExecute, Others
  <2>14. ReleaseInv'
    BY <1>0, <1>1, <1>7, <1>8, <2>0, <2>3 DEF ReleaseInv, Removing, InExecute,
       LoaderTyped, PointerInv, Executing, Others
  <2>15. RequestInv'
    BY <1>0, <1>1, <1>2, <1>7, <1>8, <1>15, <1>16, <2>0, <2>1, <2>2, <2>3 DEF
       RequestInv, Active, Others
  <2>16. ResultInv'
    BY <1>0, <1>1, <1>2, <1>7, <1>8, <1>15, <1>16, <2>0, <2>1, <2>2, <2>3 DEF ResultInv,
       Served, Asked, Others
  <2>17. ModuleInv'
    BY <1>0, <1>1, <1>2, <1>7, <1>8, <1>16, <2>0, <2>1, <2>2, <2>3 DEF ModuleInv,
       Served, LifeInv, Loading, Unloading, Removing, InExecute, Asked, Others
  <2>18. RunInv'
    BY <1>0, <1>1, <1>2, <1>7, <1>8, <1>16, <2>0, <2>1, <2>2, <2>3 DEF RunInv, Active,
       Unloading, InExecute, Others
  <2>19. MappedInv'
    BY <1>0, <1>1, <1>2, <1>7, <1>8, <1>16, <2>0, <2>1, <2>2, <2>3 DEF MappedInv,
       LifeInv, Loading, Unloading, Removing, InExecute, Others
  <2> QED
    BY <2>11, <2>12, <2>13, <2>14, <2>15, <2>16, <2>17, <2>18, <2>19 DEF XInv
<1> QED
  BY <1>14, <1>16

(* The device serves a request.                                               *)
LEMMA KeepsServe ==
    ASSUME LInv, NEW b \in Boots, NEW ok \in BOOLEAN, Serve(b, ok)
    PROVE  LInv' /\ (Exclusive /\ XInv => XInv')
<1>0. /\ HostTyped /\ LoaderTyped /\ KernelTyped
      /\ LifeInv /\ PointerInv /\ LockInv /\ StreamInv /\ ReuseInv
  BY DEF LInv, Typed
<1>1. /\ request[b] # <<>>
  BY DEF Serve
<1>2. PICK a \in Asks : request[b] = <<a>>
  BY <1>0, <1>1 DEF LoaderTyped
<1>3. Head(request[b]) = a /\ Tail(request[b]) = <<>>
  BY <1>2, OneAsk
<1>4. /\ request' = [request EXCEPT ![b] = <<>>]
      /\ result' = [result EXCEPT ![b] = [ask |-> a, ok |-> ok]]
      /\ a.op = "Unload" => ok
      /\ module' = CASE a.op = "Load" /\ ok -> [module EXCEPT ![a.of] = "live"]
                     [] a.op = "Unload"     -> [module EXCEPT ![a.of] = "freed"]
                     [] OTHER               -> module
  BY <1>3 DEF Serve
<1>5. \A u \in Threads : InLoader(u) => on[u] \in Boots
  BY <1>0 DEF PointerInv, Executing, InLoader, LoaderTyped
<1>6. HostTyped'
  BY <1>0, <1>1, <1>2, <1>3, <1>4, <1>5 DEF Serve, slotVars, kernelVars, hostVars,
     HostTyped, Labels
<1>7. LoaderTyped'
  <2>1. /\ DOMAIN request' = Boots /\ request' = [x \in Boots |-> request'[x]]
        /\ \A x \in Boots : request'[x] = <<>> \/ \E y \in Asks : request'[x] = <<y>>
    BY <1>0, <1>4 DEF LoaderTyped
  <2>2. result' \in [Boots -> [ask: Asks, ok: BOOLEAN]]
    BY <1>0, <1>4 DEF LoaderTyped
  <2> QED
    BY <1>0, <2>1, <2>2 DEF Serve, slotVars, LoaderTyped
<1>8. KernelTyped'
  BY <1>0, <1>1, <1>2, <1>3, <1>4, <1>5 DEF Serve, slotVars, kernelVars, hostVars,
     KernelTyped
<1>9. Typed'
  BY <1>6, <1>7, <1>8 DEF Typed
<1>10. UNCHANGED <<pc, me, what, on, local, after, drain>>
  BY DEF Serve, hostVars
<1>11. /\ request'[b] = <<>>
       /\ \A x \in Boots \ {b} : request'[x] = request[x]
       /\ result'[b] = [ask |-> Head(request[b]), ok |-> ok]
       /\ \A x \in Boots \ {b} : result'[x] = result[x]
       /\ UNCHANGED <<slot, made, open, dead, mutex, healthy, life, owners, boot,
                      handle, mapped, run, failures>>
  BY <1>0, <1>1, <1>2, <1>3, <1>4, <1>5, BootstrapAssumption DEF Serve, slotVars,
     kernelVars, hostVars, LoaderTyped, KernelTyped
<1>12. LifeInv'
  BY <1>0, <1>1, <1>3, <1>10, <1>11 DEF LifeInv, Loading, Unloading, Removing, InExecute
<1>13. PointerInv'
  BY <1>0, <1>1, <1>3, <1>10, <1>11 DEF PointerInv, Loading, Unloading, Removing,
     InExecute, Executing, LifeInv
<1>14. LockInv'
  BY <1>0, <1>1, <1>3, <1>5, <1>10, <1>11, BootstrapAssumption DEF LockInv, InLoader
<1>15. StreamInv'
  BY <1>0, <1>1, <1>3, <1>5, <1>10, <1>11 DEF StreamInv, InLoader, Asked
<1>16. ReuseInv'
  BY <1>0, <1>1, <1>3, <1>5, <1>10, <1>11 DEF ReuseInv, InLoader, Asked
<1>17. LInv'
  BY <1>9, <1>12, <1>13, <1>14, <1>15, <1>16 DEF LInv
<1>18. \A u \in Threads : what'[u] = what[u] /\ me'[u] = me[u] => NextAsk(u)' = NextAsk(u)
  BY <1>11 DEF NextAsk, Ask
<1>19. ASSUME Exclusive, XInv PROVE XInv'
  <2>0. FirstInv /\ SlotInv /\ LocalInv /\ ReleaseInv /\ RequestInv /\ ResultInv /\ ModuleInv
        /\ RunInv /\ MappedInv
    BY <1>19 DEF XInv
  <2>1. \A u \in Threads : Asked(u) /\ on[u] = b => pc[u] = "sync" /\ NextAsk(u) = a
    BY <1>0, <1>1, <1>2, <2>0, OneAsk DEF RequestInv, StreamInv, Asked
  <2>2. \A u \in Threads : Asked(u) /\ on[u] = b => Served(u)' /\ ~Served(u)
    BY <1>1, <1>10, <1>11 DEF Served, Asked
  <2>3. \A u \in Threads : ~(Asked(u) /\ on[u] = b) => (Served(u)' <=> Served(u))
    BY <1>10, <1>11, <1>5 DEF Served, Asked, InLoader
  <2>4. a.op = "Load" =>
          /\ a.of \in Kernels /\ module[a.of] = "absent"
          /\ \/ life[a.of] = "gone"
             \/ \E u \in Threads : pc[u] = "sync" /\ on[u] = b /\ NextAsk(u) = a
    BY <1>2, <2>0 DEF RequestInv
  <2>5. a.op = "Unload" =>
           a.of \in Kernels /\ life[a.of] = "gone" /\ \A c \in Active : run[c].of # a.of
    BY <1>2, <2>0 DEF RequestInv
  <2>6. \A k \in Kernels : module'[k] =
           IF k = a.of /\ a.op = "Load" /\ ok THEN "live"
           ELSE IF k = a.of /\ a.op = "Unload" THEN "freed" ELSE module[k]
    BY <1>0, <1>4 DEF KernelTyped
  <2>7. \A u \in Threads : InExecute(u) =>
          /\ NextAsk(u).op = what[u]
          /\ what[u] = "Load" => NextAsk(u).of = me[u]
          /\ what[u] = "Unload" => NextAsk(u).of = handle[me[u]]
    BY AskTyped
  <2>8. \A x \in Boots : request'[x] = <<>>
    BY <1>0, <1>2, <1>11, <2>0 DEF RequestInv, FirstInv, LoaderTyped
  <2>11. FirstInv'
    BY <1>0, <1>1, <1>3, <1>5, <1>10, <1>11, <1>19, <2>0, <2>1, <2>2, <2>3, <2>4, <2>5,
       <2>6, <2>7, <2>8 DEF FirstInv, LifeInv, Loading, Unloading, Removing, InExecute,
       InLoader, Asked
  <2>12. SlotInv'
    BY <1>0, <1>1, <1>3, <1>5, <1>10, <1>11, <1>19, <2>0, <2>1, <2>2, <2>3, <2>4, <2>5,
       <2>6, <2>7, <2>8 DEF SlotInv, Whole, Null, LifeInv, Loading, Unloading, Removing,
       InExecute, InLoader, Asked
  <2>13. LocalInv'
    BY <1>0, <1>1, <1>3, <1>5, <1>10, <1>11, <1>19, <2>0, <2>1, <2>2, <2>3, <2>4, <2>5,
       <2>6, <2>7, <2>8 DEF LocalInv, LocalOf, Whole, Null, LifeInv, Loading, Unloading,
       Removing, InExecute, InLoader, Asked
  <2>14. ReleaseInv'
    BY <1>0, <1>1, <1>3, <1>5, <1>10, <1>11, <1>19, <2>0, <2>1, <2>2, <2>3, <2>4, <2>5,
       <2>6, <2>7, <2>8 DEF ReleaseInv, Owned, Removing, InExecute, InLoader, Asked
  <2>15. RequestInv'
    BY <1>0, <1>10, <1>11, <2>8, OneAsk DEF RequestInv, PointerInv, Executing,
       LoaderTyped
  <2>16. ResultInv'
    <3> SUFFICES ASSUME NEW u \in Threads, Served(u)'
                 PROVE  /\ result'[on[u]].ask = NextAsk(u)
                        /\ what[u] = "Unload" => module'[me[u]] = "freed"
      BY <1>10, <1>18 DEF ResultInv
    <3>1. InExecute(u) /\ Asked(u) /\ on[u] \in Boots
      BY <1>5, <1>10 DEF Served, Asked, InExecute, InLoader
    <3>2. what[u] = "Unload" => Unloading(u) /\ handle[me[u]] = me[u] /\ me[u] \in Kernels /\ life[me[u]] = "gone"
      BY <1>0, <2>0, <3>1 DEF ModuleInv, Unloading, LifeInv
    <3>3. CASE on[u] = b
      <4>1. NextAsk(u) = a /\ result'[on[u]].ask = a
        BY <1>3, <1>11, <2>1, <3>1, <3>3
      <4> QED
        BY <2>6, <2>7, <3>1, <3>2, <4>1
    <3>4. CASE on[u] # b
      <4>1. Served(u) /\ result'[on[u]] = result[on[u]]
        BY <1>11, <2>3, <3>1, <3>4
      <4>2. FALSE
        BY <1>0, <1>2, <2>0, <3>1, <3>4 DEF RequestInv, FirstInv, PointerInv, InExecute,
           Executing
      <4> QED
        BY <4>2
    <3> QED
      BY <3>3, <3>4
  <2>17. ModuleInv'
    <3>1. \A k \in Kernels : life[k] \in {"fresh", "loaded"} => k # a.of \/ a.op \notin {"Load", "Unload"}
      <4> SUFFICES ASSUME NEW k \in Kernels, life[k] \in {"fresh", "loaded"}, k = a.of, a.op = "Load"
                   PROVE  FALSE
        BY <2>5
      <4>1. PICK u \in Threads : pc[u] = "sync" /\ on[u] = b /\ NextAsk(u) = a
        BY <2>4
      <4> QED
        BY <1>0, <2>7, <4>1 DEF LifeInv, Loading, InExecute
    <3>2. ASSUME NEW u \in Threads, Loading(u)
          PROVE  module'[me[u]] = IF Served(u)' /\ result'[on[u]].ok THEN "live" ELSE "absent"
      <4>1. me[u] \in Kernels /\ life[me[u]] = "loading"
            /\ module[me[u]] = IF Served(u) /\ result[on[u]].ok THEN "live" ELSE "absent"
        BY <1>0, <2>0, <3>2 DEF LifeInv, ModuleInv
      <4>2. CASE Asked(u) /\ on[u] = b
        <5>1. what[u] = "Load" /\ InExecute(u)
          BY <2>0, <3>2, <4>2 DEF Loading, Asked, InExecute, SlotInv
        <5> QED
          BY <1>11, <1>3, <2>1, <2>2, <2>6, <2>7, <4>1, <4>2, <5>1
      <4>3. CASE ~(Asked(u) /\ on[u] = b)
        <5>1. Served(u)' <=> Served(u)
          BY <2>3, <4>3
        <5>2. Served(u) => result'[on[u]] = result[on[u]]
          BY <1>5, <1>11, <4>3 DEF Served, Asked, InLoader
        <5>3. me[u] = a.of => a.op # "Load"
          <6> SUFFICES ASSUME me[u] = a.of, a.op = "Load" PROVE FALSE
            OBVIOUS
          <6>1. PICK v \in Threads : pc[v] = "sync" /\ on[v] = b /\ NextAsk(v) = a
            BY <2>4, <4>1
          <6> QED
            BY <1>0, <2>7, <3>2, <4>3, <6>1 DEF LifeInv, Loading, InExecute, Asked
        <5> QED
          BY <2>5, <2>6, <4>1, <5>1, <5>2, <5>3
      <4> QED
        BY <4>2, <4>3
    <3>3. ASSUME failures = 0, NEW k \in Kernels, module'[k] = "live"
          PROVE  \/ life[k] = "loaded"
                 \/ \E u \in Threads : (Loading(u) \/ Unloading(u)) /\ me[u] = k
      <4>1. CASE module[k] = "live"
        BY <2>0, <3>3, <4>1 DEF ModuleInv
      <4>2. CASE module[k] # "live"
        <5>1. a.op = "Load" /\ a.of = k
          BY <2>6, <3>3, <4>2
        <5>2. PICK u \in Threads : pc[u] = "sync" /\ on[u] = b /\ NextAsk(u) = a
          BY <1>2, <2>0, <3>3 DEF RequestInv
        <5> QED
          BY <2>7, <5>1, <5>2 DEF Loading, InExecute
      <4> QED
        BY <4>1, <4>2
    <3>4. /\ \A k \in Kernels : life[k] = "fresh" => module'[k] = "absent"
          /\ \A k \in Kernels : life[k] = "loaded" => module'[k] = "live" /\ handle[k] = k
          /\ \A u \in Threads : Unloading(u) => handle[me[u]] = me[u]
      BY <2>0, <2>6, <3>1 DEF ModuleInv
    <3> QED
      BY <1>10, <1>11, <3>2, <3>3, <3>4 DEF ModuleInv, Loading, Unloading, InExecute
  <2>18. RunInv'
    BY <1>0, <1>1, <1>3, <1>5, <1>10, <1>11, <1>19, <2>0, <2>1, <2>2, <2>3, <2>4, <2>5,
       <2>6, <2>7, <2>8 DEF RunInv, Active, Loading, Unloading, InExecute, InLoader,
       Asked
  <2>19. MappedInv'
    BY <1>0, <1>1, <1>3, <1>5, <1>10, <1>11, <1>19, <2>0, <2>1, <2>2, <2>3, <2>4, <2>5,
       <2>6, <2>7, <2>8 DEF MappedInv, LifeInv, Loading, Unloading, Removing, InExecute,
       InLoader, Asked
  <2> QED
    BY <2>11, <2>12, <2>13, <2>14, <2>15, <2>16, <2>17, <2>18, <2>19 DEF XInv
<1> QED
  BY <1>17, <1>19

(* The device enters a launch.                                                *)
LEMMA KeepsInvoke ==
    ASSUME LInv, NEW c \in Calls, Invoke(c)
    PROVE  LInv' /\ (Exclusive /\ XInv => XInv')
<1>0. /\ HostTyped /\ LoaderTyped /\ KernelTyped
      /\ LifeInv /\ PointerInv /\ LockInv /\ StreamInv /\ ReuseInv
  BY DEF LInv, Typed
<1>1. /\ run[c].state = "queued"
  BY DEF Invoke
<1>2. HostTyped'
  BY <1>0, <1>1 DEF Invoke, slotVars, loaderVars, kernelVars, hostVars, HostTyped,
     Labels
<1>3. LoaderTyped'
  BY <1>0, <1>1 DEF Invoke, slotVars, loaderVars, kernelVars, hostVars, LoaderTyped
<1>4. KernelTyped'
  BY <1>0, <1>1 DEF Invoke, slotVars, loaderVars, kernelVars, hostVars, KernelTyped,
     Launched
<1>5. Typed'
  BY <1>2, <1>3, <1>4 DEF Typed
<1>6. UNCHANGED <<pc, me, what, on, local, after, drain>>
  BY DEF Invoke, hostVars
<1>7. /\ \A x \in Calls \ {c} : run'[x] = run[x]
      /\ run'[c] = [of |-> run[c].of, by |-> run[c].by, state |-> "running"]
      /\ UNCHANGED <<slot, made, open, dead, mutex, healthy, request, result, life,
                     owners, boot, handle, mapped, module, failures>>
  BY <1>0, <1>1, BootstrapAssumption DEF Invoke, slotVars, loaderVars, kernelVars,
     hostVars, LoaderTyped, KernelTyped, Launched
<1>8. LifeInv'
  BY <1>0, <1>1, <1>6, <1>7 DEF LifeInv, Loading, Unloading, Removing, InExecute
<1>9. PointerInv'
  BY <1>0, <1>1, <1>6, <1>7 DEF PointerInv, Loading, Unloading, Removing, InExecute,
     Executing, LifeInv
<1>10. LockInv'
  BY <1>0, <1>1, <1>6, <1>7, BootstrapAssumption DEF LockInv, InLoader
<1>11. StreamInv'
  BY <1>0, <1>1, <1>6, <1>7 DEF StreamInv, Asked
<1>12. ReuseInv'
  BY <1>0, <1>1, <1>6, <1>7 DEF ReuseInv, Asked
<1>13. LInv'
  BY <1>5, <1>8, <1>9, <1>10, <1>11, <1>12 DEF LInv
<1>14. \A u \in Threads : what'[u] = what[u] /\ me'[u] = me[u] => NextAsk(u)' = NextAsk(u)
  BY <1>7 DEF NextAsk, Ask
<1>15. ASSUME Exclusive, XInv PROVE XInv'
  <2>0. FirstInv /\ SlotInv /\ LocalInv /\ ReleaseInv /\ RequestInv /\ ResultInv /\ ModuleInv
        /\ RunInv /\ MappedInv
    BY <1>15 DEF XInv
  <2>11. FirstInv'
    BY <1>0, <1>1, <1>6, <1>7, <1>15, <2>0 DEF FirstInv, LifeInv, Loading, Unloading,
       Removing, InExecute
  <2>12. SlotInv'
    BY <1>0, <1>1, <1>6, <1>7, <1>15, <2>0 DEF SlotInv, Whole, Null, LifeInv, Loading,
       Unloading, Removing, InExecute
  <2>13. LocalInv'
    BY <1>0, <1>1, <1>6, <1>7, <1>15, <2>0 DEF LocalInv, LocalOf, Whole, Null, LifeInv,
       Loading, Unloading, Removing, InExecute
  <2>14. ReleaseInv'
    BY <1>0, <1>1, <1>6, <1>7, <1>15, <2>0 DEF ReleaseInv, Owned, Removing, InExecute
  <2>15. RequestInv'
    BY <1>0, <1>1, <1>6, <1>7, <1>14, <1>15, <2>0 DEF RequestInv, Active
  <2>16. ResultInv'
    BY <1>0, <1>1, <1>6, <1>7, <1>14, <1>15, <2>0 DEF ResultInv, Served, Asked
  <2>17. ModuleInv'
    BY <1>0, <1>1, <1>6, <1>7, <1>15, <2>0 DEF ModuleInv, Served, LifeInv, Loading,
       Unloading, Removing, InExecute, Asked
  <2>18. RunInv'
    BY <1>0, <1>1, <1>6, <1>7, <1>15, <2>0 DEF RunInv, Active, Unloading, InExecute
  <2>19. MappedInv'
    BY <1>0, <1>1, <1>6, <1>7, <1>15, <2>0 DEF MappedInv, LifeInv, Loading, Unloading,
       Removing, InExecute
  <2> QED
    BY <2>11, <2>12, <2>13, <2>14, <2>15, <2>16, <2>17, <2>18, <2>19 DEF XInv
<1> QED
  BY <1>13, <1>15

(* The device ends a launch.                                                  *)
LEMMA KeepsReturn ==
    ASSUME LInv, NEW c \in Calls, Return(c)
    PROVE  LInv' /\ (Exclusive /\ XInv => XInv')
<1>0. /\ HostTyped /\ LoaderTyped /\ KernelTyped
      /\ LifeInv /\ PointerInv /\ LockInv /\ StreamInv /\ ReuseInv
  BY DEF LInv, Typed
<1>1. /\ run[c].state = "running"
  BY DEF Return
<1>2. HostTyped'
  BY <1>0, <1>1 DEF Return, slotVars, loaderVars, kernelVars, hostVars, HostTyped,
     Labels
<1>3. LoaderTyped'
  BY <1>0, <1>1 DEF Return, slotVars, loaderVars, kernelVars, hostVars, LoaderTyped
<1>4. KernelTyped'
  BY <1>0, <1>1 DEF Return, slotVars, loaderVars, kernelVars, hostVars, KernelTyped,
     Launched
<1>5. Typed'
  BY <1>2, <1>3, <1>4 DEF Typed
<1>6. UNCHANGED <<pc, me, what, on, local, after, drain>>
  BY DEF Return, hostVars
<1>7. /\ \A x \in Calls \ {c} : run'[x] = run[x]
      /\ run'[c] = [of |-> run[c].of, by |-> run[c].by, state |-> "ended"]
      /\ UNCHANGED <<slot, made, open, dead, mutex, healthy, request, result, life,
                     owners, boot, handle, mapped, module, failures>>
  BY <1>0, <1>1, BootstrapAssumption DEF Return, slotVars, loaderVars, kernelVars,
     hostVars, LoaderTyped, KernelTyped, Launched
<1>8. LifeInv'
  BY <1>0, <1>1, <1>6, <1>7 DEF LifeInv, Loading, Unloading, Removing, InExecute
<1>9. PointerInv'
  BY <1>0, <1>1, <1>6, <1>7 DEF PointerInv, Loading, Unloading, Removing, InExecute,
     Executing, LifeInv
<1>10. LockInv'
  BY <1>0, <1>1, <1>6, <1>7, BootstrapAssumption DEF LockInv, InLoader
<1>11. StreamInv'
  BY <1>0, <1>1, <1>6, <1>7 DEF StreamInv, Asked
<1>12. ReuseInv'
  BY <1>0, <1>1, <1>6, <1>7 DEF ReuseInv, Asked
<1>13. LInv'
  BY <1>5, <1>8, <1>9, <1>10, <1>11, <1>12 DEF LInv
<1>14. \A u \in Threads : what'[u] = what[u] /\ me'[u] = me[u] => NextAsk(u)' = NextAsk(u)
  BY <1>7 DEF NextAsk, Ask
<1>15. ASSUME Exclusive, XInv PROVE XInv'
  <2>0. FirstInv /\ SlotInv /\ LocalInv /\ ReleaseInv /\ RequestInv /\ ResultInv /\ ModuleInv
        /\ RunInv /\ MappedInv
    BY <1>15 DEF XInv
  <2>11. FirstInv'
    BY <1>0, <1>1, <1>6, <1>7, <1>15, <2>0 DEF FirstInv, LifeInv, Loading, Unloading,
       Removing, InExecute
  <2>12. SlotInv'
    BY <1>0, <1>1, <1>6, <1>7, <1>15, <2>0 DEF SlotInv, Whole, Null, LifeInv, Loading,
       Unloading, Removing, InExecute
  <2>13. LocalInv'
    BY <1>0, <1>1, <1>6, <1>7, <1>15, <2>0 DEF LocalInv, LocalOf, Whole, Null, LifeInv,
       Loading, Unloading, Removing, InExecute
  <2>14. ReleaseInv'
    BY <1>0, <1>1, <1>6, <1>7, <1>15, <2>0 DEF ReleaseInv, Owned, Removing, InExecute
  <2>15. RequestInv'
    BY <1>0, <1>1, <1>6, <1>7, <1>14, <1>15, <2>0 DEF RequestInv, Active
  <2>16. ResultInv'
    BY <1>0, <1>1, <1>6, <1>7, <1>14, <1>15, <2>0 DEF ResultInv, Served, Asked
  <2>17. ModuleInv'
    BY <1>0, <1>1, <1>6, <1>7, <1>15, <2>0 DEF ModuleInv, Served, LifeInv, Loading,
       Unloading, Removing, InExecute, Asked
  <2>18. RunInv'
    BY <1>0, <1>1, <1>6, <1>7, <1>15, <2>0 DEF RunInv, Active, Unloading, InExecute
  <2>19. MappedInv'
    BY <1>0, <1>1, <1>6, <1>7, <1>15, <2>0 DEF MappedInv, LifeInv, Loading, Unloading,
       Removing, InExecute
  <2> QED
    BY <2>11, <2>12, <2>13, <2>14, <2>15, <2>16, <2>17, <2>18, <2>19 DEF XInv
<1> QED
  BY <1>13, <1>15

-----------------------------------------------------------------------------
LEMMA Starting == Init => LInv /\ XInv
<1> SUFFICES ASSUME Init PROVE LInv /\ XInv
  OBVIOUS
<1>1. NoAsk \in Asks
  BY DEF NoAsk, Ask, Asks
<1>2. Unused \in Launched
  BY DEF Unused, Launched
<1>3. HostTyped
  BY Made DEF Init, HostTyped, Labels
<1>4. LoaderTyped
  <2>1. request = [b \in Boots |-> <<>>] /\ result = [b \in Boots |-> [ask |-> NoAsk, ok |-> TRUE]]
    BY DEF Init
  <2>2. DOMAIN request = Boots /\ request = [b \in Boots |-> request[b]]
        /\ \A b \in Boots : request[b] = <<>>
    BY <2>1
  <2>3. result \in [Boots -> [ask: Asks, ok: BOOLEAN]]
    BY <1>1, <2>1
  <2>4. /\ slot \in Pointer /\ made \subseteq Boots /\ dead \subseteq made
        /\ mutex \in [Boots -> Threads \cup {None}] /\ healthy \in [Boots -> BOOLEAN]
        /\ open \in BOOLEAN /\ failures \in 0 .. MaxFailures
    BY Made, BootstrapAssumption DEF Init
  <2> QED
    BY <2>2, <2>3, <2>4 DEF LoaderTyped
<1>5. KernelTyped
  BY <1>2, Made DEF Init, KernelTyped
<1>6. /\ \A t \in Threads : pc[t] = "idle" /\ after[t] = "idle" /\ local[t] = Null
      /\ slot = Null /\ made = {} /\ dead = {} /\ open /\ mapped = {}
      /\ \A k \in Kernels : life[k] = "fresh" /\ owners[k] = {} /\ boot[k] = Null /\ module[k] = "absent"
      /\ \A b \in Boots : mutex[b] = None /\ healthy[b] /\ request[b] = <<>>
      /\ \A c \in Calls : run[c].state = "unused"
  BY DEF Init, Unused
<1>7. LifeInv
  BY <1>6 DEF LifeInv, Loading, Unloading, Removing, InExecute
<1>8. PointerInv
  BY <1>6, Made DEF PointerInv, InExecute, Executing
<1>9. LockInv /\ StreamInv /\ ReuseInv
  BY <1>6, BootstrapAssumption DEF LockInv, StreamInv, ReuseInv, InLoader, Asked
<1>10. FirstInv /\ SlotInv
  BY <1>6, Made DEF FirstInv, SlotInv, Loading, InExecute
<1>11. LocalInv
  BY <1>6 DEF LocalInv, LocalOf, InExecute
<1>12. ReleaseInv
  BY <1>6 DEF ReleaseInv, Removing, InExecute
<1>13. RequestInv
  <2>1. \A b \in Boots, a \in Asks : request[b] # <<a>>
    BY <1>6, OneAsk
  <2> QED
    BY <1>6, <2>1 DEF RequestInv
<1>14. ResultInv /\ ModuleInv /\ RunInv /\ MappedInv
  BY <1>6 DEF ResultInv, ModuleInv, RunInv, MappedInv, Served, Asked, Loading,
     Unloading, InExecute, Active
<1> QED
  BY <1>3, <1>4, <1>5, <1>7, <1>8, <1>9, <1>10, <1>11, <1>12, <1>13, <1>14 DEF LInv,
     XInv, Typed

LEMMA Stutters ==
    ASSUME UNCHANGED vars
    PROVE  (LInv => LInv') /\ (XInv => XInv')
<1>1. /\ UNCHANGED <<pc, me, what, on, local, after, drain>>
      /\ UNCHANGED <<slot, made, open, dead, mutex, healthy, request, result>>
      /\ UNCHANGED <<life, owners, boot, handle, mapped, module, run, failures>>
  BY DEF vars, hostVars, slotVars, loaderVars, kernelVars
<1>2. (HostTyped => HostTyped') /\ (KernelTyped => KernelTyped')
  BY <1>1 DEF HostTyped, KernelTyped
<1>3. LoaderTyped => LoaderTyped'
  BY <1>1 DEF LoaderTyped
<1>4. (LifeInv => LifeInv') /\ (PointerInv => PointerInv')
  BY <1>1 DEF LifeInv, PointerInv, Loading, Unloading, Removing, InExecute, Executing
<1>5. (LockInv => LockInv') /\ (StreamInv => StreamInv') /\ (ReuseInv => ReuseInv')
  BY <1>1 DEF LockInv, StreamInv, ReuseInv, InLoader, Asked
<1>6. LInv => LInv'
  BY <1>2, <1>3, <1>4, <1>5 DEF LInv, Typed
<1>7. XInv => XInv'
  BY <1>1 DEF XInv, FirstInv, SlotInv, LocalInv, LocalOf, ReleaseInv, RequestInv,
     ResultInv, ModuleInv, RunInv, MappedInv, Whole, Owned, Served, Active, NextAsk,
     Ask, Loading, Unloading, Removing, InExecute, Asked
<1> QED
  BY <1>6, <1>7

(* What follows in one thread, or on the device, is one of the steps above.   *)
Kept == LInv' /\ (Exclusive /\ XInv => XInv')

LEMMA KeepsUnref ==
    ASSUME LInv, NEW t \in Threads, Unref(t)
    PROVE  Kept
BY KeepsKeep, KeepsRelease DEF Kept

LEMMA KeepsLetGo ==
    ASSUME LInv, NEW t \in Threads, NEW o, NEW k \in Kernels, NEW next,
           pc[t] = next, next \in {"idle", "closing"}, LetGo(t, o, k, next)
    PROVE  Kept
BY KeepsLetOne, KeepsLetLast DEF Kept

LEMMA Stepping ==
    ASSUME LInv, [Next]_vars
    PROVE  Kept
<1>1. CASE UNCHANGED vars
  BY <1>1, Stutters DEF Kept
<1>2. ASSUME NEW t \in Threads, LoadStep(t) PROVE Kept
  BY <1>2, KeepsTest, KeepsBuild, KeepsBuildFails, KeepsStorePointer, KeepsStoreOwner,
     KeepsCopy, KeepsMap, KeepsMapFails DEF LoadStep, Kept
<1>3. ASSUME NEW t \in Threads, ExecuteStep(t) PROVE Kept
  <2>1. CASE Lock(t) \/ Request(t) \/ Synced(t)
    BY <2>1, KeepsLock, KeepsRequest, KeepsSynced DEF Kept
  <2>2. CASE \/ Refuse(t) \/ RequestFails(t) \/ SyncFails(t) \/ FetchFails(t)
             \/ \E cached \in BOOLEAN : Fetch(t, cached)
    BY <2>2, GivesUp, KeepsGiveUp, KeepsSucceed DEF Kept
  <2> QED
    BY <1>3, <2>1, <2>2 DEF ExecuteStep
<1>4. ASSUME NEW t \in Threads, EndStep(t) PROVE Kept
  <2>1. CASE Unref(t)
    BY <2>1, KeepsUnref
  <2>2. CASE Teardown(t) \/ TeardownAnyway(t)
    BY <2>2, Destroys, KeepsDestroy DEF Kept
  <2>3. CASE Drained(t) \/ DrainFails(t) \/ DropSlot(t)
    BY <2>3, KeepsDrained, KeepsDrainFails, KeepsDropSlot DEF Kept
  <2>4. ASSUME NEW k \in Kernels, Uncache(t, k) PROVE Kept
    <3>1. pc[t] = "closing" /\ LetGo(t, Cache, k, "closing")
      BY <2>4 DEF Uncache
    <3> QED
      BY <3>1, KeepsLetGo
  <2> QED
    BY <1>4, <2>1, <2>2, <2>3, <2>4 DEF EndStep
<1>5. ASSUME NEW t \in Threads, Starts(t) PROVE Kept
  <2>1. CASE Close(t)
    BY <2>1, KeepsClose DEF Kept
  <2>2. ASSUME NEW k \in Kernels, BeginLoad(t, k) \/ Get(t, k) PROVE Kept
    BY <2>2, KeepsBeginLoad, KeepsGet DEF Kept
  <2>3. ASSUME NEW k \in Kernels, Drop(t, k) PROVE Kept
    <3>1. pc[t] = "idle" /\ LetGo(t, t, k, "idle")
      BY <2>3 DEF Drop
    <3> QED
      BY <3>1, KeepsLetGo
  <2>4. ASSUME NEW k \in Kernels, NEW c \in Calls, Launch(t, k, c) PROVE Kept
    BY <2>4, KeepsLaunch DEF Kept
  <2> QED
    BY <1>5, <2>1, <2>2, <2>3, <2>4 DEF Starts
<1>6. CASE Device
  BY <1>6, KeepsServe, KeepsInvoke, KeepsReturn DEF Device, Kept
<1> QED
  BY <1>1, <1>2, <1>3, <1>4, <1>5, <1>6 DEF Next, InCall

-----------------------------------------------------------------------------
(* What the invariants say of the properties.                                 *)
LEMMA OneWriterHolds == LInv => OneWriter
<1> SUFFICES ASSUME LInv, NEW b \in Boots PROVE Len(request[b]) <= 1
  BY DEF OneWriter
<1>1. request[b] = <<>> \/ \E a \in Asks : request[b] = <<a>>
  BY DEF LInv, Typed, LoaderTyped
<1>2. CASE request[b] = <<>>
  BY <1>2
<1>3. ASSUME NEW a \in Asks, request[b] = <<a>> PROVE Len(request[b]) <= 1
  <2>1. Len(<<a>>) = 1
    BY OneAsk
  <2> QED
    BY <1>3, <2>1
<1> QED
  BY <1>1, <1>2, <1>3

LEMMA NeverRefusedHolds == LInv => NeverRefused
<1> SUFFICES ASSUME LInv, failures = 0, NEW b \in Boots, mutex[b] = None PROVE healthy[b]
  BY DEF NeverRefused
<1>1. \A t \in Threads : ~(Asked(t) /\ on[t] = b)
  BY BootstrapAssumption DEF LInv, LockInv, Asked, InLoader
<1> QED
  BY <1>1 DEF LInv, ReuseInv

LEMMA NoUseAfterReleaseHolds == LInv /\ XInv => NoUseAfterRelease
<1> SUFFICES ASSUME LInv, XInv PROVE NoUseAfterRelease
  OBVIOUS
<1>1. /\ HostTyped /\ LoaderTyped /\ LifeInv /\ PointerInv /\ LocalInv /\ ReleaseInv /\ RequestInv
      /\ RunInv /\ MappedInv
  BY DEF LInv, Typed, XInv
<1>2. ASSUME NEW t \in Threads, Executing(t) PROVE on[t] \notin dead
  <2>1. CASE Removing(t)
    BY <1>1, <2>1 DEF ReleaseInv
  <2>2. CASE ~Removing(t)
    <3>1. InExecute(t) /\ what[t] # "Remove"
      BY <1>2, <2>2 DEF Executing, Removing, InExecute
    <3>2. local[t].own = on[t]
      BY <1>1, <3>1 DEF LocalInv, LocalOf, InExecute
    <3> QED
      BY <1>1, <3>2 DEF ReleaseInv, Owned
  <2> QED
    BY <2>1, <2>2
<1>3. ASSUME failures = 0, NEW c \in Active PROVE run[c].by \notin dead
  <2>1. \/ run[c].of \in Kernels /\ boot[run[c].of].own = run[c].by
        \/ \E t \in Threads : local[t].own = run[c].by
    BY <1>1, <1>3 DEF RunInv
  <2> QED
    BY <1>1, <2>1 DEF ReleaseInv, Owned
<1>4. ASSUME failures = 0, NEW b \in Boots, NEW i \in DOMAIN request[b], request[b][i].op = "Load"
      PROVE  request[b][i].of \in mapped
  <2>1. PICK a \in Asks : request[b] = <<a>> /\ request[b][i] = a
    BY <1>1, <1>4 DEF LoaderTyped
  <2>2. PICK t \in Threads : pc[t] = "sync" /\ on[t] = b /\ NextAsk(t) = a
    BY <1>1, <1>4, <2>1 DEF RequestInv
  <2>3. what[t] = "Load" /\ me[t] = a.of /\ InExecute(t)
    BY <1>4, <2>1, <2>2, AskTyped DEF InExecute
  <2> QED
    BY <1>1, <2>1, <2>3 DEF MappedInv, LifeInv, Loading
<1> QED
  BY <1>2, <1>3, <1>4 DEF NoUseAfterRelease

LEMMA NoLeakHolds == LInv /\ XInv => NoLeak
<1> SUFFICES ASSUME LInv, XInv, ~open, failures = 0, \A t \in Threads : pc[t] = "idle",
                    \A k \in Kernels : life[k] \in {"fresh", "gone"}
             PROVE  mapped = {} /\ made = dead /\ \A k \in Kernels : module[k] # "live"
  BY DEF NoLeak
<1>1. /\ LoaderTyped /\ KernelTyped /\ FirstInv /\ SlotInv /\ LocalInv /\ ReleaseInv /\ ModuleInv
      /\ MappedInv
  BY DEF LInv, Typed, XInv
<1>2. mapped = {}
  BY <1>1 DEF MappedInv, InExecute, KernelTyped
<1>3. slot = Null /\ \A t \in Threads : local[t] = Null
  BY <1>1 DEF SlotInv, LocalInv, LocalOf, InExecute
<1>4. \A k \in Kernels : boot[k] = Null
  BY <1>1 DEF LocalInv
<1>5. \A b \in made : ~Owned(b)
  BY <1>1, <1>3, <1>4, Made, BootstrapAssumption DEF Owned, LoaderTyped
<1>6. \A t \in Threads : ~Removing(t) /\ ~Unloading(t)
  BY DEF Removing, Unloading, InExecute
<1>7. \A k \in Kernels : \A t \in Threads : ~(Loading(t) /\ me[t] = k)
  BY DEF LInv, LifeInv
<1>8. made = dead
  BY <1>1, <1>5, <1>6 DEF ReleaseInv, LoaderTyped
<1>9. \A k \in Kernels : module[k] # "live"
  BY <1>1, <1>6, <1>7 DEF ModuleInv
<1> QED
  BY <1>2, <1>8, <1>9

-----------------------------------------------------------------------------
(* The loader, whatever loads there are at once.                              *)
LEMMA LoaderInvariant == Spec => []LInv
<1>1. Init => LInv
  BY Starting
<1>2. LInv /\ [Next]_vars => LInv'
  BY Stepping DEF Kept
<1> QED
  BY <1>1, <1>2, PTL DEF Spec

(* The types of aicpu/bootstrap.hpp and kernel.hpp, and load's assertion: a   *)
(* request is made of a bootstrap, under its maker's lock.                    *)
THEOREM TypeCorrect == Spec => []TypeOK
BY LoaderInvariant, TypesHold, PTL

(* execute: the result buffer has one writer at a time, also after a wait     *)
(* that failed, and with several bootstraps.                                  *)
THEOREM BufferHasOneWriter == Spec => []OneWriter
BY LoaderInvariant, OneWriterHolds, PTL

(* execute: without an ACL failure loader_healthy is set whenever the lock is *)
(* free, so that no request is refused.                                       *)
THEOREM NoRequestRefused == Spec => []NeverRefused
BY LoaderInvariant, NeverRefusedHolds, PTL

(* Kernels, when no load is made beside a first one.                          *)
LEMMA KernelInvariant ==
    ASSUME Exclusive
    PROVE  Spec => []IInv
<1>1. Init => IInv
  BY Starting DEF IInv
<1>2. IInv /\ [Next]_vars => IInv'
  BY Stepping DEF Kept, IInv
<1> QED
  BY <1>1, <1>2, PTL DEF Spec

(* Kernel::load: the module of a kernel is the one that its own request made, *)
(* and it stays while the kernel does.                                        *)
THEOREM LoadGetsItsModule ==
    ASSUME Exclusive
    PROVE  Spec => []OwnResult
<1>1. IInv => OwnResult
  BY DEF IInv, XInv, ModuleInv, OwnResult
<1> QED
  BY <1>1, KernelInvariant, PTL

(* ~Kernel waits for the launches before it asks for the unload: none that    *)
(* the device has yet to end names a module that is freed.                    *)
THEOREM LaunchesKeepTheirModule ==
    ASSUME Exclusive
    PROVE  Spec => []NoStaleInvoke
<1>1. IInv => NoStaleInvoke
  BY DEF IInv, XInv, RunInv, NoStaleInvoke
<1> QED
  BY <1>1, KernelInvariant, PTL

(* The bootstrap is released after its last user, and the image after the     *)
(* device has read it.                                                        *)
THEOREM NothingUsedAfterRelease ==
    ASSUME Exclusive
    PROVE  Spec => []NoUseAfterRelease
BY KernelInvariant, NoUseAfterReleaseHolds, PTL DEF IInv

(* ~Runtime, with every kernel dropped and no ACL failure, leaves nothing.    *)
THEOREM NothingLeft ==
    ASSUME Exclusive
    PROVE  Spec => []NoLeak
BY KernelInvariant, NoLeakHolds, PTL DEF IInv
=============================================================================
