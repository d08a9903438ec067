---------------------------- MODULE RuntimeCompile ----------------------------
(***************************************************************************)
(* Runtime::compile (runtime/runtime.hpp) over the CUDA backend: the options *)
(* in effect, the key made of everything a build depends on, the memory       *)
(* cache, the disk cache and the build.  The process starts, dies and starts  *)
(* again over the same disk, and files change where the documentation says    *)
(* they may: headers, compiler and untracked dependencies between runtimes,   *)
(* post hooks between processes.                                              *)
(*                                                                           *)
(* Granularity: a thread keeps the GIL from the call until compile_impl gives *)
(* it up, and from its return on, so each is one action; in between a thread  *)
(* runs alone.  Disk lookups and commits are those of DiskCache with one      *)
(* healthy root; a digest is the sequence of what was hashed (FNV-1a is taken *)
(* to be injective, and the length before each component makes it a sequence).*)
(***************************************************************************)
EXTENDS Naturals, Sequences, FiniteSets

CONSTANTS Threads,
          Tags,        (* names given to compile()                           *)
          Sources,     (* kernel texts                                       *)
          Spilling,    (* those whose registers PTXAS spills                 *)
          Defaults,    (* Runtime::default_compiler_options                  *)
          Overrides,   (* CompilerOptions of the calls                       *)
          Hooks,       (* paths of post hooks, each spelled in one way       *)
          MaxVersion,  (* bound: versions of each file                       *)
          MaxEdits,    (* bound: edits                                       *)
          MaxCalls,    (* bound: calls                                       *)
          Unset        (* std::nullopt; no kernel                            *)

Versions == 1 .. MaxVersion

(* The options that matter here: one value and one switch that become flags,  *)
(* one switch that also makes the build refuse a kernel, one that only adds a *)
(* file beside the kernel, both free-form lists and the hook.                 *)
OptionFields == {"optimize_level", "fast_math", "check_no_spills", "dump_sass",
                 "nvcc_flags", "extra_nvcc_flags", "post_hook"}

(* The flag of optimize_level begins with -O; a free-form list may hold any   *)
(* flag, one that an option stands for included.                              *)
ASSUME CompileAssumption ==
    /\ Spilling \subseteq Sources
    /\ MaxVersion \in Nat \ {0} /\ MaxEdits \in Nat /\ MaxCalls \in Nat
    /\ \A o \in Overrides \cup {Defaults} :
          /\ DOMAIN o = OptionFields
          /\ o.optimize_level # Unset =>
                o.optimize_level \in STRING \ {"--warn-on-spills"}
          /\ \A f \in {"fast_math", "check_no_spills", "dump_sass"} :
                o[f] # Unset => o[f] \in BOOLEAN
          /\ o.post_hook \in Hooks \cup {Unset}
          /\ o.extra_nvcc_flags \in Seq(STRING)
          /\ o.nvcc_flags # Unset => o.nvcc_flags \in Seq(STRING)
    /\ \A f \in OptionFields \ {"post_hook"} : Defaults[f] # Unset

VARIABLES
    world,    (* versions of headers, compiler, dependencies and hooks       *)
    phase,    (* "down": no process; "idle": no runtime; "up"                *)
    base,     (* Runtime::hash_base                                          *)
    headers,  (* Parser::cache: the version hashed, or Unset                 *)
    hashes,   (* each thread's post_hook_hashes                              *)
    mem,      (* Runtime::mem_cache: the image and who loaded it             *)
    disk,     (* published entries, by tag and digest                        *)
    pc,       (* where each thread is                                        *)
    req,      (* its tag, source and options in effect                       *)
    key,      (* its cache key, the digest                                   *)
    dir,      (* what its build has put in the directory of its entry        *)
    got,      (* the image of the kernel it was given                        *)
    edits, calls   (* bounds                                                 *)

vars == <<world, phase, base, headers, hashes, mem, disk, pc, req, key, dir, got, edits, calls>>

Empty == [k \in {} |-> Unset]
NoRequest == [tag |-> Unset, source |-> Unset, options |-> Defaults]

Init == /\ world = [headers |-> 1, compiler |-> 1, deps |-> 1, hooks |-> [h \in Hooks |-> 1]]
        /\ phase = "down"
        /\ base = <<>>
        /\ headers = Unset
        /\ hashes = [t \in Threads |-> Empty]
        /\ mem = Empty
        /\ disk = Empty
        /\ pc = [t \in Threads |-> "idle"]
        /\ req = [t \in Threads |-> NoRequest]
        /\ key = [t \in Threads |-> <<>>]
        /\ dir = [t \in Threads |-> Unset]
        /\ got = [t \in Threads |-> Unset]
        /\ edits = 0
        /\ calls = 0

Put(f, k, v) == [x \in DOMAIN f \cup {k} |-> IF x = k THEN v ELSE f[x]]
Emplace(f, k, v) == IF k \in DOMAIN f THEN f ELSE Put(f, k, v)

-----------------------------------------------------------------------------
(* Options.                                                                   *)

OverrideWith(o) ==
    [f \in OptionFields |->
        IF f = "extra_nvcc_flags" THEN Defaults[f] \o o[f]
        ELSE IF o[f] = Unset THEN Defaults[f] ELSE o[f]]

When(c, flag) == IF c THEN <<flag>> ELSE <<>>

(* MUTANT of Flags: the check adds no flag of its own.                        *)
FlagsWithoutCheck(o) ==
    <<o.optimize_level>> \o When(o.fast_math, "--use_fast_math")
        \o o.nvcc_flags \o o.extra_nvcc_flags

Flags(o) ==
    <<o.optimize_level>> \o When(o.fast_math, "--use_fast_math")
        \o When(o.check_no_spills, "--warn-on-spills")
        \o o.nvcc_flags \o o.extra_nvcc_flags

(* The options in effect of any call.                                         *)
Asked == {OverrideWith(o) : o \in Overrides}

Warns(flags) == \E n \in DOMAIN flags : flags[n] = "--warn-on-spills"

(* The check's flag without the check: written in a free-form list.           *)
Spelled(o) == ~o.check_no_spills /\ Warns(o.nvcc_flags \o o.extra_nvcc_flags)

-----------------------------------------------------------------------------
(* The key.                                                                   *)

Update(hash, component) == Append(hash, component)

(* The hash of a hook file is remembered by the thread that read it.          *)
PostHookHash(t, o) ==
    IF o.post_hook = Unset THEN <<>>
    ELSE IF o.post_hook \in DOMAIN hashes[t] THEN hashes[t][o.post_hook]
    ELSE <<o.post_hook, world.hooks[o.post_hook]>>

HeadersNow == IF headers = Unset THEN world.headers ELSE headers

CacheKey(t, source, o) ==
    Update(Update(Update(base, Flags(o)), PostHookHash(t, o)), <<source, HeadersNow>>)

-----------------------------------------------------------------------------
(* What a build produces now.                                                 *)
HookApplied(o) == IF o.post_hook = Unset THEN <<>> ELSE <<o.post_hook, world.hooks[o.post_hook]>>

Compiled(r) == [source |-> r.source, headers |-> world.headers, flags |-> Flags(r.options),
                compiler |-> world.compiler, deps |-> world.deps, hook |-> <<>>]
Refused(r) == r.options.check_no_spills /\ r.source \in Spilling
Built(r) == [Compiled(r) EXCEPT !.hook = HookApplied(r.options)]

-----------------------------------------------------------------------------
(* Processes, runtimes and files.                                             *)

StartProcess ==
    /\ phase = "down"
    /\ phase' = "idle"
    /\ hashes' = [t \in Threads |-> Empty]
    /\ UNCHANGED <<world, base, headers, mem, disk, pc, req, key, dir, got, edits, calls>>

(* The constructor: extra_signature and the compiler's version are hashed.    *)
StartRuntime ==
    /\ phase = "idle"
    /\ phase' = "up"
    /\ base' = Update(Update(<<>>, world.deps), world.compiler)
    /\ headers' = Unset
    /\ mem' = Empty
    /\ UNCHANGED <<world, hashes, disk, pc, req, key, dir, got, edits, calls>>

Idle == \A t \in Threads : pc[t] = "idle"
Forget == /\ pc' = [t \in Threads |-> "idle"]
          /\ req' = [t \in Threads |-> NoRequest]
          /\ key' = [t \in Threads |-> <<>>]
          /\ dir' = [t \in Threads |-> Unset]
          /\ got' = [t \in Threads |-> Unset]
          /\ base' = <<>>
          /\ headers' = Unset
          /\ mem' = Empty

(* A thread's hook hashes outlive the runtime.                                *)
StopRuntime ==
    /\ phase = "up" /\ Idle
    /\ phase' = "idle"
    /\ Forget
    /\ UNCHANGED <<world, hashes, disk, edits, calls>>

(* The process ends, or dies with calls in progress: the disk stays.          *)
StopProcess ==
    /\ phase # "down"
    /\ phase' = "down"
    /\ Forget
    /\ hashes' = [t \in Threads |-> Empty]
    /\ UNCHANGED <<world, disk, edits, calls>>

(* "recreate the runtime after changing tracked header files"; the compiler   *)
(* and extra_signature, which stands for deps, are read by its constructor.   *)
EditFiles ==
    /\ phase # "up"
    /\ edits < MaxEdits /\ edits' = edits + 1
    /\ \E f \in {"headers", "compiler", "deps"}, v \in Versions :
          /\ v # world[f]
          /\ world' = [world EXCEPT ![f] = v]
    /\ UNCHANGED <<phase, base, headers, hashes, mem, disk, pc, req, key, dir, got, calls>>

(* "restart the process after changing a hook file"                           *)
EditHook ==
    /\ phase = "down"
    /\ edits < MaxEdits /\ edits' = edits + 1
    /\ \E h \in Hooks, v \in Versions :
          /\ v # world.hooks[h]
          /\ world' = [world EXCEPT !.hooks[h] = v]
    /\ UNCHANGED <<phase, base, headers, hashes, mem, disk, pc, req, key, dir, got, calls>>

-----------------------------------------------------------------------------
(* compile(): one call of thread t.                                           *)

(* Under the GIL: options, key and the look into memory.                      *)
(* MUTANT: cache_key updates hash_base itself instead of a copy.              *)
CallUpdatesBase(t, tag, source, over) ==
    LET o == OverrideWith(over)
        k == CacheKey(t, source, o)
    IN /\ phase = "up" /\ pc[t] = "idle"
       /\ calls < MaxCalls /\ calls' = calls + 1
       /\ req' = [req EXCEPT ![t] = [tag |-> tag, source |-> source, options |-> o]]
       /\ key' = [key EXCEPT ![t] = k]
       /\ base' = k
       /\ headers' = HeadersNow
       /\ hashes' = IF o.post_hook = Unset THEN hashes
                    ELSE [hashes EXCEPT ![t] = Emplace(@, o.post_hook, PostHookHash(t, o))]
       /\ IF k \in DOMAIN mem
          THEN got' = [got EXCEPT ![t] = mem[k].image] /\ UNCHANGED pc
          ELSE got' = [got EXCEPT ![t] = Unset] /\ pc' = [pc EXCEPT ![t] = "lookup"]
       /\ UNCHANGED <<world, phase, mem, disk, dir, edits>>

Call(t, tag, source, over) ==
    LET o == OverrideWith(over)
        k == CacheKey(t, source, o)
    IN /\ phase = "up" /\ pc[t] = "idle"
       /\ calls < MaxCalls /\ calls' = calls + 1
       /\ req' = [req EXCEPT ![t] = [tag |-> tag, source |-> source, options |-> o]]
       /\ key' = [key EXCEPT ![t] = k]
       /\ headers' = HeadersNow
       /\ hashes' = IF o.post_hook = Unset THEN hashes
                    ELSE [hashes EXCEPT ![t] = Emplace(@, o.post_hook, PostHookHash(t, o))]
       /\ IF k \in DOMAIN mem
          THEN got' = [got EXCEPT ![t] = mem[k].image] /\ UNCHANGED pc
          ELSE got' = [got EXCEPT ![t] = Unset] /\ pc' = [pc EXCEPT ![t] = "lookup"]
       /\ UNCHANGED <<world, phase, base, mem, disk, dir, edits>>

Goto(t, l) == pc' = [pc EXCEPT ![t] = l]

(* <tag>.<digest>: memory knows the digest only.                              *)
EntryName(t) == <<req[t].tag, key[t]>>

(* disk_cache.entry                                                           *)
Lookup(t) ==
    /\ pc[t] = "lookup"
    /\ Goto(t, IF EntryName(t) \in DOMAIN disk THEN "load" ELSE "nvcc")
    /\ UNCHANGED <<world, phase, base, headers, hashes, mem, disk, req, key, dir, got, edits, calls>>

(* NVCC, then the checks of what it printed.                                  *)
Nvcc(t) ==
    /\ pc[t] = "nvcc"
    /\ ~Refused(req[t])
    /\ dir' = [dir EXCEPT ![t] = Compiled(req[t])]
    /\ Goto(t, IF req[t].options.post_hook = Unset THEN "dump" ELSE "hook")
    /\ UNCHANGED <<world, phase, base, headers, hashes, mem, disk, req, key, got, edits, calls>>

(* The hook modifies the CUBIN in place.                                      *)
RunHook(t) ==
    /\ pc[t] = "hook"
    /\ dir' = [dir EXCEPT ![t].hook = HookApplied(req[t].options)]
    /\ Goto(t, "dump")
    /\ UNCHANGED <<world, phase, base, headers, hashes, mem, disk, req, key, got, edits, calls>>

(* The dumps and meta.json, which no key knows of, then commit(): the first   *)
(* to publish an entry is the one everybody uses.                             *)
Publish(t) ==
    /\ pc[t] = "dump"
    /\ disk' = Emplace(disk, EntryName(t), dir[t])
    /\ dir' = [dir EXCEPT ![t] = Unset]
    /\ Goto(t, "load")
    /\ UNCHANGED <<world, phase, base, headers, hashes, mem, req, key, got, edits, calls>>

(* backend.load, and back under the GIL mem_cache.emplace: the kernel loaded  *)
(* is returned even when another thread's is the one in the cache.            *)
(* MUTANT: the entry is assigned.                                             *)
LoadReplaces(t) ==
    /\ pc[t] = "load"
    /\ mem' = Put(mem, key[t], [image |-> disk[EntryName(t)], by |-> t])
    /\ got' = [got EXCEPT ![t] = disk[EntryName(t)]]
    /\ Goto(t, "idle")
    /\ UNCHANGED <<world, phase, base, headers, hashes, disk, req, key, dir, edits, calls>>

Load(t) ==
    /\ pc[t] = "load"
    /\ mem' = Emplace(mem, key[t], [image |-> disk[EntryName(t)], by |-> t])
    /\ got' = [got EXCEPT ![t] = disk[EntryName(t)]]
    /\ Goto(t, "idle")
    /\ UNCHANGED <<world, phase, base, headers, hashes, disk, req, key, dir, edits, calls>>

(* Any step after the lookup may fail: nothing is published or cached.        *)
Fail(t) ==
    /\ pc[t] \in {"lookup", "nvcc", "hook", "dump", "load"}
    /\ dir' = [dir EXCEPT ![t] = Unset]
    /\ Goto(t, "idle")
    /\ UNCHANGED <<world, phase, base, headers, hashes, mem, disk, req, key, got, edits, calls>>

CallStep(t) == Lookup(t) \/ Nvcc(t) \/ RunHook(t) \/ Publish(t) \/ Load(t) \/ Fail(t)

Next == \/ StartProcess \/ StartRuntime \/ StopRuntime \/ StopProcess
        \/ EditFiles \/ EditHook
        \/ \E t \in Threads : \/ CallStep(t)
                              \/ \E g \in Tags, s \in Sources, o \in Overrides : Call(t, g, s, o)

Spec == Init /\ [][Next]_vars

-----------------------------------------------------------------------------
(* A kernel handed out, from memory or from disk, built by whomever, under    *)
(* whatever tag and before whatever edits and restarts, is the one that a     *)
(* build of this request would produce now.  It is one that the request's     *)
(* check of spills would let pass, unless another call makes the same flags   *)
(* without the check: the key holds the flags, and not the check.             *)
HitIsFresh ==
    \A t \in Threads : got[t] # Unset =>
        /\ got[t] = Built(req[t])
        /\ Refused(req[t]) =>
              \E o \in Asked : Spelled(o) /\ Flags(o) = Flags(req[t].options)

(* The digest has no history: one artifact has one digest, whatever thread,   *)
(* runtime or process asks and under whatever tag.  Entries that hold the     *)
(* same artifact differ in their tags; under one tag it is built once.        *)
NoDuplicates == \A m, n \in DOMAIN disk : disk[m] = disk[n] => m[2] = n[2]

(* While a runtime lives, the kernel it keeps for a key stays the same one,   *)
(* although two threads may load it at once.                                  *)
CachedKernelStable ==
    [][phase = "up" /\ phase' = "up" =>
         \A k \in DOMAIN mem : k \in DOMAIN mem' /\ mem'[k] = mem[k]]_vars
=============================================================================
