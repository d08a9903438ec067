------------------------- MODULE RuntimeCompileProofs -------------------------
(***************************************************************************)
(* Theorems of RuntimeCompile: the type of its variables, that a kernel       *)
(* handed out is the one a build would produce now, that one artifact has one *)
(* key, and that a cached kernel stays.                                       *)
(*                                                                           *)
(* The argument is that a digest says everything about the image of an entry  *)
(* that has it in its name: KeyOf computes it from the image, and no two      *)
(* images share one.  What it does not say is whether the image was checked.  *)
(***************************************************************************)
EXTENDS RuntimeCompile, SequenceTheorems, TLAPS

(* What calls ask for, and what is built for them.                            *)
Requests == [tag: Tags, source: Sources, options: Asked]
Images == [source: Sources, headers: Versions, flags: {Flags(o) : o \in Asked},
           compiler: Versions, deps: Versions, hook: {<<>>} \cup (Hooks \X Versions)]

(* The key under which an image is stored.                                    *)
KeyOf(i) == Update(Update(Update(Update(Update(<<>>, i.deps), i.compiler),
                                 i.flags), i.hook), <<i.source, i.headers>>)
Keys == {KeyOf(i) : i \in Images}

(* An image that the build of some call with its flags does not refuse.       *)
Passed(i) == \E o \in Asked : Flags(o) = i.flags /\ ~(o.check_no_spills /\ i.source \in Spilling)

Labels == {"idle", "lookup", "nvcc", "hook", "dump", "load"}

TypeOK ==
    /\ world \in [headers: Versions, compiler: Versions, deps: Versions,
                  hooks: [Hooks -> Versions]]
    /\ phase \in {"down", "idle", "up"}
    /\ base \in {<<>>, Update(Update(<<>>, world.deps), world.compiler)}
    /\ headers \in {Unset, world.headers}
    /\ DOMAIN hashes = Threads
    /\ hashes = [t \in Threads |-> hashes[t]]
    /\ \A t \in Threads : DOMAIN hashes[t] \subseteq Hooks
    /\ DOMAIN disk \subseteq Tags \X Keys
    /\ DOMAIN mem \subseteq Keys
    /\ pc \in [Threads -> Labels]
    /\ req \in [Threads -> Requests \cup {NoRequest}]
    /\ key \in [Threads -> Keys \cup {<<>>}]
    /\ dir \in [Threads -> Images \cup {Unset}]
    /\ got \in [Threads -> Images \cup {Unset}]
    /\ edits \in 0 .. MaxEdits
    /\ calls \in 0 .. MaxCalls

(* While a runtime lives nothing it hashed has changed, and a thread's hook   *)
(* hashes hold as long as the process.                                        *)
FilesInv ==
    /\ IF phase = "up" THEN base = Update(Update(<<>>, world.deps), world.compiler)
                        ELSE base = <<>> /\ headers = Unset
    /\ \A t \in Threads : \A h \in DOMAIN hashes[t] :
          phase # "down" /\ hashes[t][h] = <<h, world.hooks[h]>>

(* On disk under any tag, and in memory, an image has the key that KeyOf      *)
(* gives it, and some call made it whose checks let it pass.                  *)
EntryInv ==
    /\ \A n \in DOMAIN disk : disk[n] \in Images /\ Passed(disk[n]) /\ n[2] = KeyOf(disk[n])
    /\ \A k \in DOMAIN mem :
          mem[k].image \in Images /\ Passed(mem[k].image) /\ k = KeyOf(mem[k].image)

(* A thread with a call, or with a kernel from its last one.                  *)
Active(t) == pc[t] # "idle" \/ got[t] # Unset

CallOf(t) ==
    /\ Active(t) => /\ phase = "up"
                    /\ req[t] \in Requests
                    /\ key[t] = KeyOf(Built(req[t]))
    /\ pc[t] \in {"hook", "dump"} => ~Refused(req[t])
    /\ pc[t] = "hook" => dir[t] = Compiled(req[t])
    /\ pc[t] = "dump" => dir[t] = Built(req[t])
    /\ pc[t] = "load" => EntryName(t) \in DOMAIN disk
    /\ got[t] # Unset => got[t] = Built(req[t]) /\ Passed(got[t])

CallInv == \A t \in Threads : CallOf(t)

IInv == TypeOK /\ FilesInv /\ EntryInv /\ CallInv

-----------------------------------------------------------------------------
(* A digest tells each component that was hashed.                             *)
LEMMA KeyParts ==
    ASSUME NEW i
    PROVE  /\ KeyOf(i)[1] = i.deps
           /\ KeyOf(i)[2] = i.compiler
           /\ KeyOf(i)[3] = i.flags
           /\ KeyOf(i)[4] = i.hook
           /\ KeyOf(i)[5] = <<i.source, i.headers>>
<1>1. KeyOf(i)[1] = i.deps
  BY DEF KeyOf, Update
<1>2. KeyOf(i)[2] = i.compiler
  BY DEF KeyOf, Update
<1>3. KeyOf(i)[3] = i.flags
  BY DEF KeyOf, Update
<1>4. KeyOf(i)[4] = i.hook
  BY DEF KeyOf, Update
<1>5. KeyOf(i)[5] = <<i.source, i.headers>>
  BY DEF KeyOf, Update
<1> QED
  BY <1>1, <1>2, <1>3, <1>4, <1>5

(* Two images that differ have two keys: no component of the key is mistaken  *)
(* for another.                                                               *)
LEMMA KeyInjective ==
    ASSUME NEW i \in Images, NEW j \in Images, KeyOf(i) = KeyOf(j)
    PROVE  i = j
<1>1. /\ i.deps = j.deps /\ i.compiler = j.compiler /\ i.flags = j.flags
      /\ i.hook = j.hook /\ <<i.source, i.headers>> = <<j.source, j.headers>>
  <2> DEFINE k == KeyOf(i)
  <2>1. /\ k[1] = i.deps /\ k[2] = i.compiler /\ k[3] = i.flags /\ k[4] = i.hook
        /\ k[5] = <<i.source, i.headers>>
    BY KeyParts
  <2>2. /\ k[1] = j.deps /\ k[2] = j.compiler /\ k[3] = j.flags /\ k[4] = j.hook
        /\ k[5] = <<j.source, j.headers>>
    BY KeyParts
  <2> QED
    BY <2>1, <2>2
<1>2. i.source = j.source /\ i.headers = j.headers
  BY <1>1
<1> QED
  BY <1>1, <1>2 DEF Images

-----------------------------------------------------------------------------
(* The options in effect leave nothing open.                                  *)
LEMMA AskedTyped ==
    ASSUME NEW o \in Asked
    PROVE  /\ o.optimize_level \in STRING
           /\ o.optimize_level # "--warn-on-spills"
           /\ o.fast_math \in BOOLEAN
           /\ o.check_no_spills \in BOOLEAN
           /\ o.post_hook \in Hooks \cup {Unset}
           /\ o.nvcc_flags \in Seq(STRING)
           /\ o.extra_nvcc_flags \in Seq(STRING)
<1>1. PICK over \in Overrides : o = OverrideWith(over)
  BY DEF Asked
<1>2. /\ "optimize_level" \in OptionFields /\ "fast_math" \in OptionFields
      /\ "check_no_spills" \in OptionFields /\ "post_hook" \in OptionFields
      /\ "nvcc_flags" \in OptionFields /\ "extra_nvcc_flags" \in OptionFields
  BY DEF OptionFields
<1>3. /\ o.optimize_level = IF over.optimize_level = Unset THEN Defaults.optimize_level ELSE over.optimize_level
      /\ o.fast_math = IF over.fast_math = Unset THEN Defaults.fast_math ELSE over.fast_math
      /\ o.check_no_spills = IF over.check_no_spills = Unset THEN Defaults.check_no_spills ELSE over.check_no_spills
      /\ o.post_hook = IF over.post_hook = Unset THEN Defaults.post_hook ELSE over.post_hook
      /\ o.nvcc_flags = IF over.nvcc_flags = Unset THEN Defaults.nvcc_flags ELSE over.nvcc_flags
      /\ o.extra_nvcc_flags = Defaults.extra_nvcc_flags \o over.extra_nvcc_flags
  BY <1>1, <1>2 DEF OverrideWith
<1>4. /\ Defaults.optimize_level # Unset /\ Defaults.fast_math # Unset
      /\ Defaults.check_no_spills # Unset /\ Defaults.nvcc_flags # Unset
  BY <1>2, CompileAssumption
<1>5. \A x \in {over, Defaults} :
        /\ x.optimize_level # Unset =>
              x.optimize_level \in STRING \ {"--warn-on-spills"}
        /\ x.fast_math # Unset => x.fast_math \in BOOLEAN
        /\ x.check_no_spills # Unset => x.check_no_spills \in BOOLEAN
        /\ x.post_hook \in Hooks \cup {Unset}
        /\ x.extra_nvcc_flags \in Seq(STRING)
        /\ x.nvcc_flags # Unset => x.nvcc_flags \in Seq(STRING)
  BY CompileAssumption
<1>6. /\ o.optimize_level \in STRING
      /\ o.optimize_level # "--warn-on-spills"
  BY <1>3, <1>4, <1>5
<1>7. o.fast_math \in BOOLEAN
  BY <1>3, <1>4, <1>5
<1>8. o.check_no_spills \in BOOLEAN
  BY <1>3, <1>4, <1>5
<1>9. o.nvcc_flags \in Seq(STRING)
  BY <1>3, <1>4, <1>5
<1>10. o.post_hook \in Hooks \cup {Unset}
  BY <1>3, <1>5
<1>11. o.extra_nvcc_flags \in Seq(STRING)
  BY <1>3, <1>5, ConcatProperties
<1> QED
  BY <1>6, <1>7, <1>8, <1>9, <1>10, <1>11

(* Whether a flag is in a list is told part by part.                          *)
LEMMA ConcatChecks ==
    ASSUME NEW S, NEW a \in Seq(S), NEW b \in Seq(S)
    PROVE  /\ a \o b \in Seq(S)
           /\ Warns(a \o b) <=> Warns(a) \/ Warns(b)
<1>1. /\ a \o b \in Seq(S)
      /\ Len(a) \in Nat /\ Len(b) \in Nat
      /\ Len(a \o b) = Len(a) + Len(b)
      /\ DOMAIN a = 1 .. Len(a) /\ DOMAIN b = 1 .. Len(b)
      /\ DOMAIN (a \o b) = 1 .. Len(a) + Len(b)
  BY ConcatProperties, LenProperties
<1>2. \A n \in 1 .. Len(a) + Len(b) :
         (a \o b)[n] = IF n <= Len(a) THEN a[n] ELSE b[n - Len(a)]
  BY ConcatProperties
<1>3. ASSUME Warns(a \o b) PROVE Warns(a) \/ Warns(b)
  <2>1. PICK n \in 1 .. Len(a) + Len(b) : (a \o b)[n] = "--warn-on-spills"
    BY <1>1, <1>3 DEF Warns
  <2>2. CASE n <= Len(a)
    BY <1>1, <1>2, <2>1, <2>2 DEF Warns
  <2>3. CASE ~(n <= Len(a))
    <3>1. n - Len(a) \in DOMAIN b /\ b[n - Len(a)] = "--warn-on-spills"
      BY <1>1, <1>2, <2>1, <2>3
    <3> QED
      BY <3>1 DEF Warns
  <2> QED
    BY <2>2, <2>3
<1>4. ASSUME Warns(a) PROVE Warns(a \o b)
  <2>1. PICK n \in 1 .. Len(a) : a[n] = "--warn-on-spills"
    BY <1>1, <1>4 DEF Warns
  <2>2. n \in 1 .. Len(a) + Len(b) /\ (a \o b)[n] = "--warn-on-spills"
    BY <1>1, <1>2, <2>1
  <2> QED
    BY <1>1, <2>2 DEF Warns
<1>5. ASSUME Warns(b) PROVE Warns(a \o b)
  <2>1. PICK n \in 1 .. Len(b) : b[n] = "--warn-on-spills"
    BY <1>1, <1>5 DEF Warns
  <2>2. /\ n + Len(a) \in 1 .. Len(a) + Len(b) /\ ~(n + Len(a) <= Len(a))
        /\ (n + Len(a)) - Len(a) = n
    BY <1>1, <2>1
  <2>3. (a \o b)[n + Len(a)] = "--warn-on-spills"
    BY <1>2, <2>1, <2>2
  <2> QED
    BY <1>1, <2>2, <2>3 DEF Warns
<1> QED
  BY <1>1, <1>3, <1>4, <1>5

LEMMA OneFlag ==
    ASSUME NEW S, NEW flag \in S
    PROVE  /\ <<flag>> \in Seq(S) /\ <<>> \in Seq(S)
           /\ Warns(<<flag>>) <=> flag = "--warn-on-spills"
           /\ ~Warns(<<>>)
<1>1. DOMAIN <<flag>> = {1} /\ <<flag>>[1] = flag /\ <<flag>> \in Seq(S) /\ <<>> \in Seq(S)
  OBVIOUS
<1>2. ~Warns(<<>>)
  BY DEF Warns
<1>3. Warns(<<flag>>) <=> flag = "--warn-on-spills"
  BY <1>1 DEF Warns
<1> QED
  BY <1>1, <1>2, <1>3

(* The flags ask for the warning when the options check for spills, or when   *)
(* one of the free-form lists has the flag.                                   *)
LEMMA FlagsTellChecks ==
    ASSUME NEW o \in Asked
    PROVE  Warns(Flags(o)) <=> o.check_no_spills \/ Spelled(o)
<1> DEFINE S == STRING \cup {"--use_fast_math", "--warn-on-spills"}
           a == <<o.optimize_level>>
           b == When(o.fast_math, "--use_fast_math")
           c == When(o.check_no_spills, "--warn-on-spills")
           n == o.nvcc_flags
           x == o.extra_nvcc_flags
<1>1. /\ o.optimize_level \in S /\ "--use_fast_math" \in S /\ "--warn-on-spills" \in S
      /\ "--use_fast_math" # "--warn-on-spills"
      /\ o.fast_math \in BOOLEAN /\ o.check_no_spills \in BOOLEAN
      /\ o.optimize_level # "--warn-on-spills"
  BY AskedTyped
<1>2. n \in Seq(S) /\ x \in Seq(S)
  <2>1. STRING \subseteq S
    OBVIOUS
  <2> QED
    BY <2>1, AskedTyped, SeqMonotonic
<1> HIDE DEF S
<1>3. a \in Seq(S) /\ ~Warns(a)
  BY <1>1, OneFlag
<1>4. b \in Seq(S) /\ ~Warns(b)
  BY <1>1, OneFlag DEF When
<1>5. c \in Seq(S) /\ (Warns(c) <=> o.check_no_spills)
  <2>1. CASE o.check_no_spills
    BY <1>1, <2>1, OneFlag DEF When
  <2>2. CASE ~o.check_no_spills
    BY <1>1, <2>2, OneFlag DEF When
  <2> QED
    BY <2>1, <2>2
<1>6. Flags(o) = a \o b \o c \o n \o x
  BY DEF Flags
<1>7. Spelled(o) <=> ~o.check_no_spills /\ Warns(n \o x)
  BY DEF Spelled
<1> HIDE DEF a, b, c, n, x
<1>8. a \o b \in Seq(S) /\ ~Warns(a \o b)
  BY <1>3, <1>4, ConcatChecks
<1>9. a \o b \o c \in Seq(S) /\ (Warns(a \o b \o c) <=> o.check_no_spills)
  BY <1>5, <1>8, ConcatChecks
<1>10. /\ a \o b \o c \o n \in Seq(S)
       /\ Warns(a \o b \o c \o n) <=> o.check_no_spills \/ Warns(n)
  BY <1>2, <1>9, ConcatChecks
<1>11. Warns((a \o b \o c \o n) \o x) <=> Warns(a \o b \o c \o n) \/ Warns(x)
  BY <1>2, <1>10, ConcatChecks
<1>12. Warns(n \o x) <=> Warns(n) \/ Warns(x)
  BY <1>2, ConcatChecks
<1> QED
  BY <1>6, <1>7, <1>10, <1>11, <1>12

-----------------------------------------------------------------------------
(* What a build makes of a request.                                           *)
LEMMA BuiltTyped ==
    ASSUME TypeOK, NEW r \in Requests
    PROVE  /\ Built(r) \in Images /\ Compiled(r) \in Images
           /\ ~Refused(r) => Passed(Built(r))
           /\ r.options.post_hook = Unset => Built(r) = Compiled(r)
<1>1. /\ r.source \in Sources /\ r.options \in Asked
      /\ world.headers \in Versions /\ world.compiler \in Versions /\ world.deps \in Versions
      /\ world.hooks \in [Hooks -> Versions]
  BY DEF TypeOK, Requests
<1>2. HookApplied(r.options) \in {<<>>} \cup (Hooks \X Versions)
  BY <1>1, AskedTyped DEF HookApplied
<1>3. Compiled(r) \in Images
  BY <1>1 DEF Compiled, Images
<1>4. Built(r) \in Images
  BY <1>2, <1>3 DEF Built, Images
<1>5. Built(r).flags = Flags(r.options) /\ Built(r).source = r.source
  BY <1>3 DEF Built, Compiled, Images
<1>6. ~Refused(r) => Passed(Built(r))
  BY <1>1, <1>5 DEF Passed, Refused
<1>7. ASSUME r.options.post_hook = Unset PROVE Built(r) = Compiled(r)
  BY <1>7 DEF Built, Compiled, HookApplied
<1> QED
  BY <1>3, <1>4, <1>6, <1>7

(* The key computed for a call, from digests remembered by the runtime, the   *)
(* include parser and the thread, is that of what a build would make of it.   *)
LEMMA KeyOfCall ==
    ASSUME TypeOK, FilesInv, phase = "up",
           NEW t \in Threads, NEW tag \in Tags, NEW source \in Sources, NEW o \in Asked
    PROVE  /\ CacheKey(t, source, o) =
                KeyOf(Built([tag |-> tag, source |-> source, options |-> o]))
           /\ PostHookHash(t, o) = HookApplied(o)
           /\ HeadersNow = world.headers
<1> DEFINE r == [tag |-> tag, source |-> source, options |-> o]
<1>1. base = Update(Update(<<>>, world.deps), world.compiler)
  BY DEF FilesInv
<1>2. HeadersNow = world.headers
  BY DEF TypeOK, HeadersNow
<1>3. PostHookHash(t, o) = HookApplied(o)
  BY DEF FilesInv, PostHookHash, HookApplied
<1>4. r \in Requests
  BY DEF Requests
<1>5. /\ Built(r).deps = world.deps /\ Built(r).compiler = world.compiler
      /\ Built(r).flags = Flags(o) /\ Built(r).hook = HookApplied(o)
      /\ Built(r).source = source /\ Built(r).headers = world.headers
  BY DEF Built, Compiled
<1>6. CacheKey(t, source, o) =
        Update(Update(Update(Update(Update(<<>>, world.deps), world.compiler),
                             Flags(o)), HookApplied(o)), <<source, world.headers>>)
  BY <1>1, <1>2, <1>3 DEF CacheKey
<1> QED
  BY <1>2, <1>3, <1>5, <1>6 DEF KeyOf

(* An image with the key of a request is what that request would build.       *)
LEMMA ImageOfRequest ==
    ASSUME TypeOK, NEW r \in Requests, NEW i \in Images, KeyOf(i) = KeyOf(Built(r))
    PROVE  i = Built(r)
BY BuiltTyped, KeyInjective

-----------------------------------------------------------------------------
(* The invariant, step by step.                                               *)
LEMMA InitInvariant == Init => IInv
<1> SUFFICES ASSUME Init PROVE IInv
  OBVIOUS
<1>1. 1 \in Versions /\ 0 \in 0 .. MaxEdits /\ 0 \in 0 .. MaxCalls
  BY CompileAssumption DEF Versions
<1>2. DOMAIN Empty = {}
  BY DEF Empty
<1>3. TypeOK
  BY <1>1, <1>2 DEF Init, TypeOK, Labels
<1>4. FilesInv /\ EntryInv /\ CallInv
  BY <1>2 DEF Init, FilesInv, EntryInv, CallInv, CallOf, Active
<1> QED
  BY <1>3, <1>4 DEF IInv

(* Stopping, starting and editing: every thread is idle.                      *)
LEMMA RestingCalls ==
    ASSUME \A t \in Threads : pc'[t] = "idle" /\ got'[t] = Unset
    PROVE  CallInv'
BY DEF CallInv, CallOf, Active

LEMMA RestingBefore ==
    ASSUME IInv, phase # "up"
    PROVE  \A t \in Threads : pc[t] = "idle" /\ got[t] = Unset
BY DEF IInv, CallInv, CallOf, Active

LEMMA KeepsStartProcess ==
    ASSUME IInv, StartProcess
    PROVE  IInv'
<1> USE DEF IInv, StartProcess
<1>1. DOMAIN Empty = {}
  BY DEF Empty
<1>2. TypeOK'
  BY <1>1 DEF TypeOK
<1>3. FilesInv'
  BY <1>1 DEF FilesInv
<1>4. EntryInv'
  BY DEF EntryInv
<1>5. CallInv'
  BY RestingBefore, RestingCalls
<1> QED
  BY <1>2, <1>3, <1>4, <1>5

LEMMA KeepsStartRuntime ==
    ASSUME IInv, StartRuntime
    PROVE  IInv'
<1> USE DEF IInv, StartRuntime
<1>1. DOMAIN Empty = {}
  BY DEF Empty
<1>2. TypeOK'
  BY <1>1 DEF TypeOK
<1>3. FilesInv'
  BY DEF FilesInv
<1>4. EntryInv'
  BY <1>1 DEF EntryInv
<1>5. CallInv'
  BY RestingBefore, RestingCalls
<1> QED
  BY <1>2, <1>3, <1>4, <1>5

LEMMA KeepsStopRuntime ==
    ASSUME IInv, StopRuntime
    PROVE  IInv'
<1> USE DEF IInv, StopRuntime, Forget
<1>1. DOMAIN Empty = {}
  BY DEF Empty
<1>2. TypeOK'
  BY <1>1 DEF TypeOK, Labels
<1>3. FilesInv'
  BY DEF FilesInv
<1>4. EntryInv'
  BY <1>1 DEF EntryInv
<1>5. CallInv'
  BY RestingCalls
<1> QED
  BY <1>2, <1>3, <1>4, <1>5

LEMMA KeepsStopProcess ==
    ASSUME IInv, StopProcess
    PROVE  IInv'
<1> USE DEF IInv, StopProcess, Forget
<1>1. DOMAIN Empty = {}
  BY DEF Empty
<1>2. TypeOK'
  BY <1>1 DEF TypeOK, Labels
<1>3. FilesInv'
  BY <1>1 DEF FilesInv
<1>4. EntryInv'
  BY <1>1 DEF EntryInv
<1>5. CallInv'
  BY RestingCalls
<1> QED
  BY <1>2, <1>3, <1>4, <1>5

LEMMA KeepsEditFiles ==
    ASSUME IInv, EditFiles
    PROVE  IInv'
<1> USE DEF IInv
<1>1. PICK f \in {"headers", "compiler", "deps"}, v \in Versions :
         world' = [world EXCEPT ![f] = v]
  BY DEF EditFiles
<1>2. /\ phase # "up" /\ edits' \in 0 .. MaxEdits
      /\ UNCHANGED <<phase, base, headers, hashes, mem, disk, pc, req, key, dir, got, calls>>
  BY CompileAssumption DEF EditFiles, TypeOK
<1>3. /\ world' \in [headers: Versions, compiler: Versions, deps: Versions,
                     hooks: [Hooks -> Versions]]
      /\ world'.hooks = world.hooks
  BY <1>1 DEF TypeOK
<1>4. base = <<>> /\ headers = Unset
  BY <1>2 DEF FilesInv
<1>5. TypeOK'
  BY <1>2, <1>3, <1>4 DEF TypeOK
<1>6. FilesInv'
  BY <1>2, <1>3 DEF FilesInv
<1>7. EntryInv'
  BY <1>2 DEF EntryInv
<1>8. CallInv'
  BY <1>2, RestingBefore, RestingCalls
<1> QED
  BY <1>5, <1>6, <1>7, <1>8

LEMMA KeepsEditHook ==
    ASSUME IInv, EditHook
    PROVE  IInv'
<1> USE DEF IInv
<1>1. PICK h \in Hooks, v \in Versions : world' = [world EXCEPT !.hooks[h] = v]
  BY DEF EditHook
<1>2. /\ phase = "down" /\ edits' \in 0 .. MaxEdits
      /\ UNCHANGED <<phase, base, headers, hashes, mem, disk, pc, req, key, dir, got, calls>>
  BY CompileAssumption DEF EditHook, TypeOK
<1>3. world' \in [headers: Versions, compiler: Versions, deps: Versions,
                  hooks: [Hooks -> Versions]]
  BY <1>1 DEF TypeOK
<1>4. base = <<>> /\ headers = Unset
  BY <1>2 DEF FilesInv
<1>5. TypeOK'
  BY <1>2, <1>3, <1>4 DEF TypeOK
<1>6. FilesInv'
  BY <1>2, <1>4 DEF FilesInv
<1>7. EntryInv'
  BY <1>2 DEF EntryInv
<1>8. CallInv'
  BY <1>2, RestingBefore, RestingCalls
<1> QED
  BY <1>5, <1>6, <1>7, <1>8

(* What a build makes of a request changes with the files only.               *)
LEMMA SameFiles ==
    ASSUME UNCHANGED world
    PROVE  \A r : /\ Built(r)' = Built(r)
                  /\ Compiled(r)' = Compiled(r)
                  /\ Refused(r)' = Refused(r)
BY DEF Built, Compiled, Refused, HookApplied

(* A step that only adds entries to the disk leaves the calls of the threads  *)
(* that do not take it as they are.                                           *)
LEMMA CallKept ==
    ASSUME UNCHANGED <<world, phase>>, DOMAIN disk \subseteq DOMAIN disk',
           \A k \in DOMAIN disk : disk'[k] = disk[k],
           NEW t \in Threads, CallOf(t),
           pc'[t] = pc[t], req'[t] = req[t], key'[t] = key[t],
           dir'[t] = dir[t], got'[t] = got[t]
    PROVE  CallOf(t)'
<1>1. /\ Built(req[t])' = Built(req[t]) /\ Compiled(req[t])' = Compiled(req[t])
      /\ Refused(req[t])' = Refused(req[t])
  BY DEF Built, Compiled, Refused, HookApplied
<1> QED
  BY <1>1 DEF CallOf, Active, KeyOf, EntryName, Passed

-----------------------------------------------------------------------------
(* A call: the options in effect, the key, the look into memory.              *)
LEMMA KeepsCall ==
    ASSUME IInv, NEW t \in Threads, NEW tag \in Tags, NEW source \in Sources,
           NEW over \in Overrides, Call(t, tag, source, over)
    PROVE  IInv'
<1> DEFINE o == OverrideWith(over)
           r == [tag |-> tag, source |-> source, options |-> o]
           k == CacheKey(t, source, o)
<1>1. TypeOK /\ FilesInv /\ EntryInv /\ CallInv
  BY DEF IInv
<1>2. /\ phase = "up" /\ pc[t] = "idle" /\ calls' \in 0 .. MaxCalls
      /\ req' = [req EXCEPT ![t] = r] /\ key' = [key EXCEPT ![t] = k]
      /\ headers' = HeadersNow
      /\ hashes' = IF o.post_hook = Unset THEN hashes
                   ELSE [hashes EXCEPT ![t] = Emplace(@, o.post_hook, PostHookHash(t, o))]
      /\ UNCHANGED <<world, phase, base, mem, disk, dir, edits>>
  BY <1>1, CompileAssumption DEF Call, TypeOK
<1>3. \/ k \in DOMAIN mem /\ got' = [got EXCEPT ![t] = mem[k].image] /\ UNCHANGED pc
      \/ got' = [got EXCEPT ![t] = Unset] /\ pc' = [pc EXCEPT ![t] = "lookup"]
  BY DEF Call
<1>4. o \in Asked /\ r \in Requests
  BY DEF Asked, Requests
<1>5. /\ k = KeyOf(Built(r)) /\ PostHookHash(t, o) = HookApplied(o)
      /\ HeadersNow = world.headers
  BY <1>1, <1>2, <1>4, KeyOfCall
<1>6. k \in Keys
  BY <1>1, <1>4, <1>5, BuiltTyped DEF Keys
<1>7. o.post_hook # Unset => o.post_hook \in Hooks
  BY <1>4, AskedTyped
<1> HIDE DEF o, k
<1>8. \A d \in Threads : /\ DOMAIN hashes'[d] \subseteq Hooks
                         /\ \A h \in DOMAIN hashes'[d] : hashes'[d][h] = <<h, world.hooks[h]>>
  <2>1. \A d \in Threads : /\ DOMAIN hashes[d] \subseteq Hooks
                           /\ \A h \in DOMAIN hashes[d] : hashes[d][h] = <<h, world.hooks[h]>>
    BY <1>1 DEF TypeOK, FilesInv
  <2>2. CASE o.post_hook = Unset
    BY <1>2, <2>1, <2>2
  <2>3. CASE o.post_hook # Unset
    <3>1. hashes' = [hashes EXCEPT ![t] = Emplace(hashes[t], o.post_hook, PostHookHash(t, o))]
      BY <1>2, <2>3
    <3>2. /\ \A d \in Threads \ {t} : hashes'[d] = hashes[d]
          /\ hashes'[t] = Emplace(hashes[t], o.post_hook, PostHookHash(t, o))
      BY <1>1, <3>1 DEF TypeOK
    <3>3. /\ DOMAIN hashes'[t] = DOMAIN hashes[t] \cup {o.post_hook}
          /\ \A h \in DOMAIN hashes[t] : hashes'[t][h] = hashes[t][h]
          /\ o.post_hook \notin DOMAIN hashes[t] => hashes'[t][o.post_hook] = PostHookHash(t, o)
      BY <3>2 DEF Emplace, Put
    <3>4. PostHookHash(t, o) = <<o.post_hook, world.hooks[o.post_hook]>>
      BY <1>5, <2>3 DEF HookApplied
    <3>5. /\ DOMAIN hashes'[t] \subseteq Hooks
          /\ \A h \in DOMAIN hashes'[t] : hashes'[t][h] = <<h, world.hooks[h]>>
      BY <1>7, <2>1, <2>3, <3>3, <3>4
    <3> QED
      BY <2>1, <3>2, <3>5
  <2> QED
    BY <2>2, <2>3
<1>9. k \in DOMAIN mem => /\ mem[k].image \in Images /\ Passed(mem[k].image)
                         /\ mem[k].image = Built(r)
  <2>1. ASSUME k \in DOMAIN mem
        PROVE  mem[k].image \in Images /\ Passed(mem[k].image) /\ k = KeyOf(mem[k].image)
    BY <1>1, <2>1 DEF EntryInv
  <2> QED
    BY <1>1, <1>4, <1>5, <2>1, ImageOfRequest
<1>10. TypeOK'
  <2>1. /\ req' \in [Threads -> Requests \cup {NoRequest}]
        /\ key' \in [Threads -> Keys \cup {<<>>}]
    BY <1>1, <1>2, <1>4, <1>6 DEF TypeOK
  <2>2. /\ pc' \in [Threads -> Labels]
        /\ got' \in [Threads -> Images \cup {Unset}]
    BY <1>1, <1>3, <1>9 DEF TypeOK, Labels
  <2>3. DOMAIN hashes' = Threads /\ hashes' = [d \in Threads |-> hashes'[d]]
    BY <1>1, <1>2 DEF TypeOK
  <2>4. headers' = world'.headers
    BY <1>2, <1>5
  <2> QED
    BY <1>1, <1>2, <1>8, <2>1, <2>2, <2>3, <2>4 DEF TypeOK
<1>11. FilesInv'
  BY <1>1, <1>2, <1>8 DEF FilesInv
<1>12. EntryInv'
  BY <1>1, <1>2 DEF EntryInv
<1>13. CallInv'
  <2>1. ASSUME NEW d \in Threads \ {t} PROVE CallOf(d)'
    <3>1. /\ pc'[d] = pc[d] /\ req'[d] = req[d] /\ key'[d] = key[d] /\ dir'[d] = dir[d]
          /\ got'[d] = got[d]
      BY <1>1, <1>2, <1>3 DEF TypeOK
    <3> QED
      BY <1>1, <1>2, <3>1, CallKept DEF CallInv
  <2>2. CallOf(t)'
    <3>1. req'[t] = r /\ key'[t] = k
      BY <1>1, <1>2 DEF TypeOK
    <3>2. Built(req[t])' = Built(r)
      BY <1>2, <3>1 DEF Built, Compiled, HookApplied
    <3>3. key'[t] = KeyOf(Built(req[t]))'
      BY <1>5, <3>1, <3>2 DEF KeyOf
    <3>a. got'[t] # Unset => got'[t] = Built(req[t])' /\ Passed(got[t])'
      <4>1. got'[t] # Unset => got'[t] = Built(r) /\ Passed(got'[t])
        BY <1>1, <1>2, <1>3, <1>9 DEF TypeOK
      <4> QED
        BY <3>2, <4>1 DEF Passed
    <3>4. \/ pc'[t] = "idle" /\ k \in DOMAIN mem /\ got'[t] = mem[k].image
          \/ pc'[t] = "lookup" /\ got'[t] = Unset
      BY <1>1, <1>2, <1>3 DEF TypeOK
    <3> QED
      BY <1>2, <1>4, <3>1, <3>3, <3>4, <3>a DEF CallOf, Active
  <2> QED
    BY <2>1, <2>2 DEF CallInv
<1> QED
  BY <1>10, <1>11, <1>12, <1>13 DEF IInv

-----------------------------------------------------------------------------
(* What every step of a call in progress leaves alone, and what it may not    *)
(* disturb.                                                                   *)
StepFrame(t) ==
    /\ UNCHANGED <<world, phase, base, headers, hashes, req, key, edits, calls>>
    /\ \A d \in Threads \ {t} : pc'[d] = pc[d] /\ dir'[d] = dir[d] /\ got'[d] = got[d]
    /\ pc' \in [Threads -> Labels]
    /\ dir' \in [Threads -> Images \cup {Unset}]
    /\ got' \in [Threads -> Images \cup {Unset}]

LEMMA CallStepKeeps ==
    ASSUME IInv, NEW t \in Threads, StepFrame(t),
           DOMAIN disk' \subseteq Tags \X Keys, DOMAIN mem' \subseteq Keys,
           DOMAIN disk \subseteq DOMAIN disk', \A k \in DOMAIN disk : disk'[k] = disk[k],
           EntryInv', CallOf(t)'
    PROVE  IInv'
<1>1. TypeOK'
  BY DEF IInv, TypeOK, StepFrame
<1>2. FilesInv'
  BY DEF IInv, FilesInv, StepFrame
<1>3. ASSUME NEW d \in Threads \ {t} PROVE CallOf(d)'
  BY <1>3, CallKept DEF IInv, CallInv, StepFrame
<1>4. CallInv'
  BY <1>3 DEF CallInv
<1> QED
  BY <1>1, <1>2, <1>4 DEF IInv

(* What is known of the thread that takes a step.                             *)
LEMMA CallFacts ==
    ASSUME IInv, NEW t \in Threads, pc[t] # "idle"
    PROVE  /\ phase = "up" /\ req[t] \in Requests
           /\ key[t] = KeyOf(Built(req[t])) /\ key[t] \in Keys
           /\ CallOf(t) /\ TypeOK /\ EntryInv
<1>1. CallOf(t) /\ TypeOK /\ EntryInv
  BY DEF IInv, CallInv
<1> QED
  BY <1>1, BuiltTyped DEF CallOf, Active, Keys

(* The look into the disk cache.                                              *)
LEMMA KeepsLookup ==
    ASSUME IInv, NEW t \in Threads, Lookup(t)
    PROVE  IInv'
<1>0. pc[t] # "idle"
  BY DEF Lookup
<1>1. /\ phase = "up" /\ req[t] \in Requests
      /\ key[t] = KeyOf(Built(req[t])) /\ key[t] \in Keys
      /\ CallOf(t) /\ TypeOK /\ EntryInv
  BY <1>0, CallFacts
<1>2. StepFrame(t) /\ UNCHANGED <<mem, disk, dir, got>>
  BY <1>1 DEF Lookup, Goto, StepFrame, TypeOK, Labels
<1>3. pc'[t] \in {"load", "nvcc"} /\ (pc'[t] = "load" => EntryName(t) \in DOMAIN disk)
  BY <1>1 DEF Lookup, Goto, TypeOK
<1>c. EntryInv'
  BY <1>1, <1>2 DEF EntryInv
<1>7. /\ Built(req[t])' = Built(req[t]) /\ Compiled(req[t])' = Compiled(req[t])
      /\ Refused(req[t])' = Refused(req[t])
  BY <1>2 DEF StepFrame, Built, Compiled, Refused, HookApplied
<1>8. KeyOf(Built(req[t]))' = KeyOf(Built(req[t]))
  BY <1>7 DEF KeyOf
<1>9. CallOf(t)'
  BY <1>0, <1>1, <1>7, <1>8, <1>2, <1>3 DEF CallOf, Active, StepFrame, Lookup, EntryName
<1>10. /\ DOMAIN disk' \subseteq Tags \X Keys /\ DOMAIN mem' \subseteq Keys
       /\ DOMAIN disk \subseteq DOMAIN disk' /\ \A k \in DOMAIN disk : disk'[k] = disk[k]
  BY <1>1, <1>2 DEF TypeOK
<1>11. StepFrame(t)
  BY <1>2
<1> QED
  BY <1>c, <1>9, <1>10, <1>11, CallStepKeeps

(* The compiler's output goes to the directory of the entry.                  *)
LEMMA KeepsNvcc ==
    ASSUME IInv, NEW t \in Threads, Nvcc(t)
    PROVE  IInv'
<1>0. pc[t] # "idle"
  BY DEF Nvcc
<1>1. /\ phase = "up" /\ req[t] \in Requests
      /\ key[t] = KeyOf(Built(req[t])) /\ key[t] \in Keys
      /\ CallOf(t) /\ TypeOK /\ EntryInv
  BY <1>0, CallFacts
<1>2. dir' = [dir EXCEPT ![t] = Compiled(req[t])] /\ ~Refused(req[t])
  BY DEF Nvcc
<1>a. Compiled(req[t]) \in Images
  BY <1>1, BuiltTyped
<1>3. StepFrame(t) /\ UNCHANGED <<mem, disk, got>>
  BY <1>1, <1>2, <1>a DEF Nvcc, Goto, StepFrame, TypeOK, Labels
<1>4. /\ dir'[t] = Compiled(req[t])
      /\ pc'[t] = IF req[t].options.post_hook = Unset THEN "dump" ELSE "hook"
  BY <1>1, <1>2 DEF Nvcc, Goto, TypeOK
<1>b. pc'[t] = "dump" => dir'[t] = Built(req[t])
  BY <1>1, <1>4, BuiltTyped
<1>c. EntryInv'
  BY <1>1, <1>3 DEF EntryInv
<1>7. /\ Built(req[t])' = Built(req[t]) /\ Compiled(req[t])' = Compiled(req[t])
      /\ Refused(req[t])' = Refused(req[t])
  BY <1>3 DEF StepFrame, Built, Compiled, Refused, HookApplied
<1>8. KeyOf(Built(req[t]))' = KeyOf(Built(req[t]))
  BY <1>7 DEF KeyOf
<1>9. CallOf(t)'
  BY <1>0, <1>1, <1>7, <1>8, <1>2, <1>3, <1>4, <1>b DEF CallOf, Active, StepFrame, Nvcc
<1>10. /\ DOMAIN disk' \subseteq Tags \X Keys /\ DOMAIN mem' \subseteq Keys
       /\ DOMAIN disk \subseteq DOMAIN disk' /\ \A k \in DOMAIN disk : disk'[k] = disk[k]
  BY <1>1, <1>3 DEF TypeOK
<1>11. StepFrame(t)
  BY <1>3
<1> QED
  BY <1>c, <1>9, <1>10, <1>11, CallStepKeeps

(* The hook turns the compiler's output into what the request asks for.       *)
LEMMA KeepsRunHook ==
    ASSUME IInv, NEW t \in Threads, RunHook(t)
    PROVE  IInv'
<1>0. pc[t] # "idle"
  BY DEF RunHook
<1>1. /\ phase = "up" /\ req[t] \in Requests
      /\ key[t] = KeyOf(Built(req[t])) /\ key[t] \in Keys
      /\ CallOf(t) /\ TypeOK /\ EntryInv
  BY <1>0, CallFacts
<1>2. dir' = [dir EXCEPT ![t].hook = HookApplied(req[t].options)] /\ pc' = [pc EXCEPT ![t] = "dump"]
  BY DEF RunHook, Goto
<1>3. dir[t] = Compiled(req[t]) /\ ~Refused(req[t])
  BY <1>1 DEF RunHook, CallOf
<1>4. dir'[t] = [dir[t] EXCEPT !.hook = HookApplied(req[t].options)] /\ pc'[t] = "dump"
  BY <1>1, <1>2 DEF TypeOK
<1>a. dir'[t] = Built(req[t])
  BY <1>3, <1>4 DEF Built
<1>5. \A d \in Threads \ {t} : dir'[d] = dir[d]
  BY <1>1, <1>2 DEF TypeOK
<1>6. dir' \in [Threads -> Images \cup {Unset}]
  <2>1. Built(req[t]) \in Images
    BY <1>1, BuiltTyped
  <2>2. dir' = [d \in Threads |-> dir'[d]]
    BY <1>1, <1>2 DEF TypeOK
  <2>3. \A d \in Threads : dir'[d] \in Images \cup {Unset}
    BY <1>1, <1>a, <1>5, <2>1 DEF TypeOK
  <2> QED
    BY <2>2, <2>3
<1>b. StepFrame(t) /\ UNCHANGED <<mem, disk, got>>
  BY <1>1, <1>2, <1>5, <1>6 DEF RunHook, StepFrame, TypeOK, Labels
<1>c. EntryInv'
  BY <1>1, <1>b DEF EntryInv
<1>7. /\ Built(req[t])' = Built(req[t]) /\ Compiled(req[t])' = Compiled(req[t])
      /\ Refused(req[t])' = Refused(req[t])
  BY <1>b DEF StepFrame, Built, Compiled, Refused, HookApplied
<1>8. KeyOf(Built(req[t]))' = KeyOf(Built(req[t]))
  BY <1>7 DEF KeyOf
<1>9. CallOf(t)'
  BY <1>0, <1>1, <1>7, <1>8, <1>3, <1>4, <1>a, <1>b DEF CallOf, Active, StepFrame, RunHook
<1>10. /\ DOMAIN disk' \subseteq Tags \X Keys /\ DOMAIN mem' \subseteq Keys
       /\ DOMAIN disk \subseteq DOMAIN disk' /\ \A k \in DOMAIN disk : disk'[k] = disk[k]
  BY <1>1, <1>b DEF TypeOK
<1>11. StepFrame(t)
  BY <1>b
<1> QED
  BY <1>c, <1>9, <1>10, <1>11, CallStepKeeps

(* The entry is published, unless another thread was first.                   *)
LEMMA KeepsPublish ==
    ASSUME IInv, NEW t \in Threads, Publish(t)
    PROVE  IInv'
<1>0. pc[t] # "idle"
  BY DEF Publish
<1>1. /\ phase = "up" /\ req[t] \in Requests
      /\ key[t] = KeyOf(Built(req[t])) /\ key[t] \in Keys
      /\ CallOf(t) /\ TypeOK /\ EntryInv
  BY <1>0, CallFacts
<1> DEFINE e == EntryName(t)
<1>2. disk' = Emplace(disk, e, dir[t])
  BY DEF Publish
<1>3. dir[t] = Built(req[t]) /\ ~Refused(req[t])
  BY <1>1 DEF Publish, CallOf
<1>4. StepFrame(t) /\ UNCHANGED <<mem, got>>
  BY <1>1 DEF Publish, Goto, StepFrame, TypeOK, Labels
<1>a. pc'[t] = "load"
  BY <1>1 DEF Publish, Goto, TypeOK
<1>e. e \in Tags \X Keys /\ e[2] = key[t] /\ EntryName(t)' = e
  BY <1>1, <1>4 DEF EntryName, Requests, StepFrame
<1> HIDE DEF e
<1>5. /\ DOMAIN disk' = DOMAIN disk \cup {e}
      /\ \A n \in DOMAIN disk : disk'[n] = disk[n]
      /\ e \notin DOMAIN disk => disk'[e] = Built(req[t])
  BY <1>2, <1>3 DEF Emplace, Put
<1>6. Built(req[t]) \in Images /\ Passed(Built(req[t])) /\ key[t] = KeyOf(Built(req[t]))
  BY <1>1, <1>3, BuiltTyped
<1>b. EntryInv'
  <2>1. ASSUME NEW n \in DOMAIN disk'
        PROVE  disk'[n] \in Images /\ Passed(disk'[n]) /\ n[2] = KeyOf(disk'[n])
    <3>1. CASE n \in DOMAIN disk
      BY <1>1, <1>5, <3>1 DEF EntryInv
    <3>2. CASE n \notin DOMAIN disk
      BY <1>5, <1>6, <1>e, <3>2
    <3> QED
      BY <3>1, <3>2
  <2>2. \A k \in DOMAIN mem' :
           mem'[k].image \in Images /\ Passed(mem'[k].image) /\ k = KeyOf(mem'[k].image)
    BY <1>1, <1>4 DEF EntryInv
  <2> QED
    BY <2>1, <2>2 DEF EntryInv
<1>7. /\ Built(req[t])' = Built(req[t]) /\ Compiled(req[t])' = Compiled(req[t])
      /\ Refused(req[t])' = Refused(req[t])
  BY <1>4 DEF StepFrame, Built, Compiled, Refused, HookApplied
<1>8. KeyOf(Built(req[t]))' = KeyOf(Built(req[t]))
  BY <1>7 DEF KeyOf
<1>9. CallOf(t)'
  BY <1>0, <1>1, <1>7, <1>8, <1>4, <1>5, <1>a, <1>e DEF CallOf, Active, StepFrame, Publish
<1>10. /\ DOMAIN disk' \subseteq Tags \X Keys /\ DOMAIN mem' \subseteq Keys
       /\ DOMAIN disk \subseteq DOMAIN disk' /\ \A k \in DOMAIN disk : disk'[k] = disk[k]
  BY <1>1, <1>4, <1>5, <1>e DEF TypeOK
<1>11. StepFrame(t)
  BY <1>4
<1> QED
  BY <1>b, <1>9, <1>10, <1>11, CallStepKeeps

(* The kernel loaded is returned, and cached unless another one is.           *)
LEMMA KeepsLoad ==
    ASSUME IInv, NEW t \in Threads, Load(t)
    PROVE  IInv'
<1>0. pc[t] # "idle"
  BY DEF Load
<1>1. /\ phase = "up" /\ req[t] \in Requests
      /\ key[t] = KeyOf(Built(req[t])) /\ key[t] \in Keys
      /\ CallOf(t) /\ TypeOK /\ EntryInv
  BY <1>0, CallFacts
<1> DEFINE i == disk[EntryName(t)]
<1>2. /\ mem' = Emplace(mem, key[t], [image |-> i, by |-> t])
      /\ UNCHANGED disk
  BY DEF Load
<1>3. i \in Images /\ Passed(i) /\ key[t] = KeyOf(i) /\ i = Built(req[t])
  <2>1. EntryName(t) \in DOMAIN disk /\ EntryName(t)[2] = key[t]
    BY <1>1 DEF Load, CallOf, EntryName
  <2>2. i \in Images /\ Passed(i) /\ key[t] = KeyOf(i)
    BY <1>1, <2>1 DEF EntryInv
  <2> QED
    BY <1>1, <2>2, ImageOfRequest
<1>d. got' = [got EXCEPT ![t] = i]
  BY DEF Load
<1> HIDE DEF i
<1>4. StepFrame(t) /\ UNCHANGED dir
  BY <1>1, <1>3, <1>d DEF Load, Goto, StepFrame, TypeOK, Labels
<1>a. pc'[t] = "idle" /\ got'[t] = i
  BY <1>1, <1>d DEF Load, Goto, TypeOK
<1>5. /\ DOMAIN mem' = DOMAIN mem \cup {key[t]}
      /\ \A k \in DOMAIN mem : mem'[k] = mem[k]
      /\ key[t] \notin DOMAIN mem => mem'[key[t]].image = i
  BY <1>2 DEF Emplace, Put
<1>b. EntryInv'
  <2>1. ASSUME NEW k \in DOMAIN mem'
        PROVE  mem'[k].image \in Images /\ Passed(mem'[k].image) /\ k = KeyOf(mem'[k].image)
    <3>1. CASE k \in DOMAIN mem
      BY <1>1, <1>5, <3>1 DEF EntryInv
    <3>2. CASE k \notin DOMAIN mem
      BY <1>3, <1>5, <3>2
    <3> QED
      BY <3>1, <3>2
  <2>2. \A n \in DOMAIN disk' :
           disk'[n] \in Images /\ Passed(disk'[n]) /\ n[2] = KeyOf(disk'[n])
    BY <1>1, <1>2 DEF EntryInv
  <2> QED
    BY <2>1, <2>2 DEF EntryInv
<1>7. /\ Built(req[t])' = Built(req[t]) /\ Compiled(req[t])' = Compiled(req[t])
      /\ Refused(req[t])' = Refused(req[t])
  BY <1>4 DEF StepFrame, Built, Compiled, Refused, HookApplied
<1>8. KeyOf(Built(req[t]))' = KeyOf(Built(req[t]))
  BY <1>7 DEF KeyOf
<1>9. CallOf(t)'
  BY <1>0, <1>1, <1>7, <1>8, <1>2, <1>3, <1>4, <1>a DEF CallOf, Active, StepFrame, Load
<1>10. /\ DOMAIN disk' \subseteq Tags \X Keys /\ DOMAIN mem' \subseteq Keys
       /\ DOMAIN disk \subseteq DOMAIN disk' /\ \A k \in DOMAIN disk : disk'[k] = disk[k]
  BY <1>1, <1>2, <1>5 DEF TypeOK
<1>11. StepFrame(t)
  BY <1>4
<1> QED
  BY <1>b, <1>9, <1>10, <1>11, CallStepKeeps

(* A failure publishes nothing and caches nothing.                            *)
LEMMA KeepsFail ==
    ASSUME IInv, NEW t \in Threads, Fail(t)
    PROVE  IInv'
<1>0. pc[t] # "idle"
  BY DEF Fail
<1>1. /\ phase = "up" /\ req[t] \in Requests
      /\ key[t] = KeyOf(Built(req[t])) /\ key[t] \in Keys
      /\ CallOf(t) /\ TypeOK /\ EntryInv
  BY <1>0, CallFacts
<1>2. StepFrame(t) /\ UNCHANGED <<mem, disk, got>>
  BY <1>1 DEF Fail, Goto, StepFrame, TypeOK, Labels
<1>3. pc'[t] = "idle"
  BY <1>1 DEF Fail, Goto, TypeOK
<1>c. EntryInv'
  BY <1>1, <1>2 DEF EntryInv
<1>7. /\ Built(req[t])' = Built(req[t]) /\ Compiled(req[t])' = Compiled(req[t])
      /\ Refused(req[t])' = Refused(req[t])
  BY <1>2 DEF StepFrame, Built, Compiled, Refused, HookApplied
<1>8. KeyOf(Built(req[t]))' = KeyOf(Built(req[t]))
  BY <1>7 DEF KeyOf
<1>9. CallOf(t)'
  BY <1>0, <1>1, <1>7, <1>8, <1>2, <1>3 DEF CallOf, Active, StepFrame, Fail
<1>10. /\ DOMAIN disk' \subseteq Tags \X Keys /\ DOMAIN mem' \subseteq Keys
       /\ DOMAIN disk \subseteq DOMAIN disk' /\ \A k \in DOMAIN disk : disk'[k] = disk[k]
  BY <1>1, <1>2 DEF TypeOK
<1>11. StepFrame(t)
  BY <1>2
<1> QED
  BY <1>c, <1>9, <1>10, <1>11, CallStepKeeps

-----------------------------------------------------------------------------
LEMMA StepInvariant == IInv /\ [Next]_vars => IInv'
<1> SUFFICES ASSUME IInv, [Next]_vars PROVE IInv'
  OBVIOUS
<1>1. CASE StartProcess
  BY <1>1, KeepsStartProcess
<1>2. CASE StartRuntime
  BY <1>2, KeepsStartRuntime
<1>3. CASE StopRuntime
  BY <1>3, KeepsStopRuntime
<1>4. CASE StopProcess
  BY <1>4, KeepsStopProcess
<1>5. CASE EditFiles
  BY <1>5, KeepsEditFiles
<1>6. CASE EditHook
  BY <1>6, KeepsEditHook
<1>7. ASSUME NEW t \in Threads, CallStep(t) PROVE IInv'
  BY <1>7, KeepsLookup, KeepsNvcc, KeepsRunHook, KeepsPublish, KeepsLoad, KeepsFail
     DEF CallStep
<1>8. ASSUME NEW t \in Threads, NEW g \in Tags, NEW s \in Sources,
             NEW o \in Overrides, Call(t, g, s, o)
      PROVE  IInv'
  BY <1>8, KeepsCall
<1>9. CASE UNCHANGED vars
  <2>1. UNCHANGED <<world, phase, base, headers, hashes, mem, disk, pc, req, key, dir, got, edits, calls>>
    BY <1>9 DEF vars
  <2>2. TypeOK' /\ FilesInv' /\ EntryInv'
    BY <2>1 DEF IInv, TypeOK, FilesInv, EntryInv
  <2>3. CallInv'
    BY <2>1, CallKept DEF IInv, CallInv
  <2> QED
    BY <2>2, <2>3 DEF IInv
<1> QED
  BY <1>1, <1>2, <1>3, <1>4, <1>5, <1>6, <1>7, <1>8, <1>9 DEF Next

(* The invariant: a key says everything about the entry stored under it.      *)
LEMMA Inductive == Spec => []IInv
<1>1. Init => IInv
  BY InitInvariant
<1>2. IInv /\ [Next]_vars => IInv'
  BY StepInvariant
<1> QED
  BY <1>1, <1>2, PTL DEF Spec

(* The variables of the runtime, of its caches and of its calls keep their    *)
(* types: memory holds only keys of images, and disk only those under a tag.  *)
THEOREM TypeCorrect == Spec => []TypeOK
<1>1. IInv => TypeOK
  BY DEF IInv
<1> QED
  BY <1>1, Inductive, PTL

(* What cache_key puts into the key says everything of what CUDA::compile     *)
(* makes: the digest in an entry's name is that of the image in it, and no    *)
(* two images share one, whatever flags the free-form lists hold.  It does    *)
(* not say that the image was checked: some call with these flags let it      *)
(* pass.                                                                      *)
THEOREM KeyTellsEntry == Spec => []EntryInv
<1>1. IInv => EntryInv
  BY DEF IInv
<1> QED
  BY <1>1, Inductive, PTL

(* What Runtime::compile hands out, from memory, from disk or built, is what  *)
(* a build of this request would produce now, and what the request's check of *)
(* spills would let pass unless another call spells that check out in its     *)
(* free-form flags: for any threads, tags, sources, options, edits and        *)
(* restarts.                                                                  *)
THEOREM FreshHits == Spec => []HitIsFresh
<1>1. IInv => HitIsFresh
  <2> SUFFICES ASSUME IInv, NEW t \in Threads, got[t] # Unset
               PROVE  /\ got[t] = Built(req[t])
                      /\ Refused(req[t]) =>
                            \E o \in Asked : Spelled(o) /\ Flags(o) = Flags(req[t].options)
    BY DEF HitIsFresh
  <2>1. TypeOK /\ CallOf(t)
    BY DEF IInv, CallInv
  <2>2. req[t] \in Requests /\ got[t] = Built(req[t]) /\ Passed(got[t])
    BY <2>1 DEF CallOf, Active
  <2>3. got[t].flags = Flags(req[t].options) /\ got[t].source = req[t].source
    BY <2>2 DEF Built, Compiled
  <2>4. ASSUME Refused(req[t])
        PROVE  \E o \in Asked : Spelled(o) /\ Flags(o) = Flags(req[t].options)
    <3>1. /\ req[t].options \in Asked /\ req[t].options.check_no_spills
          /\ req[t].source \in Spilling
      BY <2>2, <2>4 DEF Refused, Requests
    <3>2. PICK o \in Asked : Flags(o) = Flags(req[t].options) /\ ~o.check_no_spills
      BY <2>2, <2>3, <3>1 DEF Passed
    <3>3. Warns(Flags(req[t].options))
      BY <3>1, FlagsTellChecks
    <3>4. Warns(Flags(o))
      BY <3>2, <3>3
    <3>5. Spelled(o)
      BY <3>2, <3>4, FlagsTellChecks
    <3> QED
      BY <3>2, <3>5
  <2> QED
    BY <2>2, <2>4
<1> QED
  BY <1>1, Inductive, PTL

(* Two entries that hold the same artifact have the same digest, since it     *)
(* depends on nothing else: whoever asks for it again under the same tag      *)
(* finds it.                                                                  *)
THEOREM OneDigestPerImage == Spec => []NoDuplicates
<1>1. IInv => NoDuplicates
  BY DEF IInv, EntryInv, NoDuplicates
<1> QED
  BY <1>1, Inductive, PTL

(* MemCache::get_or_create never replaces a kernel: while the runtime lives,  *)
(* the one cached for a key stays, although two threads load it at once.      *)
THEOREM CachedKernels == Spec => CachedKernelStable
<1> DEFINE Stays == phase = "up" /\ phase' = "up" =>
                       \A k \in DOMAIN mem : k \in DOMAIN mem' /\ mem'[k] = mem[k]
<1>1. [Next]_vars => Stays
  <2> SUFFICES ASSUME [Next]_vars, phase = "up", phase' = "up"
               PROVE  \A k \in DOMAIN mem : k \in DOMAIN mem' /\ mem'[k] = mem[k]
    OBVIOUS
  <2>1. UNCHANGED mem \/ \E t \in Threads : Load(t)
    BY DEF Next, vars, StartProcess, StartRuntime, StopRuntime, StopProcess, EditFiles,
           EditHook, Call, CallStep, Lookup, Nvcc, RunHook, Publish, Fail
  <2>2. ASSUME NEW t \in Threads, Load(t)
        PROVE  \A k \in DOMAIN mem : k \in DOMAIN mem' /\ mem'[k] = mem[k]
    BY <2>2 DEF Load, Emplace, Put
  <2> QED
    BY <2>1, <2>2
<1> QED
  BY <1>1, PTL DEF Spec, CachedKernelStable
=============================================================================
