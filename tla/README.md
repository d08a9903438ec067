# A TLA+ verification of DeepJIT

DeepJIT is a header-only JIT runtime for CUDA and Ascend devices: it compiles
kernel source at run time, keeps the artifacts in a disk cache that processes
and machines share, keeps loaded kernels in memory, and launches them.  This
directory models the parts of it where threads, processes, timeouts, edits and crashes
meet, checks them with TLC on small instances, and proves every safety property that
the runs check with TLAPS, for every value of the constants.  Paths below are relative to
`src/include/deep_jit/` unless they start with `src/`.

## 1. Inventory

| Component | Source | State | Operations | Hard part |
| --- | --- | --- | --- | --- |
| I/O executor | `utils/executor.hpp` | `run_lock`, `context`, the worker thread; per context `task`, `done`, `stopped` | `run`, `stop`, `thread_main`, destructor, `run_in_iothread` | a timeout races with completion; the worker is detached, never joined; one condition variable for both sides |
| Disk cache | `cache/disk.hpp` | directories `<root>/cache/<tag>.<digest>` and `<root>/tmp/<uuid>`, `num_timeouts` per root | `entry` (lookup loop, create loop), `commit`, `~DiskCacheEntry`, `report_error` | several processes publish one name; operations go on after their timeout; crashes and power loss |
| Runtime | `runtime/runtime.hpp` | the caches, `hash_base`, defaults, the precompiler | `compile`, `compile_impl`, `compile_without_load`, `cache_key`, `launch` | the retry loop over the roots decides who cleans up what |
| Memory cache | `cache/memory.hpp` | `cache` | `get_or_create` | its factory gives up the GIL between the miss and the insertion |
| Precompiler | `runtime/precompiler.hpp` | `submitted`, `results`, `jobs`, `stopping`, `num_completed` | constructor, `enqueue`, `thread_main`, `finish`, destructor | queue drained at stop, wake-ups, roll-back of a failed push |
| External commands | `utils/command.hpp` | a child, a pipe, a deadline | `call_external_command` | end of file and exit in any order; only the shell is killed |
| Filesystem helpers | `utils/filesystem.hpp` | none | `write_file_sync`, `fsync_dir`, `make_dirs`, `safe_remove_all`, `read_bytes` | partial failure; what is on disk when |
| Backends, compiling | `backend/cuda/backend.hpp`, `backend/ascend/backend.hpp` | the toolkit; the lazily made AICPU bootstrap | `compile`, `load` | writes into the build directory in several operations; check-then-create of the bootstrap |
| AICPU bootstrap | `backend/ascend/aicpu/*.hpp` | loader handles, `loader_mutex`, `loader_healthy`, `result_buffer`; modules on the device | `build_loader`, `deploy_loader`, `execute`, `load`, `unload`, `release`; on the device Load, Invoke, Unload, RemoveBootstrap | unload against queued launches; a failure in the middle of a request |
| Kernels | `backend/*/kernel.hpp`, `backend/*/driver.hpp` | driver handles | `load`, `launch`, `unload` | function attributes are shared by concurrent launches |
| Options, devices | `backend/*/options.hpp`, `backend/*/device.hpp` | per-thread cache of post-hook hashes | `override_with`, `get_flags`, `update_hash` | what enters the cache key |
| Include parser | `utils/parser.hpp` | `cache`, `visiting` | `parse_into_hash`, `parse_includes_into_hash` | cycles, and errors deep in a tree of includes |
| Hashing | `utils/hash.hpp` | two 64-bit words | `update`, `get_hex_digest` | chained components must stay apart |
| Lazy objects, GIL | `utils/lazy.hpp`, `utils/gil.hpp` | `ptr`, `factory` | `operator->`, `GilScopedRelease` | exclusion is the caller's |
| Configuration, helpers, Python API | `runtime/config.hpp`, `utils/{env,json,str,uuid,exception,no_ref_ptr}.hpp`, `python_api.hpp`, `src/csrc/` | none | parsing, formatting, registration | none |

How they interact.  `Runtime::compile` computes a key (options, parser, hash),
looks in the memory cache and calls `compile_impl`, which gives up the GIL and
loops: `DiskCache::entry` finds an entry or makes a build directory,
`Backend::compile` writes the source, runs the compiler as an external command
and validates its output, `commit` publishes the directory by renaming it, and
`Backend::load` loads it.  Each filesystem access is one call of
`run_in_iothread`, which hands it to the process's one I/O worker and waits with
a timeout.  A failure moves the loop to the next root.  In a dry run the same
`compile_impl` runs on the precompiler's threads instead, and the destructor of
the runtime decides the exit status of the process.

What makes each component correct:

- *Executor*: a call is answered with its own operation's result or a timeout; an
  operation runs at most once, alone, and never starts after its caller was told
  it had timed out; every call is answered and every worker that can leave does.
- *Disk cache*: "concurrent processes observe either nothing or a complete entry"
  (`cache/disk.hpp:23-27`), entries never change, nothing is removed while
  somebody may use it, nothing else is left behind, and a request ends whatever
  is stuck.
- *Precompiler*: every accepted request is compiled exactly once before the
  destructor reports, the report is right, and nothing waits for a lost wake-up.
- *Commands*: output is returned only when it is complete and its command over;
  descriptors and processes of concurrent calls are never mixed up; a call ends.
- *Memory cache and bootstrap*: one kernel per key, one bootstrap per runtime.
- *AICPU bootstrap*: no launch runs in a module that is gone; modules do not leak.
- *CUDA kernels*: a library is loaded while somebody owns it; a launch is refused
  for its own options only.
- *Parser and keys*: the key determines everything the artifact depends on, and
  nothing else: not the order of requests, nor errors of earlier ones.

## 2. Modules

Each concurrent component has a detailed specification and an MC module with its
instances, and a module of theorems; three have an abstract specification that the
detailed one implements, and two a reference definition of what they compute.

| Part | Abstract | Detailed | Instances | Theorems |
| --- | --- | --- | --- | --- |
| Executor | `IOService` | `IOExecutor` | `MCIOExecutor` | `IOExecutorProofs` |
| Disk cache, `compile_impl` | `ArtifactStore` | `DiskCache` | `MCDiskCache` | `DiskCacheProofs` |
| Precompiler | `CompileBatch` | `Precompiler` | `MCPrecompiler` | `PrecompilerProofs` |
| AICPU kernels and their bootstrap | | `AicpuBootstrap` | `MCAicpuBootstrap` | `AicpuBootstrapProofs` |
| External commands | | `Command` | `MCCommand` | `CommandProofs` |
| CUDA kernels, memory cache | | `CudaKernel` | `MCCudaKernel` | `CudaKernelProofs` |
| `Runtime::compile`, options, keys | reference: `Built` | `RuntimeCompile` | `MCRuntimeCompile` | `RuntimeCompileProofs` |
| Include parser | reference: `Digest` | `IncludeParser` | `MCIncludeParser` | `IncludeParserProofs` |

**IOExecutor.**  `pc` is where a caller is in `run`, `wpc` where the worker of each
context is in `thread_main`.  There is one action per critical section of
`Context::lock`: `Submit` is lines 123-131 up to the release of the lock in the
wait, `Wake` and `TimeOut` are the two ends of the wait, `MarkStopped` and
`Retire` the two halves of `stop`; `Take`, `Execute`, `ReleaseCaptures`,
`MarkDone` and `NotifyDone` are the worker's loop.  `NotifyOne` wakes any one
thread asleep on the context's condition variable, worker or caller, and spurious
wake-ups are actions of their own.  `effect` is what a callable did, `answer` what
its caller was told.  `IOService` forgets threads, locks and contexts; the
refinement maps the caller that holds a current context to the operation being
served.

**DiskCache.**  Requests for one key, in any number of threads and processes, over
any number of roots.  A request builds at most once under a root, so the pair
`<<request, root>>` names a build directory.  A directory is the set of its files
and the set of those that an fsync has made durable.  `pc`, `at`, `first` and
`lookupFailed` are the local state of `compile_impl` and `entry`.  Every I/O
operation is taken apart into the steps a crash or another process can fall
between (`op` is the next one), and goes on whether or not its request still
waits: that is what a timed-out operation on a detached worker does.  `compiler`
is the external command and the children a killed shell leaves: after a timeout
(`CommandTimesOut`), or because the command's output or end could not be waited for
(`CommandBreaks`), which is an error like any other to the caller.  `Throw` is an
exception inside the `try` block of `compile_impl`: it counts the timeout, decides
whether the directory is abandoned, and starts the destructor's removal.  A removal,
the destructor's or that of a publisher that lost, goes file by file and may end
half-way with its error swallowed (`RemovalFails`, `DiscardFails`).
`ProcessCrashes` and `PowerFails` are the environment.  `ArtifactStore` has only
entries and answers: an entry appears complete in one step and never changes.

**Precompiler.**  The owner's program counter walks through constructor,
`enqueue`, destructor and `finish`; the workers through `thread_main`.  The
critical sections of `mutex` are single actions, and so are the steps between
them: `Insert` (the set of keys, no lock), `Push`, `Notify`.  A job is named by its
key.  `CompileBatch` is an order of distinct keys, an outcome for each, and a
verdict that needs all of them.

**AicpuBootstrap.**  Three sides of one protocol: threads of the host (`pc`), the
bootstrap objects with their `loader_mutex`, `loader_healthy`, stream and result buffer,
and the device (`request`, `module`, `run`).  `Test` to `Copy` are `AscendBackend::load`,
where the check, the construction and the assignment of `aicpu_bootstrap` are
separate steps because nothing excludes another thread between them; the
assignment itself is two (`StorePointer`, `StoreOwner`).  `Lock` to `FetchFails` are
`execute`, used by a load, an unload and a release (`what`), and `Failed` is where
each of them goes when it throws.  A shared pointer is the pair of what it points to
and what it owns, so `Unref` counts ownership and starts `release` at the last one.
`LetGo` is the end of a share in a kernel, by a thread or by the runtime's memory
cache; the last share enters `~Kernel`, which drains the device, unloads the module and
lets the bootstrap go.  `Serve` is the loader's entry with a request and
`Invoke`/`Return` with a launch.

**Command.**  `call_external_command` system call by system call, in several threads
of one process.  The process's descriptor table (`files`) and process table (`procs`)
are shared, and numbers of both are reused; a call's local arrays `fd` and `pid` only
name entries of them.  `Open` is `pipe2`, `Spawn` the `posix_spawn` and the closing of
the write end, `TimeOut`, `ReadData`, `ReadNothing` and `Wait` the loop, `Return` its
normal end and `Catch` the catch block.  The environment writes, exits, closes its
output without exiting (`exec >&-`), or leaves a child behind that holds the pipe.
`DiskCache` uses the same command as one step with an outcome; what it takes for
granted there (success means that nobody holds the pipe any more and the shell is
gone) is `OutputComplete` here.

**CudaKernel.**  The driver's libraries and the attributes of their functions; threads
that compile (`FindCached` to `Construct`, with the memory cache), share, launch
(`Begin`, `SetLimit`, `AllowCluster`, `Submit`: one action per driver call) and drop
kernels; the end of the runtime.  `SerialLaunches` says whether launches may overlap.

**RuntimeCompile.**  What a key says against what a build depends on.  The disk
outlives processes, which start, die and start again; the memory cache, `hash_base`
and the parser's cache live as long as a runtime.  On disk an entry has its tag and its
digest for a name, in memory the digest alone; a thread's `post_hook_hashes` as
long as the process.  Files are versions that an environment edits where the README
allows it (`src/README.md`, on tracked headers, hooks and `extra_signature`).  An image
records everything that went into it, so `Built(req)`, what a build of the request would
give now, is the reference that a hit is compared with.

**IncludeParser.**  The recursion of `parse_into_hash` as a stack of frames; `cache`
and `visiting` survive requests and errors.  `Enter` is the lookup of a file and the
guard that takes it into `visiting`, `Leave` the end of its text, `Unwind` the
destructors on an exception's way up.  `Digest` is the reference: a recursive function
over the depth of a tree, without stack, cache or visiting set.

Composition.  `DiskCache` composes `entry`, `commit` and the entry's destructor with
`compile_impl` and with the outcomes of commands and I/O operations; the other modules
meet at named interfaces: an operation of `DiskCache` is a task of `IOExecutor`, a
command of `DiskCache` a call of `Command`, a job of `Precompiler` a `compile_impl`
of `DiskCache`, `Lookup` and `Publish` of `RuntimeCompile` the `ArtifactStore`, and its
`<<source, headers>>` component the digest of `IncludeParser`.  Both modules that
share kernels have the memory cache's `get_or_create` with its factory outside the GIL.

## 3. What the runs check

| Run | Instance | Shows |
| --- | --- | --- |
| `executor` | 2 callers, 2 calls, 2 contexts; timed, untimed and negative limits; one operation may block for ever | `CapturesReleased`: captures die before the caller goes on; `IdleHandover`: a task only goes to a worker with nothing left to do or report; `NeverStartsLate`; `ImplementsService`; under fairness `Answered`: if operations that may be stuck are only submitted with a timeout, every call is answered, those queued behind them too; `RetiredWorkersLeave` |
| `cache_processes` | 2 processes, 2 roots, one fault of any kind in one process, one crash or power loss, directories without a marker possibly in place | `PublishedComplete`; `TimedOutIsLeftAlone`: no directory is removed under an operation or the compiler of a command that timed out; `QuietPublication`; `NoLeak`: a request that ended left files only where an operation timed out or a removal met an error; `FaultlessSuccess`, `PublishedStable`, `ImplementsStore` |
| `cache_liveness` | 1 request, 2 roots that one timeout disables, as many faults as it can meet | `DisabledRootIsSkipped`, `RequestsEnd` |
| `cache_broken_command` | 1 request, with the fallback | violation: see Findings |
| `precompiler` | 3 keys, 3 workers, failing pushes, jobs and thread starts | `Drained`, `VerdictRight`, `ProgressAddsUp`, `ImplementsBatch`, and under fairness `Finishes`, `JobsRun` |
| `aicpu` | 2 threads, 2 kernels, 1 launch, 2 ACL failures; first loads not concurrent | `NoStaleInvoke`: a launch only meets a module that is there; `OwnResult`: a load gets the module of its own request; `OneWriter` of the result buffer, also after a failed wait; `NeverRefused`: only ACL failures disable the loader; `NoUseAfterRelease`: the bootstrap outlives its kernels, an image its load; `NoLeak`; `CallsEnd` |
| `aicpu_first_loads` | 2 threads, 2 kernels, loads at will | violation: see Findings |
| `command` | 2 threads, 4 descriptors, 2 process identifiers, 1 failing system call; one shell may close its output or leave a child | `OutputComplete`, `DescriptorsOwned`, `KillsOwnShell`; `CallsEnd`: at the deadline or when the own command is over, whatever other threads' commands do |
| `include_parser` | 3 headers in 2 directories, every tree in which each header is missing or has one of five texts (shadowed, refused and circular includes among them), 3 requests and 1 edit | `AnswersMatchTree`: each request is answered as if it were the first; `CacheSound`; `RequestsEnd` |
| `runtime_compile` | 2 threads, 2 tags, 2 sources, one of which spills, 5 sets of options, one of which spells the check of spills out in its free-form flags; 2 edits, 3 calls, any number of restarts | `HitIsFresh`: a kernel from memory or disk is the one a build would give now, and one its check would let pass unless another call spells that check out; `NoDuplicates`: one artifact has one digest, whatever the tag; `CachedKernelStable` |
| `cuda_kernel` | 2 threads, 3 libraries, 4 launches that do not overlap | `LibrariesOwned`; `LaunchAdmitted`: no launch is refused for what another one set |
| `cuda_concurrent_launches` | the same, launches overlap | violation: see Findings |

Why these bounds.  Two callers are enough for one to hold `run_lock` while the other waits,
or for a call after a retirement to meet the retired worker of the one before; there are as
many contexts as calls, so that no call lacks one.  Two publishers and two roots give every
collision and every move to a later root, the last one included; one fault makes each error
path happen once beside a healthy request.  (The limit on timeouts is the constant
`TimeoutLimit`, 3 in the code; the proofs hold for every positive limit.)  Three workers and
three keys let one worker sleep, one run and one leave while a job is queued.  Two threads
and two kernels let a load, an unload, a launch and the end of the runtime overlap pairwise
on one bootstrap, and a second failure lets a request, a drain or a teardown fail on a
bootstrap that is already disabled.  Two commands with as many numbers as they use at once
make every number of one call the next one of the other.  Three headers give chains,
diamonds, self-inclusion and cycles of every length up to three, and three requests an
error, a request after it, and one that uses what it cached.  Two edits make a file return
to an earlier version; a check with one flag more than the spelled-out one keeps the
exception of `HitIsFresh` from covering every check.  Two sizes above the default limit let
a launch lower what another one raised.  `MaxFaults`, `MaxCrashes`, `MaxFailures`,
`MaxEdits`, `MaxCalls`, `MaxRequests`, `MaxLaunches`, `MaxVersion`, `PipeSize` and the sizes
of the sets are the only bounds; the theorems do not depend on any of them.

The type invariants and the properties `ReturnsComplete` and `CompiledOnce` are proved
and not run.  `DiskCacheProofs` covers the cache without fallback too, except where a
theorem assumes `Fallback`.

Deadlock is not checked: in every module a state where all calls are answered, all
requests have ended or the process has exited is a proper end.

Every property is also run against one deliberately wrong definition, marked
`MUTANT` in the modules, next to the definition it replaces: a bug that could
plausibly be made at that place of the code, which the property must detect.

## 4. Fairness

- Executor: each thread that can step does, except inside an operation in `Stuck`;
  that is the operating system's scheduling of runnable threads.  `TimeOut` of a timed wait
  is fair because `wait_for` returns.  Spurious wake-ups are not fair.
- Cache: only the request's own progress is fair, and of an operation or a command
  it waits for only the *timeout* is: operations, compilers and removals may be
  stuck for ever.  `RequestsEnd` is therefore about the worst filesystem there is.
  Timeouts exist only with the fallback enabled (`run_in_iothread` calls the
  operation directly otherwise), so the property is stated for that mode, and
  for `DJ_FS_TIMEOUT_MS` other than 0.
- Precompiler: runnable threads run, and a compile job ends, which is what
  `RequestsEnd` says of it.  The owner is not obliged to call anything.
- AICPU: a thread inside a call goes on, the loader serves its stream and a launch ends
  (`execute` gives its requests a device timeout of 30 s, and a kernel that never ends is
  the application's).  Nothing obliges a thread to load, launch, drop or close.  The lock
  need not be fair: there are finitely many calls it can lose to.
- Commands: the calling thread runs and time passes.  Nothing is assumed of the
  command: it may write, hold the pipe or hang for ever.
- Parser: the recursion goes on once a request was made.
- `RuntimeCompile` and `CudaKernel` have safety properties only.

## 5. What is proved

All theorems are about `Spec` with the constants' named assumptions only
(`ExecutorAssumption`, `CacheAssumption`, `PrecompilerAssumption`,
`CommandAssumption`, `KernelAssumption`, `BootstrapAssumption`, `CompileAssumption`,
`ParserAssumption`): any number of callers, requests, processes, roots, workers, keys,
descriptors, kernels, launches, headers, faults and crashes.  The assumptions give the
constants their types and tell model values apart; `ParserAssumption` also says that
there are finitely many names of headers.  Each
proof module has one inductive invariant `IInv`, a lemma for every action that it keeps
`IInv`, and from them `Spec => []IInv`; the properties follow from it.

- `IOExecutorProofs`: `TypeOK`, `CapturesReleased`, `IdleHandover`,
  `NeverStartsLate`, `ImplementsService`.  None of these is inductive: they need to
  know where a task can be.  `PlaceInv` says that a task is in the current context
  while its caller is being served, or in a stopped one after its caller was told
  of a timeout; `UniqueInv` that it is in one place; `ServeInv` that `done` is about
  the task being served and nothing older.
- `DiskCacheProofs`: `TypeOK`, `PublishedComplete`, `ReturnsComplete`,
  `TimedOutIsLeftAlone`, `QuietPublication`, `NoLeak`, `FaultlessSuccess`,
  `PublishedStable`, `DisabledRootIsSkipped`, `ImplementsStore`.  `FrontierInv` says that
  roots a request has not reached are untouched, `WriterInv` that an operation in
  progress is alone with its attempt's directory (no compiler, no removal), `StageInv` which files a build directory
  has when each operation starts, `PublishedInv` what may stand at an entry's place,
  `LeakInv` that an attempt without a timeout and without a failed removal is clean once
  left, `FaultInv` that a process without faults skips nothing.  Publication is right
  because a directory that reaches `rename` has every file synced and no other writer.
- `PrecompilerProofs`: `TypeOK`, `Drained`, `VerdictRight`, `CompiledOnce`,
  `ProgressAddsUp`, `ImplementsBatch`.  `PlaceInv` and `WorkInv` say that a
  submitted key is queued, in one worker's hands, or compiled; `StopInv` that a
  worker leaves only when the queue is empty and stays so; `ProgressAddsUp`
  is a cardinality argument on top of them.
- `CommandProofs`: `TypeOK`, `OutputComplete`, `DescriptorsOwned`, `KillsOwnShell`.
  `FdInv` says that the table and the local arrays agree in both directions, so that
  what a call closes is its own and what it does not close is not left; `PidInv` that a
  process a call can still name is its own, and that a call that did not fail can name
  every process of its own; `EofInv` that the end of a pipe, once read, is final,
  because only a holder of the write end can make another one.
- `CudaKernelProofs`: `TypeOK`, `LibrariesOwned`, and `LaunchAdmitted` assuming
  `SerialLaunches`.  `LoadInv` says that a load in progress is the only one to know its
  library, `ShareInv` that whoever holds a kernel is among its owners, `LaunchInv` that
  between the setting of the limit and the launch nobody else launches.  Without
  `SerialLaunches` the last one is false, which is the finding below.

- `AicpuBootstrapProofs`: `TypeOK`, `OneWriter` and `NeverRefused` for any use, and,
  assuming `Exclusive` (first loads do not overlap, which the code does not ensure: see
  Findings), `OwnResult`, `NoStaleInvoke`, `NoUseAfterRelease` and
  `NoLeak`.  The invariant has two layers.  `LInv` needs no assumption: `LockInv` says
  whose the lock of a bootstrap is, `StreamInv` that `loader_healthy` is set only while its
  stream is empty, so that a request is made of an empty one, and `ReuseInv` that without
  a failure only a request in progress has cleared it.  `XInv` is about lives: `FirstInv`
  that nobody loads beside the first load, `SlotInv` and `LocalInv` which pointers are
  whole and which half copied, `ReleaseInv` that a bootstrap is owned, being released by
  one thread, or gone; `RequestInv` and `ResultInv` that a request in the stream, and the
  answer in the buffer, are those of the thread that waits; `ModuleInv` and `RunInv` that
  what the device still runs is of a loaded kernel, or of one whose `~Kernel` drains it;
  `MappedInv` that an image is mapped during its own load.
- `RuntimeCompileProofs`: `TypeOK`, `HitIsFresh`, `NoDuplicates`, `CachedKernelStable`.
  `EntryInv` says that the digest in an entry's name, or of a cached kernel, is computed
  from its own image, and that some call with the image's flags let it pass, `FilesInv` that
  nothing a living runtime has hashed has changed since, `CallInv` how far each call is.
  The heart is the lemma that `KeyOf` is injective: two images with one key are the same, so
  what a key finds is what the request describes.  `CompileAssumption` only types the
  options: free-form lists may hold any flag.  What a key does not tell is whether its image
  was checked, and `FlagsTellChecks` says by whom it may not have been: a call that writes
  the check's flag in a free-form list.
- `IncludeParserProofs`: `TypeOK`, `AnswersMatchTree`, `CacheSound`, for any set of
  headers, nested to any depth.  `FrameInv` says that every frame is some lines into its
  text and has the digest of what it passed, `PathInv` that the frames are the files in
  `visiting`, each once, `CacheInv` that what a cached file includes is cached, nested less
  deep than there are files in the cache, and `FailInv` that an exception is only on its way
  up from a source that has no digest.  The lemmas about the reference are inductions
  on depth: a digest stays what it is at every greater depth (`DigestsLast`), files none of
  which can be scanned without another of them have none (`NoDigests`, which is
  why a cycle is an error), and a set of files that include only each other have digests
  that no edit elsewhere changes (`DigestsSame`, which is why the cache may stay).

An induction is carried by a set: lemma `Induction` of `IncludeParserProofs` takes the set
of numbers for which a statement holds and shows it to be all of them, by its least
counterexample (`Smallest`), since the library's induction theorems, with an
operator for a parameter, cannot be instantiated here.

Only model-checked: the liveness properties (`Answered`, `RetiredWorkersLeave`,
`RequestsEnd`, `Finishes`, `JobsRun`, `CallsEnd`), which rest on fairness and are out of the
prover's reach.  Every safety and action property of a run that passes is a theorem.

## 6. Findings

`compile_impl` abandons a build directory when an I/O operation or a command timed out:
"Only timed-out IO or timed-out commands can still be using this directory"
(`runtime/runtime.hpp:131-133`).  But `call_external_command` also throws when `read`,
`waitpid` or `poll` fails (`utils/command.hpp:59`, `63`, `68`), with its command running.  The
catch block kills the shell only, the message is not that of a timeout, and the directory is
removed while the compiler may still write there.  Run `cache_broken_command` shows it in 11
states.  Two things are therefore not claimed: that a directory is only removed when nobody
uses it (`NoRemovalUnderWriter`, the comment's claim, which the run refutes), and that such a
removal leaves nothing, since the compiler may write behind it.  What holds is
`TimedOutIsLeftAlone`, which is about what did time out.  Nothing that is published is
affected: `PublishedComplete`, `QuietPublication` and `ImplementsStore` are proved with
these failures in the model.

A second way to the same removal is `DJ_DISABLE_CACHE_FALLBACK=1`: then the catch block
rethrows before it sets `abandoned` (`runtime/runtime.hpp:129-130`), also after a command
that timed out, where `src/README.md:64` says that timed-out operations leave their
directories in place.  That is why the compiler's part of `TimedOutIsLeftAlone` is stated for
the fallback enabled.

The Ascend backend tests `aicpu_bootstrap`, constructs a bootstrap and assigns the pointer
with the GIL released and without a lock (`backend/ascend/backend.hpp:169-177`).  Two
threads that load the first AICPU kernels of a runtime at once make two bootstraps, where
`backend/ascend/aicpu/bootstrap.hpp:193` says there is one, and they assign the same shared
pointer at once.  Run `aicpu_first_loads` shows it.  The run `aicpu` assumes (`Exclusive`)
that no other load runs until the first has stored its bootstrap; everything after that is
concurrent.

A CUDA launch sets the function's limit of dynamic shared memory to its own size and
launches in a later call of the driver, with the GIL given up
(`backend/cuda/kernel.hpp:98-99`, `120-125`, `174`).  The limit belongs to the function, and
kernels are shared: a concurrent launch of the same kernel with less shared memory lowers it in
between, and the driver refuses a launch whose own options are good.  `kernel.hpp:34` calls
the handles immutable.  Run `cuda_concurrent_launches` shows it in 11 steps; that launches
which do not overlap are unaffected, whatever was set before, is proved
(`LaunchesAreAdmitted`).

## 7. Assumptions and abstractions

- Requests of `DiskCache` ask for one key.  Requests for other keys share only the
  timeout counters and the worker with them, and names of build directories are
  taken to be distinct (`get_uuid`).
- Operations of one process may overlap in `DiskCache`, though the executor
  serializes them; this adds behaviours and removes none.
- A rename is atomic; fsync makes a file durable; after a power loss a file that was
  not synced is gone, and a rename may be undone as a whole (the code never syncs the
  parent of the renamed directory, `utils/filesystem.hpp:68-80`).  A machine failure takes
  every process with it.
- In `DiskCache` a command succeeds, fails with its compiler gone, breaks or times out with
  it running.  A failing compiler whose output holds the words that mark a timeout is left
  out (its directory would stay), and a compiler whose command returned 0 is taken to be gone.
- A removal takes the files of a directory in any order and a swallowed error may end it
  after any of them, so that any may stay, as when `safe_remove_all` skips one and goes on.
- `Command`: SIGCHLD is not ignored, so that a zombie waits for `waitpid`; the output
  itself is a number of units; a child may write, but only what the pipe holds
  (`PipeSize`) is counted.
- `RuntimeCompile`: the hash is injective on sequences of components (the length before each
  one in `utils/hash.hpp` makes a chain a sequence; FNV-1a itself is not collision-free),
  and flags have no blanks, as `src/README.md` asks.  Free-form flags may be any, one that
  an option stands for included.  A call that passes `--ptxas-options=--warn-on-spills`
  among its flags without `check_no_spills`, and one that sets it, may then have one key,
  and only the second refuses a kernel that spills: when the first was built, the second is
  answered with it and its check never runs.  `HitIsFresh` has this as its one exception,
  and the instance contains it.  A hook's path has one spelling.  `extra_signature` stands
  for what the parser does not track, as `src/README.md` asks.  Files change only where it
  allows it.  One option of each kind stands for the others; Ascend's options are of the
  same kinds.
- The lazy runtime's constructor keeps the GIL, so its creation is one action.  With
  `DJ_DISABLE_GIL=1` exclusion is the caller's.
- `IncludeParser`: one request at a time (the GIL is held); between
  requests only a header changes whose digest is not cached (after any other the runtime
  must be recreated, says `src/README.md`); everything a cached header includes is cached.
- `IncludeParser`: a header that is there but cannot be read is left out
  (`utils/parser.hpp:84-92`).
- `CudaKernel`: handles of libraries are not reused; a driver that fails to unload a
  library, attributes of a launch that do not outlive it and argument packing are left out.
- A loader that fails does not change the entry, and an AICPU loader's own walk
  over the cache during a load is not in the model.
- An AICPU kernel is loaded once per kernel object; a failure to read, parse or map its
  image, and a constructor of the bootstrap that throws, only end that load. Failures after
  that (a launch of the loader, a wait, a copy, a drain) are counted by `MaxFailures`.  An
  image is always unmapped when its load ends; `bootstrap.hpp:47-49` keeps the pages when
  they cannot be unregistered, a leak that follows a failure.  A request whose wait failed
  may still be served; destroying the stream discards what is queued.  Blocking launches and
  AICore kernels, which have no state beyond a driver handle, are left out.
- Permissions, SGID, mtimes, file contents and messages are left out.
- The precompiler has the one owner its class comment requires
  (`runtime/precompiler.hpp:21-23`), and `enqueue` after `finish` cannot be reached from
  `Runtime`, whose destructor is the only caller of it.
- Nested calls of `run_in_iothread` run inline on the worker as part of the outer
  operation, and calls with the fallback disabled run inline on the caller: neither
  involves the executor.

- Not modelled: configuration and environment parsing, device queries, formatting of
  errors and JSON, the Python bindings, and the ELF reader: pure functions, or
  registration, without state that outlives a call.  The discovery of toolkits and the
  deployment of the AICPU bootstrap, a second user of `DiskCache`, are single steps that
  may fail.

## 8. Plan

Done: every part of the table in section 2, model-checked, with a theorem for every safety
property that a run checks; the executor, the disk cache and the precompiler with
abstract specifications and refinements.  Next, in this order:

1. The chaining of `utils/hash.hpp`: that with the length before each component two
   sequences of components with the same bytes are the same sequence.
2. The deployment of the AICPU bootstrap as a nested user of the disk cache, whose I/O
   timeout counts against the root of the kernel's entry.
3. An abstract specification of the kernels that `MemCache` shares, which `CudaKernel` and
   the AICPU kernels implement.
