------------------------------- MODULE DiskCache -------------------------------
(***************************************************************************)
(* Compile requests through the disk cache: Runtime::compile_impl            *)
(* (runtime/runtime.hpp), DiskCache::entry, DiskCacheEntry::commit and its   *)
(* destructor (cache/disk.hpp), the phases of Backend::compile that touch    *)
(* the build directory, and the external command's timeout.                  *)
(*                                                                           *)
(* The requests ask for one key; requests for different keys share nothing   *)
(* but the timeout counters.  A request never builds twice under one root,   *)
(* so the pair <<request, root>>, an attempt, names its build directory      *)
(* <root>/tmp/<uuid>.  An I/O operation is taken in small steps that go on    *)
(* whether or not the request still waits: a timed-out operation is detached, *)
(* not cancelled.  Operations of one process may overlap here; the executor   *)
(* serializes them, which only removes behaviours.                           *)
(***************************************************************************)
EXTENDS Naturals, FiniteSets

CONSTANTS Requests,     (* calls of compile_impl                             *)
          Procs,        (* processes, each with one Runtime                  *)
          ProcOf,       (* [Requests -> Procs]                               *)
          NumRoots,     (* DiskCache::paths.size()                           *)
          TimeoutLimit, (* a root with so many I/O timeouts is skipped (3)   *)
          Fallback,     (* ~disable_cache_fallback()                         *)
          LeftOvers,    (* directories without a marker may be found in place *)
          MaxFaults,    (* [Procs -> Nat], bound: injected faults            *)
          MaxCrashes    (* bound: process crashes and power losses           *)

ASSUME CacheAssumption ==
    /\ ProcOf \in [Requests -> Procs]
    /\ NumRoots \in Nat \ {0}
    /\ TimeoutLimit \in Nat \ {0}
    /\ Fallback \in BOOLEAN
    /\ LeftOvers \in BOOLEAN
    /\ MaxFaults \in [Procs -> Nat]
    /\ MaxCrashes \in Nat

Roots == 1 .. NumRoots
Attempts == Requests \X Roots

VARIABLES
    pc,           (* where each request is in compile_impl                   *)
    at,           (* the loop index of entry(), then DiskCacheEntry::root_index *)
    first,        (* compile_impl's first_root                               *)
    lookupFailed, (* entry()'s vector failed                                 *)
    timeouts,     (* DiskCache::num_timeouts of each process                 *)
    temp,         (* the build directory of each attempt                     *)
    pub,          (* the directory <root>/cache/<tag>.<digest>               *)
    op,           (* the I/O operation under way on an attempt, by its next step *)
    removing,     (* a destructor's safe_remove_all is under way             *)
    compiler,     (* the attempt's compiler: "none", "running", "orphan" of a *)
                  (* timed-out command or a dead process, "lost" by a command *)
                  (* that failed without being over                          *)
    excused,      (* history: attempts that saw a timeout, or whose removal   *)
                  (* met an error                                            *)
    faults,       (* history: faults each process met                        *)
    crashes       (* history: crashes so far                                 *)

reqVars == <<pc, at, first, lookupFailed>>
dirVars == <<temp, pub>>
workVars == <<op, removing, compiler>>
ghosts == <<excused, faults, crashes>>
vars == <<pc, at, first, lookupFailed, timeouts, temp, pub, op, removing,
          compiler, excused, faults, crashes>>

(* A directory: whether it exists, its files, and those that are on disk.    *)
Artifact == {"source", "cubin", "meta"}
Files == Artifact \cup {"marker"}
NoDir == [here |-> FALSE, files |-> {}, synced |-> {}]
EmptyDir == [here |-> TRUE, files |-> {}, synced |-> {}]
LeftOver == [here |-> TRUE, files |-> {"cubin"}, synced |-> {"cubin"}]
Dirs == {d \in [here : BOOLEAN, files : SUBSET Files, synced : SUBSET Files] :
            d.synced \subseteq d.files}

Write(d, f) == [d EXCEPT !.files = @ \cup {f}]
WriteSync(d, f) == [d EXCEPT !.files = @ \cup {f}, !.synced = @ \cup {f}]
Sync(d) == [d EXCEPT !.synced = d.files]
Remove(d, f) == [d EXCEPT !.files = @ \ {f}, !.synced = @ \ {f}]

Hit(d) == "marker" \in d.files

Init ==
    /\ pc = [r \in Requests |-> "new"]
    /\ at = [r \in Requests |-> 1]
    /\ first = [r \in Requests |-> 1]
    /\ lookupFailed = [r \in Requests |-> {}]
    /\ timeouts = [p \in Procs |-> [i \in Roots |-> 0]]
    /\ temp = [a \in Attempts |-> NoDir]
    /\ pub \in [Roots -> IF LeftOvers THEN {NoDir, LeftOver} ELSE {NoDir}]
    /\ op = [a \in Attempts |-> "none"]
    /\ removing = [a \in Attempts |-> FALSE]
    /\ compiler = [a \in Attempts |-> "none"]
    /\ excused = {}
    /\ faults = [p \in Procs |-> 0]
    /\ crashes = 0

-----------------------------------------------------------------------------
Here(r) == <<r, at[r]>>
Disabled(r) == timeouts[ProcOf[r]][at[r]] >= TimeoutLimit
Waiting == {"mkdir", "source", "meta", "commit"}
Attached(a) == pc[a[1]] \in Waiting /\ at[a[1]] = a[2]

Fault(r) == /\ faults[ProcOf[r]] < MaxFaults[ProcOf[r]]
            /\ faults' = [faults EXCEPT ![ProcOf[r]] = @ + 1]

(* report_error: only an IOTimeoutError counts against the root.              *)
Report(r, kind) ==
    timeouts' = IF Fallback /\ kind = "timeout"
                THEN [timeouts EXCEPT ![ProcOf[r]][at[r]] = @ + 1]
                ELSE timeouts

MarkTimeout(r, kind) ==
    excused' = IF kind = "error" THEN excused ELSE excused \cup {Here(r)}

GoTo(r, where) == /\ pc' = [pc EXCEPT ![r] = where]
                  /\ UNCHANGED <<at, first, lookupFailed>>

(* The end of one iteration of compile_impl that failed: rethrow, or enter    *)
(* entry() again past the root that failed.                                   *)
NextRoot(r) ==
    IF ~Fallback \/ at[r] = NumRoots
    THEN GoTo(r, "failed")
    ELSE /\ pc' = [pc EXCEPT ![r] = "lookup"]
         /\ at' = [at EXCEPT ![r] = at[r] + 1]
         /\ first' = [first EXCEPT ![r] = at[r] + 1]
         /\ lookupFailed' = [lookupFailed EXCEPT ![r] = {}]

(* MUTANT of Throw: a timed-out attempt's directory is not abandoned.         *)
ThrowAndRemove(r, kind) ==
    /\ Report(r, kind)
    /\ MarkTimeout(r, kind)
    /\ GoTo(r, "cleanup")
    /\ removing' = [removing EXCEPT ![Here(r)] = TRUE]

(* MUTANT of Throw: no temporary directory is ever removed.                   *)
ThrowAndLeave(r, kind) ==
    /\ Report(r, kind)
    /\ MarkTimeout(r, kind)
    /\ NextRoot(r)
    /\ UNCHANGED removing

(* An exception while the entry is a miss not yet committed.  compile_impl's  *)
(* catch block abandons the directory of a timed-out operation; otherwise     *)
(* the destructor starts to remove it.  Without fallback the exception is     *)
(* rethrown before the block decides, and the directory is removed.           *)
Throw(r, kind) ==
    /\ Report(r, kind)
    /\ MarkTimeout(r, kind)
    /\ IF Fallback /\ kind # "error"
       THEN NextRoot(r) /\ UNCHANGED removing
       ELSE /\ GoTo(r, "cleanup")
            /\ removing' = [removing EXCEPT ![Here(r)] = TRUE]

-----------------------------------------------------------------------------
(* DiskCache::entry.                                                          *)

Start(r) == /\ pc[r] = "new"
            /\ GoTo(r, "lookup")
            /\ UNCHANGED <<timeouts, dirVars, workVars, ghosts>>

LookNext(r, failed) ==
    /\ pc' = [pc EXCEPT ![r] = "lookup"]
    /\ at' = [at EXCEPT ![r] = @ + 1]
    /\ lookupFailed' = [lookupFailed EXCEPT ![r] = failed]
    /\ UNCHANGED first

(* The lookup loop skips a disabled root.                                     *)
SkipLookup(r) ==
    /\ pc[r] = "lookup"
    /\ at[r] \in Roots
    /\ Disabled(r)
    /\ at' = [at EXCEPT ![r] = @ + 1]
    /\ UNCHANGED <<pc, first, lookupFailed, timeouts, dirVars, workVars, ghosts>>

(* The check of the counter is over before the operation runs, or even waits  *)
(* its turn on the worker.                                                    *)
BeginLookup(r) ==
    /\ pc[r] = "lookup"
    /\ at[r] \in Roots
    /\ ~Disabled(r)
    /\ GoTo(r, "looking")
    /\ UNCHANGED <<timeouts, dirVars, workVars, ghosts>>

(* The marker decides; updating its mtime cannot fail the lookup.             *)
Lookup(r) ==
    /\ pc[r] = "looking"
    /\ IF Hit(pub[at[r]]) THEN GoTo(r, "load") ELSE LookNext(r, lookupFailed[r])
    /\ UNCHANGED <<timeouts, dirVars, workVars, ghosts>>

(* A lookup that fails is not retried as a write; a lookup still running      *)
(* after its timeout touches nothing but an mtime.                            *)
LookupFails(r, kind) ==
    /\ pc[r] = "looking"
    /\ kind = "timeout" => Fallback
    /\ Fault(r)
    /\ Report(r, kind)
    /\ IF Fallback THEN LookNext(r, lookupFailed[r] \cup {at[r]}) ELSE GoTo(r, "failed")
    /\ UNCHANGED <<dirVars, workVars, excused, crashes>>

LookupEnds(r) ==
    /\ pc[r] = "lookup"
    /\ at[r] > NumRoots
    /\ pc' = [pc EXCEPT ![r] = "create"]
    /\ at' = [at EXCEPT ![r] = first[r]]
    /\ UNCHANGED <<first, lookupFailed, timeouts, dirVars, workVars, ghosts>>

SkipCreate(r) ==
    /\ pc[r] = "create"
    /\ at[r] \in Roots
    /\ Disabled(r) \/ at[r] \in lookupFailed[r]
    /\ at' = [at EXCEPT ![r] = @ + 1]
    /\ UNCHANGED <<pc, first, lookupFailed, timeouts, dirVars, workVars, ghosts>>

(* MUTANT of Create: roots whose lookup failed are written to all the same,   *)
(* and disabled roots too.                                                    *)
CreateAnywhere(r) ==
    /\ pc[r] = "create"
    /\ at[r] \in Roots
    /\ GoTo(r, "mkdir")
    /\ op' = [op EXCEPT ![Here(r)] = "mkdir"]
    /\ UNCHANGED <<timeouts, dirVars, removing, compiler, ghosts>>

Create(r) ==
    /\ pc[r] = "create"
    /\ at[r] \in Roots
    /\ ~Disabled(r) /\ at[r] \notin lookupFailed[r]
    /\ GoTo(r, "mkdir")
    /\ op' = [op EXCEPT ![Here(r)] = "mkdir"]
    /\ UNCHANGED <<timeouts, dirVars, removing, compiler, ghosts>>

(* The create loop goes on after a failure.  The directory stays if its        *)
(* permissions could not be set, or if a timed-out mkdir makes it later.       *)
CreateFails(r, kind) ==
    /\ pc[r] = "mkdir"
    /\ kind = "timeout" => Fallback
    /\ Fault(r)
    /\ Report(r, kind)
    /\ MarkTimeout(r, kind)
    /\ op' = IF kind = "timeout" THEN op ELSE [op EXCEPT ![Here(r)] = "none"]
    /\ IF Fallback
       THEN /\ pc' = [pc EXCEPT ![r] = "create"]
            /\ at' = [at EXCEPT ![r] = @ + 1]
            /\ UNCHANGED <<first, lookupFailed>>
       ELSE GoTo(r, "failed")
    /\ temp' \in {temp, [temp EXCEPT ![Here(r)] = EmptyDir]}
    /\ UNCHANGED <<pub, removing, compiler, crashes>>

(* "all cache roots failed": thrown outside compile_impl's try block.         *)
AllRootsFailed(r) ==
    /\ pc[r] = "create"
    /\ at[r] > NumRoots
    /\ GoTo(r, "failed")
    /\ UNCHANGED <<timeouts, dirVars, workVars, ghosts>>

-----------------------------------------------------------------------------
(* The I/O operations, step by step, attached or detached.  A step that       *)
(* completes its operation lets an attached request go on to next, whose own  *)
(* operation nextOp starts at once; a detached one just ends.                 *)
Completes(a, next, nextOp) ==
    IF Attached(a)
    THEN GoTo(a[1], next) /\ op' = [op EXCEPT ![a] = nextOp]
    ELSE UNCHANGED reqVars /\ op' = [op EXCEPT ![a] = "none"]

MakeTemp(a) ==
    /\ op[a] = "mkdir"
    /\ temp' = [temp EXCEPT ![a] = EmptyDir]
    /\ Completes(a, "source", "source")
    /\ UNCHANGED <<timeouts, pub, removing, compiler, ghosts>>

(* Backend::compile writes and fsyncs the source, then runs the compiler.     *)
WriteSource(a) ==
    /\ op[a] = "source"
    /\ temp[a].here
    /\ temp' = [temp EXCEPT ![a] = WriteSync(@, "source")]
    /\ Completes(a, "command", "none")
    /\ compiler' = IF Attached(a) THEN [compiler EXCEPT ![a] = "running"] ELSE compiler
    /\ UNCHANGED <<timeouts, pub, removing, ghosts>>

(* Compiler processes, also those a killed shell left behind.                 *)
CompilerWrites(a) ==
    /\ compiler[a] # "none"
    /\ temp[a].here
    /\ "cubin" \notin temp[a].files
    /\ temp' = [temp EXCEPT ![a] = Write(@, "cubin")]
    /\ UNCHANGED <<reqVars, timeouts, pub, workVars, ghosts>>

OrphanExits(a) ==
    /\ compiler[a] \in {"orphan", "lost"}
    /\ compiler' = [compiler EXCEPT ![a] = "none"]
    /\ UNCHANGED <<reqVars, timeouts, dirVars, op, removing, ghosts>>

(* The command returns 0; its output is validated by the next operation.      *)
CommandSucceeds(r) ==
    /\ pc[r] = "command"
    /\ compiler' = [compiler EXCEPT ![Here(r)] = "none"]
    /\ GoTo(r, "meta")
    /\ op' = [op EXCEPT ![Here(r)] = "meta"]
    /\ UNCHANGED <<timeouts, dirVars, removing, ghosts>>

(* A nonzero exit, or compiler messages that the options forbid: the command  *)
(* is over.                                                                   *)
CommandFails(r) ==
    /\ pc[r] = "command"
    /\ Fault(r)
    /\ compiler' = [compiler EXCEPT ![Here(r)] = "none"]
    /\ Throw(r, "error")
    /\ UNCHANGED <<dirVars, op, crashes>>

(* "command read failed", "command wait failed" or "command poll failed": the *)
(* call gives up with its compiler running.  It kills the shell as after a    *)
(* timeout, but its message is that of any other error.                       *)
CommandBreaks(r) ==
    /\ pc[r] = "command"
    /\ Fault(r)
    /\ compiler' = [compiler EXCEPT ![Here(r)] = "lost"]
    /\ Throw(r, "error")
    /\ UNCHANGED <<dirVars, op, crashes>>

(* Only the shell is killed, without waiting: its children live on.           *)
CommandTimesOut(r) ==
    /\ pc[r] = "command"
    /\ Fault(r)
    /\ compiler' = [compiler EXCEPT ![Here(r)] = "orphan"]
    /\ Throw(r, "command")
    /\ UNCHANGED <<dirVars, op, crashes>>

(* The output is there, and meta.json is written; if it is not there the       *)
(* operation can only fail.                                                   *)
WriteMeta(a) ==
    /\ op[a] = "meta"
    /\ "cubin" \in temp[a].files
    /\ temp' = [temp EXCEPT ![a] = WriteSync(@, "meta")]
    /\ Completes(a, "commit", "marker")
    /\ UNCHANGED <<timeouts, pub, removing, compiler, ghosts>>

-----------------------------------------------------------------------------
(* DiskCacheEntry::commit: one operation of several steps.                    *)

WriteMarker(a) ==
    /\ op[a] = "marker"
    /\ temp[a].here
    /\ temp' = [temp EXCEPT ![a] = WriteSync(@, "marker")]
    /\ op' = [op EXCEPT ![a] = "sync"]
    /\ UNCHANGED <<reqVars, timeouts, pub, removing, compiler, ghosts>>

(* MUTANT of SyncTemp: the compiler's outputs are not fsynced.                *)
SyncNothing(a) ==
    /\ op[a] = "sync"
    /\ temp[a].here
    /\ op' = [op EXCEPT ![a] = "rename"]
    /\ UNCHANGED <<reqVars, timeouts, dirVars, removing, compiler, ghosts>>

SyncTemp(a) ==
    /\ op[a] = "sync"
    /\ temp[a].here
    /\ temp' = [temp EXCEPT ![a] = Sync(@)]
    /\ op' = [op EXCEPT ![a] = "rename"]
    /\ UNCHANGED <<reqVars, timeouts, pub, removing, compiler, ghosts>>

(* rename() onto a free name publishes the directory as it is.                *)
Publish(a) ==
    /\ op[a] = "rename"
    /\ temp[a].here
    /\ ~pub[a[2]].here
    /\ pub' = [pub EXCEPT ![a[2]] = temp[a]]
    /\ temp' = [temp EXCEPT ![a] = NoDir]
    /\ Completes(a, "load", "none")
    /\ UNCHANGED <<timeouts, removing, compiler, ghosts>>

(* rename() onto a directory with files fails.                                *)
Collide(a) ==
    /\ op[a] = "rename"
    /\ temp[a].here
    /\ pub[a[2]].here
    /\ op' = [op EXCEPT ![a] = "collided"]
    /\ UNCHANGED <<reqVars, timeouts, dirVars, removing, compiler, ghosts>>

(* MUTANT of LoseToWinner: whatever is in place counts as the winner.         *)
LoseToAnybody(a) ==
    /\ op[a] = "collided"
    /\ op' = [op EXCEPT ![a] = "discard"]
    /\ UNCHANGED <<reqVars, timeouts, dirVars, removing, compiler, ghosts>>

(* MUTANT of LoseToWinner: losing a race is an error.                         *)
LoseWithError(a) ==
    /\ op[a] = "collided"
    /\ Hit(pub[a[2]])
    /\ op' = [op EXCEPT ![a] = "none"]
    /\ IF Attached(a)
       THEN Throw(a[1], "error")
       ELSE UNCHANGED <<reqVars, timeouts, removing, excused>>
    /\ UNCHANGED <<dirVars, compiler, faults, crashes>>

(* The collision is benign if the winner carries a marker.                    *)
LoseToWinner(a) ==
    /\ op[a] = "collided"
    /\ Hit(pub[a[2]])
    /\ op' = [op EXCEPT ![a] = "discard"]
    /\ UNCHANGED <<reqVars, timeouts, dirVars, removing, compiler, ghosts>>

(* "cache rename failed": what is in place is not an entry.                   *)
RenameFails(a) ==
    /\ op[a] = "collided"
    /\ ~Hit(pub[a[2]])
    /\ op' = [op EXCEPT ![a] = "none"]
    /\ IF Attached(a)
       THEN Throw(a[1], "error")
       ELSE UNCHANGED <<reqVars, timeouts, removing, excused>>
    /\ UNCHANGED <<dirVars, compiler, faults, crashes>>

(* MUTANT of RemoveFile: a loser removes the target instead of the source.    *)
RemoveWinner(a, f) ==
    /\ op[a] = "discard"
    /\ f \in pub[a[2]].files
    /\ pub' = [pub EXCEPT ![a[2]] = Remove(@, f)]
    /\ UNCHANGED <<reqVars, timeouts, temp, workVars, ghosts>>

(* safe_remove_all, file by file and then the directory.                      *)
RemoveFile(a, f) ==
    /\ op[a] = "discard" \/ removing[a]
    /\ f \in temp[a].files
    /\ temp' = [temp EXCEPT ![a] = Remove(@, f)]
    /\ UNCHANGED <<reqVars, timeouts, pub, workVars, ghosts>>

Discarded(a) ==
    /\ op[a] = "discard"
    /\ temp[a].files = {}
    /\ temp' = [temp EXCEPT ![a] = NoDir]
    /\ Completes(a, "load", "none")
    /\ UNCHANGED <<timeouts, pub, removing, compiler, ghosts>>

(* safe_remove_all swallows its errors: what is left stays, and the commit    *)
(* succeeds.                                                                  *)
DiscardFails(a) ==
    /\ op[a] = "discard"
    /\ Fault(a[1])
    /\ excused' = excused \cup {a}
    /\ Completes(a, "load", "none")
    /\ UNCHANGED <<timeouts, dirVars, removing, compiler, crashes>>

-----------------------------------------------------------------------------
(* Failures of an attached operation after entry() returned a miss.           *)

Building == {"source", "meta", "commit"}

(* Every step of an operation may fail but safe_remove_all's, which swallows  *)
(* its errors.                                                                *)
OperationFails(r) ==
    /\ pc[r] \in Building
    /\ op[Here(r)] # "discard"
    /\ Fault(r)
    /\ op' = [op EXCEPT ![Here(r)] = "none"]
    /\ Throw(r, "error")
    /\ UNCHANGED <<dirVars, compiler, crashes>>

(* The request leaves; the operation goes on without it.                      *)
OperationTimesOut(r) ==
    /\ Fallback
    /\ pc[r] \in Building
    /\ Fault(r)
    /\ Throw(r, "timeout")
    /\ UNCHANGED <<dirVars, op, compiler, crashes>>

(* ~DiskCacheEntry: removal ends, and the request goes on or rethrows.        *)
RemovalEnds(a) ==
    /\ removing[a]
    /\ removing' = [removing EXCEPT ![a] = FALSE]
    /\ IF pc[a[1]] = "cleanup" /\ at[a[1]] = a[2]
       THEN NextRoot(a[1])
       ELSE UNCHANGED reqVars

Removed(a) ==
    /\ temp[a].files = {}
    /\ RemovalEnds(a)
    /\ temp' = [temp EXCEPT ![a] = NoDir]
    /\ UNCHANGED <<timeouts, pub, op, compiler, ghosts>>

(* An error ends the removal half-way and is swallowed.  A compiler that is   *)
(* still there is cause enough: what it writes behind the iterator makes the  *)
(* last remove() fail.                                                        *)
RemovalFails(a) ==
    /\ RemovalEnds(a)
    /\ IF compiler[a] # "none" /\ "cubin" \in temp[a].files
       THEN UNCHANGED faults
       ELSE Fault(a[1])
    /\ excused' = excused \cup {a}
    /\ UNCHANGED <<timeouts, dirVars, op, compiler, crashes>>

(* MUTANT of CleanupTimesOut: the destructor waits for its own removal.       *)
CleanupWaits(r) ==
    /\ Fallback
    /\ pc[r] = "cleanup"
    /\ ~removing[Here(r)]
    /\ NextRoot(r)
    /\ UNCHANGED <<timeouts, dirVars, workVars, ghosts>>

(* Its timeout is swallowed and counted nowhere; the removal goes on.         *)
CleanupTimesOut(r) ==
    /\ Fallback
    /\ pc[r] = "cleanup"
    /\ Fault(r)
    /\ MarkTimeout(r, "timeout")
    /\ NextRoot(r)
    /\ UNCHANGED <<timeouts, dirVars, workVars, crashes>>

-----------------------------------------------------------------------------
(* Loading the artifact: the entry is a hit by now, nothing is cleaned up.    *)

Load(r) == /\ pc[r] = "load"
           /\ GoTo(r, "returned")
           /\ UNCHANGED <<timeouts, dirVars, workVars, ghosts>>

LoadFails(r, kind) ==
    /\ pc[r] = "load"
    /\ kind = "timeout" => Fallback
    /\ Fault(r)
    /\ Report(r, kind)
    /\ NextRoot(r)
    /\ UNCHANGED <<dirVars, workVars, excused, crashes>>

-----------------------------------------------------------------------------
(* The environment.                                                           *)

Live(r) == pc[r] \notin {"new", "returned", "failed", "dead"}
Of(p) == {r \in Requests : ProcOf[r] = p}

Kill(dead) ==
    /\ pc' = [r \in Requests |-> IF r \in dead THEN "dead" ELSE pc[r]]
    /\ at' = [r \in Requests |-> IF r \in dead THEN 1 ELSE at[r]]
    /\ first' = [r \in Requests |-> IF r \in dead THEN 1 ELSE first[r]]
    /\ lookupFailed' = [r \in Requests |-> IF r \in dead THEN {} ELSE lookupFailed[r]]

(* A process dies: no destructor runs, its I/O worker threads die with it,    *)
(* its compilers do not.  Later requests run in a new process.                *)
ProcessCrashes(p) ==
    /\ crashes < MaxCrashes
    /\ crashes' = crashes + 1
    /\ Kill({r \in Of(p) : Live(r)})
    /\ timeouts' = [timeouts EXCEPT ![p] = [i \in Roots |-> 0]]
    /\ op' = [a \in Attempts |-> IF a[1] \in Of(p) THEN "none" ELSE op[a]]
    /\ removing' = [a \in Attempts |-> a[1] \notin Of(p) /\ removing[a]]
    /\ compiler' = [a \in Attempts |->
                       IF a[1] \in Of(p) /\ compiler[a] = "running" THEN "orphan" ELSE compiler[a]]
    /\ UNCHANGED <<dirVars, excused, faults>>

Survives(d) == [d EXCEPT !.files = d.synced]

(* The machine dies: files that were not fsynced are lost, and a rename whose *)
(* parent directory had not reached the disk may be undone.                   *)
PowerFails ==
    /\ crashes < MaxCrashes
    /\ crashes' = crashes + 1
    /\ Kill({r \in Requests : pc[r] # "new"})
    /\ timeouts' = [p \in Procs |-> [i \in Roots |-> 0]]
    /\ temp' = [a \in Attempts |-> Survives(temp[a])]
    /\ \E lost \in SUBSET {i \in Roots : Hit(pub[i])} :
          pub' = [i \in Roots |-> IF i \in lost THEN NoDir ELSE Survives(pub[i])]
    /\ op' = [a \in Attempts |-> "none"]
    /\ removing' = [a \in Attempts |-> FALSE]
    /\ compiler' = [a \in Attempts |-> "none"]
    /\ UNCHANGED <<excused, faults>>

-----------------------------------------------------------------------------
Kinds == {"error", "timeout"}

RequestStep(r) ==
    \/ Start(r) \/ SkipLookup(r) \/ BeginLookup(r) \/ Lookup(r) \/ LookupEnds(r)
    \/ SkipCreate(r) \/ Create(r) \/ AllRootsFailed(r)
    \/ \E kind \in Kinds : LookupFails(r, kind) \/ CreateFails(r, kind) \/ LoadFails(r, kind)
    \/ CommandSucceeds(r) \/ CommandFails(r) \/ CommandBreaks(r) \/ CommandTimesOut(r)
    \/ OperationFails(r) \/ OperationTimesOut(r) \/ CleanupTimesOut(r)
    \/ Load(r)

WorkerStep(a) ==
    \/ MakeTemp(a) \/ WriteSource(a) \/ WriteMeta(a)
    \/ WriteMarker(a) \/ SyncTemp(a) \/ Publish(a) \/ Collide(a)
    \/ LoseToWinner(a) \/ RenameFails(a) \/ Discarded(a) \/ DiscardFails(a)
    \/ Removed(a) \/ RemovalFails(a)
    \/ \E f \in Files : RemoveFile(a, f)

CompilerStep(a) == CompilerWrites(a) \/ OrphanExits(a)

Next == \/ \E r \in Requests : RequestStep(r)
        \/ \E a \in Attempts : WorkerStep(a) \/ CompilerStep(a)
        \/ \E p \in Procs : ProcessCrashes(p)
        \/ PowerFails

Spec == Init /\ [][Next]_vars

(* A waiting request goes on: its lookup answers or times out, its operation,  *)
(* its command and its cleanup end or are timed out.  Operations, compilers    *)
(* and removals themselves get no fairness: any of them may be stuck.          *)
RequestProgress(r) ==
    \/ SkipLookup(r) \/ BeginLookup(r) \/ LookupFails(r, "timeout") \/ LookupEnds(r)
    \/ SkipCreate(r) \/ Create(r) \/ CreateFails(r, "timeout") \/ AllRootsFailed(r)
    \/ CommandTimesOut(r) \/ OperationTimesOut(r) \/ CleanupTimesOut(r) \/ Load(r)

FairSpec == Spec /\ \A r \in Requests : WF_vars(RequestProgress(r))

-----------------------------------------------------------------------------
(* Properties.                                                                *)

PCs == {"new", "lookup", "looking", "create", "mkdir", "source", "command",
        "meta", "commit", "load", "cleanup", "returned", "failed", "dead"}
Ops == {"none", "mkdir", "source", "meta", "marker", "sync", "rename",
        "collided", "discard"}

(* Every variable of the requests, the directories and the counters keeps its *)
(* type.                                                                      *)
TypeOK ==
    /\ pc \in [Requests -> PCs]
    /\ at \in [Requests -> 1 .. NumRoots + 1]
    /\ first \in [Requests -> Roots]
    /\ lookupFailed \in [Requests -> SUBSET Roots]
    /\ timeouts \in [Procs -> [Roots -> Nat]]
    /\ temp \in [Attempts -> Dirs]
    /\ pub \in [Roots -> Dirs]
    /\ op \in [Attempts -> Ops]
    /\ removing \in [Attempts -> BOOLEAN]
    /\ compiler \in [Attempts -> {"none", "running", "orphan", "lost"}]
    /\ excused \in SUBSET Attempts
    /\ faults \in [Procs -> Nat]
    /\ crashes \in Nat

(* "Concurrent processes observe either nothing or a complete entry": a       *)
(* marker in place means every file of the artifact is there and on disk,     *)
(* after crashes and power losses too, whatever a timed-out commit does late. *)
PublishedComplete ==
    \A i \in Roots : Hit(pub[i]) => pub[i].files = Files /\ pub[i].synced = Files

(* A request that returned was given a complete entry, not one that somebody  *)
(* is still building, and not a directory that merely stands in its place.    *)
ReturnsComplete ==
    \A r \in Requests : pc[r] = "returned" => at[r] \in Roots /\ pub[at[r]].files = Files

(* "Only timed-out IO or timed-out commands can still be using this           *)
(* directory" (runtime.hpp), so that nothing removes a build directory that   *)
(* an operation or a compiler may still use.  The code does not keep this: a  *)
(* command that failed without being over has its directory removed.          *)
NoRemovalUnderWriter ==
    \A a \in Attempts : removing[a] => op[a] = "none" /\ compiler[a] = "none"

(* What the code does keep of it: "Timed-out operations leave their temporary *)
(* directories in place".  No I/O operation, late or not, is at work on a     *)
(* directory being removed, and with the fallback no compiler of a timed-out  *)
(* command is: only one that a broken command lost sight of.                  *)
TimedOutIsLeftAlone ==
    \A a \in Attempts : removing[a] =>
        op[a] = "none" /\ (Fallback => compiler[a] \in {"none", "lost"})

(* Published entries have no writers: the compiler of a request that commits  *)
(* is gone, and so is every other operation on the directory.                 *)
QuietPublication ==
    \A a \in Attempts : op[a] \in {"marker", "sync", "rename"} =>
        compiler[a] = "none" /\ ~removing[a]

(* Failures, collisions and errors clean up after themselves: a request that   *)
(* is over has left files of a build behind only where an operation timed out  *)
(* or where the removal, which it did not skip, met an error of its own.       *)
NoLeak ==
    \A r \in Requests, i \in Roots :
        (pc[r] \in {"returned", "failed"} /\ <<r, i>> \notin excused) =>
            temp[<<r, i>>].files = {}

(* Racing publishers, and processes that crash, never make a request of a     *)
(* process that met no fault itself raise an error.                           *)
FaultlessSuccess ==
    \A r \in Requests : pc[r] = "failed" =>
        faults[ProcOf[r]] > 0 \/ \E i \in Roots : pub[i].here /\ ~Hit(pub[i])

(* "After three I/O timeouts, a root is skipped for the lifetime of that      *)
(* runtime": whatever a request read before, it does not enter a root that is  *)
(* disabled; only requests that were past the check still finish there.        *)
Places == {"looking", "mkdir", "source", "command", "meta", "commit", "load", "cleanup"}
WorksAt(r, i) == at[r] = i /\ pc[r] \in Places

DisabledRootIsSkipped ==
    [][\A r \in Requests, i \in Roots :
          (timeouts[ProcOf[r]][i] >= TimeoutLimit /\ WorksAt(r, i)') => WorksAt(r, i)]_vars

(* A published entry never loses or gains a file, nor disappears, by a step of any *)
(* request or worker; only a power loss may undo its publication.              *)
PublishedStable ==
    [][\A i \in Roots : Hit(pub[i]) => pub'[i] = pub[i] \/ (crashes' > crashes /\ pub'[i] = NoDir)]_vars

(* What the store sees of the directories and of the requests.                *)
Entry == [i \in Roots |-> IF Files \subseteq pub[i].files THEN "complete"
                          ELSE IF Hit(pub[i]) THEN "torn"
                          ELSE IF pub[i].here THEN "broken" ELSE "absent"]

Answer == [r \in Requests |-> CASE pc[r] = "returned" -> <<"given", at[r]>>
                                [] pc[r] = "failed" -> <<"error">>
                                [] pc[r] = "dead" -> <<"dead">>
                                [] OTHER -> <<"none">>]

Store == INSTANCE ArtifactStore WITH entry <- Entry, answer <- Answer

(* The cache implements the store: entries appear complete and at once, stay,  *)
(* and every answer names one that is there.                                   *)
ImplementsStore == Store!ASpec

(* Every request ends, however many of its operations and compilers are stuck  *)
(* and whatever fails: timeouts move it past every root, and it returns, raises *)
(* or dies with its process.                                                   *)
RequestsEnd ==
    \A r \in Requests : pc[r] # "new" ~> pc[r] \in {"returned", "failed", "dead"}
=============================================================================
