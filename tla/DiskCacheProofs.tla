---------------------------- MODULE DiskCacheProofs ----------------------------
(***************************************************************************)
(* Theorems about DiskCache for any number of requests, processes and       *)
(* roots, any placement of the requests, and any number of faults and       *)
(* crashes.  The inductive invariant follows an attempt through its life:   *)
(* untouched until its request gets there, then one operation or one        *)
(* compiler at a time, and at every stage of the build a known set of files. *)
(***************************************************************************)
EXTENDS DiskCache, TLAPS

Idle(a) == op[a] = "none" /\ compiler[a] = "none" /\ ~removing[a]
Clean(a) == Idle(a) /\ temp[a].files = {}
Current(a) == at[a[1]] = a[2]

Committing == {"marker", "sync", "rename", "collided", "discard"}
Working == Waiting \cup {"command", "cleanup"}

(* TypeOK in parts, as the actions disturb them.                             *)
RequestType == /\ pc \in [Requests -> PCs]
               /\ at \in [Requests -> 1 .. NumRoots + 1]
               /\ first \in [Requests -> Roots]
               /\ lookupFailed \in [Requests -> SUBSET Roots]
CountType == timeouts \in [Procs -> [Roots -> Nat]]
DirType == temp \in [Attempts -> Dirs] /\ pub \in [Roots -> Dirs]
WorkType == /\ op \in [Attempts -> Ops]
            /\ removing \in [Attempts -> BOOLEAN]
            /\ compiler \in [Attempts -> {"none", "running", "orphan", "lost"}]
GhostType == /\ excused \in SUBSET Attempts
             /\ faults \in [Procs -> Nat]
             /\ crashes \in Nat

(* The loop indices.                                                         *)
PositionInv ==
    \A r \in Requests :
        /\ first[r] <= at[r]
        /\ pc[r] \notin {"lookup", "create", "failed"} => at[r] \in Roots

(* The roots a request has not reached yet as a place to build.              *)
Ahead(a) == \/ pc[a[1]] \in {"new", "lookup", "looking"} /\ a[2] >= first[a[1]]
            \/ pc[a[1]] = "create" /\ a[2] >= at[a[1]]
            \/ pc[a[1]] \in Working \cup {"load"} /\ a[2] > at[a[1]]

FrontierInv == \A a \in Attempts : Ahead(a) => Clean(a) /\ a \notin excused

(* Each attempt has one writer at most, and a waiting request has its own    *)
(* operation under way.                                                      *)
Writer(a) ==
    /\ op[a] # "none" => compiler[a] = "none" /\ ~removing[a]
    /\ compiler[a] = "running" => pc[a[1]] = "command" /\ Current(a)
    /\ Current(a) =>
          /\ pc[a[1]] \in {"mkdir", "source", "meta"} => op[a] = pc[a[1]]
          /\ pc[a[1]] = "commit" => op[a] \in Committing
          /\ pc[a[1]] = "command" => op[a] = "none" /\ ~removing[a]
          /\ pc[a[1]] = "cleanup" => op[a] = "none"

WriterInv == \A a \in Attempts : Writer(a)

(* What a build directory holds when its next operation starts.              *)
Stage(a) ==
    /\ Current(a) /\ pc[a[1]] = "command" => "source" \in temp[a].files
    /\ op[a] = "mkdir" => temp[a].files = {}
    /\ op[a] = "meta" => "source" \in temp[a].files
    /\ op[a] = "marker" => Artifact \subseteq temp[a].files
    /\ op[a] = "sync" => temp[a].files = Files
    /\ op[a] = "rename" => temp[a].files = Files /\ temp[a].synced = Files
    /\ op[a] = "collided" => pub[a[2]].here
    /\ op[a] = "discard" => Hit(pub[a[2]])

StageInv == \A a \in Attempts : Stage(a)

LoadInv == \A r \in Requests : pc[r] = "load" => Hit(pub[at[r]])

(* What is in place: nothing, a complete entry, or somebody's directory.     *)
PublishedInv ==
    \A i \in Roots :
        /\ Hit(pub[i]) => pub[i].files = Files /\ pub[i].synced = Files
        /\ Hit(pub[i]) => pub[i].here

(* An attempt without an excuse has no files once its request has left it.    *)
(* A compiler that the request lost may still be there, but its directory is  *)
(* gone.                                                                      *)
Swept(a) ==
    /\ op[a] = "none" /\ ~removing[a]
    /\ temp[a].files = {}
    /\ compiler[a] = "none" \/ (compiler[a] = "lost" /\ ~temp[a].here)

Tidy(a) ==
    (a \notin excused /\ pc[a[1]] # "dead") =>
        \/ /\ pc[a[1]] \in Working /\ Current(a)
           /\ pc[a[1]] = "cleanup" => compiler[a] \in {"none", "lost"}
        \/ Swept(a)

LeakInv == \A a \in Attempts : Tidy(a)

(* A request of a process without faults, with nothing but entries in place, *)
(* skips no root and meets no error.                                         *)
Undisturbed(p) == faults[p] = 0 /\ \A i \in Roots : pub[i].here => Hit(pub[i])

Smooth(r) == /\ \A i \in Roots : timeouts[ProcOf[r]][i] = 0
             /\ lookupFailed[r] = {}
             /\ pc[r] \notin {"failed", "cleanup"}
             /\ pc[r] = "create" => at[r] = first[r]

FaultInv == \A r \in Requests : Undisturbed(ProcOf[r]) => Smooth(r)

(* With the fallback, a directory is removed only when its compiler is gone   *)
(* or lost.                                                                   *)
RemovalInv ==
    Fallback => \A a \in Attempts : removing[a] => compiler[a] \in {"none", "lost"}

IInv == /\ RequestType /\ CountType /\ DirType /\ WorkType /\ GhostType
        /\ PositionInv /\ FrontierInv /\ WriterInv /\ StageInv /\ LoadInv
        /\ PublishedInv /\ ReturnsComplete /\ LeakInv /\ FaultInv /\ RemovalInv

-----------------------------------------------------------------------------
(* Attempts are pairs; directories are records.                              *)

LEMMA AttemptIs ==
    /\ \A a \in Attempts : a[1] \in Requests /\ a[2] \in Roots
    /\ \A a, b \in Attempts : (a[1] = b[1] /\ a[2] = b[2]) => a = b
BY DEF Attempts

LEMMA HereIs ==
    ASSUME NEW r \in Requests, at[r] \in Roots
    PROVE  /\ Here(r) \in Attempts
           /\ Here(r)[1] = r /\ Here(r)[2] = at[r]
           /\ \A a \in Attempts : (a[1] = r /\ a[2] = at[r]) <=> a = Here(r)
BY DEF Attempts, Here

LEMMA EmptyIs == /\ NoDir \in Dirs /\ NoDir.files = {} /\ ~NoDir.here
                 /\ EmptyDir \in Dirs /\ EmptyDir.files = {}
BY DEF NoDir, EmptyDir, Dirs

LEMMA FilesIs == \A d \in Dirs : d.files \subseteq Files /\ d.synced \subseteq d.files
BY DEF Dirs

LEMMA SyncIs == \A d \in Dirs : /\ Sync(d) \in Dirs
                                /\ Sync(d).files = d.files /\ Sync(d).synced = d.files
BY DEF Sync, Dirs

LEMMA SurvivesIs ==
    \A d \in Dirs : /\ Survives(d) \in Dirs /\ Survives(d).here = d.here
                    /\ Survives(d).files = d.synced /\ Survives(d).synced = d.synced
BY DEF Survives, Dirs

LEMMA FileIs == "source" \in Files /\ "cubin" \in Files /\ "meta" \in Files /\ "marker" \in Files
BY DEF Files, Artifact

LEMMA WriteIs ==
    \A d \in Dirs, f \in Files :
        /\ Write(d, f) \in Dirs /\ WriteSync(d, f) \in Dirs /\ Remove(d, f) \in Dirs
        /\ Write(d, f).files = d.files \cup {f}
        /\ WriteSync(d, f).files = d.files \cup {f}
        /\ WriteSync(d, f).synced = d.synced \cup {f}
        /\ Remove(d, f).files = d.files \ {f}
<1> SUFFICES ASSUME NEW d \in Dirs, NEW f \in Files
    PROVE /\ Write(d, f) \in Dirs /\ WriteSync(d, f) \in Dirs /\ Remove(d, f) \in Dirs
          /\ Write(d, f).files = d.files \cup {f}
          /\ WriteSync(d, f).files = d.files \cup {f}
          /\ WriteSync(d, f).synced = d.synced \cup {f}
          /\ Remove(d, f).files = d.files \ {f}
  OBVIOUS
<1>1. QED
  BY DEF Write, WriteSync, Remove, Dirs

-----------------------------------------------------------------------------
(* Every action preserves the invariant.                                     *)

LEMMA KeepsStart ==
    ASSUME IInv, NEW r \in Requests, Start(r)
    PROVE  IInv'
<1> USE AttemptIs DEF IInv, Start, GoTo, dirVars, workVars, ghosts
<1>1. CountType' /\ DirType' /\ WorkType' /\ GhostType' /\ PositionInv'
      /\ LoadInv' /\ PublishedInv' /\ ReturnsComplete' /\ RemovalInv'
  BY DEF CountType, DirType, WorkType, GhostType, PositionInv, LoadInv,
         PublishedInv, ReturnsComplete, RemovalInv
<1>2. RequestType'
  BY DEF RequestType, PCs
<1>3. FrontierInv'
  BY DEF FrontierInv, Ahead, Clean, Idle, Working, Waiting
<1>4. WriterInv'
  BY DEF WriterInv, Writer, Current
<1>5. StageInv'
  BY DEF StageInv, Stage, Current
<1>6. LeakInv'
  BY DEF LeakInv, Tidy, Swept, Current, Clean, Idle, Working, Waiting
<1>7. FaultInv'
  BY DEF FaultInv, Smooth, Undisturbed
<1>8. QED
  BY <1>1, <1>2, <1>3, <1>4, <1>5, <1>6, <1>7 DEF IInv

LEMMA KeepsSkipLookup ==
    ASSUME IInv, NEW r \in Requests, SkipLookup(r)
    PROVE  IInv'
<1> USE AttemptIs DEF IInv, SkipLookup, Disabled, dirVars, workVars, ghosts
<1>1. CountType' /\ DirType' /\ WorkType' /\ GhostType' /\ LoadInv'
      /\ PublishedInv' /\ ReturnsComplete' /\ RemovalInv'
  BY DEF CountType, DirType, WorkType, GhostType, LoadInv, PublishedInv,
         ReturnsComplete, RemovalInv
<1>2. RequestType'
  BY CacheAssumption DEF RequestType, Roots
<1>3. PositionInv'
  BY DEF RequestType, PositionInv, Roots
<1>4. FrontierInv'
  BY DEF FrontierInv, Ahead, Clean, Idle, Working, Waiting
<1>5. WriterInv'
  BY DEF WriterInv, Writer, Current
<1>6. StageInv'
  BY DEF StageInv, Stage, Current
<1>7. LeakInv'
  BY DEF LeakInv, Tidy, Swept, Current, Clean, Idle, Working, Waiting
<1>8. FaultInv'
  BY DEF FaultInv, Smooth, Undisturbed
<1>9. QED
  BY <1>1, <1>2, <1>3, <1>4, <1>5, <1>6, <1>7, <1>8 DEF IInv

LEMMA KeepsBeginLookup ==
    ASSUME IInv, NEW r \in Requests, BeginLookup(r)
    PROVE  IInv'
<1> USE AttemptIs DEF IInv, BeginLookup, Disabled, GoTo, dirVars, workVars,
        ghosts
<1>1. CountType' /\ DirType' /\ WorkType' /\ GhostType' /\ PositionInv'
      /\ LoadInv' /\ PublishedInv' /\ ReturnsComplete' /\ RemovalInv'
  BY DEF CountType, DirType, WorkType, GhostType, PositionInv, LoadInv,
         PublishedInv, ReturnsComplete, RemovalInv
<1>2. RequestType'
  BY DEF RequestType, PCs
<1>3. FrontierInv'
  BY DEF FrontierInv, Ahead, Clean, Idle, Working, Waiting
<1>4. WriterInv'
  BY DEF WriterInv, Writer, Current
<1>5. StageInv'
  BY DEF StageInv, Stage, Current
<1>6. LeakInv'
  BY DEF LeakInv, Tidy, Swept, Current, Clean, Idle, Working, Waiting
<1>7. FaultInv'
  BY DEF FaultInv, Smooth, Undisturbed
<1>8. QED
  BY <1>1, <1>2, <1>3, <1>4, <1>5, <1>6, <1>7 DEF IInv

LEMMA KeepsLookup ==
    ASSUME IInv, NEW r \in Requests, Lookup(r)
    PROVE  IInv'
<1> USE AttemptIs DEF IInv, Lookup, GoTo, LookNext, dirVars, workVars, ghosts
<1>a. at[r] \in Roots
  BY DEF PositionInv
<1>b. /\ Here(r) \in Attempts /\ Here(r)[1] = r /\ Here(r)[2] = at[r]
      /\ \A a \in Attempts : (a[1] = r /\ a[2] = at[r]) <=> a = Here(r)
  BY <1>a, HereIs
<1>1. CountType' /\ DirType' /\ WorkType' /\ GhostType' /\ PublishedInv'
      /\ RemovalInv'
  BY DEF CountType, DirType, WorkType, GhostType, PublishedInv, RemovalInv
<1>2. RequestType'
  BY <1>a, CacheAssumption DEF RequestType, PCs, Roots
<1>3. PositionInv'
  BY DEF RequestType, PositionInv, Roots
<1>4. FrontierInv'
  <2> SUFFICES ASSUME NEW b \in Attempts, Ahead(b)' PROVE Clean(b)' /\ b \notin excused'
    BY DEF FrontierInv
  <2>1. Ahead(b)
    BY <1>a, <1>b, CacheAssumption
       DEF RequestType, PositionInv, Ahead, Working, Waiting, Roots
  <2>2. Clean(b) /\ b \notin excused
    BY <2>1 DEF FrontierInv
  <2>3. QED
    BY <2>2 DEF Clean, Idle
<1>5. WriterInv'
  BY DEF RequestType, WriterInv, Writer, Current
<1>6. StageInv'
  BY DEF RequestType, StageInv, Stage, Current
<1>7. LoadInv'
  BY DEF RequestType, LoadInv
<1>8. ReturnsComplete'
  BY DEF RequestType, ReturnsComplete
<1>9. LeakInv'
  BY DEF RequestType, LeakInv, Tidy, Swept, Current, Clean, Idle, Working, Waiting
<1>10. FaultInv'
  BY DEF RequestType, FaultInv, Smooth, Undisturbed
<1>11. QED
  BY <1>1, <1>2, <1>3, <1>4, <1>5, <1>6, <1>7, <1>8, <1>9, <1>10 DEF IInv

LEMMA KeepsLookupFails ==
    ASSUME IInv, NEW r \in Requests, NEW kind \in Kinds, LookupFails(r, kind)
    PROVE  IInv'
<1> USE AttemptIs DEF IInv, LookupFails, Kinds, Fault, Report, GoTo, LookNext,
        dirVars, workVars
<1>a. at[r] \in Roots
  BY DEF PositionInv
<1>b. /\ Here(r) \in Attempts /\ Here(r)[1] = r /\ Here(r)[2] = at[r]
      /\ \A a \in Attempts : (a[1] = r /\ a[2] = at[r]) <=> a = Here(r)
  BY <1>a, HereIs
<1>1. DirType' /\ WorkType' /\ PublishedInv' /\ RemovalInv'
  BY DEF DirType, WorkType, PublishedInv, RemovalInv
<1>2. RequestType'
  BY <1>a, CacheAssumption DEF RequestType, PCs, Roots
<1>3. CountType'
  BY <1>a, CacheAssumption DEF CountType
<1>4. GhostType'
  BY CacheAssumption DEF GhostType
<1>5. PositionInv'
  BY DEF RequestType, PositionInv, Roots
<1>6. FrontierInv'
  <2> SUFFICES ASSUME NEW b \in Attempts, Ahead(b)' PROVE Clean(b)' /\ b \notin excused'
    BY DEF FrontierInv
  <2>1. Ahead(b)
    BY <1>a, <1>b, CacheAssumption
       DEF RequestType, PositionInv, Ahead, Working, Waiting, Roots
  <2>2. Clean(b) /\ b \notin excused
    BY <2>1 DEF FrontierInv
  <2>3. QED
    BY <2>2 DEF Clean, Idle
<1>7. WriterInv'
  BY DEF RequestType, WriterInv, Writer, Current
<1>8. StageInv'
  BY DEF RequestType, StageInv, Stage, Current
<1>9. LoadInv'
  BY DEF RequestType, LoadInv
<1>10. ReturnsComplete'
  BY DEF RequestType, ReturnsComplete
<1>11. LeakInv'
  BY DEF RequestType, LeakInv, Tidy, Swept, Current, Clean, Idle, Working, Waiting
<1>12. FaultInv'
  <2> SUFFICES ASSUME NEW s \in Requests, Undisturbed(ProcOf[s])' PROVE Smooth(s)'
    BY DEF FaultInv
  <2>1. ProcOf[s] # ProcOf[r] /\ Undisturbed(ProcOf[s])
    BY CacheAssumption DEF GhostType, Undisturbed
  <2>2. QED
    BY <1>a, <1>b, <2>1, CacheAssumption
       DEF FaultInv, Smooth, RequestType, CountType
<1>13. QED
  BY <1>1, <1>2, <1>3, <1>4, <1>5, <1>6, <1>7, <1>8, <1>9, <1>10, <1>11, <1>12 DEF IInv

LEMMA KeepsLookupEnds ==
    ASSUME IInv, NEW r \in Requests, LookupEnds(r)
    PROVE  IInv'
<1> USE AttemptIs DEF IInv, LookupEnds, dirVars, workVars, ghosts
<1>1. CountType' /\ DirType' /\ WorkType' /\ GhostType' /\ LoadInv'
      /\ PublishedInv' /\ ReturnsComplete' /\ RemovalInv'
  BY DEF CountType, DirType, WorkType, GhostType, LoadInv, PublishedInv,
         ReturnsComplete, RemovalInv
<1>2. RequestType'
  BY CacheAssumption DEF RequestType, PCs, Roots
<1>3. PositionInv'
  BY DEF RequestType, PositionInv, Roots
<1>4. FrontierInv'
  BY DEF RequestType, FrontierInv, Ahead, Clean, Idle, Working, Waiting
<1>5. WriterInv'
  BY DEF WriterInv, Writer, Current
<1>6. StageInv'
  BY DEF StageInv, Stage, Current
<1>7. LeakInv'
  BY DEF LeakInv, Tidy, Swept, Current, Clean, Idle, Working, Waiting
<1>8. FaultInv'
  BY DEF RequestType, FaultInv, Smooth, Undisturbed
<1>9. QED
  BY <1>1, <1>2, <1>3, <1>4, <1>5, <1>6, <1>7, <1>8 DEF IInv

LEMMA KeepsSkipCreate ==
    ASSUME IInv, NEW r \in Requests, SkipCreate(r)
    PROVE  IInv'
<1> USE AttemptIs DEF IInv, SkipCreate, Disabled, dirVars, workVars, ghosts
<1>1. CountType' /\ DirType' /\ WorkType' /\ GhostType' /\ LoadInv'
      /\ PublishedInv' /\ ReturnsComplete' /\ RemovalInv'
  BY DEF CountType, DirType, WorkType, GhostType, LoadInv, PublishedInv,
         ReturnsComplete, RemovalInv
<1>2. RequestType'
  BY CacheAssumption DEF RequestType, Roots
<1>3. PositionInv'
  BY DEF RequestType, PositionInv, Roots
<1>4. FrontierInv'
  BY DEF FrontierInv, Ahead, Clean, Idle, Roots
<1>5. WriterInv'
  BY DEF WriterInv, Writer, Current
<1>6. StageInv'
  BY DEF StageInv, Stage, Current
<1>7. LeakInv'
  BY DEF LeakInv, Tidy, Swept, Current, Clean, Idle, Working, Waiting
<1>8. FaultInv'
  BY CacheAssumption DEF FaultInv, Smooth, Undisturbed
<1>9. QED
  BY <1>1, <1>2, <1>3, <1>4, <1>5, <1>6, <1>7, <1>8 DEF IInv

LEMMA KeepsCreate ==
    ASSUME IInv, NEW r \in Requests, Create(r)
    PROVE  IInv'
<1> USE AttemptIs DEF IInv, Create, Disabled, GoTo, dirVars, ghosts
<1>a. at[r] \in Roots
  BY DEF PositionInv
<1>b. /\ Here(r) \in Attempts /\ Here(r)[1] = r /\ Here(r)[2] = at[r]
      /\ \A a \in Attempts : (a[1] = r /\ a[2] = at[r]) <=> a = Here(r)
  BY <1>a, HereIs
<1>1. CountType' /\ DirType' /\ GhostType' /\ PositionInv' /\ LoadInv'
      /\ PublishedInv' /\ ReturnsComplete' /\ RemovalInv'
  BY DEF CountType, DirType, GhostType, PositionInv, LoadInv, PublishedInv,
         ReturnsComplete, RemovalInv
<1>2. RequestType'
  BY DEF RequestType, PCs
<1>3. WorkType'
  BY <1>b DEF WorkType, Ops
<1>4. FrontierInv'
  BY <1>b DEF RequestType, FrontierInv, Ahead, Clean, Idle, Roots
<1>5. WriterInv'
  BY <1>b
     DEF RequestType, WorkType, FrontierInv, Ahead, Clean, Idle, WriterInv,
         Writer, Current
<1>6. StageInv'
  BY <1>b DEF RequestType, FrontierInv, Ahead, Clean, StageInv, Stage, Current
<1>7. LeakInv'
  BY <1>b
     DEF RequestType, LeakInv, Tidy, Swept, Current, Clean, Idle, Working, Waiting
<1>8. FaultInv'
  BY DEF FaultInv, Smooth, Undisturbed
<1>9. QED
  BY <1>1, <1>2, <1>3, <1>4, <1>5, <1>6, <1>7, <1>8 DEF IInv

LEMMA KeepsCreateFails ==
    ASSUME IInv, NEW r \in Requests, NEW kind \in Kinds, CreateFails(r, kind)
    PROVE  IInv'
<1> USE AttemptIs DEF IInv, CreateFails, Kinds, Fault, Report, MarkTimeout,
        GoTo
<1>a. at[r] \in Roots
  BY DEF PositionInv
<1>b. /\ Here(r) \in Attempts /\ Here(r)[1] = r /\ Here(r)[2] = at[r]
      /\ \A a \in Attempts : (a[1] = r /\ a[2] = at[r]) <=> a = Here(r)
  BY <1>a, HereIs
<1>1. PublishedInv' /\ RemovalInv'
  BY DEF PublishedInv, RemovalInv
<1>2. RequestType'
  BY <1>a, CacheAssumption DEF RequestType, PCs, Roots
<1>3. CountType'
  BY <1>a, CacheAssumption DEF CountType
<1>4. DirType'
  BY EmptyIs DEF DirType
<1>5. WorkType'
  BY <1>b DEF WorkType, Ops
<1>6. GhostType'
  BY <1>b, CacheAssumption DEF GhostType
<1>7. PositionInv'
  BY DEF RequestType, PositionInv, Roots
<1>8. FrontierInv'
  BY <1>b
     DEF RequestType, DirType, FrontierInv, Ahead, Clean, Idle, Working,
         Waiting, Roots
<1>9. WriterInv'
  BY <1>b DEF RequestType, WriterInv, Writer, Current
<1>10. StageInv'
  BY <1>b, EmptyIs
     DEF RequestType, DirType, WriterInv, Writer, StageInv, Stage, Current
<1>11. LoadInv'
  BY DEF RequestType, LoadInv
<1>12. ReturnsComplete'
  BY DEF RequestType, ReturnsComplete
<1>13. LeakInv'
  <2> SUFFICES ASSUME NEW b \in Attempts PROVE Tidy(b)'
    BY DEF LeakInv
  <2>1. Tidy(b)
    BY DEF LeakInv
  <2>2. CASE b = Here(r)
    BY <1>a, <1>b, <2>1, <2>2, EmptyIs
       DEF Tidy, Swept, Clean, Idle, Working, Waiting, Current, WriterInv, Writer,
           StageInv, Stage, RequestType, WorkType, DirType, GhostType,
           Committing
  <2>3. CASE b # Here(r)
    BY <1>a, <1>b, <2>1, <2>3
       DEF Tidy, Swept, Clean, Idle, Working, Waiting, Current, RequestType,
           WorkType, DirType, GhostType
  <2>4. QED
    BY <2>2, <2>3
<1>14. FaultInv'
  BY CacheAssumption DEF RequestType, GhostType, FaultInv, Smooth, Undisturbed
<1>15. QED
  BY <1>1, <1>2, <1>3, <1>4, <1>5, <1>6, <1>7, <1>8, <1>9, <1>10, <1>11,
     <1>12, <1>13, <1>14 DEF IInv

LEMMA KeepsAllRootsFailed ==
    ASSUME IInv, NEW r \in Requests, AllRootsFailed(r)
    PROVE  IInv'
<1> USE AttemptIs DEF IInv, AllRootsFailed, GoTo, dirVars, workVars, ghosts
<1>1. CountType' /\ DirType' /\ WorkType' /\ GhostType' /\ PositionInv'
      /\ LoadInv' /\ PublishedInv' /\ ReturnsComplete' /\ RemovalInv'
  BY DEF CountType, DirType, WorkType, GhostType, PositionInv, LoadInv,
         PublishedInv, ReturnsComplete, RemovalInv
<1>2. RequestType'
  BY DEF RequestType, PCs
<1>3. FrontierInv'
  BY DEF FrontierInv, Ahead, Clean, Idle, Working, Waiting
<1>4. WriterInv'
  BY DEF WriterInv, Writer, Current
<1>5. StageInv'
  BY DEF StageInv, Stage, Current
<1>6. LeakInv'
  BY DEF LeakInv, Tidy, Swept, Current, Clean, Idle, Working, Waiting
<1>7. FaultInv'
  <2>1. ~Undisturbed(ProcOf[r])
    BY CacheAssumption DEF FaultInv, Smooth, RequestType, Roots
  <2>2. QED
    BY <2>1 DEF FaultInv, Smooth, Undisturbed, RequestType
<1>8. QED
  BY <1>1, <1>2, <1>3, <1>4, <1>5, <1>6, <1>7 DEF IInv

LEMMA KeepsCommandSucceeds ==
    ASSUME IInv, NEW r \in Requests, CommandSucceeds(r)
    PROVE  IInv'
<1> USE AttemptIs DEF IInv, CommandSucceeds, GoTo, dirVars, ghosts
<1>a. at[r] \in Roots
  BY DEF PositionInv
<1>b. /\ Here(r) \in Attempts /\ Here(r)[1] = r /\ Here(r)[2] = at[r]
      /\ \A a \in Attempts : (a[1] = r /\ a[2] = at[r]) <=> a = Here(r)
  BY <1>a, HereIs
<1>1. CountType' /\ DirType' /\ GhostType' /\ PositionInv' /\ LoadInv'
      /\ PublishedInv' /\ ReturnsComplete' /\ RemovalInv'
  BY DEF CountType, DirType, GhostType, PositionInv, LoadInv, PublishedInv,
         ReturnsComplete, RemovalInv
<1>2. RequestType'
  BY DEF RequestType, PCs
<1>3. WorkType'
  BY <1>b DEF WorkType, Ops
<1>4. FrontierInv'
  BY <1>b DEF FrontierInv, Ahead, Clean, Idle, Working, Roots
<1>5. WriterInv'
  BY <1>b DEF RequestType, WorkType, WriterInv, Writer, Current
<1>6. StageInv'
  BY <1>b DEF StageInv, Stage, Current
<1>7. LeakInv'
  BY <1>b DEF LeakInv, Tidy, Swept, Current, Clean, Idle, Working, Waiting
<1>8. FaultInv'
  BY DEF FaultInv, Smooth, Undisturbed
<1>9. QED
  BY <1>1, <1>2, <1>3, <1>4, <1>5, <1>6, <1>7, <1>8 DEF IInv

LEMMA KeepsCommandFails ==
    ASSUME IInv, NEW r \in Requests, CommandFails(r)
    PROVE  IInv'
<1> USE AttemptIs DEF IInv, CommandFails, Fault, Throw, Report, MarkTimeout,
        GoTo, NextRoot, dirVars
<1>a. at[r] \in Roots
  BY DEF PositionInv
<1>b. /\ Here(r) \in Attempts /\ Here(r)[1] = r /\ Here(r)[2] = at[r]
      /\ \A a \in Attempts : (a[1] = r /\ a[2] = at[r]) <=> a = Here(r)
  BY <1>a, HereIs
<1>1. CountType' /\ DirType' /\ PublishedInv'
  BY DEF CountType, DirType, PublishedInv
<1>2. RequestType'
  BY DEF RequestType, PCs
<1>3. WorkType'
  <2>1. removing' = removing \/ removing' = [removing EXCEPT ![Here(r)] = TRUE]
    BY <1>a, <1>b
  <2>2. removing' \in [Attempts -> BOOLEAN]
    BY <2>1 DEF WorkType
  <2>3. QED
    BY <2>2, <1>a, <1>b DEF WorkType, Ops
<1>4. GhostType'
  BY CacheAssumption DEF GhostType
<1>5. PositionInv'
  BY DEF RequestType, PositionInv
<1>6. FrontierInv'
  BY <1>b DEF RequestType, WorkType, FrontierInv, Ahead, Clean, Idle, Working
<1>7. WriterInv'
  BY <1>b DEF RequestType, WorkType, WriterInv, Writer, Current
<1>8. StageInv'
  BY DEF RequestType, StageInv, Stage, Current
<1>9. LoadInv'
  BY DEF RequestType, LoadInv
<1>10. ReturnsComplete'
  BY DEF RequestType, ReturnsComplete
<1>11. LeakInv'
  BY <1>b
     DEF RequestType, WorkType, LeakInv, Tidy, Swept, Current, Clean, Idle, Working
<1>12. FaultInv'
  <2> SUFFICES ASSUME NEW s \in Requests, Undisturbed(ProcOf[s])' PROVE Smooth(s)'
    BY DEF FaultInv
  <2>1. ProcOf[s] # ProcOf[r] /\ Undisturbed(ProcOf[s])
    BY CacheAssumption DEF GhostType, Undisturbed
  <2>2. QED
    BY <1>a, <1>b, <2>1, CacheAssumption
       DEF FaultInv, Smooth, RequestType, CountType
<1>13. RemovalInv'
  BY DEF WorkType, RemovalInv
<1>14. QED
  BY <1>1, <1>2, <1>3, <1>4, <1>5, <1>6, <1>7, <1>8, <1>9, <1>10, <1>11,
     <1>12, <1>13 DEF IInv

LEMMA KeepsCommandBreaks ==
    ASSUME IInv, NEW r \in Requests, CommandBreaks(r)
    PROVE  IInv'
<1> USE AttemptIs DEF IInv, CommandBreaks, Fault, Throw, Report, MarkTimeout,
        GoTo, NextRoot, dirVars
<1>a. at[r] \in Roots
  BY DEF PositionInv
<1>b. /\ Here(r) \in Attempts /\ Here(r)[1] = r /\ Here(r)[2] = at[r]
      /\ \A a \in Attempts : (a[1] = r /\ a[2] = at[r]) <=> a = Here(r)
  BY <1>a, HereIs
<1>1. CountType' /\ DirType' /\ PublishedInv'
  BY DEF CountType, DirType, PublishedInv
<1>2. RequestType'
  BY DEF RequestType, PCs
<1>3. WorkType'
  <2>1. removing' = removing \/ removing' = [removing EXCEPT ![Here(r)] = TRUE]
    BY <1>a, <1>b
  <2>2. removing' \in [Attempts -> BOOLEAN]
    BY <2>1 DEF WorkType
  <2>3. QED
    BY <2>2, <1>a, <1>b DEF WorkType, Ops
<1>4. GhostType'
  BY CacheAssumption DEF GhostType
<1>5. PositionInv'
  BY DEF RequestType, PositionInv
<1>6. FrontierInv'
  BY <1>b DEF RequestType, WorkType, FrontierInv, Ahead, Clean, Idle, Working
<1>7. WriterInv'
  BY <1>b DEF RequestType, WorkType, WriterInv, Writer, Current
<1>8. StageInv'
  BY DEF RequestType, StageInv, Stage, Current
<1>9. LoadInv'
  BY DEF RequestType, LoadInv
<1>10. ReturnsComplete'
  BY DEF RequestType, ReturnsComplete
<1>11. LeakInv'
  BY <1>b
     DEF RequestType, WorkType, LeakInv, Tidy, Swept, Current, Clean, Idle, Working
<1>12. FaultInv'
  <2> SUFFICES ASSUME NEW s \in Requests, Undisturbed(ProcOf[s])' PROVE Smooth(s)'
    BY DEF FaultInv
  <2>1. ProcOf[s] # ProcOf[r] /\ Undisturbed(ProcOf[s])
    BY CacheAssumption DEF GhostType, Undisturbed
  <2>2. QED
    BY <1>a, <1>b, <2>1, CacheAssumption
       DEF FaultInv, Smooth, RequestType, CountType
<1>13. RemovalInv'
  BY DEF WorkType, RemovalInv
<1>14. QED
  BY <1>1, <1>2, <1>3, <1>4, <1>5, <1>6, <1>7, <1>8, <1>9, <1>10, <1>11,
     <1>12, <1>13 DEF IInv

LEMMA KeepsCommandTimesOut ==
    ASSUME IInv, NEW r \in Requests, CommandTimesOut(r)
    PROVE  IInv'
<1> USE AttemptIs DEF IInv, CommandTimesOut, Fault, Throw, Report,
        MarkTimeout, GoTo, NextRoot, dirVars
<1>a. at[r] \in Roots
  BY DEF PositionInv
<1>b. /\ Here(r) \in Attempts /\ Here(r)[1] = r /\ Here(r)[2] = at[r]
      /\ \A a \in Attempts : (a[1] = r /\ a[2] = at[r]) <=> a = Here(r)
  BY <1>a, HereIs
<1>1. CountType' /\ DirType' /\ PublishedInv'
  BY DEF CountType, DirType, PublishedInv
<1>2. RequestType'
  BY <1>b, CacheAssumption DEF RequestType, PCs, Roots
<1>3. WorkType'
  <2>1. removing' = removing \/ removing' = [removing EXCEPT ![Here(r)] = TRUE]
    BY <1>a, <1>b
  <2>2. removing' \in [Attempts -> BOOLEAN]
    BY <2>1 DEF WorkType
  <2>3. QED
    BY <2>2, <1>a, <1>b DEF WorkType, Ops
<1>4. GhostType'
  BY <1>b, CacheAssumption DEF GhostType
<1>5. PositionInv'
  BY DEF RequestType, PositionInv
<1>6. FrontierInv'
  <2> SUFFICES ASSUME NEW b \in Attempts, Ahead(b)' PROVE Clean(b)' /\ b \notin excused'
    BY DEF FrontierInv
  <2>1. Ahead(b) /\ b # Here(r)
    BY <1>a, <1>b, CacheAssumption
       DEF RequestType, PositionInv, FrontierInv, Ahead, Clean, Idle, Working,
           Waiting, Roots
  <2>2. Clean(b) /\ b \notin excused
    BY <2>1 DEF FrontierInv
  <2>3. QED
    BY <1>a, <1>b, <2>1, <2>2 DEF WorkType, DirType, Clean, Idle
<1>7. WriterInv'
  BY <1>b DEF RequestType, WorkType, WriterInv, Writer, Current
<1>8. StageInv'
  BY DEF RequestType, StageInv, Stage, Current
<1>9. LoadInv'
  BY DEF RequestType, LoadInv
<1>10. ReturnsComplete'
  BY DEF RequestType, ReturnsComplete
<1>11. LeakInv'
  BY <1>b DEF RequestType, WorkType, LeakInv, Tidy, Swept, Current, Clean, Idle
<1>12. FaultInv'
  BY CacheAssumption DEF RequestType, GhostType, FaultInv, Smooth, Undisturbed
<1>13. RemovalInv'
  BY <1>b DEF WriterInv, Writer, RemovalInv, Current
<1>14. QED
  BY <1>1, <1>2, <1>3, <1>4, <1>5, <1>6, <1>7, <1>8, <1>9, <1>10, <1>11,
     <1>12, <1>13 DEF IInv

LEMMA KeepsOperationFails ==
    ASSUME IInv, NEW r \in Requests, OperationFails(r)
    PROVE  IInv'
<1> USE AttemptIs DEF IInv, OperationFails, Building, Fault, Throw, Report,
        MarkTimeout, GoTo, NextRoot, dirVars
<1>a. at[r] \in Roots
  BY DEF PositionInv, Building
<1>b. /\ Here(r) \in Attempts /\ Here(r)[1] = r /\ Here(r)[2] = at[r]
      /\ \A a \in Attempts : (a[1] = r /\ a[2] = at[r]) <=> a = Here(r)
  BY <1>a, HereIs
<1>1. CountType' /\ DirType' /\ PublishedInv'
  BY DEF CountType, DirType, PublishedInv
<1>2. RequestType'
  BY DEF RequestType, PCs
<1>3. WorkType'
  <2>1. removing' = removing \/ removing' = [removing EXCEPT ![Here(r)] = TRUE]
    BY <1>a, <1>b
  <2>2. removing' \in [Attempts -> BOOLEAN]
    BY <2>1 DEF WorkType
  <2>3. QED
    BY <2>2, <1>a, <1>b DEF WorkType, Ops
<1>4. GhostType'
  BY CacheAssumption DEF GhostType
<1>5. PositionInv'
  BY DEF RequestType, PositionInv
<1>6. FrontierInv'
  BY <1>b
     DEF RequestType, WorkType, FrontierInv, Ahead, Clean, Idle, Working,
         Waiting
<1>7. WriterInv'
  BY <1>b DEF RequestType, WorkType, WriterInv, Writer, Current
<1>8. StageInv'
  BY DEF RequestType, StageInv, Stage, Current
<1>9. LoadInv'
  BY DEF RequestType, LoadInv
<1>10. ReturnsComplete'
  BY DEF RequestType, ReturnsComplete
<1>11. LeakInv'
  <2> SUFFICES ASSUME NEW b \in Attempts PROVE Tidy(b)'
    BY DEF LeakInv
  <2>1. Tidy(b)
    BY DEF LeakInv
  <2>2. CASE b = Here(r)
    BY <1>a, <1>b, <2>1, <2>2, EmptyIs
       DEF Tidy, Swept, Clean, Idle, Working, Waiting, Current, WriterInv, Writer,
           StageInv, Stage, RequestType, WorkType, DirType, GhostType,
           Committing
  <2>3. CASE b # Here(r)
    BY <1>a, <1>b, <2>1, <2>3
       DEF Tidy, Swept, Clean, Idle, Working, Waiting, Current, RequestType,
           WorkType, DirType, GhostType
  <2>4. QED
    BY <2>2, <2>3
<1>12. FaultInv'
  <2> SUFFICES ASSUME NEW s \in Requests, Undisturbed(ProcOf[s])' PROVE Smooth(s)'
    BY DEF FaultInv
  <2>1. ProcOf[s] # ProcOf[r] /\ Undisturbed(ProcOf[s])
    BY CacheAssumption DEF GhostType, Undisturbed
  <2>2. QED
    BY <1>a, <1>b, <2>1, CacheAssumption
       DEF FaultInv, Smooth, RequestType, CountType
<1>13. RemovalInv'
  BY <1>b DEF WorkType, WriterInv, Writer, RemovalInv, Current, Committing
<1>14. QED
  BY <1>1, <1>2, <1>3, <1>4, <1>5, <1>6, <1>7, <1>8, <1>9, <1>10, <1>11,
     <1>12, <1>13 DEF IInv

LEMMA KeepsOperationTimesOut ==
    ASSUME IInv, NEW r \in Requests, OperationTimesOut(r)
    PROVE  IInv'
<1> USE AttemptIs DEF IInv, OperationTimesOut, Building, Fault, Throw, Report,
        MarkTimeout, GoTo, NextRoot, dirVars
<1>a. at[r] \in Roots
  BY DEF PositionInv, Building
<1>b. /\ Here(r) \in Attempts /\ Here(r)[1] = r /\ Here(r)[2] = at[r]
      /\ \A a \in Attempts : (a[1] = r /\ a[2] = at[r]) <=> a = Here(r)
  BY <1>a, HereIs
<1>1. DirType' /\ WorkType' /\ PublishedInv' /\ RemovalInv'
  BY DEF DirType, WorkType, PublishedInv, RemovalInv
<1>2. RequestType'
  BY <1>a, CacheAssumption DEF RequestType, PCs, Roots
<1>3. CountType'
  BY <1>a, CacheAssumption DEF CountType
<1>4. GhostType'
  BY <1>b, CacheAssumption DEF GhostType
<1>5. PositionInv'
  BY DEF RequestType, PositionInv
<1>6. FrontierInv'
  BY <1>b
     DEF RequestType, FrontierInv, Ahead, Clean, Idle, Working, Waiting, Roots
<1>7. WriterInv'
  BY DEF RequestType, WriterInv, Writer, Current
<1>8. StageInv'
  BY DEF RequestType, StageInv, Stage, Current
<1>9. LoadInv'
  BY DEF RequestType, LoadInv
<1>10. ReturnsComplete'
  BY DEF RequestType, ReturnsComplete
<1>11. LeakInv'
  BY <1>b DEF RequestType, LeakInv, Tidy, Swept, Current, Clean, Idle
<1>12. FaultInv'
  <2> SUFFICES ASSUME NEW s \in Requests, Undisturbed(ProcOf[s])' PROVE Smooth(s)'
    BY DEF FaultInv
  <2>1. ProcOf[s] # ProcOf[r] /\ Undisturbed(ProcOf[s])
    BY CacheAssumption DEF GhostType, Undisturbed
  <2>2. QED
    BY <1>a, <1>b, <2>1, CacheAssumption
       DEF FaultInv, Smooth, RequestType, CountType
<1>13. QED
  BY <1>1, <1>2, <1>3, <1>4, <1>5, <1>6, <1>7, <1>8, <1>9, <1>10, <1>11, <1>12 DEF IInv

LEMMA KeepsCleanupTimesOut ==
    ASSUME IInv, NEW r \in Requests, CleanupTimesOut(r)
    PROVE  IInv'
<1> USE AttemptIs DEF IInv, CleanupTimesOut, Fault, MarkTimeout, GoTo,
        NextRoot, dirVars, workVars
<1>a. at[r] \in Roots
  BY DEF PositionInv
<1>b. /\ Here(r) \in Attempts /\ Here(r)[1] = r /\ Here(r)[2] = at[r]
      /\ \A a \in Attempts : (a[1] = r /\ a[2] = at[r]) <=> a = Here(r)
  BY <1>a, HereIs
<1>1. CountType' /\ DirType' /\ WorkType' /\ PublishedInv' /\ RemovalInv'
  BY DEF CountType, DirType, WorkType, PublishedInv, RemovalInv
<1>2. RequestType'
  BY <1>a, CacheAssumption DEF RequestType, PCs, Roots
<1>3. GhostType'
  BY <1>b, CacheAssumption DEF GhostType
<1>4. PositionInv'
  BY DEF RequestType, PositionInv
<1>5. FrontierInv'
  <2> SUFFICES ASSUME NEW b \in Attempts, Ahead(b)' PROVE Clean(b)' /\ b \notin excused'
    BY DEF FrontierInv
  <2>1. Ahead(b) /\ b # Here(r)
    BY <1>a, <1>b, CacheAssumption
       DEF RequestType, PositionInv, FrontierInv, Ahead, Clean, Idle, Working,
           Waiting, Roots
  <2>2. Clean(b) /\ b \notin excused
    BY <2>1 DEF FrontierInv
  <2>3. QED
    BY <1>a, <1>b, <2>1, <2>2 DEF WorkType, DirType, Clean, Idle
<1>6. WriterInv'
  BY DEF RequestType, WriterInv, Writer, Current
<1>7. StageInv'
  BY DEF RequestType, StageInv, Stage, Current
<1>8. LoadInv'
  BY DEF RequestType, LoadInv
<1>9. ReturnsComplete'
  BY DEF RequestType, ReturnsComplete
<1>10. LeakInv'
  BY <1>b DEF RequestType, LeakInv, Tidy, Swept, Current, Clean, Idle
<1>11. FaultInv'
  <2> SUFFICES ASSUME NEW s \in Requests, Undisturbed(ProcOf[s])' PROVE Smooth(s)'
    BY DEF FaultInv
  <2>1. ProcOf[s] # ProcOf[r] /\ Undisturbed(ProcOf[s])
    BY CacheAssumption DEF GhostType, Undisturbed
  <2>2. QED
    BY <1>a, <1>b, <2>1, CacheAssumption
       DEF FaultInv, Smooth, RequestType, CountType
<1>12. QED
  BY <1>1, <1>2, <1>3, <1>4, <1>5, <1>6, <1>7, <1>8, <1>9, <1>10, <1>11 DEF IInv

LEMMA KeepsLoad ==
    ASSUME IInv, NEW r \in Requests, Load(r)
    PROVE  IInv'
<1> USE AttemptIs DEF IInv, Load, GoTo, dirVars, workVars, ghosts
<1>a. at[r] \in Roots
  BY DEF PositionInv
<1>1. CountType' /\ DirType' /\ WorkType' /\ GhostType' /\ PositionInv'
      /\ LoadInv' /\ PublishedInv' /\ RemovalInv'
  BY DEF CountType, DirType, WorkType, GhostType, PositionInv, LoadInv,
         PublishedInv, RemovalInv
<1>2. RequestType'
  BY DEF RequestType, PCs
<1>3. FrontierInv'
  BY DEF FrontierInv, Ahead, Clean, Idle
<1>4. WriterInv'
  BY DEF WriterInv, Writer, Current
<1>5. StageInv'
  BY DEF StageInv, Stage, Current
<1>6. ReturnsComplete'
  BY <1>a DEF ReturnsComplete, PublishedInv, LoadInv
<1>7. LeakInv'
  BY DEF LeakInv, Tidy, Swept, Current, Clean, Idle, Working, Waiting
<1>8. FaultInv'
  BY DEF FaultInv, Smooth, Undisturbed
<1>9. QED
  BY <1>1, <1>2, <1>3, <1>4, <1>5, <1>6, <1>7, <1>8 DEF IInv

LEMMA KeepsLoadFails ==
    ASSUME IInv, NEW r \in Requests, NEW kind \in Kinds, LoadFails(r, kind)
    PROVE  IInv'
<1> USE AttemptIs DEF IInv, LoadFails, Kinds, Fault, Report, GoTo, NextRoot,
        dirVars, workVars
<1>a. at[r] \in Roots
  BY DEF PositionInv
<1>b. /\ Here(r) \in Attempts /\ Here(r)[1] = r /\ Here(r)[2] = at[r]
      /\ \A a \in Attempts : (a[1] = r /\ a[2] = at[r]) <=> a = Here(r)
  BY <1>a, HereIs
<1>1. DirType' /\ WorkType' /\ PublishedInv' /\ RemovalInv'
  BY DEF DirType, WorkType, PublishedInv, RemovalInv
<1>2. RequestType'
  BY <1>a, CacheAssumption DEF RequestType, PCs, Roots
<1>3. CountType'
  BY <1>a, CacheAssumption DEF CountType
<1>4. GhostType'
  BY CacheAssumption DEF GhostType
<1>5. PositionInv'
  BY DEF RequestType, PositionInv
<1>6. FrontierInv'
  <2> SUFFICES ASSUME NEW b \in Attempts, Ahead(b)' PROVE Clean(b)' /\ b \notin excused'
    BY DEF FrontierInv
  <2>1. Ahead(b)
    BY <1>a, <1>b, CacheAssumption
       DEF RequestType, PositionInv, Ahead, Working, Waiting, Roots
  <2>2. Clean(b) /\ b \notin excused
    BY <2>1 DEF FrontierInv
  <2>3. QED
    BY <2>2 DEF Clean, Idle
<1>7. WriterInv'
  BY DEF RequestType, WriterInv, Writer, Current
<1>8. StageInv'
  BY DEF RequestType, StageInv, Stage, Current
<1>9. LoadInv'
  BY DEF RequestType, LoadInv
<1>10. ReturnsComplete'
  BY DEF RequestType, ReturnsComplete
<1>11. LeakInv'
  BY DEF RequestType, LeakInv, Tidy, Swept, Current, Clean, Idle, Working, Waiting
<1>12. FaultInv'
  BY CacheAssumption DEF RequestType, GhostType, FaultInv, Smooth, Undisturbed
<1>13. QED
  BY <1>1, <1>2, <1>3, <1>4, <1>5, <1>6, <1>7, <1>8, <1>9, <1>10, <1>11, <1>12 DEF IInv

LEMMA KeepsMakeTemp ==
    ASSUME IInv, NEW a \in Attempts, MakeTemp(a)
    PROVE  IInv'
<1> USE AttemptIs DEF IInv, MakeTemp, Completes, GoTo, reqVars, ghosts,
        Attached, Waiting
<1>1. CountType' /\ GhostType' /\ PublishedInv' /\ RemovalInv'
  BY DEF CountType, GhostType, PublishedInv, RemovalInv
<1>2. RequestType'
  BY DEF RequestType, PCs
<1>3. DirType'
  BY EmptyIs DEF DirType
<1>4. WorkType'
  BY DEF WorkType, Ops
<1>5. PositionInv'
  BY DEF RequestType, PositionInv
<1>6. FrontierInv'
  <2> SUFFICES ASSUME NEW b \in Attempts, Ahead(b)' PROVE Clean(b)' /\ b \notin excused'
    BY DEF FrontierInv
  <2>1. Ahead(b) /\ b # a
    BY AttemptIs, CacheAssumption
       DEF RequestType, PositionInv, FrontierInv, Ahead, Clean, Idle, Working,
           Waiting, Roots
  <2>2. Clean(b) /\ b \notin excused
    BY <2>1 DEF FrontierInv
  <2>3. QED
    BY AttemptIs, <2>1, <2>2 DEF WorkType, DirType, Clean, Idle
<1>7. WriterInv'
  BY DEF RequestType, WorkType, WriterInv, Writer, Current
<1>8. StageInv'
  BY DEF RequestType, WorkType, StageInv, Stage, Current
<1>9. LoadInv'
  BY DEF RequestType, LoadInv
<1>10. ReturnsComplete'
  BY DEF RequestType, ReturnsComplete
<1>11. LeakInv'
  BY DEF RequestType, WorkType, LeakInv, Tidy, Swept, Current, Clean, Idle, Working
<1>12. FaultInv'
  BY DEF RequestType, FaultInv, Smooth, Undisturbed
<1>13. QED
  BY <1>1, <1>2, <1>3, <1>4, <1>5, <1>6, <1>7, <1>8, <1>9, <1>10, <1>11, <1>12 DEF IInv

LEMMA KeepsWriteSource ==
    ASSUME IInv, NEW a \in Attempts, WriteSource(a)
    PROVE  IInv'
<1> USE AttemptIs DEF IInv, WriteSource, Completes, GoTo, reqVars, ghosts,
        Attached, Waiting
<1>1. CountType' /\ GhostType' /\ PublishedInv'
  BY DEF CountType, GhostType, PublishedInv
<1>2. RequestType'
  BY DEF RequestType, PCs
<1>3. DirType'
  <2>1. WriteSync(temp[a], "source") \in Dirs
    BY WriteIs, FileIs DEF DirType
  <2>2. QED
    BY <2>1 DEF DirType
<1>4. WorkType'
  BY DEF WorkType, Ops
<1>5. PositionInv'
  BY DEF RequestType, PositionInv
<1>6. FrontierInv'
  <2> SUFFICES ASSUME NEW b \in Attempts, Ahead(b)' PROVE Clean(b)' /\ b \notin excused'
    BY DEF FrontierInv
  <2>1. Ahead(b) /\ b # a
    BY AttemptIs, CacheAssumption
       DEF RequestType, PositionInv, FrontierInv, Ahead, Clean, Idle, Working,
           Waiting, Roots
  <2>2. Clean(b) /\ b \notin excused
    BY <2>1 DEF FrontierInv
  <2>3. QED
    BY AttemptIs, <2>1, <2>2 DEF WorkType, DirType, Clean, Idle
<1>7. WriterInv'
  BY DEF RequestType, WorkType, WriterInv, Writer, Current
<1>8. StageInv'
  <2> SUFFICES ASSUME NEW b \in Attempts PROVE Stage(b)'
    BY DEF StageInv
  <2>1. Stage(b)
    BY DEF StageInv
  <2>2. CASE b = a
    BY AttemptIs, <2>1, <2>2, WriteIs, FileIs
       DEF Stage, Artifact, Files, RequestType, WorkType, DirType, WriterInv,
           Writer, Current, Waiting, Hit
  <2>3. CASE b # a
    BY AttemptIs, <2>1, <2>3 DEF Stage, RequestType, WorkType, DirType, Current
  <2>4. QED
    BY <2>2, <2>3
<1>9. LoadInv'
  BY DEF RequestType, LoadInv
<1>10. ReturnsComplete'
  BY DEF RequestType, ReturnsComplete
<1>11. LeakInv'
  BY DEF RequestType, WorkType, LeakInv, Tidy, Swept, Current, Clean, Idle, Working
<1>12. FaultInv'
  BY DEF RequestType, FaultInv, Smooth, Undisturbed
<1>13. RemovalInv'
  BY DEF WriterInv, Writer, RemovalInv
<1>14. QED
  BY <1>1, <1>2, <1>3, <1>4, <1>5, <1>6, <1>7, <1>8, <1>9, <1>10, <1>11,
     <1>12, <1>13 DEF IInv

LEMMA KeepsCompilerWrites ==
    ASSUME IInv, NEW a \in Attempts, CompilerWrites(a)
    PROVE  IInv'
<1> USE AttemptIs DEF IInv, CompilerWrites, reqVars, workVars, ghosts
<1>1. RequestType' /\ CountType' /\ WorkType' /\ GhostType'
      /\ PositionInv' /\ LoadInv' /\ PublishedInv' /\ ReturnsComplete'
      /\ RemovalInv'
  BY DEF RequestType, CountType, WorkType, GhostType, PositionInv, LoadInv,
         PublishedInv, ReturnsComplete, RemovalInv
<1>2. DirType'
  <2>1. Write(temp[a], "cubin") \in Dirs
    BY WriteIs, FileIs DEF DirType
  <2>2. QED
    BY <2>1 DEF DirType
<1>3. FrontierInv'
  BY DEF FrontierInv, Ahead, Clean, Idle
<1>4. WriterInv'
  BY DEF WriterInv, Writer, Current
<1>5. StageInv'
  <2> SUFFICES ASSUME NEW b \in Attempts PROVE Stage(b)'
    BY DEF StageInv
  <2>1. Stage(b)
    BY DEF StageInv
  <2>2. CASE b = a
    BY AttemptIs, <2>1, <2>2, WriteIs, FileIs
       DEF Stage, Artifact, Files, RequestType, WorkType, DirType, WriterInv,
           Writer, Current, Waiting, Hit
  <2>3. CASE b # a
    BY AttemptIs, <2>1, <2>3 DEF Stage, RequestType, WorkType, DirType, Current
  <2>4. QED
    BY <2>2, <2>3
<1>6. LeakInv'
  BY DEF LeakInv, Tidy, Swept, Current, Clean, Idle
<1>7. FaultInv'
  BY DEF FaultInv, Smooth, Undisturbed
<1>8. QED
  BY <1>1, <1>2, <1>3, <1>4, <1>5, <1>6, <1>7 DEF IInv

LEMMA KeepsOrphanExits ==
    ASSUME IInv, NEW a \in Attempts, OrphanExits(a)
    PROVE  IInv'
<1> USE AttemptIs DEF IInv, OrphanExits, reqVars, dirVars, ghosts
<1>1. RequestType' /\ CountType' /\ DirType' /\ WorkType' /\ GhostType'
      /\ PositionInv' /\ LoadInv' /\ PublishedInv' /\ ReturnsComplete'
      /\ RemovalInv'
  BY DEF RequestType, CountType, DirType, WorkType, GhostType, PositionInv,
         LoadInv, PublishedInv, ReturnsComplete, RemovalInv
<1>2. FrontierInv'
  BY DEF FrontierInv, Ahead, Clean, Idle
<1>3. WriterInv'
  BY DEF WriterInv, Writer, Current
<1>4. StageInv'
  BY DEF StageInv, Stage, Current
<1>5. LeakInv'
  BY DEF LeakInv, Tidy, Swept, Current, Clean, Idle
<1>6. FaultInv'
  BY DEF FaultInv, Smooth, Undisturbed
<1>7. QED
  BY <1>1, <1>2, <1>3, <1>4, <1>5, <1>6 DEF IInv

LEMMA KeepsWriteMeta ==
    ASSUME IInv, NEW a \in Attempts, WriteMeta(a)
    PROVE  IInv'
<1> USE AttemptIs DEF IInv, WriteMeta, Completes, GoTo, reqVars, ghosts,
        Attached, Waiting
<1>1. CountType' /\ GhostType' /\ PublishedInv' /\ RemovalInv'
  BY DEF CountType, GhostType, PublishedInv, RemovalInv
<1>2. RequestType'
  BY DEF RequestType, PCs
<1>3. DirType'
  <2>1. WriteSync(temp[a], "meta") \in Dirs
    BY WriteIs, FileIs DEF DirType
  <2>2. QED
    BY <2>1 DEF DirType
<1>4. WorkType'
  BY DEF WorkType, Ops
<1>5. PositionInv'
  BY DEF RequestType, PositionInv
<1>6. FrontierInv'
  <2> SUFFICES ASSUME NEW b \in Attempts, Ahead(b)' PROVE Clean(b)' /\ b \notin excused'
    BY DEF FrontierInv
  <2>1. Ahead(b) /\ b # a
    BY AttemptIs, CacheAssumption
       DEF RequestType, PositionInv, FrontierInv, Ahead, Clean, Idle, Working,
           Waiting, Roots
  <2>2. Clean(b) /\ b \notin excused
    BY <2>1 DEF FrontierInv
  <2>3. QED
    BY AttemptIs, <2>1, <2>2 DEF WorkType, DirType, Clean, Idle
<1>7. WriterInv'
  BY DEF RequestType, WorkType, WriterInv, Writer, Current, Committing
<1>8. StageInv'
  <2> SUFFICES ASSUME NEW b \in Attempts PROVE Stage(b)'
    BY DEF StageInv
  <2>1. Stage(b)
    BY DEF StageInv
  <2>2. CASE b = a
    BY AttemptIs, <2>1, <2>2, WriteIs, FileIs
       DEF Stage, Artifact, Files, RequestType, WorkType, DirType, WriterInv,
           Writer, Current, Waiting, Hit
  <2>3. CASE b # a
    BY AttemptIs, <2>1, <2>3 DEF Stage, RequestType, WorkType, DirType, Current
  <2>4. QED
    BY <2>2, <2>3
<1>9. LoadInv'
  BY DEF RequestType, LoadInv
<1>10. ReturnsComplete'
  BY DEF RequestType, ReturnsComplete
<1>11. LeakInv'
  BY DEF RequestType, WorkType, LeakInv, Tidy, Swept, Current, Clean, Idle, Working
<1>12. FaultInv'
  BY DEF RequestType, FaultInv, Smooth, Undisturbed
<1>13. QED
  BY <1>1, <1>2, <1>3, <1>4, <1>5, <1>6, <1>7, <1>8, <1>9, <1>10, <1>11, <1>12 DEF IInv

LEMMA KeepsWriteMarker ==
    ASSUME IInv, NEW a \in Attempts, WriteMarker(a)
    PROVE  IInv'
<1> USE AttemptIs DEF IInv, WriteMarker, reqVars, ghosts
<1>1. RequestType' /\ CountType' /\ GhostType' /\ PositionInv' /\ LoadInv'
      /\ PublishedInv' /\ ReturnsComplete' /\ RemovalInv'
  BY DEF RequestType, CountType, GhostType, PositionInv, LoadInv,
         PublishedInv, ReturnsComplete, RemovalInv
<1>2. DirType'
  <2>1. WriteSync(temp[a], "marker") \in Dirs
    BY WriteIs, FileIs DEF DirType
  <2>2. QED
    BY <2>1 DEF DirType
<1>3. WorkType'
  BY DEF WorkType, Ops
<1>4. FrontierInv'
  BY DEF FrontierInv, Ahead, Clean, Idle
<1>5. WriterInv'
  BY DEF WriterInv, Writer, Current, Committing
<1>6. StageInv'
  <2> SUFFICES ASSUME NEW b \in Attempts PROVE Stage(b)'
    BY DEF StageInv
  <2>1. Stage(b)
    BY DEF StageInv
  <2>2. CASE b = a
    <3>1. temp[a] \in Dirs /\ temp'[a] = WriteSync(temp[a], "marker")
      BY DEF DirType
    <3>2. temp'[a].files = temp[a].files \cup {"marker"}
      <4>1. \A d \in Dirs : WriteSync(d, "marker").files = d.files \cup {"marker"}
        BY FileIs, WriteIs
      <4>2. QED
        BY <3>1, <4>1
    <3>3. temp'[a].files = Files
      BY <3>1, <3>2, <2>1, <2>2, FilesIs DEF Stage, Files
    <3>4. op'[a] = "sync" /\ ~(pc[a[1]] = "command" /\ Current(a))
      BY DEF WorkType, WriterInv, Writer
    <3>5. QED
      BY <2>2, <3>3, <3>4 DEF Stage, Current
  <2>3. CASE b # a
    BY AttemptIs, <2>1, <2>3 DEF Stage, RequestType, WorkType, DirType, Current
  <2>4. QED
    BY <2>2, <2>3
<1>7. LeakInv'
  BY DEF LeakInv, Tidy, Swept, Current, Clean, Idle
<1>8. FaultInv'
  BY DEF FaultInv, Smooth, Undisturbed
<1>9. QED
  BY <1>1, <1>2, <1>3, <1>4, <1>5, <1>6, <1>7, <1>8 DEF IInv

LEMMA KeepsSyncTemp ==
    ASSUME IInv, NEW a \in Attempts, SyncTemp(a)
    PROVE  IInv'
<1> USE AttemptIs DEF IInv, SyncTemp, reqVars, ghosts
<1>1. RequestType' /\ CountType' /\ GhostType' /\ PositionInv' /\ LoadInv'
      /\ PublishedInv' /\ ReturnsComplete' /\ RemovalInv'
  BY DEF RequestType, CountType, GhostType, PositionInv, LoadInv,
         PublishedInv, ReturnsComplete, RemovalInv
<1>2. DirType'
  <2>1. Sync(temp[a]) \in Dirs
    BY SyncIs DEF DirType
  <2>2. QED
    BY <2>1 DEF DirType
<1>3. WorkType'
  BY DEF WorkType, Ops
<1>4. FrontierInv'
  BY DEF FrontierInv, Ahead, Clean, Idle
<1>5. WriterInv'
  BY DEF WriterInv, Writer, Current, Committing
<1>6. StageInv'
  <2> SUFFICES ASSUME NEW b \in Attempts PROVE Stage(b)'
    BY DEF StageInv
  <2>1. Stage(b)
    BY DEF StageInv
  <2>2. CASE b = a
    <3>1. temp'[a].files = Files /\ temp'[a].synced = Files
      BY <2>1, <2>2, SyncIs DEF DirType, Stage
    <3>2. op'[a] = "rename" /\ ~(pc[a[1]] = "command" /\ Current(a))
      BY DEF WorkType, WriterInv, Writer
    <3>3. QED
      BY <2>2, <3>1, <3>2 DEF Stage, Current
  <2>3. CASE b # a
    BY AttemptIs, <2>1, <2>3 DEF Stage, RequestType, WorkType, DirType, Current
  <2>4. QED
    BY <2>2, <2>3
<1>7. LeakInv'
  BY DEF LeakInv, Tidy, Swept, Current, Clean, Idle
<1>8. FaultInv'
  BY DEF FaultInv, Smooth, Undisturbed
<1>9. QED
  BY <1>1, <1>2, <1>3, <1>4, <1>5, <1>6, <1>7, <1>8 DEF IInv

LEMMA KeepsPublish ==
    ASSUME IInv, NEW a \in Attempts, Publish(a)
    PROVE  IInv'
<1> USE AttemptIs DEF IInv, Publish, Completes, GoTo, reqVars, ghosts,
        Attached, Waiting
<1>1. CountType' /\ GhostType' /\ RemovalInv'
  BY DEF CountType, GhostType, RemovalInv
<1>2. RequestType'
  BY DEF RequestType, PCs
<1>3. DirType'
  BY EmptyIs DEF DirType
<1>4. WorkType'
  BY DEF WorkType, Ops
<1>5. PositionInv'
  BY DEF RequestType, PositionInv
<1>6. FrontierInv'
  <2> SUFFICES ASSUME NEW b \in Attempts, Ahead(b)' PROVE Clean(b)' /\ b \notin excused'
    BY DEF FrontierInv
  <2>1. Ahead(b) /\ b # a
    BY AttemptIs, CacheAssumption
       DEF RequestType, PositionInv, FrontierInv, Ahead, Clean, Idle, Working,
           Waiting, Roots
  <2>2. Clean(b) /\ b \notin excused
    BY <2>1 DEF FrontierInv
  <2>3. QED
    BY AttemptIs, <2>1, <2>2 DEF WorkType, DirType, Clean, Idle
<1>7. WriterInv'
  BY DEF RequestType, WorkType, WriterInv, Writer, Current
<1>8. StageInv'
  <2> SUFFICES ASSUME NEW b \in Attempts PROVE Stage(b)'
    BY DEF StageInv
  <2>1. Stage(b)
    BY DEF StageInv
  <2>2. CASE b = a
    BY <2>1, <2>2 DEF Stage, WriterInv, Writer, Current, RequestType, WorkType
  <2>3. CASE b # a
    <3>1. temp'[b] = temp[b] /\ op'[b] = op[b]
      BY <2>3 DEF DirType, WorkType
    <3>2. Current(b)' /\ pc'[b[1]] = "command" => Current(b) /\ pc[b[1]] = "command"
      BY DEF Current, RequestType
    <3>3. temp[a].here /\ pub' = [pub EXCEPT ![a[2]] = temp[a]]
      OBVIOUS
    <3>4. op[b] = "collided" => pub'[b[2]].here
      BY <3>3, <2>1 DEF Stage, DirType
    <3>5. op[b] = "discard" => Hit(pub'[b[2]])
      BY <3>3, <2>1 DEF Stage, DirType, PublishedInv
    <3>6. QED
      BY <3>1, <3>2, <3>4, <3>5, <2>1 DEF Stage
  <2>4. QED
    BY <2>2, <2>3
<1>9. LoadInv'
  <2> SUFFICES ASSUME NEW s \in Requests, pc'[s] = "load" PROVE Hit(pub'[at[s]])
    BY DEF LoadInv
  <2>1. Hit(temp[a])
    BY DEF StageInv, Stage, Hit, Files
  <2>2. pc[s] = "load" \/ at[s] = a[2]
    BY DEF RequestType
  <2>3. QED
    BY <2>1, <2>2 DEF LoadInv, DirType
<1>10. PublishedInv'
  BY DEF PublishedInv, StageInv, Stage
<1>11. ReturnsComplete'
  <2> SUFFICES ASSUME NEW s \in Requests, pc'[s] = "returned"
               PROVE  at[s] \in Roots /\ pub'[at[s]].files = Files
    BY DEF ReturnsComplete
  <2>1. temp[a].files = Files /\ pc[s] = "returned"
    BY DEF StageInv, Stage, RequestType
  <2>2. QED
    BY <2>1 DEF ReturnsComplete, DirType
<1>12. LeakInv'
  BY EmptyIs
     DEF RequestType, WorkType, DirType, LeakInv, Tidy, Swept, WriterInv, Writer,
         Current, Clean, Idle
<1>13. FaultInv'
  BY DEF RequestType, FaultInv, Smooth, Undisturbed
<1>14. QED
  BY <1>1, <1>2, <1>3, <1>4, <1>5, <1>6, <1>7, <1>8, <1>9, <1>10, <1>11,
     <1>12, <1>13 DEF IInv

LEMMA KeepsCollide ==
    ASSUME IInv, NEW a \in Attempts, Collide(a)
    PROVE  IInv'
<1> USE AttemptIs DEF IInv, Collide, reqVars, dirVars, ghosts
<1>1. RequestType' /\ CountType' /\ DirType' /\ GhostType' /\ PositionInv'
      /\ LoadInv' /\ PublishedInv' /\ ReturnsComplete' /\ RemovalInv'
  BY DEF RequestType, CountType, DirType, GhostType, PositionInv, LoadInv,
         PublishedInv, ReturnsComplete, RemovalInv
<1>2. WorkType'
  BY DEF WorkType, Ops
<1>3. FrontierInv'
  BY DEF FrontierInv, Ahead, Clean, Idle
<1>4. WriterInv'
  BY DEF WriterInv, Writer, Current, Committing
<1>5. StageInv'
  BY DEF StageInv, Stage, Current
<1>6. LeakInv'
  BY DEF LeakInv, Tidy, Swept, Current, Clean, Idle
<1>7. FaultInv'
  BY DEF FaultInv, Smooth, Undisturbed
<1>8. QED
  BY <1>1, <1>2, <1>3, <1>4, <1>5, <1>6, <1>7 DEF IInv

LEMMA KeepsLoseToWinner ==
    ASSUME IInv, NEW a \in Attempts, LoseToWinner(a)
    PROVE  IInv'
<1> USE AttemptIs DEF IInv, LoseToWinner, reqVars, dirVars, ghosts
<1>1. RequestType' /\ CountType' /\ DirType' /\ GhostType' /\ PositionInv'
      /\ LoadInv' /\ PublishedInv' /\ ReturnsComplete' /\ RemovalInv'
  BY DEF RequestType, CountType, DirType, GhostType, PositionInv, LoadInv,
         PublishedInv, ReturnsComplete, RemovalInv
<1>2. WorkType'
  BY DEF WorkType, Ops
<1>3. FrontierInv'
  BY DEF FrontierInv, Ahead, Clean, Idle
<1>4. WriterInv'
  BY DEF WriterInv, Writer, Current, Committing
<1>5. StageInv'
  BY DEF StageInv, Stage, Current
<1>6. LeakInv'
  BY DEF LeakInv, Tidy, Swept, Current, Clean, Idle
<1>7. FaultInv'
  BY DEF FaultInv, Smooth, Undisturbed
<1>8. QED
  BY <1>1, <1>2, <1>3, <1>4, <1>5, <1>6, <1>7 DEF IInv

LEMMA KeepsRenameFails ==
    ASSUME IInv, NEW a \in Attempts, RenameFails(a)
    PROVE  IInv'
<1> USE AttemptIs DEF IInv, RenameFails, Throw, Report, MarkTimeout, GoTo,
        NextRoot, reqVars, dirVars, Attached, Waiting
<1>a. Attached(a) => Here(a[1]) = a
  BY HereIs, AttemptIs
<1>1. CountType' /\ DirType' /\ GhostType' /\ PublishedInv'
  BY DEF CountType, DirType, GhostType, PublishedInv
<1>2. RequestType'
  BY DEF RequestType, PCs
<1>3. WorkType'
  <2>1. removing' = removing \/ removing' = [removing EXCEPT ![a] = TRUE]
    BY <1>a
  <2>2. removing' \in [Attempts -> BOOLEAN]
    BY <2>1 DEF WorkType
  <2>3. QED
    BY <2>2, <1>a DEF WorkType, Ops
<1>4. PositionInv'
  BY DEF RequestType, PositionInv
<1>5. FrontierInv'
  <2> SUFFICES ASSUME NEW b \in Attempts, Ahead(b)' PROVE Clean(b)' /\ b \notin excused'
    BY DEF FrontierInv
  <2>1. Ahead(b) /\ b # a
    BY <1>a, CacheAssumption
       DEF RequestType, PositionInv, FrontierInv, Ahead, Clean, Idle, Working,
           Waiting, Roots
  <2>2. Clean(b) /\ b \notin excused
    BY <2>1 DEF FrontierInv
  <2>3. QED
    BY <1>a, <2>1, <2>2 DEF WorkType, DirType, Clean, Idle
<1>6. WriterInv'
  <2> SUFFICES ASSUME NEW b \in Attempts PROVE Writer(b)'
    BY DEF WriterInv
  <2>1. Writer(b) /\ Writer(a)
    BY DEF WriterInv
  <2>2. CASE Attached(a)
    BY <1>a, <2>1, <2>2 DEF Writer, RequestType, WorkType, Current, Committing
  <2>3. CASE ~Attached(a)
    BY <1>a, <2>1, <2>3 DEF Writer, RequestType, WorkType, Current, Committing
  <2>4. QED
    BY <2>2, <2>3
<1>7. StageInv'
  BY DEF RequestType, StageInv, Stage, Current
<1>8. LoadInv'
  BY DEF RequestType, LoadInv
<1>9. ReturnsComplete'
  BY DEF RequestType, ReturnsComplete
<1>10. LeakInv'
  BY <1>a
     DEF RequestType, WorkType, LeakInv, Tidy, Swept, WriterInv, Writer, Current,
         Clean, Idle, Working
<1>11. FaultInv'
  BY DEF FaultInv, StageInv, Stage, Undisturbed
<1>12. RemovalInv'
  BY <1>a DEF WorkType, WriterInv, Writer, RemovalInv
<1>13. QED
  BY <1>1, <1>2, <1>3, <1>4, <1>5, <1>6, <1>7, <1>8, <1>9, <1>10, <1>11, <1>12 DEF IInv

LEMMA KeepsDiscarded ==
    ASSUME IInv, NEW a \in Attempts, Discarded(a)
    PROVE  IInv'
<1> USE AttemptIs DEF IInv, Discarded, Completes, GoTo, reqVars, ghosts,
        Attached, Waiting
<1>1. CountType' /\ GhostType' /\ PublishedInv' /\ RemovalInv'
  BY DEF CountType, GhostType, PublishedInv, RemovalInv
<1>2. RequestType'
  BY DEF RequestType, PCs
<1>3. DirType'
  BY EmptyIs DEF DirType
<1>4. WorkType'
  BY DEF WorkType, Ops
<1>5. PositionInv'
  BY DEF RequestType, PositionInv
<1>6. FrontierInv'
  <2> SUFFICES ASSUME NEW b \in Attempts, Ahead(b)' PROVE Clean(b)' /\ b \notin excused'
    BY DEF FrontierInv
  <2>1. Ahead(b) /\ b # a
    BY AttemptIs, CacheAssumption
       DEF RequestType, PositionInv, FrontierInv, Ahead, Clean, Idle, Working,
           Waiting, Roots
  <2>2. Clean(b) /\ b \notin excused
    BY <2>1 DEF FrontierInv
  <2>3. QED
    BY AttemptIs, <2>1, <2>2 DEF WorkType, DirType, Clean, Idle
<1>7. WriterInv'
  BY DEF RequestType, WorkType, WriterInv, Writer, Current
<1>8. StageInv'
  BY DEF RequestType, WorkType, StageInv, Stage, Current
<1>9. LoadInv'
  BY DEF RequestType, LoadInv, StageInv, Stage
<1>10. ReturnsComplete'
  BY DEF RequestType, ReturnsComplete
<1>11. LeakInv'
  BY EmptyIs
     DEF RequestType, WorkType, LeakInv, Tidy, Swept, WriterInv, Writer, Current,
         Clean, Idle
<1>12. FaultInv'
  BY DEF RequestType, FaultInv, Smooth, Undisturbed
<1>13. QED
  BY <1>1, <1>2, <1>3, <1>4, <1>5, <1>6, <1>7, <1>8, <1>9, <1>10, <1>11, <1>12 DEF IInv

LEMMA KeepsDiscardFails ==
    ASSUME IInv, NEW a \in Attempts, DiscardFails(a)
    PROVE  IInv'
<1> USE AttemptIs DEF IInv, DiscardFails, Fault, Completes, GoTo, reqVars,
        dirVars, Attached, Waiting
<1>1. CountType' /\ DirType' /\ PublishedInv' /\ RemovalInv'
  BY DEF CountType, DirType, PublishedInv, RemovalInv
<1>2. RequestType'
  BY DEF RequestType, PCs
<1>3. GhostType'
  BY CacheAssumption DEF GhostType
<1>4. WorkType'
  BY DEF WorkType, Ops
<1>5. PositionInv'
  BY DEF RequestType, PositionInv
<1>6. FrontierInv'
  <2> SUFFICES ASSUME NEW b \in Attempts, Ahead(b)' PROVE Clean(b)' /\ b \notin excused'
    BY DEF FrontierInv
  <2>1. Ahead(b) /\ b # a
    BY AttemptIs, CacheAssumption
       DEF RequestType, PositionInv, FrontierInv, Ahead, Clean, Idle, Working,
           Waiting, Roots
  <2>2. Clean(b) /\ b \notin excused
    BY <2>1 DEF FrontierInv
  <2>3. QED
    BY AttemptIs, <2>1, <2>2 DEF WorkType, DirType, Clean, Idle
<1>7. WriterInv'
  BY DEF RequestType, WorkType, WriterInv, Writer, Current
<1>8. StageInv'
  BY DEF RequestType, WorkType, StageInv, Stage, Current
<1>9. LoadInv'
  BY DEF RequestType, LoadInv, StageInv, Stage
<1>10. ReturnsComplete'
  BY DEF RequestType, ReturnsComplete
<1>11. LeakInv'
  BY EmptyIs
     DEF RequestType, WorkType, LeakInv, Tidy, Swept, WriterInv, Writer, Current,
         Clean, Idle
<1>12. FaultInv'
  <2> SUFFICES ASSUME NEW s \in Requests, Undisturbed(ProcOf[s])' PROVE Smooth(s)'
    BY DEF FaultInv
  <2>1. ProcOf[s] # ProcOf[a[1]] /\ Undisturbed(ProcOf[s])
    BY CacheAssumption DEF GhostType, Undisturbed
  <2>2. s # a[1] /\ Smooth(s)
    BY <2>1 DEF FaultInv
  <2>3. QED
    BY <2>2 DEF Smooth, RequestType
<1>13. QED
  BY <1>1, <1>2, <1>3, <1>4, <1>5, <1>6, <1>7, <1>8, <1>9, <1>10, <1>11, <1>12 DEF IInv

LEMMA KeepsRemoved ==
    ASSUME IInv, NEW a \in Attempts, Removed(a)
    PROVE  IInv'
<1> USE AttemptIs DEF IInv, Removed, RemovalEnds, GoTo, NextRoot, reqVars, ghosts
<1>1. CountType' /\ WorkType' /\ GhostType' /\ PublishedInv'
      /\ RemovalInv'
  BY DEF CountType, WorkType, GhostType, PublishedInv, RemovalInv
<1>2. RequestType'
  BY CacheAssumption DEF RequestType, PCs, Roots
<1>3. DirType'
  BY EmptyIs DEF DirType
<1>4. PositionInv'
  BY DEF RequestType, PositionInv
<1>5. FrontierInv'
  BY DEF RequestType, WorkType, FrontierInv, Ahead, Clean, Idle, Working,
         Roots
<1>6. WriterInv'
  BY DEF RequestType, WriterInv, Writer, Current
<1>7. StageInv'
  BY DEF RequestType, WriterInv, Writer, StageInv, Stage, Current
<1>8. LoadInv'
  BY DEF RequestType, LoadInv
<1>9. ReturnsComplete'
  BY DEF RequestType, ReturnsComplete
<1>10. LeakInv'
  <2> SUFFICES ASSUME NEW b \in Attempts PROVE Tidy(b)'
    BY DEF LeakInv
  <2>1. Tidy(b) /\ Writer(b)
    BY DEF LeakInv, WriterInv
  <2>2. CASE b = a
    <3>1. temp'[a].files = {} /\ ~temp'[a].here /\ ~removing'[a] /\ op'[a] = "none"
      BY EmptyIs, <2>1, <2>2 DEF DirType, WorkType, Writer
    <3>2. (a \notin excused /\ pc[a[1]] # "dead") =>
              pc[a[1]] \in Working /\ Current(a) /\ compiler[a] \in {"none", "lost"}
      <4>1. removing[a] /\ op[a] = "none"
        BY <2>1, <2>2 DEF Writer
      <4>2. pc[a[1]] \in Working /\ Current(a) => pc[a[1]] = "cleanup"
        BY <4>1, <2>1, <2>2 DEF Writer, Working, Waiting, Committing
      <4>3. QED
        BY <4>1, <4>2, <2>1, <2>2 DEF Tidy, Swept
    <3>3. pc'[a[1]] # "dead" => pc[a[1]] # "dead"
      BY DEF RequestType
    <3>4. QED
      BY <2>2, <3>1, <3>2, <3>3 DEF Tidy, Swept
  <2>3. CASE b # a
    <3>1. temp'[b] = temp[b] /\ removing'[b] = removing[b]
      BY <2>3 DEF DirType, WorkType
    <3>2. b[1] # a[1] => pc'[b[1]] = pc[b[1]] /\ at'[b[1]] = at[b[1]]
      BY DEF RequestType
    <3>3. b[1] = a[1] /\ Current(a) => ~Current(b)
      BY <2>3 DEF Current
    <3>4. \/ UNCHANGED reqVars
          \/ Current(a) /\ pc[a[1]] = "cleanup"
      BY DEF Current
    <3>5. QED
      BY <2>1, <3>1, <3>2, <3>3, <3>4 DEF Tidy, Swept, Current
  <2>4. QED
    BY <2>2, <2>3
<1>11. FaultInv'
  BY DEF RequestType, FaultInv, Smooth, Undisturbed
<1>12. QED
  BY <1>1, <1>2, <1>3, <1>4, <1>5, <1>6, <1>7, <1>8, <1>9, <1>10, <1>11 DEF IInv

LEMMA KeepsRemovalFails ==
    ASSUME IInv, NEW a \in Attempts, RemovalFails(a)
    PROVE  IInv'
<1> USE AttemptIs DEF IInv, RemovalFails, RemovalEnds, Fault, GoTo, NextRoot,
        reqVars, dirVars
<1>1. CountType' /\ DirType' /\ WorkType' /\ PublishedInv'
      /\ RemovalInv'
  BY DEF CountType, DirType, WorkType, PublishedInv, RemovalInv
<1>2. RequestType'
  BY CacheAssumption DEF RequestType, PCs, Roots
<1>3. GhostType'
  BY CacheAssumption DEF GhostType
<1>4. PositionInv'
  BY DEF RequestType, PositionInv
<1>5. FrontierInv'
  BY DEF RequestType, WorkType, FrontierInv, Ahead, Clean, Idle, Working,
         Roots
<1>6. WriterInv'
  BY DEF RequestType, WriterInv, Writer, Current
<1>7. StageInv'
  BY DEF RequestType, WriterInv, Writer, StageInv, Stage, Current
<1>8. LoadInv'
  BY DEF RequestType, LoadInv
<1>9. ReturnsComplete'
  BY DEF RequestType, ReturnsComplete
<1>10. LeakInv'
  BY EmptyIs
     DEF RequestType, WorkType, LeakInv, Tidy, Swept, WriterInv, Writer, Current,
         Clean, Idle
<1>11. FaultInv'
  <2> SUFFICES ASSUME NEW s \in Requests, Undisturbed(ProcOf[s])' PROVE Smooth(s)'
    BY DEF FaultInv
  <2>1. Undisturbed(ProcOf[s])
    BY CacheAssumption DEF GhostType, Undisturbed
  <2>2. Smooth(s)
    BY <2>1 DEF FaultInv
  <2>3. s # a[1] \/ UNCHANGED reqVars
    BY <2>2 DEF Smooth
  <2>4. QED
    BY <2>2, <2>3 DEF Smooth, RequestType
<1>12. QED
  BY <1>1, <1>2, <1>3, <1>4, <1>5, <1>6, <1>7, <1>8, <1>9, <1>10, <1>11 DEF IInv

LEMMA KeepsRemoveFile ==
    ASSUME IInv, NEW a \in Attempts, NEW f \in Files, RemoveFile(a, f)
    PROVE  IInv'
<1> USE AttemptIs DEF IInv, RemoveFile, reqVars, workVars, ghosts
<1>1. RequestType' /\ CountType' /\ WorkType' /\ GhostType'
      /\ PositionInv' /\ LoadInv' /\ PublishedInv' /\ ReturnsComplete'
      /\ RemovalInv'
  BY DEF RequestType, CountType, WorkType, GhostType, PositionInv, LoadInv,
         PublishedInv, ReturnsComplete, RemovalInv
<1>2. DirType'
  <2>1. Remove(temp[a], f) \in Dirs
    BY WriteIs DEF DirType
  <2>2. QED
    BY <2>1 DEF DirType
<1>3. FrontierInv'
  BY DEF FrontierInv, Ahead, Clean, Idle
<1>4. WriterInv'
  BY DEF WriterInv, Writer, Current
<1>5. StageInv'
  <2> SUFFICES ASSUME NEW b \in Attempts PROVE Stage(b)'
    BY DEF StageInv
  <2>1. Stage(b) /\ Writer(b)
    BY DEF StageInv, WriterInv
  <2>2. CASE b = a
    BY <2>1, <2>2 DEF Stage, Writer, Current
  <2>3. CASE b # a
    BY <2>1, <2>3 DEF Stage, DirType, Current
  <2>4. QED
    BY <2>2, <2>3
<1>6. LeakInv'
  BY DEF LeakInv, Tidy, Swept, Current, Clean, Idle
<1>7. FaultInv'
  BY DEF FaultInv, Smooth, Undisturbed
<1>8. QED
  BY <1>1, <1>2, <1>3, <1>4, <1>5, <1>6, <1>7 DEF IInv

LEMMA KeepsProcessCrashes ==
    ASSUME IInv, NEW p \in Procs, ProcessCrashes(p)
    PROVE  IInv'
<1> USE AttemptIs DEF IInv, ProcessCrashes, Kill, Live, Of, dirVars
<1>1. CountType' /\ DirType' /\ GhostType' /\ LoadInv' /\ PublishedInv'
      /\ ReturnsComplete'
  BY DEF CountType, DirType, GhostType, LoadInv, PublishedInv, ReturnsComplete
<1>2. RequestType'
  BY CacheAssumption DEF RequestType, PCs, Roots
<1>3. WorkType'
  BY DEF WorkType, Ops
<1>4. PositionInv'
  BY CacheAssumption DEF PositionInv, Roots
<1>5. FrontierInv'
  BY DEF WorkType, FrontierInv, Ahead, Clean, Idle, Working, Waiting
<1>6. WriterInv'
  BY DEF WorkType, WriterInv, Writer, Current
<1>7. StageInv'
  BY DEF StageInv, Stage, Current
<1>8. LeakInv'
  BY DEF WorkType, LeakInv, Tidy, Swept, Current, Clean, Idle
<1>9. FaultInv'
  BY DEF FaultInv, Smooth, Undisturbed
<1>10. RemovalInv'
  BY DEF WorkType, RemovalInv
<1>11. QED
  BY <1>1, <1>2, <1>3, <1>4, <1>5, <1>6, <1>7, <1>8, <1>9, <1>10 DEF IInv

LEMMA KeepsPowerFails ==
    ASSUME IInv, PowerFails
    PROVE  IInv'
<1> USE AttemptIs DEF IInv, PowerFails, Kill, Survives
<1>a. \A a \in Attempts : temp[a].files = {} => Survives(temp[a]).files = {}
  BY SurvivesIs, FilesIs DEF DirType
<1>b. \A i \in Roots : pub'[i] = Survives(pub[i]) \/ (pub'[i] = NoDir /\ Hit(pub[i]))
  <2>1. PICK lost \in SUBSET {i \in Roots : Hit(pub[i])} :
                pub' = [i \in Roots |-> IF i \in lost THEN NoDir ELSE Survives(pub[i])]
    OBVIOUS
  <2>2. QED
    BY <2>1
<1>1. CountType' /\ GhostType' /\ LoadInv' /\ ReturnsComplete'
      /\ RemovalInv'
  BY DEF CountType, GhostType, LoadInv, ReturnsComplete, RemovalInv
<1>2. RequestType'
  BY CacheAssumption DEF RequestType, PCs, Roots
<1>3. DirType'
  <2>1. temp' \in [Attempts -> Dirs]
    BY SurvivesIs DEF DirType
  <2>2. pub' \in [Roots -> Dirs]
    BY <1>a, <1>b, EmptyIs, SurvivesIs DEF DirType
  <2>3. QED
    BY <2>1, <2>2 DEF DirType
<1>4. WorkType'
  BY DEF WorkType, Ops
<1>5. PositionInv'
  BY CacheAssumption DEF PositionInv, Roots
<1>6. FrontierInv'
  <2> SUFFICES ASSUME NEW b \in Attempts, Ahead(b)' PROVE Clean(b)' /\ b \notin excused'
    BY DEF FrontierInv
  <2>1. Ahead(b)
    BY DEF RequestType, Ahead, Working, Waiting
  <2>2. temp'[b] = Survives(temp[b]) /\ temp[b].files = {} /\ b \notin excused
    BY <2>1 DEF FrontierInv, Clean
  <2>3. temp'[b].files = {}
    BY <2>2, <1>a
  <2>4. QED
    BY <2>2, <2>3 DEF Clean, Idle
<1>7. WriterInv'
  BY DEF WriterInv, Writer
<1>8. StageInv'
  <2>1. \A a \in Attempts : op'[a] = "none"
    OBVIOUS
  <2>2. \A r \in Requests : pc'[r] # "command"
    BY DEF RequestType
  <2>3. QED
    BY <2>1, <2>2 DEF StageInv, Stage
<1>9. PublishedInv'
  <2> SUFFICES ASSUME NEW i \in Roots, Hit(pub'[i])
               PROVE  pub'[i].files = Files /\ pub'[i].synced = Files /\ pub'[i].here
    BY DEF PublishedInv, Hit
  <2>1. pub'[i] = Survives(pub[i])
    BY <1>a, <1>b, EmptyIs DEF Hit
  <2>2. Hit(pub[i])
    BY <2>1, SurvivesIs, FilesIs DEF DirType, Hit
  <2>3. QED
    BY <2>1, <2>2, SurvivesIs DEF DirType, PublishedInv
<1>10. LeakInv'
  <2> SUFFICES ASSUME NEW b \in Attempts, pc'[b[1]] # "dead" PROVE Tidy(b)'
    BY DEF LeakInv, Tidy
  <2>1. pc[b[1]] = "new"
    BY DEF RequestType
  <2>2. Tidy(b)
    BY DEF LeakInv
  <2>3. b \notin excused => temp[b].files = {}
    BY <2>1, <2>2 DEF Tidy, Swept, Clean, Working, Waiting
  <2>4. temp'[b] = Survives(temp[b])
    OBVIOUS
  <2>5. temp[b].files = {} => temp'[b].files = {}
    BY <2>4, <1>a
  <2>6. QED
    BY <2>3, <2>5 DEF Tidy, Swept, Clean, Idle
<1>11. FaultInv'
  <2> SUFFICES ASSUME NEW s \in Requests, Undisturbed(ProcOf[s])' PROVE Smooth(s)'
    BY DEF FaultInv
  <2>1. \A i \in Roots : pub[i].here => Hit(pub[i])
    BY <1>a, <1>b, SurvivesIs, FilesIs DEF DirType, Undisturbed, Hit
  <2>2. Undisturbed(ProcOf[s])
    BY <2>1 DEF Undisturbed
  <2>3. QED
    BY <2>2, CacheAssumption DEF FaultInv, Smooth, RequestType, CountType
<1>12. QED
  BY <1>1, <1>2, <1>3, <1>4, <1>5, <1>6, <1>7, <1>8, <1>9, <1>10, <1>11 DEF IInv
-----------------------------------------------------------------------------

LEMMA InitIInv == Init => IInv
<1> SUFFICES ASSUME Init PROVE IInv
  OBVIOUS
<1> USE CacheAssumption, AttemptIs, EmptyIs DEF Init
<1>1. RequestType
  BY DEF RequestType, PCs, Roots
<1>2. CountType /\ WorkType /\ GhostType
  BY DEF CountType, WorkType, GhostType, Ops
<1>3. LeftOver \in Dirs /\ ~Hit(LeftOver)
  BY FileIs DEF LeftOver, Dirs, Hit
<1>4. DirType
  BY <1>3 DEF DirType
<1>5. PositionInv /\ LoadInv /\ ReturnsComplete
  BY DEF PositionInv, LoadInv, ReturnsComplete, Roots
<1>6. FrontierInv /\ LeakInv
  BY DEF FrontierInv, LeakInv, Tidy, Swept, Clean, Idle
<1>7. WriterInv /\ StageInv
  BY DEF WriterInv, Writer, StageInv, Stage
<1>8. PublishedInv
  BY <1>3 DEF PublishedInv, Hit
<1>9. FaultInv /\ RemovalInv
  BY DEF FaultInv, Smooth, RemovalInv
<1>10. QED
  BY <1>1, <1>2, <1>4, <1>5, <1>6, <1>7, <1>8, <1>9 DEF IInv

LEMMA StutterIInv == IInv /\ UNCHANGED vars => IInv'
BY DEF vars, IInv, RequestType, CountType, DirType, WorkType, GhostType, PositionInv,
       FrontierInv, Ahead, Clean, Idle, WriterInv, Writer, Current, StageInv, Stage,
       LoadInv, PublishedInv, ReturnsComplete, LeakInv, Tidy, Swept, FaultInv, Smooth,
       Undisturbed, RemovalInv

(* The invariant, of every execution.                                        *)
THEOREM Inductive == Spec => []IInv
<1>1. ASSUME IInv, NEW r \in Requests, RequestStep(r) PROVE IInv'
  <2>1. ASSUME NEW kind \in Kinds,
               LookupFails(r, kind) \/ CreateFails(r, kind) \/ LoadFails(r, kind)
        PROVE  IInv'
    BY <1>1, <2>1, KeepsLookupFails, KeepsCreateFails, KeepsLoadFails
  <2>2. QED
    BY <1>1, <2>1, KeepsStart, KeepsSkipLookup, KeepsBeginLookup, KeepsLookup,
       KeepsLookupEnds, KeepsSkipCreate, KeepsCreate, KeepsAllRootsFailed,
       KeepsCommandSucceeds, KeepsCommandFails, KeepsCommandBreaks, KeepsCommandTimesOut,
       KeepsOperationFails, KeepsOperationTimesOut, KeepsCleanupTimesOut, KeepsLoad
       DEF RequestStep
<1>2. ASSUME IInv, NEW a \in Attempts, WorkerStep(a) PROVE IInv'
  BY <1>2, KeepsMakeTemp, KeepsWriteSource, KeepsWriteMeta, KeepsWriteMarker,
     KeepsSyncTemp, KeepsPublish, KeepsCollide, KeepsLoseToWinner, KeepsRenameFails,
     KeepsDiscarded, KeepsDiscardFails, KeepsRemoved, KeepsRemovalFails,
     KeepsRemoveFile DEF WorkerStep
<1>3. ASSUME IInv, NEW a \in Attempts, CompilerStep(a) PROVE IInv'
  BY <1>3, KeepsCompilerWrites, KeepsOrphanExits DEF CompilerStep
<1>4. IInv /\ [Next]_vars => IInv'
  BY <1>1, <1>2, <1>3, KeepsProcessCrashes, KeepsPowerFails, StutterIInv DEF Next
<1>5. QED
  BY <1>4, InitIInv, PTL DEF Spec

(* Type correctness of the requests, the directories and the counters.       *)
THEOREM TypeCorrect == Spec => []TypeOK
<1>1. IInv => TypeOK
  BY DEF IInv, TypeOK, RequestType, CountType, DirType, WorkType, GhostType
<1>2. QED
  BY <1>1, Inductive, PTL

(* A marker in place means a complete entry, on disk, for any number of       *)
(* publishers, late commits, crashes and power losses.                        *)
THEOREM PublishedIsComplete == Spec => []PublishedComplete
<1>1. IInv => PublishedComplete
  BY DEF IInv, PublishedInv, PublishedComplete
<1>2. QED
  BY <1>1, Inductive, PTL

(* Whoever returns was given a complete entry.                                *)
THEOREM ReturnedIsComplete == Spec => []ReturnsComplete
<1>1. IInv => ReturnsComplete
  BY DEF IInv
<1>2. QED
  BY <1>1, Inductive, PTL

(* No I/O operation is ever at work on a directory being removed, and with    *)
(* the fallback no compiler of a timed-out command either: of all that can     *)
(* go wrong, only a command that broke off leaves a compiler there.           *)
THEOREM TimedOutIsSafe == Spec => []TimedOutIsLeftAlone
<1>1. IInv => TimedOutIsLeftAlone
  BY DEF IInv, WriterInv, Writer, RemovalInv, TimedOutIsLeftAlone
<1>2. QED
  BY <1>1, Inductive, PTL

(* Nobody else writes to or removes what is being published.                  *)
THEOREM PublicationIsQuiet == Spec => []QuietPublication
<1>1. IInv => QuietPublication
  BY DEF IInv, WriterInv, Writer, QuietPublication
<1>2. QED
  BY <1>1, Inductive, PTL

(* Only a timeout, or an error of the removal itself, leaves files of a build  *)
(* behind.                                                                    *)
THEOREM NothingLeaks == Spec => []NoLeak
<1>1. IInv => NoLeak
  <2> SUFFICES ASSUME IInv, NEW r \in Requests, NEW i \in Roots,
                      pc[r] \in {"returned", "failed"}, <<r, i>> \notin excused
               PROVE  temp[<<r, i>>].files = {}
    BY DEF NoLeak
  <2>1. <<r, i>> \in Attempts /\ <<r, i>>[1] = r
    BY DEF Attempts
  <2>2. Tidy(<<r, i>>)
    BY <2>1 DEF IInv, LeakInv
  <2>3. pc[r] \notin Working /\ pc[r] # "dead"
    BY DEF Working, Waiting
  <2>4. QED
    BY <2>1, <2>2, <2>3 DEF Tidy, Swept
<1>2. QED
  BY <1>1, Inductive, PTL

(* A request fails only if its process met a fault, or if something that is   *)
(* no entry stands in an entry's place.                                       *)
THEOREM NoFaultNoFailure == Spec => []FaultlessSuccess
<1>1. IInv => FaultlessSuccess
  <2> SUFFICES ASSUME IInv, NEW r \in Requests, pc[r] = "failed",
                      ~(\E i \in Roots : pub[i].here /\ ~Hit(pub[i]))
               PROVE  faults[ProcOf[r]] > 0
    BY DEF FaultlessSuccess
  <2>1. ~Undisturbed(ProcOf[r])
    BY DEF IInv, FaultInv, Smooth
  <2>2. faults[ProcOf[r]] # 0
    BY <2>1 DEF Undisturbed
  <2>3. faults[ProcOf[r]] \in Nat
    BY CacheAssumption DEF IInv, GhostType
  <2>4. QED
    BY <2>2, <2>3
<1>2. QED
  BY <1>1, Inductive, PTL

-----------------------------------------------------------------------------
(* Action properties.                                                         *)

(* Worker and request steps leave what is in place alone, but for Publish,    *)
(* which needs a free name.                                                   *)
LEMMA OnlyPublishPublishes ==
    ASSUME IInv, [Next]_vars
    PROVE  pub' = pub \/ PowerFails \/ \E a \in Attempts : Publish(a)
<1>1. ASSUME NEW r \in Requests, RequestStep(r) PROVE pub' = pub
  BY <1>1 DEF RequestStep, Start, SkipLookup, BeginLookup, Lookup, LookupEnds,
     SkipCreate, Create, AllRootsFailed, LookupFails, CreateFails, LoadFails,
     CommandSucceeds, CommandFails, CommandBreaks, CommandTimesOut, OperationFails,
     OperationTimesOut, CleanupTimesOut, Load, dirVars
<1>2. ASSUME NEW a \in Attempts, WorkerStep(a) \/ CompilerStep(a), ~Publish(a)
      PROVE  pub' = pub
  BY <1>2 DEF WorkerStep, CompilerStep, MakeTemp, WriteSource, WriteMeta, WriteMarker,
     SyncTemp, Collide, LoseToWinner, RenameFails, Discarded, DiscardFails, Removed,
     RemovalFails, RemoveFile,
     CompilerWrites, OrphanExits, dirVars
<1>3. ASSUME NEW p \in Procs, ProcessCrashes(p) PROVE pub' = pub
  BY <1>3 DEF ProcessCrashes, dirVars
<1>4. UNCHANGED vars => pub' = pub
  BY DEF vars
<1>5. QED
  BY <1>1, <1>2, <1>3, <1>4 DEF Next

LEMMA PowerKeepsOrLoses ==
    ASSUME IInv, PowerFails, NEW i \in Roots, Hit(pub[i])
    PROVE  pub'[i] \in {pub[i], NoDir} /\ crashes' > crashes
<1>1. PICK lost \in SUBSET {j \in Roots : Hit(pub[j])} :
         pub' = [j \in Roots |-> IF j \in lost THEN NoDir ELSE Survives(pub[j])]
  BY DEF PowerFails
<1>2. Survives(pub[i]) = pub[i]
  BY DEF IInv, DirType, Dirs, PublishedInv, Survives
<1>3. crashes' > crashes
  BY DEF IInv, GhostType, PowerFails
<1>4. QED
  BY <1>1, <1>2, <1>3

(* A published entry changes only when a power loss undoes its rename.        *)
THEOREM PublishedIsStable == Spec => PublishedStable
<1> DEFINE Step == \A i \in Roots :
              Hit(pub[i]) => pub'[i] = pub[i] \/ (crashes' > crashes /\ pub'[i] = NoDir)
<1>1. IInv /\ [Next]_vars => [Step]_vars
  <2> SUFFICES ASSUME IInv, [Next]_vars, NEW i \in Roots, Hit(pub[i])
               PROVE  pub'[i] = pub[i] \/ (crashes' > crashes /\ pub'[i] = NoDir)
    OBVIOUS
  <2>1. ASSUME NEW a \in Attempts, Publish(a) PROVE pub'[i] = pub[i]
    <3>1. a[2] # i
      BY <2>1 DEF IInv, PublishedInv, Publish
    <3>2. QED
      BY <2>1, <3>1 DEF Publish, IInv, DirType
  <2>2. QED
    BY <2>1, OnlyPublishPublishes, PowerKeepsOrLoses
<1>2. QED
  BY <1>1, Inductive, PTL DEF Spec, PublishedStable

(* What a step does to the program counters: one request moves, it returns     *)
(* only from the load, and it enters a root only past the check of its         *)
(* counter.                                                                   *)
Done == {"returned", "failed", "dead"}
Moves(q) ==
    /\ \A s \in Requests \ {q} : pc'[s] = pc[s] /\ at'[s] = at[s]
    /\ \/ pc'[q] = pc[q] /\ at'[q] = at[q]
       \/ /\ pc[q] \notin Done /\ pc'[q] # "dead"
          /\ pc'[q] = "returned" => pc[q] = "load" /\ at'[q] = at[q]
          /\ pc'[q] \in Places => at'[q] = at[q] /\ (pc[q] \in Places \/ ~Disabled(q))

LEMMA RequestMoves == ASSUME IInv, NEW r \in Requests, RequestStep(r) PROVE Moves(r)
<1> USE DEF IInv, RequestType, Moves, Done, Places
<1>1. Start(r) => Moves(r)
  BY DEF Start, GoTo
<1>2. SkipLookup(r) => Moves(r)
  BY DEF SkipLookup
<1>3. BeginLookup(r) => Moves(r)
  BY DEF BeginLookup, GoTo
<1>4. Lookup(r) => Moves(r)
  BY DEF Lookup, GoTo, LookNext
<1>5. LookupEnds(r) => Moves(r)
  BY DEF LookupEnds
<1>6. SkipCreate(r) => Moves(r)
  BY DEF SkipCreate
<1>7. Create(r) => Moves(r)
  BY DEF Create, GoTo
<1>8. AllRootsFailed(r) => Moves(r)
  BY DEF AllRootsFailed, GoTo
<1>9. CommandSucceeds(r) => Moves(r)
  BY DEF CommandSucceeds, GoTo
<1>10. Load(r) => Moves(r)
  BY DEF Load, GoTo
<1>11. CommandFails(r) \/ CommandBreaks(r) => Moves(r)
  BY DEF CommandFails, CommandBreaks, Throw, NextRoot, GoTo
<1>12. CommandTimesOut(r) => Moves(r)
  BY DEF CommandTimesOut, Throw, NextRoot, GoTo
<1>13. OperationFails(r) => Moves(r)
  BY DEF OperationFails, Building, Throw, NextRoot, GoTo
<1>14. OperationTimesOut(r) => Moves(r)
  BY DEF OperationTimesOut, Building, Throw, NextRoot, GoTo
<1>15. CleanupTimesOut(r) => Moves(r)
  BY DEF CleanupTimesOut, NextRoot, GoTo
<1>16. ASSUME NEW kind \in Kinds, LookupFails(r, kind) PROVE Moves(r)
  BY <1>16 DEF LookupFails, LookNext, GoTo
<1>17. ASSUME NEW kind \in Kinds, CreateFails(r, kind) PROVE Moves(r)
  BY <1>17 DEF CreateFails, GoTo
<1>18. ASSUME NEW kind \in Kinds, LoadFails(r, kind) PROVE Moves(r)
  BY <1>18 DEF LoadFails, NextRoot, GoTo
<1>19. QED
  BY <1>1, <1>2, <1>3, <1>4, <1>5, <1>6, <1>7, <1>8, <1>9, <1>10, <1>11,
     <1>12, <1>13, <1>14, <1>15, <1>16, <1>17, <1>18 DEF RequestStep

LEMMA WorkerMoves ==
    ASSUME IInv, NEW a \in Attempts, WorkerStep(a) \/ CompilerStep(a) PROVE Moves(a[1])
<1> USE AttemptIs DEF IInv, RequestType, Moves, Done, Places
<1>1. MakeTemp(a) => Moves(a[1])
  BY DEF MakeTemp, Completes, GoTo, Attached, Waiting, reqVars
<1>2. WriteSource(a) => Moves(a[1])
  BY DEF WriteSource, Completes, GoTo, Attached, Waiting, reqVars
<1>3. WriteMeta(a) => Moves(a[1])
  BY DEF WriteMeta, Completes, GoTo, Attached, Waiting, reqVars
<1>4. Publish(a) => Moves(a[1])
  BY DEF Publish, Completes, GoTo, Attached, Waiting, reqVars
<1>5. Discarded(a) \/ DiscardFails(a) => Moves(a[1])
  BY DEF Discarded, DiscardFails, Completes, GoTo, Attached, Waiting, reqVars
<1>6. Removed(a) \/ RemovalFails(a) => Moves(a[1])
  BY DEF Removed, RemovalFails, RemovalEnds, NextRoot, GoTo, reqVars
<1>7. RenameFails(a) => Moves(a[1])
  BY DEF RenameFails, Throw, NextRoot, GoTo, Attached, Waiting, reqVars
<1>8. ASSUME WriteMarker(a) \/ SyncTemp(a) \/ Collide(a) \/ LoseToWinner(a)
                \/ (\E f \in Files : RemoveFile(a, f)) \/ CompilerStep(a)
       PROVE  Moves(a[1])
  BY <1>8 DEF WriteMarker, SyncTemp, Collide, LoseToWinner, RemoveFile, CompilerStep,
         CompilerWrites, OrphanExits, reqVars
<1>9. QED
  BY <1>1, <1>2, <1>3, <1>4, <1>5, <1>6, <1>7, <1>8 DEF WorkerStep

(* A disabled root is not entered: the steps that enter a root check its      *)
(* counter, and the others stay where they are or leave.                      *)
THEOREM DisabledIsSkipped == Spec => DisabledRootIsSkipped
<1> DEFINE Off(r, i) == timeouts[ProcOf[r]][i] >= TimeoutLimit
           Stays(r, i) == (Off(r, i) /\ WorksAt(r, i)') => WorksAt(r, i)
<1>1. ASSUME NEW q \in Requests, Moves(q), NEW r \in Requests, NEW i \in Roots
      PROVE  Stays(r, i)
  BY <1>1 DEF Moves, WorksAt, Disabled
<1>2. ASSUME PowerFails \/ \E p \in Procs : ProcessCrashes(p),
             NEW r \in Requests, NEW i \in Roots
      PROVE  Stays(r, i)
  BY <1>2 DEF PowerFails, ProcessCrashes, Kill, WorksAt, Places
<1>3. ASSUME UNCHANGED vars, NEW r \in Requests, NEW i \in Roots PROVE Stays(r, i)
  BY <1>3 DEF vars, WorksAt
<1>4. IInv /\ [Next]_vars => [\A r \in Requests, i \in Roots : Stays(r, i)]_vars
  BY <1>1, <1>2, <1>3, RequestMoves, WorkerMoves, AttemptIs DEF Next
<1>5. QED
  BY <1>4, Inductive, PTL DEF Spec, DisabledRootIsSkipped


-----------------------------------------------------------------------------
(* The refinement: what the store sees of each step.                         *)

Seen(p) == [i \in Roots |-> IF Hit(p[i]) THEN "complete"
                            ELSE IF p[i].here THEN "broken" ELSE "absent"]

(* A directory in place with a marker is a complete entry.                   *)
LEMMA EntryIs == ASSUME PublishedInv PROVE Entry = Seen(pub)
<1>1. \A i \in Roots : Files \subseteq pub[i].files <=> Hit(pub[i])
  BY DEF PublishedInv, Hit, Files
<1>2. QED
  BY <1>1 DEF Entry, Seen

LEMMA EntryIsNext == ASSUME PublishedInv' PROVE Entry' = Seen(pub')
<1>1. \A i \in Roots : Files \subseteq pub'[i].files <=> Hit(pub'[i])
  BY DEF PublishedInv, Hit, Files
<1>2. QED
  BY <1>1 DEF Entry, Seen

LEMMA InitStore == ASSUME Init PROVE Store!AInit
<1>1. PublishedInv
  BY InitIInv DEF IInv
<1>2. \A i \in Roots : ~Hit(pub[i])
  BY DEF Init, NoDir, LeftOver, Hit
<1>3. Entry \in [Roots -> {"absent", "broken"}]
  BY <1>1, <1>2, EntryIs DEF Seen
<1>4. Answer = [r \in Requests |-> Store!Unanswered]
  BY DEF Init, Answer, Store!Unanswered
<1>5. QED
  BY <1>3, <1>4 DEF Store!AInit

(* A request that moves is answered at most once, and a given answer names a  *)
(* complete entry.                                                            *)
LEMMA MoveAnswers ==
    ASSUME IInv, NEW q \in Requests, Moves(q), pub' = pub
    PROVE  Store!ANext \/ UNCHANGED Store!avars
<1>1. Entry' = Entry
  BY DEF Entry
<1>2. CASE pc'[q] = "returned" /\ pc[q] # "returned"
  <2>1. pc[q] = "load" /\ at'[q] = at[q] /\ at[q] \in Roots /\ Hit(pub[at[q]])
    BY <1>2 DEF Moves, IInv, LoadInv, PositionInv
  <2>2. Answer[q] = Store!Unanswered /\ Entry[at[q]] = "complete"
    BY <2>1, EntryIs DEF IInv, Seen, Answer, Store!Unanswered
  <2>3. Answer' = [Answer EXCEPT ![q] = Store!Given(at[q])]
    BY <1>2, <2>1 DEF Moves, Answer, Store!Given
  <2>4. QED
    BY <1>1, <2>1, <2>2, <2>3 DEF Store!Return, Store!ANext
<1>3. CASE pc'[q] = "failed" /\ pc[q] # "failed"
  <2>1. Answer[q] = Store!Unanswered
    BY <1>3 DEF Moves, Done, Answer, Store!Unanswered
  <2>2. Answer' = [Answer EXCEPT ![q] = Store!Error]
    BY <1>3 DEF Moves, Answer, Store!Error
  <2>3. QED
    BY <1>1, <2>1, <2>2 DEF Store!Raise, Store!ANext
<1>4. CASE /\ ~(pc'[q] = "returned" /\ pc[q] # "returned")
           /\ ~(pc'[q] = "failed" /\ pc[q] # "failed")
  <2>1. Answer' = Answer
    BY <1>4 DEF Moves, Done, Answer
  <2>2. QED
    BY <1>1, <2>1 DEF Store!avars
<1>5. QED
  BY <1>2, <1>3, <1>4

(* The rename turns an absent entry into a complete one at once.             *)
LEMMA PublishPublishes ==
    ASSUME IInv, PublishedInv', NEW a \in Attempts, Publish(a)
    PROVE  Store!Publish(a[2]) /\ a[2] \in Roots
<1>1. a[1] \in Requests /\ a[2] \in Roots /\ op[a] = "rename"
  BY AttemptIs DEF Publish
<1>2. Hit(temp[a])
  BY <1>1 DEF IInv, StageInv, Stage, Hit, Files
<1>3. ~Hit(pub[a[2]]) /\ ~pub[a[2]].here
  BY <1>1, EmptyIs DEF Publish, IInv, DirType, PublishedInv, Hit, Files
<1>4. Entry[a[2]] = "absent"
  BY <1>1, <1>3, EntryIs DEF IInv, Seen
<1>5. pub' = [pub EXCEPT ![a[2]] = temp[a]] /\ pub \in [Roots -> Dirs]
  BY DEF Publish, IInv, DirType
<1>6. Entry' = [Entry EXCEPT ![a[2]] = "complete"]
  BY <1>1, <1>2, <1>5, EntryIs, EntryIsNext DEF IInv, Seen
<1>7. /\ \A r \in Requests : pc'[r] = pc[r] \/ (pc[r] \in Waiting /\ pc'[r] = "load")
      /\ at' = at
  BY <1>1 DEF Publish, Completes, GoTo, Attached, reqVars, IInv, RequestType
<1>8. Answer' = Answer
  BY <1>7 DEF Answer, Waiting
<1>9. QED
  BY <1>1, <1>4, <1>6, <1>8 DEF Store!Publish

LEMMA CrashKills ==
    ASSUME NEW p \in Procs, ProcessCrashes(p)
    PROVE  Store!ANext
<1> DEFINE dead == {r \in Of(p) : Live(r)}
<1>1. dead \in SUBSET Requests
  BY DEF Of
<1>2. Entry' = Entry
  BY DEF ProcessCrashes, dirVars, Entry
<1>3. Kill(dead)
  BY DEF ProcessCrashes
<1>4. \A r \in dead : Answer[r] = Store!Unanswered
  BY <1>1 DEF Live, Answer, Store!Unanswered
<1>5. Answer' = [r \in Requests |-> IF r \in dead THEN Store!Dead ELSE Answer[r]]
  BY <1>1, <1>3 DEF Kill, Answer, Store!Dead
<1>6. Store!Die(dead)
  BY <1>2, <1>4, <1>5 DEF Store!Die
<1>7. QED
  BY <1>1, <1>6 DEF Store!ANext

LEMMA PowerFailsStore ==
    ASSUME IInv, PublishedInv', PowerFails
    PROVE  Store!ANext
<1> DEFINE dead == {r \in Requests : pc[r] # "new"}
<1>1. PICK lost \in SUBSET {i \in Roots : Hit(pub[i])} :
         pub' = [i \in Roots |-> IF i \in lost THEN NoDir ELSE Survives(pub[i])]
  BY DEF PowerFails
<1>2. lost \in SUBSET Roots /\ \A i \in lost : Entry[i] = "complete"
  BY <1>1, EntryIs DEF IInv, Seen
<1>3. ~Hit(NoDir) /\ ~NoDir.here
  BY DEF Hit, NoDir
<1>4. ASSUME NEW i \in Roots
      PROVE  /\ Hit(Survives(pub[i])) <=> Hit(pub[i])
             /\ Survives(pub[i]).here = pub[i].here
  <2>1. pub[i] \in Dirs /\ pub[i].synced \subseteq pub[i].files
    BY DEF IInv, DirType, Dirs
  <2>2. Hit(pub[i]) => pub[i].synced = pub[i].files
    BY DEF IInv, PublishedInv
  <2>3. QED
    BY <2>1, <2>2 DEF Survives, Dirs, Hit
<1>5. Entry' = [i \in Roots |-> IF i \in lost THEN "absent" ELSE Entry[i]]
  BY <1>1, <1>2, <1>3, <1>4, EntryIs, EntryIsNext DEF IInv, Seen
<1>6. Kill(dead)
  BY DEF PowerFails
<1>7. \A r \in Requests : Answer[r] # Store!Unanswered => r \in dead
  BY DEF Answer, Store!Unanswered
<1>8. Answer' = [r \in Requests |-> IF r \in dead THEN Store!Dead ELSE Answer[r]]
  BY <1>6 DEF Kill, Answer, Store!Dead
<1>9. Store!PowerFails(dead, lost)
  BY <1>2, <1>5, <1>7, <1>8 DEF Store!PowerFails
<1>10. QED
  BY <1>2, <1>9 DEF Store!ANext

(* The cache implements the store of immutable, complete entries.            *)
THEOREM StoreImplemented == Spec => ImplementsStore
<1>1. Init => Store!AInit
  BY InitStore
<1>2. IInv /\ IInv' /\ [Next]_vars => [Store!ANext]_(Store!avars)
  <2> SUFFICES ASSUME IInv, IInv', [Next]_vars
               PROVE  Store!ANext \/ UNCHANGED Store!avars
    OBVIOUS
  <2>1. PublishedInv'
    BY DEF IInv
  <2>2. ASSUME NEW a \in Attempts, Publish(a) PROVE Store!ANext
    BY <2>1, <2>2, PublishPublishes DEF Store!ANext
  <2>3. ASSUME NEW p \in Procs, ProcessCrashes(p) PROVE Store!ANext
    BY <2>3, CrashKills
  <2>4. CASE PowerFails
    BY <2>1, <2>4, PowerFailsStore
  <2>5. CASE UNCHANGED vars
    BY <2>5 DEF vars, Store!avars, Entry, Answer
  <2>6. CASE pub' = pub /\ \E r \in Requests : RequestStep(r)
    BY <2>6, RequestMoves, MoveAnswers
  <2>7. CASE pub' = pub /\ \E a \in Attempts : WorkerStep(a) \/ CompilerStep(a)
    BY <2>7, WorkerMoves, MoveAnswers, AttemptIs
  <2>8. QED
    BY <2>2, <2>3, <2>4, <2>5, <2>6, <2>7, OnlyPublishPublishes DEF Next
<1>3. QED
  BY <1>1, <1>2, Inductive, PTL DEF Spec, ImplementsStore, Store!ASpec

=============================================================================
