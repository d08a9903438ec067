--------------------------- MODULE IOExecutorProofs ---------------------------
(***************************************************************************)
(* Theorems about IOExecutor for any number of callers, calls and contexts. *)
(* The inductive invariant says where a task can be at every moment: in the *)
(* current context while its caller is inside run(), or in a retired one    *)
(* after its caller was told of a timeout.                                  *)
(***************************************************************************)
EXTENDS IOExecutor, TLAPS

Served == {"asleep", "notified", "result", "stopping", "retiring"}
Inside == Served \cup {"ready"}
Unanswered == {"queued", "ready", "asleep", "notified", "result"}
BetweenTasks == {"awake", "asleep", "finished"}

Holds(k, t) == task[k] = t \/ hand[k] = t

(* run_lock is owned by the one caller past it.                              *)
LockInv == \A c \in Callers : pc[c] \in Inside <=> runLock = c

(* Each call has its own task, undecided until the wait is over.             *)
JobInv ==
    /\ \A c \in Callers : job[c] = None <=> pc[c] = "idle"
    /\ \A c, d \in Callers : (job[c] = job[d] /\ job[c] # None) => c = d
    /\ \A c \in Callers : pc[c] \in Unanswered => answer[job[c]] = "none"
    /\ \A c \in Callers : pc[c] \in {"stopping", "retiring"} =>
                             answer[job[c]] \in {"timeout", "error"}

(* Every allocated context but the current one is stopped, and the current   *)
(* one is stopped only while its caller retires it.                          *)
ContextInv ==
    /\ context \in made \cup {None}
    /\ \A c \in Callers : pc[c] \in Served => context # None
    /\ \A k \in Contexts \ made : wpc[k] = "unborn" /\ ~stopped[k] /\ task[k] = None
    /\ \A k \in made : wpc[k] # "unborn"
    /\ \A k \in made : k # context => stopped[k]
    /\ \A k \in Contexts : wpc[k] = "gone" => stopped[k]
    /\ context # None => (stopped[context] <=> \E c \in Callers : pc[c] = "retiring")

(* A task in a context has not run; a task in a worker's hands runs once.    *)
WorkInv ==
    /\ \A k \in Contexts : hand[k] # None <=> wpc[k] \in {"running", "executed"}
    /\ \A k \in Contexts : wpc[k] = "running" => effect[hand[k]] = "none"
    /\ \A k \in Contexts : wpc[k] = "executed" => effect[hand[k]] # "none"
    /\ \A k \in Contexts : task[k] # None => /\ effect[task[k]] = "none"
                                             /\ wpc[k] \in BetweenTasks

PlaceInv ==
    \A k \in Contexts, t \in Tasks : Holds(k, t) =>
        \/ k = context /\ \E c \in Callers : pc[c] \in Served /\ job[c] = t
        \/ k # context /\ answer[t] = "timeout" /\ \A c \in Callers : job[c] # t

UniqueInv ==
    \A k, l \in Contexts, t \in Tasks : (Holds(k, t) /\ Holds(l, t)) => k = l

(* A context without a served caller is idle; one with a served caller says  *)
(* done only when the task is performed and destroyed.                       *)
ServeInv ==
    /\ (context # None /\ \A c \in Callers : pc[c] \notin Served) =>
          task[context] = None /\ wpc[context] \in BetweenTasks
    /\ \A c \in Callers : pc[c] \in Served =>
          /\ done[context] => /\ task[context] = None
                              /\ wpc[context] \in BetweenTasks \cup {"gone"}
                              /\ effect[job[c]] # "none"
          /\ wpc[context] = "released" => effect[job[c]] # "none"
          /\ pc[c] = "result" => done[context]
          /\ answer[job[c]] = "error" => done[context]

(* What a caller was told is what its own operation did.                     *)
AnswerInv ==
    /\ \A t \in Tasks : answer[t] \in Effects => effect[t] = answer[t]
    /\ \A t \in Tasks : answer[t] \in {"invalid", "nothread"} =>
          effect[t] = "none" /\ \A c \in Callers : job[c] # t
    /\ \A t \in Tasks : (answer[t] = "none" /\ \A c \in Callers : job[c] = t =>
                            pc[c] \in {"queued", "ready"}) => effect[t] = "none"

IInv == /\ TypeOK /\ LockInv /\ JobInv /\ ContextInv /\ WorkInv /\ PlaceInv
        /\ UniqueInv /\ ServeInv /\ AnswerInv /\ CapturesReleased

-----------------------------------------------------------------------------
(* Every action preserves the invariant.                                     *)

LEMMA KeepsCall ==
    ASSUME IInv, NEW c \in Callers, NEW t \in Tasks, NEW l \in Limits,
           Call(c, t, l)
    PROVE  IInv'
<1> USE ExecutorAssumption DEF IInv, Call, Fresh, ctxVars, workerVars,
        Effects, Served, Inside, Unanswered, BetweenTasks, CallerPCs,
        WorkerPCs, Holds
<1>1. /\ TypeOK'
      /\ LockInv'
      /\ ContextInv'
      /\ WorkInv'
      /\ PlaceInv'
      /\ UniqueInv'
      /\ ServeInv'
      /\ CapturesReleased'
  BY DEF TypeOK, LockInv, ContextInv, WorkInv, PlaceInv, UniqueInv, ServeInv,
         CapturesReleased
<1>2. JobInv'
  BY DEF TypeOK, JobInv
<1>3. AnswerInv'
  BY DEF JobInv, AnswerInv
<1>4. QED
  BY <1>1, <1>2, <1>3

LEMMA KeepsCallInvalid ==
    ASSUME IInv, NEW c \in Callers, NEW t \in Tasks, CallInvalid(c, t)
    PROVE  IInv'
<1> USE ExecutorAssumption DEF IInv, CallInvalid, Fresh, callerVars, ctxVars,
        workerVars, Effects, Served, Inside, Unanswered, BetweenTasks,
        CallerPCs, WorkerPCs, Holds
<1>1. /\ TypeOK'
      /\ LockInv'
      /\ JobInv'
      /\ ContextInv'
      /\ WorkInv'
      /\ PlaceInv'
      /\ UniqueInv'
      /\ ServeInv'
      /\ AnswerInv'
      /\ CapturesReleased'
  BY DEF TypeOK, LockInv, JobInv, ContextInv, WorkInv, PlaceInv, UniqueInv,
         ServeInv, AnswerInv, CapturesReleased
<1>2. QED
  BY <1>1

LEMMA KeepsAcquire ==
    ASSUME IInv, NEW c \in Callers, Acquire(c)
    PROVE  IInv'
<1> USE ExecutorAssumption DEF IInv, Acquire, ctxVars, workerVars, Effects,
        Served, Inside, Unanswered, BetweenTasks, CallerPCs, WorkerPCs, Holds
<1>1. /\ TypeOK'
      /\ JobInv'
      /\ ContextInv'
      /\ WorkInv'
      /\ PlaceInv'
      /\ UniqueInv'
      /\ ServeInv'
      /\ AnswerInv'
      /\ CapturesReleased'
  BY DEF TypeOK, JobInv, ContextInv, WorkInv, PlaceInv, UniqueInv, ServeInv,
         AnswerInv, CapturesReleased
<1>2. LockInv'
  BY DEF TypeOK, LockInv
<1>3. QED
  BY <1>1, <1>2

LEMMA KeepsSpawn ==
    ASSUME IInv, NEW c \in Callers, NEW k \in Contexts, Spawn(c, k)
    PROVE  IInv'
<1> USE ExecutorAssumption DEF IInv, Spawn, callerVars, ctxVars, Effects,
        Served, Inside, Unanswered, BetweenTasks, CallerPCs, WorkerPCs, Holds
<1>1. /\ TypeOK'
      /\ LockInv'
      /\ JobInv'
      /\ UniqueInv'
      /\ AnswerInv'
      /\ CapturesReleased'
  BY DEF TypeOK, LockInv, JobInv, UniqueInv, AnswerInv, CapturesReleased
<1>2. ContextInv'
  BY DEF TypeOK, ContextInv
<1>3. WorkInv'
  BY DEF ContextInv, WorkInv
<1>4. PlaceInv'
  BY DEF ContextInv, WorkInv, PlaceInv
<1>5. ServeInv'
  BY DEF TypeOK, ContextInv, ServeInv
<1>6. QED
  BY <1>1, <1>2, <1>3, <1>4, <1>5

LEMMA KeepsSpawnFails ==
    ASSUME IInv, NEW c \in Callers, SpawnFails(c)
    PROVE  IInv'
<1> USE ExecutorAssumption DEF IInv, SpawnFails, ctxVars, workerVars, Effects,
        Served, Inside, Unanswered, BetweenTasks, CallerPCs, WorkerPCs, Holds
<1>1. /\ ContextInv'
      /\ WorkInv'
      /\ PlaceInv'
      /\ UniqueInv'
      /\ ServeInv'
      /\ CapturesReleased'
  BY DEF ContextInv, WorkInv, PlaceInv, UniqueInv, ServeInv, CapturesReleased
<1>2. TypeOK'
  BY DEF TypeOK, JobInv
<1>3. LockInv'
  BY DEF TypeOK, LockInv
<1>4. JobInv'
  BY DEF TypeOK, JobInv
<1>5. AnswerInv'
  BY DEF TypeOK, JobInv, AnswerInv
<1>6. QED
  BY <1>1, <1>2, <1>3, <1>4, <1>5

LEMMA KeepsSubmit ==
    ASSUME IInv, NEW c \in Callers, Submit(c)
    PROVE  IInv'
<1> USE ExecutorAssumption DEF IInv, Submit, NotifyOne, CallersAsleep,
        Effects, Served, Inside, Unanswered, BetweenTasks, CallerPCs,
        WorkerPCs, Holds
<1>1. TypeOK'
  BY DEF TypeOK
<1>2. LockInv'
  BY DEF TypeOK, LockInv
<1>3. JobInv'
  BY DEF TypeOK, JobInv
<1>4. ContextInv'
  BY DEF TypeOK, ContextInv
<1>5. WorkInv'
  BY DEF TypeOK, LockInv, JobInv, WorkInv, ServeInv, AnswerInv
<1>6. PlaceInv'
  BY DEF TypeOK, PlaceInv
<1>7. UniqueInv'
  BY DEF PlaceInv, UniqueInv
<1>8. ServeInv'
  BY DEF TypeOK, LockInv, JobInv, ServeInv
<1>9. AnswerInv'
  BY DEF TypeOK, AnswerInv
<1>10. CapturesReleased'
  BY DEF JobInv, CapturesReleased
<1>11. QED
  BY <1>1, <1>2, <1>3, <1>4, <1>5, <1>6, <1>7, <1>8, <1>9, <1>10

LEMMA KeepsWakeSpuriously ==
    ASSUME IInv, NEW c \in Callers, WakeSpuriously(c)
    PROVE  IInv'
<1> USE ExecutorAssumption DEF IInv, WakeSpuriously, ctxVars, workerVars,
        Effects, Served, Inside, Unanswered, BetweenTasks, CallerPCs,
        WorkerPCs, Holds
<1>1. /\ TypeOK'
      /\ LockInv'
      /\ JobInv'
      /\ ContextInv'
      /\ WorkInv'
      /\ PlaceInv'
      /\ UniqueInv'
      /\ ServeInv'
      /\ AnswerInv'
      /\ CapturesReleased'
  BY DEF TypeOK, LockInv, JobInv, ContextInv, WorkInv, PlaceInv, UniqueInv,
         ServeInv, AnswerInv, CapturesReleased
<1>2. QED
  BY <1>1

LEMMA KeepsWake ==
    ASSUME IInv, NEW c \in Callers, Wake(c)
    PROVE  IInv'
<1> USE ExecutorAssumption DEF IInv, Wake, ctxVars, workerVars, Effects,
        Served, Inside, Unanswered, BetweenTasks, CallerPCs, WorkerPCs, Holds
<1>1. /\ TypeOK'
      /\ LockInv'
      /\ JobInv'
      /\ ContextInv'
      /\ WorkInv'
      /\ PlaceInv'
      /\ UniqueInv'
      /\ ServeInv'
      /\ AnswerInv'
      /\ CapturesReleased'
  BY DEF TypeOK, LockInv, JobInv, ContextInv, WorkInv, PlaceInv, UniqueInv,
         ServeInv, AnswerInv, CapturesReleased
<1>2. QED
  BY <1>1

LEMMA KeepsTimeOut ==
    ASSUME IInv, NEW c \in Callers, TimeOut(c)
    PROVE  IInv'
<1> USE ExecutorAssumption DEF IInv, TimeOut, ctxVars, workerVars, Effects,
        Served, Inside, Unanswered, BetweenTasks, CallerPCs, WorkerPCs, Holds
<1>1. TypeOK' /\ WorkInv' /\ UniqueInv'
  BY DEF TypeOK, WorkInv, UniqueInv
<1>2. LockInv'
  BY DEF TypeOK, LockInv
<1>3. JobInv'
  BY DEF TypeOK, JobInv
<1>4. ContextInv'
  BY DEF TypeOK, ContextInv
<1>5. PlaceInv'
  BY DEF TypeOK, PlaceInv
<1>6. ServeInv'
  BY DEF TypeOK, LockInv, ServeInv
<1>7. AnswerInv'
  BY DEF TypeOK, AnswerInv
<1>8. CapturesReleased'
  BY DEF TypeOK, CapturesReleased
<1>9. QED
  BY <1>1, <1>2, <1>3, <1>4, <1>5, <1>6, <1>7, <1>8

LEMMA KeepsGetValue ==
    ASSUME IInv, NEW c \in Callers, GetValue(c)
    PROVE  IInv'
<1> USE ExecutorAssumption DEF IInv, GetValue, ctxVars, workerVars, Effects,
        Served, Inside, Unanswered, BetweenTasks, CallerPCs, WorkerPCs, Holds
<1>1. ContextInv' /\ WorkInv' /\ UniqueInv'
  BY DEF ContextInv, WorkInv, UniqueInv
<1>2. TypeOK'
  BY DEF TypeOK, JobInv
<1>3. LockInv'
  BY DEF TypeOK, LockInv
<1>4. JobInv'
  BY DEF TypeOK, JobInv
<1>5. PlaceInv'
  BY DEF WorkInv, PlaceInv, ServeInv
<1>6. ServeInv'
  BY DEF TypeOK, ContextInv, ServeInv
<1>7. AnswerInv'
  BY DEF TypeOK, AnswerInv
<1>8. CapturesReleased'
  BY DEF WorkInv, PlaceInv, ServeInv, CapturesReleased
<1>9. QED
  BY <1>1, <1>2, <1>3, <1>4, <1>5, <1>6, <1>7, <1>8

LEMMA KeepsGetError ==
    ASSUME IInv, NEW c \in Callers, GetError(c)
    PROVE  IInv'
<1> USE ExecutorAssumption DEF IInv, GetError, ctxVars, workerVars, Effects,
        Served, Inside, Unanswered, BetweenTasks, CallerPCs, WorkerPCs, Holds
<1>1. /\ LockInv'
      /\ ContextInv'
      /\ WorkInv'
      /\ PlaceInv'
      /\ UniqueInv'
      /\ ServeInv'
      /\ AnswerInv'
  BY DEF LockInv, ContextInv, WorkInv, PlaceInv, UniqueInv, ServeInv,
         AnswerInv
<1>2. TypeOK'
  BY DEF TypeOK, JobInv
<1>3. JobInv'
  BY DEF TypeOK, JobInv
<1>4. CapturesReleased'
  BY DEF WorkInv, PlaceInv, ServeInv, CapturesReleased
<1>5. QED
  BY <1>1, <1>2, <1>3, <1>4

LEMMA KeepsMarkStopped ==
    ASSUME IInv, NEW c \in Callers, MarkStopped(c)
    PROVE  IInv'
<1> USE ExecutorAssumption DEF IInv, MarkStopped, workerVars, Effects, Served,
        Inside, Unanswered, BetweenTasks, CallerPCs, WorkerPCs, Holds
<1>1. /\ LockInv'
      /\ JobInv'
      /\ WorkInv'
      /\ PlaceInv'
      /\ UniqueInv'
      /\ ServeInv'
      /\ AnswerInv'
      /\ CapturesReleased'
  BY DEF LockInv, JobInv, WorkInv, PlaceInv, UniqueInv, ServeInv, AnswerInv,
         CapturesReleased
<1>2. TypeOK'
  BY DEF TypeOK, ContextInv
<1>3. ContextInv'
  BY DEF TypeOK, ContextInv
<1>4. QED
  BY <1>1, <1>2, <1>3

LEMMA KeepsRetire ==
    ASSUME IInv, NEW c \in Callers, Retire(c)
    PROVE  IInv'
<1> USE ExecutorAssumption DEF IInv, Retire, NotifyOne, CallersAsleep,
        ctxVars, Effects, Served, Inside, Unanswered, BetweenTasks, CallerPCs,
        WorkerPCs, Holds
<1>1. TypeOK' /\ UniqueInv' /\ CapturesReleased'
  BY DEF TypeOK, UniqueInv, CapturesReleased
<1>2. LockInv'
  BY DEF TypeOK, LockInv
<1>3. JobInv'
  BY DEF TypeOK, JobInv
<1>4. ContextInv'
  BY DEF TypeOK, LockInv, ContextInv
<1>5. WorkInv'
  BY DEF TypeOK, WorkInv
<1>6. PlaceInv'
  BY DEF TypeOK, LockInv, JobInv, WorkInv, PlaceInv, ServeInv
<1>7. ServeInv'
  BY DEF TypeOK, LockInv, ServeInv
<1>8. AnswerInv'
  BY DEF TypeOK, JobInv, AnswerInv
<1>9. QED
  BY <1>1, <1>2, <1>3, <1>4, <1>5, <1>6, <1>7, <1>8

LEMMA KeepsTake ==
    ASSUME IInv, NEW k \in Contexts, Take(k)
    PROVE  IInv'
<1> USE ExecutorAssumption DEF IInv, Take, callerVars, Effects, Served,
        Inside, Unanswered, BetweenTasks, CallerPCs, WorkerPCs, Holds
<1>1. TypeOK' /\ LockInv' /\ JobInv' /\ AnswerInv'
  BY DEF TypeOK, LockInv, JobInv, AnswerInv
<1>2. ContextInv'
  BY DEF TypeOK, ContextInv
<1>3. WorkInv'
  <2>1. CASE stopped[k]
    BY <2>1 DEF TypeOK, WorkInv
  <2>2. CASE ~stopped[k] /\ task[k] # None
    BY <2>2 DEF TypeOK, WorkInv, PlaceInv, UniqueInv
  <2>3. CASE ~stopped[k] /\ task[k] = None
    BY <2>3 DEF TypeOK, WorkInv
  <2>4. QED
    BY <2>1, <2>2, <2>3
<1>4. PlaceInv'
  BY DEF TypeOK, PlaceInv
<1>5. UniqueInv'
  BY DEF TypeOK, UniqueInv
<1>6. ServeInv'
  BY DEF TypeOK, ContextInv, ServeInv
<1>7. CapturesReleased'
  BY DEF TypeOK, CapturesReleased
<1>8. QED
  BY <1>1, <1>2, <1>3, <1>4, <1>5, <1>6, <1>7

LEMMA KeepsWorkerWakesSpuriously ==
    ASSUME IInv, NEW k \in Contexts, WorkerWakesSpuriously(k)
    PROVE  IInv'
<1> USE ExecutorAssumption DEF IInv, WorkerWakesSpuriously, callerVars,
        ctxVars, Effects, Served, Inside, Unanswered, BetweenTasks, CallerPCs,
        WorkerPCs, Holds
<1>1. /\ TypeOK'
      /\ LockInv'
      /\ JobInv'
      /\ ContextInv'
      /\ WorkInv'
      /\ PlaceInv'
      /\ UniqueInv'
      /\ ServeInv'
      /\ AnswerInv'
      /\ CapturesReleased'
  BY DEF TypeOK, LockInv, JobInv, ContextInv, WorkInv, PlaceInv, UniqueInv,
         ServeInv, AnswerInv, CapturesReleased
<1>2. QED
  BY <1>1

LEMMA KeepsExecute ==
    ASSUME IInv, NEW k \in Contexts, NEW e \in Effects, Execute(k, e)
    PROVE  IInv'
<1> USE ExecutorAssumption DEF IInv, Execute, callerVars, ctxVars, Effects,
        Served, Inside, Unanswered, BetweenTasks, CallerPCs, WorkerPCs, Holds
<1>1. /\ LockInv'
      /\ JobInv'
      /\ ContextInv'
      /\ PlaceInv'
      /\ UniqueInv'
      /\ ServeInv'
      /\ CapturesReleased'
  BY DEF LockInv, JobInv, ContextInv, PlaceInv, UniqueInv, ServeInv,
         CapturesReleased
<1>2. TypeOK'
  BY DEF TypeOK, WorkInv
<1>3. WorkInv'
  BY DEF TypeOK, WorkInv, UniqueInv
<1>4. AnswerInv'
  BY DEF WorkInv, PlaceInv, AnswerInv
<1>5. QED
  BY <1>1, <1>2, <1>3, <1>4

LEMMA KeepsReleaseCaptures ==
    ASSUME IInv, NEW k \in Contexts, ReleaseCaptures(k)
    PROVE  IInv'
<1> USE ExecutorAssumption DEF IInv, ReleaseCaptures, callerVars, ctxVars,
        Effects, Served, Inside, Unanswered, BetweenTasks, CallerPCs,
        WorkerPCs, Holds
<1>1. /\ TypeOK'
      /\ LockInv'
      /\ JobInv'
      /\ ContextInv'
      /\ PlaceInv'
      /\ UniqueInv'
      /\ AnswerInv'
      /\ CapturesReleased'
  BY DEF TypeOK, LockInv, JobInv, ContextInv, PlaceInv, UniqueInv, AnswerInv,
         CapturesReleased
<1>2. WorkInv'
  BY DEF TypeOK, WorkInv
<1>3. ServeInv'
  BY DEF TypeOK, LockInv, WorkInv, PlaceInv, ServeInv
<1>4. QED
  BY <1>1, <1>2, <1>3

LEMMA KeepsMarkDone ==
    ASSUME IInv, NEW k \in Contexts, MarkDone(k)
    PROVE  IInv'
<1> USE ExecutorAssumption DEF IInv, MarkDone, callerVars, Effects, Served,
        Inside, Unanswered, BetweenTasks, CallerPCs, WorkerPCs, Holds
<1>1. /\ TypeOK'
      /\ LockInv'
      /\ JobInv'
      /\ ContextInv'
      /\ WorkInv'
      /\ PlaceInv'
      /\ UniqueInv'
      /\ AnswerInv'
      /\ CapturesReleased'
  BY DEF TypeOK, LockInv, JobInv, ContextInv, WorkInv, PlaceInv, UniqueInv,
         AnswerInv, CapturesReleased
<1>2. ServeInv'
  BY DEF TypeOK, WorkInv, ServeInv
<1>3. QED
  BY <1>1, <1>2

LEMMA KeepsNotifyDone ==
    ASSUME IInv, NEW k \in Contexts, NotifyDone(k)
    PROVE  IInv'
<1> USE ExecutorAssumption DEF IInv, NotifyDone, NotifyOne, CallersAsleep,
        ctxVars, Effects, Served, Inside, Unanswered, BetweenTasks, CallerPCs,
        WorkerPCs, Holds
<1>1. TypeOK' /\ UniqueInv' /\ CapturesReleased'
  BY DEF TypeOK, UniqueInv, CapturesReleased
<1>2. LockInv'
  BY DEF TypeOK, LockInv
<1>3. JobInv'
  BY DEF TypeOK, JobInv
<1>4. ContextInv'
  BY DEF TypeOK, ContextInv
<1>5. WorkInv'
  BY DEF TypeOK, WorkInv
<1>6. PlaceInv'
  BY DEF TypeOK, PlaceInv
<1>7. ServeInv'
  BY DEF TypeOK, ContextInv, ServeInv
<1>8. AnswerInv'
  BY DEF TypeOK, AnswerInv
<1>9. QED
  BY <1>1, <1>2, <1>3, <1>4, <1>5, <1>6, <1>7, <1>8

LEMMA KeepsDestroy ==
    ASSUME IInv, Destroy
    PROVE  IInv'
<1> USE ExecutorAssumption DEF IInv, Destroy, NotifyOne, CallersAsleep,
        Effects, Served, Inside, Unanswered, BetweenTasks, CallerPCs,
        WorkerPCs, Holds
<1>1. /\ LockInv'
      /\ JobInv'
      /\ PlaceInv'
      /\ UniqueInv'
      /\ ServeInv'
      /\ AnswerInv'
      /\ CapturesReleased'
  BY DEF LockInv, JobInv, PlaceInv, UniqueInv, ServeInv, AnswerInv,
         CapturesReleased
<1>2. TypeOK'
  <2>1. CASE context = None
    BY <2>1 DEF TypeOK
  <2>2. CASE context # None
    BY <2>2 DEF TypeOK
  <2>3. QED
    BY <2>1, <2>2
<1>3. ContextInv'
  BY DEF TypeOK, ContextInv
<1>4. WorkInv'
  BY DEF TypeOK, WorkInv
<1>5. QED
  BY <1>1, <1>2, <1>3, <1>4
-----------------------------------------------------------------------------

LEMMA InitIInv == Init => IInv
<1> SUFFICES ASSUME Init PROVE IInv
  OBVIOUS
<1> USE ExecutorAssumption DEF Init
<1>1. TypeOK
  BY DEF TypeOK, CallerPCs, WorkerPCs
<1>2. LockInv /\ JobInv
  BY DEF LockInv, JobInv, Inside, Served, Unanswered
<1>3. ContextInv /\ WorkInv
  BY DEF ContextInv, WorkInv, Served
<1>4. PlaceInv /\ UniqueInv
  BY DEF PlaceInv, UniqueInv, Holds
<1>5. ServeInv /\ AnswerInv /\ CapturesReleased
  BY DEF ServeInv, AnswerInv, CapturesReleased, Served, Effects
<1>6. QED
  BY <1>1, <1>2, <1>3, <1>4, <1>5 DEF IInv

LEMMA StutterIInv == IInv /\ UNCHANGED vars => IInv'
  BY DEF vars, IInv, TypeOK, LockInv, JobInv, ContextInv, WorkInv, PlaceInv,
         UniqueInv, ServeInv, AnswerInv, CapturesReleased, Holds

(* The invariant, of every execution.                                        *)
THEOREM Inductive == Spec => []IInv
<1>1. IInv /\ [Next]_vars => IInv'
  <2> SUFFICES ASSUME IInv, [Next]_vars PROVE IInv'
    OBVIOUS
  <2>1. ASSUME NEW c \in Callers, CallerStep(c) PROVE IInv'
    BY <2>1, KeepsCall, KeepsCallInvalid, KeepsAcquire, KeepsSpawn, KeepsSpawnFails,
       KeepsSubmit, KeepsWakeSpuriously, KeepsWake, KeepsTimeOut, KeepsGetValue,
       KeepsGetError, KeepsMarkStopped, KeepsRetire DEF CallerStep
  <2>2. ASSUME NEW k \in Contexts, WorkerStep(k) PROVE IInv'
    BY <2>2, KeepsTake, KeepsWorkerWakesSpuriously, KeepsExecute,
       KeepsReleaseCaptures, KeepsMarkDone, KeepsNotifyDone DEF WorkerStep
  <2>3. CASE Destroy
    BY <2>3, KeepsDestroy
  <2>4. CASE UNCHANGED vars
    BY <2>4, StutterIInv
  <2>5. QED
    BY <2>1, <2>2, <2>3, <2>4 DEF Next
<1>2. QED
  BY <1>1, InitIInv, PTL DEF Spec

(* Type correctness of run(), stop() and thread_main.                        *)
THEOREM TypeCorrect == Spec => []TypeOK
<1>1. IInv => TypeOK
  BY DEF IInv
<1>2. QED
  BY <1>1, Inductive, PTL

(* A caller told its operation's result may free what the operation borrowed. *)
THEOREM CapturesAreReleased == Spec => []CapturesReleased
<1>1. IInv => CapturesReleased
  BY DEF IInv
<1>2. QED
  BY <1>1, Inductive, PTL

(* A new submission never waits behind an abandoned operation.               *)
THEOREM HandoverIsIdle == Spec => []IdleHandover
<1>1. IInv => IdleHandover
  <2> SUFFICES ASSUME IInv, context # None,
                      runLock = None \/ pc[runLock] \in {"idle", "ready"}
               PROVE  /\ ~stopped[context]
                      /\ task[context] = None
                      /\ hand[context] = None
                      /\ wpc[context] \in {"awake", "asleep", "finished"}
    BY DEF IdleHandover
  <2>1. \A c \in Callers : pc[c] \notin Served
    BY ExecutorAssumption DEF IInv, LockInv, Inside, Served
  <2>2. context \in Contexts
    BY DEF IInv, TypeOK
  <2>3. task[context] = None /\ wpc[context] \in BetweenTasks
    BY <2>1 DEF IInv, ServeInv
  <2>4. hand[context] = None
    BY <2>2, <2>3 DEF IInv, WorkInv, BetweenTasks
  <2>5. ~stopped[context]
    BY <2>1 DEF IInv, ContextInv, Served
  <2>6. QED
    BY <2>3, <2>4, <2>5 DEF BetweenTasks
<1>2. QED
  BY <1>1, Inductive, PTL

(* An operation that had not started when run() returned never starts: the   *)
(* only place it can be is a context that is stopped.                        *)
THEOREM NothingStartsLate == Spec => NeverStartsLate
<1> DEFINE Step == \A t \in Tasks : (Returned(t) /\ \A k \in Contexts : hand[k] # t) =>
                                       \A k \in Contexts : hand'[k] # t
<1>1. IInv /\ [Next]_vars => [Step]_vars
  <2> SUFFICES ASSUME IInv, Next, NEW t \in Tasks, Returned(t),
                      \A k \in Contexts : hand[k] # t, NEW k \in Contexts
               PROVE  hand'[k] # t
    BY DEF vars
  <2>1. task[k] = t => stopped[k]
    BY ExecutorAssumption
       DEF IInv, TypeOK, PlaceInv, ContextInv, Holds, Returned
  <2>2. ASSUME NEW c \in Callers, CallerStep(c) PROVE hand' = hand
    BY <2>2 DEF CallerStep, Call, CallInvalid, Acquire, Spawn, SpawnFails, Submit,
                WakeSpuriously, Wake, TimeOut, GetValue, GetError, MarkStopped,
                Retire, workerVars
  <2>3. ASSUME NEW l \in Contexts, Take(l) PROVE hand'[k] # t
    BY <2>1, <2>3, ExecutorAssumption DEF Take, IInv, TypeOK
  <2>4. ASSUME NEW l \in Contexts, ReleaseCaptures(l) PROVE hand'[k] # t
    BY <2>4, ExecutorAssumption DEF ReleaseCaptures, IInv, TypeOK
  <2>5. ASSUME NEW l \in Contexts, WorkerStep(l) PROVE hand'[k] # t
    BY <2>3, <2>4, <2>5 DEF WorkerStep, WorkerWakesSpuriously, Execute, MarkDone,
                            NotifyDone
  <2>6. Destroy => hand' = hand
    BY DEF Destroy
  <2>7. QED
    BY <2>2, <2>5, <2>6 DEF Next
<1>2. QED
  BY <1>1, Inductive, PTL DEF Spec, NeverStartsLate

-----------------------------------------------------------------------------
(* The executor implements the service: Submit begins an operation, Execute  *)
(* performs it, TimeOut gives up, GetError replies, Retire and GetValue end. *)

LEMMA InitService == Init => Service!SInit
  BY ExecutorAssumption DEF Init, Service!SInit, Serving, Begun, Effects

USE DEF Service!Effects, Service!Refusals, Effects

(* Steps after which the service looks the same.                             *)
LEMMA QuietSteps ==
    ASSUME IInv, NEW c \in Callers,
           \/ \E t \in Tasks, l \in Limits : Call(c, t, l)
           \/ Acquire(c) \/ (\E k \in Contexts : Spawn(c, k))
           \/ WakeSpuriously(c) \/ Wake(c) \/ MarkStopped(c)
           \/ TimeOut(c) /\ done[context]
    PROVE  UNCHANGED Service!svars
<1>1. UNCHANGED <<effect, answer>>
  BY DEF Call, Acquire, Spawn, WakeSpuriously, Wake, MarkStopped, TimeOut
<1>2. Serving' = Serving
  BY ExecutorAssumption
     DEF IInv, TypeOK, LockInv, Serving, Inside, Served, CallerPCs, callerVars, Call,
         Acquire, Spawn, WakeSpuriously, Wake, MarkStopped, TimeOut
<1>3. QED
  BY <1>1, <1>2 DEF Service!svars, Begun

LEMMA RefuseSteps ==
    ASSUME IInv, NEW c \in Callers,
           (\E t \in Tasks : CallInvalid(c, t)) \/ SpawnFails(c)
    PROVE  Service!SNext
<1>1. ASSUME NEW t \in Tasks, CallInvalid(c, t) PROVE Service!Refuse(t, "invalid")
  <2>1. Serving # t /\ t \notin Begun
    BY <1>1, ExecutorAssumption
       DEF CallInvalid, Fresh, IInv, TypeOK, AnswerInv, Begun, Serving
  <2>2. Serving' = Serving /\ Begun' = Begun
    BY <1>1, <2>1, ExecutorAssumption
       DEF CallInvalid, callerVars, IInv, TypeOK, Serving, Begun
  <2>3. QED
    BY <1>1, <2>1, <2>2 DEF CallInvalid, Fresh, Service!Refuse
<1>2. ASSUME SpawnFails(c) PROVE Service!Refuse(job[c], "nothread")
  <2>1. job[c] \in Tasks /\ answer[job[c]] = "none" /\ effect[job[c]] = "none"
    BY <1>2, ExecutorAssumption
       DEF SpawnFails, IInv, TypeOK, JobInv, AnswerInv, Unanswered
  <2>2. Serving = None /\ Serving' = None
    BY <1>2, ExecutorAssumption DEF SpawnFails, IInv, LockInv, Inside, Serving
  <2>3. job[c] \notin Begun /\ Begun' = Begun
    BY <1>2, <2>1, <2>2, ExecutorAssumption DEF SpawnFails, IInv, TypeOK, Begun
  <2>4. QED
    BY <1>2, <2>1, <2>2, <2>3 DEF SpawnFails, Service!Refuse
<1>3. QED
  BY <1>1, <1>2, ExecutorAssumption
     DEF Service!SNext, IInv, TypeOK, JobInv, SpawnFails

LEMMA SubmitBegins ==
    ASSUME IInv, NEW c \in Callers, Submit(c)
    PROVE  Service!Begin(job[c]) /\ job[c] \in Tasks
<1>1. job[c] \in Tasks /\ answer[job[c]] = "none"
  BY DEF Submit, IInv, TypeOK, JobInv, Unanswered
<1>2. runLock = c /\ Serving = None
  BY ExecutorAssumption DEF Submit, IInv, LockInv, Inside, Serving
<1>3. Serving' = job[c]
  BY <1>2, ExecutorAssumption
     DEF Submit, NotifyOne, CallersAsleep, IInv, TypeOK, LockInv, Inside, Served, Serving
<1>4. Begun' = Begun \cup {job[c]}
  BY <1>1, <1>2, <1>3, ExecutorAssumption DEF Submit, Begun
<1>5. QED
  BY <1>1, <1>2, <1>3, <1>4 DEF Submit, Service!Begin

LEMMA TimeOutGivesUp ==
    ASSUME IInv, NEW c \in Callers, TimeOut(c), ~done[context]
    PROVE  Service!GiveUp(job[c]) /\ job[c] \in Tasks
<1>1. job[c] \in Tasks /\ answer[job[c]] = "none" /\ runLock = c
  BY DEF TimeOut, IInv, TypeOK, JobInv, LockInv, Unanswered, Inside, Served
<1>2. Serving = job[c] /\ Serving' = job[c]
  BY <1>1, ExecutorAssumption DEF TimeOut, IInv, TypeOK, Serving
<1>3. Begun' = Begun
  BY <1>1, <1>2 DEF TimeOut, IInv, TypeOK, Begun
<1>4. QED
  BY <1>1, <1>2, <1>3 DEF TimeOut, Service!GiveUp

LEMMA GetReplies ==
    ASSUME IInv, NEW c \in Callers, GetValue(c) \/ GetError(c)
    PROVE  /\ job[c] \in Tasks
           /\ Service!ReplyAndEnd(job[c]) \/ Service!Reply(job[c])
<1>1. /\ job[c] \in Tasks /\ answer[job[c]] = "none" /\ runLock = c
      /\ Serving = job[c] /\ pc[c] = "result"
  BY ExecutorAssumption
     DEF GetValue, GetError, IInv, TypeOK, JobInv, LockInv, Unanswered, Inside,
         Served, Serving
<1>2. CASE GetValue(c)
  <2>1. Serving' = None
    BY <1>2 DEF GetValue, Serving
  <2>2. Begun' = Begun
    BY <1>1, <1>2, <2>1, ExecutorAssumption DEF GetValue, IInv, TypeOK, Begun
  <2>3. QED
    BY <1>1, <1>2, <2>1, <2>2 DEF GetValue, Service!ReplyAndEnd
<1>3. CASE GetError(c)
  <2>1. Serving' = job[c]
    BY <1>1, <1>3, ExecutorAssumption DEF GetError, IInv, TypeOK, Serving
  <2>2. Begun' = Begun
    BY <1>1, <1>3, <2>1, ExecutorAssumption DEF GetError, IInv, TypeOK, Begun
  <2>3. QED
    BY <1>1, <1>3, <2>1, <2>2 DEF GetError, Service!Reply
<1>4. QED
  BY <1>1, <1>2, <1>3

LEMMA RetireEnds ==
    ASSUME IInv, NEW c \in Callers, Retire(c)
    PROVE  Service!End(job[c]) /\ job[c] \in Tasks
<1>1. /\ job[c] \in Tasks /\ answer[job[c]] \in {"timeout", "error"}
      /\ runLock = c /\ Serving = job[c] /\ job[c] \in Begun
  BY ExecutorAssumption
     DEF Retire, IInv, TypeOK, JobInv, LockInv, Inside, Served, Serving, Begun
<1>2. Serving' = None
  BY DEF Retire, Serving
<1>3. Begun' = Begun
  BY <1>1, <1>2, ExecutorAssumption DEF Retire, IInv, TypeOK, Begun
<1>4. QED
  BY <1>1, <1>2, <1>3 DEF Retire, Service!End

LEMMA ExecutePerforms ==
    ASSUME IInv, NEW k \in Contexts, NEW e \in Effects, Execute(k, e)
    PROVE  Service!Perform(hand[k], e) /\ hand[k] \in Tasks
<1>1. hand[k] \in Tasks /\ effect[hand[k]] = "none"
  BY DEF Execute, IInv, TypeOK, WorkInv
<1>2. hand[k] \in Begun
  BY <1>1, ExecutorAssumption
     DEF IInv, PlaceInv, LockInv, Holds, Begun, Serving, Inside, Served
<1>3. Serving' = Serving
  BY DEF Execute, callerVars, Serving
<1>4. Begun' = Begun
  BY <1>1, <1>2, <1>3 DEF Execute, IInv, TypeOK, Begun
<1>5. QED
  BY <1>1, <1>2, <1>3, <1>4 DEF Execute, Service!Perform

(* A notification leaves a caller inside or outside run() where it was.      *)
LEMMA QuietWorkerSteps ==
    ASSUME IInv, NEW k \in Contexts,
           \/ Take(k) \/ WorkerWakesSpuriously(k) \/ ReleaseCaptures(k)
           \/ MarkDone(k) \/ NotifyDone(k)
    PROVE  UNCHANGED Service!svars
<1>1. UNCHANGED <<effect, answer, job, runLock>>
  BY DEF Take, WorkerWakesSpuriously, ReleaseCaptures, MarkDone, NotifyDone, callerVars
<1>2. \A c \in Callers : pc'[c] = "ready" <=> pc[c] = "ready"
  BY DEF Take, WorkerWakesSpuriously, ReleaseCaptures, MarkDone, NotifyDone,
         callerVars, NotifyOne, CallersAsleep, IInv, TypeOK
<1>3. Serving' = Serving
  BY <1>1, <1>2 DEF Serving, IInv, TypeOK
<1>4. QED
  BY <1>1, <1>3 DEF Service!svars, Begun

LEMMA DestroyIsQuiet ==
    ASSUME IInv, Destroy
    PROVE  UNCHANGED Service!svars
<1>1. UNCHANGED <<effect, answer, job, runLock>>
  BY DEF Destroy
<1>2. \A c \in Callers : pc[c] \notin Inside
  BY DEF Destroy, Inside, Served
<1>3. runLock = None
  BY <1>2, ExecutorAssumption DEF IInv, TypeOK, LockInv
<1>4. Serving' = Serving
  BY <1>1, <1>3 DEF Serving
<1>5. QED
  BY <1>1, <1>4 DEF Service!svars, Begun

(* run() implements the one-at-a-time service.                               *)
THEOREM ServiceImplemented == Spec => ImplementsService
<1>1. Init => Service!SInit
  BY InitService
<1>2. IInv /\ [Next]_vars => [Service!SNext]_(Service!svars)
  <2> SUFFICES ASSUME IInv, [Next]_vars
               PROVE  Service!SNext \/ UNCHANGED Service!svars
    OBVIOUS
  <2>1. ASSUME NEW c \in Callers, CallerStep(c)
        PROVE  Service!SNext \/ UNCHANGED Service!svars
    <3>1. CASE Submit(c)
      BY <3>1, SubmitBegins DEF Service!SNext
    <3>2. CASE TimeOut(c) /\ ~done[context]
      BY <3>2, TimeOutGivesUp DEF Service!SNext
    <3>3. CASE GetValue(c) \/ GetError(c)
      BY <3>3, GetReplies DEF Service!SNext
    <3>4. CASE Retire(c)
      BY <3>4, RetireEnds DEF Service!SNext
    <3>5. CASE (\E t \in Tasks : CallInvalid(c, t)) \/ SpawnFails(c)
      BY <3>5, RefuseSteps
    <3>6. CASE \/ \E t \in Tasks, l \in Limits : Call(c, t, l)
               \/ Acquire(c) \/ (\E k \in Contexts : Spawn(c, k))
               \/ WakeSpuriously(c) \/ Wake(c) \/ MarkStopped(c)
               \/ TimeOut(c) /\ done[context]
      BY <3>6, QuietSteps
    <3>7. QED
      BY <2>1, <3>1, <3>2, <3>3, <3>4, <3>5, <3>6 DEF CallerStep
  <2>2. ASSUME NEW k \in Contexts, WorkerStep(k)
        PROVE  Service!SNext \/ UNCHANGED Service!svars
    <3>1. CASE \E e \in Effects : Execute(k, e)
      BY <3>1, ExecutePerforms DEF Service!SNext
    <3>2. CASE \/ Take(k) \/ WorkerWakesSpuriously(k) \/ ReleaseCaptures(k)
               \/ MarkDone(k) \/ NotifyDone(k)
      BY <3>2, QuietWorkerSteps
    <3>3. QED
      BY <2>2, <3>1, <3>2 DEF WorkerStep
  <2>3. CASE Destroy
    BY <2>3, DestroyIsQuiet
  <2>4. CASE UNCHANGED vars
    BY <2>4 DEF vars, Service!svars, Serving, Begun
  <2>5. QED
    BY <2>1, <2>2, <2>3, <2>4 DEF Next
<1>3. QED
  BY <1>1, <1>2, Inductive, PTL DEF Spec, ImplementsService, Service!SSpec

=============================================================================
