------------------------------ MODULE IOExecutor ------------------------------
(***************************************************************************)
(* ThreadExecutor (utils/executor.hpp): callers hand one operation at a     *)
(* time to a worker thread through a Context and wait for it with a          *)
(* timeout.  A caller that gives up retires the Context: its worker keeps    *)
(* whatever it is doing, detached, and the next call starts a fresh one.     *)
(*                                                                           *)
(* Granularity: one action per critical section of Context::lock, so the     *)
(* steps of two threads interleave wherever the code lets them.  Contexts    *)
(* are never reused, so each is named by its identity and the thread started *)
(* with it has the same name.                                                *)
(***************************************************************************)
CONSTANTS Callers,  (* threads that call run()                              *)
          Tasks,    (* callables, one per call: a call uses a fresh one      *)
          Contexts, (* Context objects that may ever be allocated            *)
          Limits,   (* timeout arguments: "timed", "untimed" (0), "negative" *)
          Stuck,    (* operations that may block for ever in the kernel      *)
          None      (* no caller, task or context                            *)

ASSUME ExecutorAssumption ==
    /\ None \notin Callers \cup Tasks \cup Contexts
    /\ Limits \subseteq {"timed", "untimed", "negative"}
    /\ Stuck \subseteq Tasks

VARIABLES
    pc,       (* where each caller is inside run()                           *)
    job,      (* the task of the call a caller is in                         *)
    limit,    (* its timeout argument                                        *)
    runLock,  (* owner of run_lock                                           *)
    context,  (* ThreadExecutor::context                                     *)
    made,     (* contexts allocated so far                                   *)
    task,     (* Context::task                                               *)
    done,     (* Context::done                                               *)
    stopped,  (* Context::stopped                                            *)
    wpc,      (* where the worker of each context is in thread_main          *)
    hand,     (* the local variable task of thread_main                      *)
    effect,   (* what the callable did: the shared state of its promise      *)
    answer,   (* what run() returns or throws, once decided                  *)
    closed    (* the executor has been destroyed                             *)

callerVars == <<pc, job, limit>>
ctxVars == <<task, done, stopped>>
workerVars == <<wpc, hand>>
vars == <<pc, job, limit, runLock, context, made, task, done, stopped,
          wpc, hand, effect, answer, closed>>

Effects == {"value", "error"}

Init == /\ pc = [c \in Callers |-> "idle"]
        /\ job = [c \in Callers |-> None]
        /\ limit = [c \in Callers |-> "untimed"]
        /\ runLock = None
        /\ context = None
        /\ made = {}
        /\ task = [k \in Contexts |-> None]
        /\ done = [k \in Contexts |-> FALSE]
        /\ stopped = [k \in Contexts |-> FALSE]
        /\ wpc = [k \in Contexts |-> "unborn"]
        /\ hand = [k \in Contexts |-> None]
        /\ effect = [t \in Tasks |-> "none"]
        /\ answer = [t \in Tasks |-> "none"]
        /\ closed = FALSE

-----------------------------------------------------------------------------
(* cv.notify_one() on context k wakes one of the threads asleep on its cv, if *)
(* there is any: the worker, or a caller waiting on the current context.  The *)
(* rest of the step moves the program counters to npc and nwpc.               *)
CallersAsleep(k) == {c \in Callers : context = k /\ pc[c] = "asleep"}

NotifyOne(k, npc, nwpc) ==
    \/ /\ wpc[k] = "asleep"
       /\ wpc' = [nwpc EXCEPT ![k] = "awake"]
       /\ pc' = npc
    \/ \E c \in CallersAsleep(k) :
          /\ pc' = [npc EXCEPT ![c] = "notified"]
          /\ wpc' = nwpc
    \/ /\ wpc[k] # "asleep"
       /\ CallersAsleep(k) = {}
       /\ pc' = npc
       /\ wpc' = nwpc

Fresh(t) == answer[t] = "none" /\ \A c \in Callers : job[c] # t

-----------------------------------------------------------------------------
(* The caller's side of run().                                                *)

Call(c, t, l) ==
    /\ ~closed
    /\ pc[c] = "idle"
    /\ Fresh(t)
    /\ l \in Limits \ {"negative"}
    /\ pc' = [pc EXCEPT ![c] = "queued"]
    /\ job' = [job EXCEPT ![c] = t]
    /\ limit' = [limit EXCEPT ![c] = l]
    /\ UNCHANGED <<runLock, context, made, ctxVars, workerVars, effect, answer, closed>>

(* A negative timeout is refused before run_lock is taken.                    *)
CallInvalid(c, t) ==
    /\ ~closed
    /\ pc[c] = "idle"
    /\ Fresh(t)
    /\ "negative" \in Limits
    /\ answer' = [answer EXCEPT ![t] = "invalid"]
    /\ UNCHANGED <<callerVars, runLock, context, made, ctxVars, workerVars, effect, closed>>

Acquire(c) ==
    /\ pc[c] = "queued"
    /\ runLock = None
    /\ runLock' = c
    /\ pc' = [pc EXCEPT ![c] = "ready"]
    /\ UNCHANGED <<job, limit, context, made, ctxVars, workerVars, effect, answer, closed>>

(* A first call, or the first after a retirement, starts a worker.            *)
Spawn(c, k) ==
    /\ pc[c] = "ready"
    /\ context = None
    /\ k \notin made
    /\ made' = made \cup {k}
    /\ context' = k
    /\ wpc' = [wpc EXCEPT ![k] = "awake"]
    /\ UNCHANGED <<callerVars, runLock, ctxVars, hand, effect, answer, closed>>

(* std::thread's constructor throws: run() leaves the executor as it was.     *)
SpawnFails(c) ==
    /\ pc[c] = "ready"
    /\ context = None
    /\ answer' = [answer EXCEPT ![job[c]] = "nothread"]
    /\ runLock' = None
    /\ pc' = [pc EXCEPT ![c] = "idle"]
    /\ job' = [job EXCEPT ![c] = None]
    /\ UNCHANGED <<limit, context, made, ctxVars, workerVars, effect, closed>>

(* One critical section: reset done, hand over the task, notify, and sleep:   *)
(* the predicate of the wait is the done just reset.                          *)
Submit(c) ==
    /\ pc[c] = "ready"
    /\ context # None
    /\ done' = [done EXCEPT ![context] = FALSE]
    /\ task' = [task EXCEPT ![context] = job[c]]
    /\ NotifyOne(context, [pc EXCEPT ![c] = "asleep"], wpc)
    /\ UNCHANGED <<job, limit, runLock, context, made, stopped, hand,
                   effect, answer, closed>>

(* A condition variable may wake a sleeper for no reason.                     *)
WakeSpuriously(c) ==
    /\ pc[c] = "asleep"
    /\ pc' = [pc EXCEPT ![c] = "notified"]
    /\ UNCHANGED <<job, limit, runLock, context, made, ctxVars, workerVars,
                   effect, answer, closed>>

(* The wait's predicate, evaluated with the lock held.                        *)
Wake(c) ==
    /\ pc[c] = "notified"
    /\ pc' = [pc EXCEPT ![c] = IF done[context] THEN "result" ELSE "asleep"]
    /\ UNCHANGED <<job, limit, runLock, context, made, ctxVars, workerVars,
                   effect, answer, closed>>

(* wait_for reaches its deadline: the predicate decides once more.            *)
TimeOut(c) ==
    /\ pc[c] \in {"asleep", "notified"}
    /\ limit[c] = "timed"
    /\ IF done[context]
       THEN /\ pc' = [pc EXCEPT ![c] = "result"]
            /\ UNCHANGED answer
       ELSE /\ pc' = [pc EXCEPT ![c] = "stopping"]
            /\ answer' = [answer EXCEPT ![job[c]] = "timeout"]
    /\ UNCHANGED <<job, limit, runLock, context, made, ctxVars, workerVars,
                   effect, closed>>

(* result.get() returns the value, and the lock guard releases run_lock.      *)
GetValue(c) ==
    /\ pc[c] = "result"
    /\ effect[job[c]] = "value"
    /\ answer' = [answer EXCEPT ![job[c]] = "value"]
    /\ runLock' = None
    /\ pc' = [pc EXCEPT ![c] = "idle"]
    /\ job' = [job EXCEPT ![c] = None]
    /\ UNCHANGED <<limit, context, made, ctxVars, workerVars, effect, closed>>

(* result.get() rethrows what the operation threw: the worker is retired too. *)
GetError(c) ==
    /\ pc[c] = "result"
    /\ effect[job[c]] = "error"
    /\ answer' = [answer EXCEPT ![job[c]] = "error"]
    /\ pc' = [pc EXCEPT ![c] = "stopping"]
    /\ UNCHANGED <<job, limit, runLock, context, made, ctxVars, workerVars,
                   effect, closed>>

(* stop(), its critical section.                                              *)
MarkStopped(c) ==
    /\ pc[c] = "stopping"
    /\ stopped' = [stopped EXCEPT ![context] = TRUE]
    /\ pc' = [pc EXCEPT ![c] = "retiring"]
    /\ UNCHANGED <<job, limit, runLock, context, made, task, done, workerVars,
                   effect, answer, closed>>

(* MUTANT of Retire: the context stays in place for the next call.            *)
RetireKeepsContext(c) ==
    /\ pc[c] = "retiring"
    /\ runLock' = None
    /\ job' = [job EXCEPT ![c] = None]
    /\ NotifyOne(context, [pc EXCEPT ![c] = "idle"], wpc)
    /\ UNCHANGED <<limit, context, made, ctxVars, hand, effect, answer, closed>>

(* MUTANT of Retire: a worker that sleeps is never told to leave.             *)
RetireSilently(c) ==
    /\ pc[c] = "retiring"
    /\ context' = None
    /\ runLock' = None
    /\ pc' = [pc EXCEPT ![c] = "idle"]
    /\ job' = [job EXCEPT ![c] = None]
    /\ UNCHANGED <<limit, made, ctxVars, workerVars, effect, answer, closed>>

(* The rest of stop(), never joining the worker: notify, detach, drop the     *)
(* context; then the exception leaves run() and releases run_lock.            *)
Retire(c) ==
    /\ pc[c] = "retiring"
    /\ NotifyOne(context, [pc EXCEPT ![c] = "idle"], wpc)
    /\ context' = None
    /\ runLock' = None
    /\ job' = [job EXCEPT ![c] = None]
    /\ UNCHANGED <<limit, made, ctxVars, hand, effect, answer, closed>>

(* ~ThreadExecutor: no caller is inside run() (concurrent destruction is not  *)
(* supported), so the critical section and the rest of stop() are one step.   *)
Destroy ==
    /\ ~closed
    /\ \A c \in Callers : pc[c] = "idle"
    /\ closed' = TRUE
    /\ context' = None
    /\ IF context = None
       THEN UNCHANGED <<pc, wpc, stopped>>
       ELSE /\ stopped' = [stopped EXCEPT ![context] = TRUE]
            /\ NotifyOne(context, pc, wpc)
    /\ UNCHANGED <<job, limit, runLock, made, task, done, hand, effect, answer>>

-----------------------------------------------------------------------------
(* The worker's side, thread_main.                                            *)

(* MUTANT of Take: the stop flag is not looked at once a task is there.       *)
TakeIgnoringStop(k) ==
    /\ wpc[k] = "awake"
    /\ hand' = [hand EXCEPT ![k] = task[k]]
    /\ task' = [task EXCEPT ![k] = None]
    /\ wpc' = [wpc EXCEPT ![k] = IF task[k] # None THEN "running"
                                 ELSE IF stopped[k] THEN "gone" ELSE "asleep"]
    /\ UNCHANGED <<callerVars, runLock, context, made, done, stopped, effect,
                   answer, closed>>

(* MUTANT of Take: the task is copied out and stays in its context.           *)
TakeCopy(k) ==
    /\ wpc[k] = "awake"
    /\ hand' = [hand EXCEPT ![k] = IF stopped[k] THEN None ELSE task[k]]
    /\ wpc' = [wpc EXCEPT ![k] = IF stopped[k] THEN "gone"
                                 ELSE IF task[k] # None THEN "running" ELSE "asleep"]
    /\ UNCHANGED <<callerVars, runLock, context, made, ctxVars, effect, answer, closed>>

(* The critical section at the top of the loop.  A stopped worker leaves, and *)
(* a task it finds then is destroyed without being run.                       *)
Take(k) ==
    /\ wpc[k] = "awake"
    /\ \/ /\ stopped[k]
          /\ wpc' = [wpc EXCEPT ![k] = "gone"]
          /\ task' = [task EXCEPT ![k] = None]
          /\ UNCHANGED hand
       \/ /\ ~stopped[k]
          /\ task[k] # None
          /\ wpc' = [wpc EXCEPT ![k] = "running"]
          /\ hand' = [hand EXCEPT ![k] = task[k]]
          /\ task' = [task EXCEPT ![k] = None]
       \/ /\ ~stopped[k]
          /\ task[k] = None
          /\ wpc' = [wpc EXCEPT ![k] = "asleep"]
          /\ UNCHANGED <<task, hand>>
    /\ UNCHANGED <<callerVars, runLock, context, made, done, stopped, effect,
                   answer, closed>>

WorkerWakesSpuriously(k) ==
    /\ wpc[k] = "asleep"
    /\ wpc' = [wpc EXCEPT ![k] = "awake"]
    /\ UNCHANGED <<callerVars, runLock, context, made, ctxVars, hand, effect,
                   answer, closed>>

(* The callable runs and the promise is set, whoever still waits for it.      *)
Execute(k, e) ==
    /\ wpc[k] = "running"
    /\ effect' = [effect EXCEPT ![hand[k]] = e]
    /\ wpc' = [wpc EXCEPT ![k] = "executed"]
    /\ UNCHANGED <<callerVars, runLock, context, made, ctxVars, hand, answer, closed>>

(* task = {}: the captures are destroyed on the worker, outside the lock.     *)
ReleaseCaptures(k) ==
    /\ wpc[k] = "executed"
    /\ hand' = [hand EXCEPT ![k] = None]
    /\ wpc' = [wpc EXCEPT ![k] = "released"]
    /\ UNCHANGED <<callerVars, runLock, context, made, ctxVars, effect, answer, closed>>

(* MUTANT of MarkDone: completion is announced before the captures are gone.  *)
MarkDoneEarly(k) ==
    /\ wpc[k] = "executed"
    /\ done' = [done EXCEPT ![k] = TRUE]
    /\ wpc' = [wpc EXCEPT ![k] = "finished"]
    /\ UNCHANGED <<callerVars, runLock, context, made, task, stopped, hand,
                   effect, answer, closed>>

MarkDone(k) ==
    /\ wpc[k] = "released"
    /\ done' = [done EXCEPT ![k] = TRUE]
    /\ wpc' = [wpc EXCEPT ![k] = "finished"]
    /\ UNCHANGED <<callerVars, runLock, context, made, task, stopped, hand,
                   effect, answer, closed>>

(* MUTANT of NotifyDone: the completion is not announced.                     *)
NotifyNobody(k) ==
    /\ wpc[k] = "finished"
    /\ wpc' = [wpc EXCEPT ![k] = "awake"]
    /\ UNCHANGED <<callerVars, runLock, context, made, ctxVars, hand, effect,
                   answer, closed>>

(* notify_one() outside the lock: by then the caller may have timed out, seen *)
(* done, or even submitted the next task.                                     *)
NotifyDone(k) ==
    /\ wpc[k] = "finished"
    /\ NotifyOne(k, pc, [wpc EXCEPT ![k] = "awake"])
    /\ UNCHANGED <<job, limit, runLock, context, made, ctxVars, hand, effect,
                   answer, closed>>

-----------------------------------------------------------------------------
CallerStep(c) == \/ \E t \in Tasks : (\E l \in Limits : Call(c, t, l)) \/ CallInvalid(c, t)
                 \/ Acquire(c)
                 \/ \E k \in Contexts : Spawn(c, k)
                 \/ SpawnFails(c) \/ Submit(c) \/ WakeSpuriously(c) \/ Wake(c)
                 \/ TimeOut(c) \/ GetValue(c) \/ GetError(c)
                 \/ MarkStopped(c) \/ Retire(c)

WorkerStep(k) == \/ Take(k) \/ WorkerWakesSpuriously(k)
                 \/ \E e \in Effects : Execute(k, e)
                 \/ ReleaseCaptures(k) \/ MarkDone(k) \/ NotifyDone(k)

Next == \/ \E c \in Callers : CallerStep(c)
        \/ \E k \in Contexts : WorkerStep(k)
        \/ Destroy

(* The scheduler runs every thread that can run and time passes; a mutex is   *)
(* handed over eventually because only finitely many calls compete for it.    *)
(* No fairness for spurious wake-ups, for new calls, for the destructor, or   *)
(* for an operation that may be stuck.                                        *)
CallerProgress(c) == \/ Acquire(c)
                     \/ \E k \in Contexts : Spawn(c, k)
                     \/ Submit(c) \/ Wake(c) \/ GetValue(c) \/ GetError(c)
                     \/ MarkStopped(c) \/ Retire(c)
WorkerProgress(k) == \/ Take(k) \/ ReleaseCaptures(k) \/ MarkDone(k) \/ NotifyDone(k)
OperationReturns(k) == hand[k] \notin Stuck /\ \E e \in Effects : Execute(k, e)

Fairness == /\ \A c \in Callers : WF_vars(CallerProgress(c)) /\ WF_vars(TimeOut(c))
            /\ \A k \in Contexts : WF_vars(WorkerProgress(k)) /\ WF_vars(OperationReturns(k))

Spec == Init /\ [][Next]_vars
FairSpec == Spec /\ Fairness

-----------------------------------------------------------------------------
(* Properties.                                                                *)

CallerPCs == {"idle", "queued", "ready", "asleep", "notified", "result",
              "stopping", "retiring"}
WorkerPCs == {"unborn", "awake", "asleep", "running", "executed", "released",
              "finished", "gone"}

(* Every variable of run(), stop() and thread_main keeps its type.            *)
TypeOK ==
    /\ pc \in [Callers -> CallerPCs]
    /\ job \in [Callers -> Tasks \cup {None}]
    /\ limit \in [Callers -> {"timed", "untimed"}]
    /\ runLock \in Callers \cup {None}
    /\ context \in Contexts \cup {None}
    /\ made \in SUBSET Contexts
    /\ task \in [Contexts -> Tasks \cup {None}]
    /\ done \in [Contexts -> BOOLEAN]
    /\ stopped \in [Contexts -> BOOLEAN]
    /\ wpc \in [Contexts -> WorkerPCs]
    /\ hand \in [Contexts -> Tasks \cup {None}]
    /\ effect \in [Tasks -> Effects \cup {"none"}]
    /\ answer \in [Tasks -> Effects \cup {"none", "timeout", "invalid", "nothread"}]
    /\ closed \in BOOLEAN

(* A caller told "value" or "error" may free what its callable borrowed: no   *)
(* context and no worker still holds the callable (thread_main destroys it     *)
(* before it announces completion).                                            *)
CapturesReleased ==
    \A t \in Tasks : answer[t] \in Effects =>
        \A k \in Contexts : task[k] # t /\ hand[k] # t

(* The context a submission will use is never one that a stuck or timed-out    *)
(* operation still occupies: it is not stopped, holds no task, and its worker  *)
(* is between two tasks ("an old timeout cannot retire a newer task").         *)
IdleHandover ==
    (context # None /\ (runLock = None \/ pc[runLock] \in {"idle", "ready"})) =>
        /\ ~stopped[context]
        /\ task[context] = None
        /\ hand[context] = None
        /\ wpc[context] \in {"awake", "asleep", "finished"}

Returned(t) == answer[t] # "none" /\ \A c \in Callers : job[c] # t

(* Once run() has returned, an operation no worker had started never starts:   *)
(* a retired worker destroys the task it finds instead of running it.          *)
NeverStartsLate ==
    [][\A t \in Tasks : (Returned(t) /\ \A k \in Contexts : hand[k] # t) =>
          \A k \in Contexts : hand'[k] # t]_vars

(* The caller whose task has been handed over and that has not left yet.       *)
Serving == IF runLock # None /\ pc[runLock] # "ready" THEN job[runLock] ELSE None

(* The abstract service: an operation has begun once it is or was in a context *)
(* or a hand, had an effect, or timed out.                                     *)
Begun == {t \in Tasks : \/ Serving = t
                        \/ effect[t] # "none"
                        \/ answer[t] \in Effects \cup {"timeout"}}

Service == INSTANCE IOService WITH serving <- Serving, begun <- Begun

(* run() implements the service: one operation at a time, each performed at    *)
(* most once, every answer its own operation's result or a timeout.            *)
ImplementsService == Service!SSpec

(* Every call is answered, provided an operation that may be stuck is only     *)
(* submitted with a timeout: no completion or retirement is ever missed.       *)
Answered ==
    [](\A c \in Callers : job[c] \in Stuck => limit[c] = "timed") =>
        \A c \in Callers : pc[c] # "idle" ~> pc[c] = "idle"

(* A worker that was detached leaves unless the operation in its hands is      *)
(* stuck: retiring contexts does not leak sleeping threads.                    *)
RetiredWorkersLeave ==
    \A k \in Contexts : (k \in made /\ k # context) ~>
                            (wpc[k] = "gone" \/ hand[k] \in Stuck)
=============================================================================
