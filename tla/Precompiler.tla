------------------------------ MODULE Precompiler ------------------------------
(***************************************************************************)
(* Precompiler (runtime/precompiler.hpp): the dry run's queue of compile      *)
(* jobs.  One owner constructs it, enqueues, and destroys it; worker threads   *)
(* take the jobs; the destructor drains the queue, joins the workers and       *)
(* reports the first error in submission order.                               *)
(*                                                                           *)
(* Granularity: one action per critical section of Precompiler::mutex and one *)
(* per step outside it.  Keys are distinct among the jobs that are queued, so  *)
(* a job and its future are named by their key.                               *)
(***************************************************************************)
EXTENDS Naturals, Sequences, FiniteSets

CONSTANTS Keys,       (* the dry run's requests: "<name>.<cache key>"        *)
          NumWorkers, (* threads; the constructor refuses a number below one *)
          None        (* no key                                              *)

ASSUME PrecompilerAssumption == NumWorkers \in Nat \ {0} /\ None \notin Keys

Workers == 1 .. NumWorkers
Outcomes == {"value", "error"}

VARIABLES
    pc,        (* where the owner is                                         *)
    key,       (* the key of the enqueue under way                           *)
    aborted,   (* the constructor is being left by an exception              *)
    started,   (* threads the constructor has started                        *)
    submitted, (* Precompiler::submitted                                     *)
    results,   (* Precompiler::results: the future of each job, by key       *)
    jobs,      (* Precompiler::jobs                                          *)
    stopping,  (* Precompiler::stopping                                      *)
    completed, (* Precompiler::num_completed                                 *)
    got,       (* futures whose get() has returned in finish()               *)
    wpc,       (* where each worker is in thread_main                        *)
    hand,      (* the local variable job of thread_main                      *)
    outcome,   (* the shared state of each job's promise                     *)
    accepted   (* history: keys whose enqueue returned normally              *)

ownerVars == <<key, aborted, started, submitted, got, accepted>>
queueVars == <<results, jobs, stopping, completed>>
workVars == <<hand, outcome>>
vars == <<pc, key, aborted, started, submitted, results, jobs, stopping,
          completed, got, wpc, hand, outcome, accepted>>

Init == /\ pc = "building"
        /\ key = None
        /\ aborted = FALSE
        /\ started = 0
        /\ submitted = {}
        /\ results = <<>>
        /\ jobs = <<>>
        /\ stopping = FALSE
        /\ completed = 0
        /\ got = 0
        /\ wpc = [w \in Workers |-> "unborn"]
        /\ hand = [w \in Workers |-> None]
        /\ outcome = [k \in Keys |-> "none"]
        /\ accepted = {}

Sleepers == {w \in Workers : wpc[w] = "asleep"}

-----------------------------------------------------------------------------
(* The constructor.                                                           *)

StartWorker ==
    /\ pc = "building"
    /\ started < NumWorkers
    /\ started' = started + 1
    /\ wpc' = [wpc EXCEPT ![started + 1] = "checking"]
    /\ UNCHANGED <<pc, key, aborted, submitted, got, accepted, queueVars, workVars>>

(* reserve() or a thread's constructor throws: the workers that were started  *)
(* are stopped and joined first.                                              *)
StartFails ==
    /\ pc = "building"
    /\ started < NumWorkers
    /\ aborted' = TRUE
    /\ pc' = "finishing"
    /\ UNCHANGED <<key, started, submitted, got, accepted, queueVars, wpc, workVars>>

Constructed ==
    /\ pc = "building"
    /\ started = NumWorkers
    /\ pc' = "ready"
    /\ UNCHANGED <<ownerVars, queueVars, wpc, workVars>>

-----------------------------------------------------------------------------
(* enqueue().  Only the owner touches submitted, without the lock.            *)

Insert(k) ==
    /\ pc = "ready"
    /\ k \notin submitted
    /\ submitted' = submitted \cup {k}
    /\ key' = k
    /\ pc' = "inserted"
    /\ UNCHANGED <<aborted, started, got, accepted, queueVars, wpc, workVars>>

(* A repeated request counts as served by the first.                          *)
EnqueueAgain(k) ==
    /\ pc = "ready"
    /\ k \in submitted
    /\ accepted' = accepted \cup {k}
    /\ UNCHANGED <<pc, key, aborted, started, submitted, got, queueVars, wpc, workVars>>

Push ==
    /\ pc = "inserted"
    /\ results' = Append(results, key)
    /\ jobs' = Append(jobs, key)
    /\ accepted' = accepted \cup {key}
    /\ pc' = "notifying"
    /\ UNCHANGED <<key, aborted, started, submitted, got, stopping, completed, wpc, workVars>>

(* MUTANT of PushFails: the key stays among those submitted.                  *)
PushFailsKeepsKey ==
    /\ pc = "inserted"
    /\ key' = None
    /\ pc' = "ready"
    /\ UNCHANGED <<aborted, started, submitted, got, accepted, queueVars, wpc, workVars>>

(* Memory runs out for the job, its future or its place in the queue: the     *)
(* future and the key are taken back, and enqueue() throws.                   *)
PushFails ==
    /\ pc = "inserted"
    /\ submitted' = submitted \ {key}
    /\ key' = None
    /\ pc' = "ready"
    /\ UNCHANGED <<aborted, started, got, accepted, queueVars, wpc, workVars>>

(* MUTANT of Notify: no worker is told of the job.                            *)
NotifyNobody ==
    /\ pc = "notifying"
    /\ key' = None
    /\ pc' = "ready"
    /\ UNCHANGED <<aborted, started, submitted, got, accepted, queueVars, wpc, workVars>>

(* notify_one(), after the lock is released.                                  *)
Notify ==
    /\ pc = "notifying"
    /\ IF Sleepers = {}
       THEN UNCHANGED wpc
       ELSE \E w \in Sleepers : wpc' = [wpc EXCEPT ![w] = "checking"]
    /\ key' = None
    /\ pc' = "ready"
    /\ UNCHANGED <<aborted, started, submitted, got, accepted, queueVars, workVars>>

-----------------------------------------------------------------------------
(* ~Precompiler and finish().                                                 *)

Destroy ==
    /\ pc = "ready"
    /\ pc' = "finishing"
    /\ UNCHANGED <<ownerVars, queueVars, wpc, workVars>>

(* stop_and_join: its critical section, notify_all, and the joins.            *)
MarkStopping ==
    /\ pc = "finishing"
    /\ stopping' = TRUE
    /\ pc' = "waking"
    /\ UNCHANGED <<ownerVars, results, jobs, completed, wpc, workVars>>

(* MUTANT of NotifyAll: only one worker is told.                              *)
NotifyJustOne ==
    /\ pc = "waking"
    /\ IF Sleepers = {}
       THEN UNCHANGED wpc
       ELSE \E w \in Sleepers : wpc' = [wpc EXCEPT ![w] = "checking"]
    /\ pc' = "joining"
    /\ UNCHANGED <<ownerVars, queueVars, workVars>>

NotifyAll ==
    /\ pc = "waking"
    /\ wpc' = [w \in Workers |-> IF w \in Sleepers THEN "checking" ELSE wpc[w]]
    /\ pc' = "joining"
    /\ UNCHANGED <<ownerVars, queueVars, workVars>>

(* After the last join the constructor rethrows, or finish() reports.         *)
Join ==
    /\ pc = "joining"
    /\ \A w \in 1 .. started : wpc[w] = "gone"
    /\ pc' = IF aborted THEN "refused" ELSE "reporting"
    /\ UNCHANGED <<ownerVars, queueVars, wpc, workVars>>

GetValue ==
    /\ pc = "reporting"
    /\ got < Len(results)
    /\ outcome[results[got + 1]] = "value"
    /\ got' = got + 1
    /\ UNCHANGED <<pc, key, aborted, started, submitted, accepted, queueVars, wpc, workVars>>

(* MUTANT of GetError: the report names a later error.                        *)
GetAnyError ==
    /\ pc = "reporting"
    /\ \E i \in DOMAIN results : i > got /\ outcome[results[i]] = "error" /\ got' = i - 1
    /\ pc' = "exited"
    /\ UNCHANGED <<key, aborted, started, submitted, accepted, queueVars, wpc, workVars>>

(* get() rethrows: the process exits with a failure.                          *)
GetError ==
    /\ pc = "reporting"
    /\ got < Len(results)
    /\ outcome[results[got + 1]] = "error"
    /\ pc' = "exited"
    /\ UNCHANGED <<ownerVars, queueVars, wpc, workVars>>

Finished ==
    /\ pc = "reporting"
    /\ got = Len(results)
    /\ pc' = "ended"
    /\ UNCHANGED <<ownerVars, queueVars, wpc, workVars>>

-----------------------------------------------------------------------------
(* The workers, thread_main.                                                  *)

(* MUTANT of Take: stopping is looked at before the queue.                    *)
TakeUnlessStopping(w) ==
    /\ wpc[w] = "checking"
    /\ IF stopping \/ jobs = <<>>
       THEN /\ wpc' = [wpc EXCEPT ![w] = IF stopping THEN "gone" ELSE "asleep"]
            /\ UNCHANGED <<jobs, hand>>
       ELSE /\ wpc' = [wpc EXCEPT ![w] = "running"]
            /\ hand' = [hand EXCEPT ![w] = Head(jobs)]
            /\ jobs' = Tail(jobs)
    /\ UNCHANGED <<pc, ownerVars, results, stopping, completed, outcome>>

(* One critical section: the wait's predicate, then leave or take a job.      *)
Take(w) ==
    /\ wpc[w] = "checking"
    /\ \/ /\ jobs # <<>>
          /\ wpc' = [wpc EXCEPT ![w] = "running"]
          /\ hand' = [hand EXCEPT ![w] = Head(jobs)]
          /\ jobs' = Tail(jobs)
       \/ /\ jobs = <<>>
          /\ wpc' = [wpc EXCEPT ![w] = IF stopping THEN "gone" ELSE "asleep"]
          /\ UNCHANGED <<jobs, hand>>
    /\ UNCHANGED <<pc, ownerVars, results, stopping, completed, outcome>>

WakeSpuriously(w) ==
    /\ wpc[w] = "asleep"
    /\ wpc' = [wpc EXCEPT ![w] = "checking"]
    /\ UNCHANGED <<pc, ownerVars, queueVars, workVars>>

(* job(): compile_impl returns or throws, and the promise is set.             *)
Run(w, o) ==
    /\ wpc[w] = "running"
    /\ outcome' = [outcome EXCEPT ![hand[w]] = o]
    /\ wpc' = [wpc EXCEPT ![w] = "counting"]
    /\ UNCHANGED <<pc, ownerVars, queueVars, hand>>

(* MUTANT of Count: a job that threw does not count.                          *)
CountValues(w) ==
    /\ wpc[w] = "counting"
    /\ completed' = IF outcome[hand[w]] = "value" THEN completed + 1 ELSE completed
    /\ wpc' = [wpc EXCEPT ![w] = "checking"]
    /\ hand' = [hand EXCEPT ![w] = None]
    /\ UNCHANGED <<pc, ownerVars, results, jobs, stopping, outcome>>

(* The second critical section; the job and its captures go with the scope.   *)
Count(w) ==
    /\ wpc[w] = "counting"
    /\ completed' = completed + 1
    /\ wpc' = [wpc EXCEPT ![w] = "checking"]
    /\ hand' = [hand EXCEPT ![w] = None]
    /\ UNCHANGED <<pc, ownerVars, results, jobs, stopping, outcome>>

-----------------------------------------------------------------------------
OwnerStep == \/ StartWorker \/ StartFails \/ Constructed
             \/ \E k \in Keys : Insert(k) \/ EnqueueAgain(k)
             \/ Push \/ PushFails \/ Notify
             \/ Destroy \/ MarkStopping \/ NotifyAll \/ Join
             \/ GetValue \/ GetError \/ Finished

WorkerStep(w) == \/ Take(w) \/ WakeSpuriously(w) \/ Count(w)
                 \/ \E o \in Outcomes : Run(w, o)

Next == OwnerStep \/ \E w \in Workers : WorkerStep(w)

Spec == Init /\ [][Next]_vars

(* Every thread that can run does, and every job returns or throws: compile    *)
(* jobs end because every operation and command in them has a timeout.  The    *)
(* owner need not call anything, but a call it began goes on.                  *)
OwnerProgress == Push \/ Notify \/ MarkStopping \/ NotifyAll \/ Join
                 \/ GetValue \/ GetError \/ Finished
WorkerProgress(w) == Take(w) \/ Count(w) \/ \E o \in Outcomes : Run(w, o)

FairSpec == /\ Spec
            /\ WF_vars(OwnerProgress)
            /\ \A w \in Workers : WF_vars(WorkerProgress(w))

-----------------------------------------------------------------------------
(* Properties.                                                                *)

OwnerPCs == {"building", "ready", "inserted", "notifying", "finishing", "waking",
             "joining", "reporting", "ended", "exited", "refused"}
WorkerPCs == {"unborn", "asleep", "checking", "running", "counting", "gone"}

(* Every variable of the owner, the queue and the workers keeps its type.     *)
TypeOK ==
    /\ pc \in OwnerPCs
    /\ key \in Keys \cup {None}
    /\ aborted \in BOOLEAN
    /\ started \in 0 .. NumWorkers
    /\ submitted \in SUBSET Keys
    /\ results \in Seq(Keys)
    /\ jobs \in Seq(Keys)
    /\ stopping \in BOOLEAN
    /\ completed \in Nat
    /\ got \in 0 .. Len(results)
    /\ wpc \in [Workers -> WorkerPCs]
    /\ hand \in [Workers -> Keys \cup {None}]
    /\ outcome \in [Keys -> Outcomes \cup {"none"}]
    /\ accepted \in SUBSET Keys

(* "Destruction drains the queue": once the workers are joined, every request  *)
(* that enqueue() accepted, repeated ones too, has been compiled.              *)
Drained ==
    pc \in {"reporting", "ended", "exited"} => \A k \in accepted : outcome[k] # "none"

(* The process exits with a failure for the first error in submission order,   *)
(* and ends normally only if every request it accepted was compiled.           *)
VerdictRight ==
    /\ pc = "exited" => /\ got < Len(results)
                        /\ outcome[results[got + 1]] = "error"
                        /\ \A i \in 1 .. got : outcome[results[i]] = "value"
    /\ pc = "ended" => \A k \in accepted : outcome[k] = "value"

(* print_progress computes running = total - completed - queued in unsigned    *)
(* arithmetic: it never wraps, and is the number of jobs in workers' hands.    *)
Running == {w \in Workers : hand[w] # None}
ProgressAddsUp == Len(results) = completed + Len(jobs) + Cardinality(Running)

(* Deduplication: no key is compiled twice, by one worker or by two.           *)
CompiledOnce ==
    /\ \A v, w \in Workers : hand[v] = hand[w] /\ hand[v] # None => v = w
    /\ \A w \in Workers : wpc[w] = "running" => outcome[hand[w]] = "none"

Verdict == CASE pc = "ended" -> <<"success">>
             [] pc = "exited" -> <<"failure", results[got + 1]>>
             [] pc = "refused" -> <<"refused">>
             [] OTHER -> <<"open">>

Batch == INSTANCE CompileBatch WITH order <- results, verdict <- Verdict

(* The precompiler implements the batch: each distinct key is compiled once,   *)
(* and its end reports on all of them.                                        *)
ImplementsBatch == Batch!BSpec

(* The destructor, and a constructor that fails, end: every worker is woken    *)
(* and leaves, and every future that finish() waits for is ready.              *)
Finishes == pc = "finishing" ~> pc \in {"ended", "exited", "refused"}

(* A job is compiled while the owner is free to do nothing at all: no job      *)
(* waits in the queue for the destructor because a notification was lost.      *)
JobsRun == \A k \in Keys : k \in accepted ~> outcome[k] # "none"
=============================================================================
