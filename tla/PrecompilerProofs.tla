--------------------------- MODULE PrecompilerProofs ---------------------------
(***************************************************************************)
(* Theorems about Precompiler for any keys and any number of workers.  The    *)
(* inductive invariant says where a submitted key can be: in the queue, in    *)
(* one worker's hands, or compiled.                                           *)
(***************************************************************************)
EXTENDS Precompiler, FiniteSetTheorems, TLAPS

In(k, s) == \E i \in 1 .. Len(s) : s[i] = k
Distinct(s) == \A i, j \in 1 .. Len(s) : s[i] = s[j] => i = j

LEMMA InAppend ==
    ASSUME NEW K, NEW s \in Seq(K), NEW x \in K
    PROVE  /\ Append(s, x) \in Seq(K)
           /\ \A k : In(k, Append(s, x)) <=> In(k, s) \/ k = x
           /\ Distinct(s) /\ ~In(x, s) => Distinct(Append(s, x))
<1>1. /\ Append(s, x) \in Seq(K) /\ Len(s) \in Nat /\ Len(Append(s, x)) = Len(s) + 1
      /\ Append(s, x)[Len(s) + 1] = x
      /\ \A i \in 1 .. Len(s) : Append(s, x)[i] = s[i]
  OBVIOUS
<1>2. ASSUME NEW k PROVE In(k, Append(s, x)) <=> In(k, s) \/ k = x
  BY <1>1 DEF In
<1>3. Distinct(s) /\ ~In(x, s) => Distinct(Append(s, x))
  BY <1>1 DEF In, Distinct
<1>4. QED
  BY <1>1, <1>2, <1>3

LEMMA InTail ==
    ASSUME NEW K, NEW s \in Seq(K), s # <<>>
    PROVE  /\ Head(s) \in K /\ Tail(s) \in Seq(K)
           /\ \A k : In(k, s) <=> In(k, Tail(s)) \/ k = Head(s)
           /\ Distinct(s) => Distinct(Tail(s)) /\ ~In(Head(s), Tail(s))
<1>1. /\ Head(s) = s[1] /\ Head(s) \in K
      /\ Tail(s) \in Seq(K) /\ Len(s) \in Nat /\ Len(s) > 0 /\ Len(Tail(s)) = Len(s) - 1
      /\ \A i \in 1 .. Len(s) - 1 : Tail(s)[i] = s[i + 1]
  OBVIOUS
<1>2. ASSUME NEW k PROVE In(k, s) <=> In(k, Tail(s)) \/ k = Head(s)
  <2>1. In(k, Tail(s)) => In(k, s)
    BY <1>1 DEF In
  <2>2. ASSUME NEW i \in 1 .. Len(s), s[i] = k, i # 1 PROVE In(k, Tail(s))
    <3>1. i - 1 \in 1 .. Len(Tail(s)) /\ Tail(s)[i - 1] = k
      BY <1>1, <2>2
    <3>2. QED
      BY <3>1 DEF In
  <2>3. QED
    BY <1>1, <2>1, <2>2 DEF In
<1>3. Distinct(s) => Distinct(Tail(s)) /\ ~In(Head(s), Tail(s))
  BY <1>1 DEF In, Distinct
<1>4. QED
  BY <1>1, <1>2, <1>3

LEMMA InEmpty == \A k : ~In(k, <<>>)
BY DEF In

-----------------------------------------------------------------------------
Reported == {"reporting", "ended", "exited"}
Stopped == Reported \cup {"waking", "joining", "refused"}
Busy == {"running", "counting"}

(* The owner's set of keys is the sequence of futures and the key it is       *)
(* about to push.                                                             *)
KeyInv ==
    /\ pc \in {"inserted", "notifying"} => key \in Keys
    /\ pc = "inserted" => ~In(key, results)
    /\ \A k \in Keys : k \in submitted <=> In(k, results) \/ (pc = "inserted" /\ k = key)
    /\ \A k \in Keys : k \in accepted <=> In(k, results)

(* A queued job is nobody's; a job in hand is one worker's.                   *)
PlaceInv ==
    /\ Distinct(jobs)
    /\ \A k \in Keys : In(k, jobs) => /\ In(k, results)
                                      /\ outcome[k] = "none"
                                      /\ \A w \in Workers : hand[w] # k
    /\ \A w \in Workers : /\ hand[w] # None <=> wpc[w] \in Busy
                          /\ hand[w] # None => In(hand[w], results)
                          /\ wpc[w] = "running" => outcome[hand[w]] = "none"
    /\ \A v, w \in Workers : hand[v] = hand[w] /\ hand[v] # None => v = w

(* What was submitted and is neither queued nor in hand is compiled, and      *)
(* nothing else is.                                                           *)
WorkInv ==
    \A k \in Keys :
        /\ outcome[k] # "none" => In(k, results)
        /\ In(k, results) /\ outcome[k] = "none" =>
              In(k, jobs) \/ \E w \in Workers : wpc[w] = "running" /\ hand[w] = k

(* A worker leaves only when nothing is queued and nothing will be.           *)
StopInv ==
    /\ stopping <=> pc \in Stopped
    /\ \A w \in Workers : wpc[w] = "gone" => stopping /\ jobs = <<>>
    /\ \A w \in Workers : w <= started <=> wpc[w] # "unborn"
    /\ pc # "building" /\ ~aborted => started = NumWorkers
    /\ aborted => pc \in {"finishing", "waking", "joining", "refused"}
    /\ pc = "refused" => aborted
    /\ pc = "building" \/ aborted => results = <<>>
    /\ pc \in Reported => ~aborted /\ \A w \in Workers : wpc[w] = "gone"

VerdictInv ==
    /\ pc \notin Reported => got = 0
    /\ \A i \in 1 .. got : outcome[results[i]] = "value"
    /\ pc = "exited" => got < Len(results) /\ outcome[results[got + 1]] = "error"
    /\ pc = "ended" => got = Len(results)

IInv == TypeOK /\ KeyInv /\ PlaceInv /\ WorkInv /\ StopInv /\ VerdictInv

-----------------------------------------------------------------------------
(* Every action preserves the invariant.                                     *)

LEMMA KeepsStartWorker ==
    ASSUME IInv, StartWorker
    PROVE  IInv'
<1> USE PrecompilerAssumption DEF IInv, StartWorker, queueVars, workVars,
        Workers, OwnerPCs, WorkerPCs, Stopped, Reported, Busy
<1>1. TypeOK' /\ KeyInv' /\ VerdictInv'
  BY DEF TypeOK, KeyInv, VerdictInv
<1>2. PlaceInv'
  BY DEF TypeOK, PlaceInv, StopInv
<1>3. WorkInv'
  BY DEF TypeOK, WorkInv, StopInv
<1>4. StopInv'
  BY DEF TypeOK, StopInv
<1>5. QED
  BY <1>1, <1>2, <1>3, <1>4

LEMMA KeepsStartFails ==
    ASSUME IInv, StartFails
    PROVE  IInv'
<1> USE PrecompilerAssumption DEF IInv, StartFails, queueVars, workVars,
        OwnerPCs, WorkerPCs, Stopped, Reported, Busy
<1>1. /\ TypeOK'
      /\ KeyInv'
      /\ PlaceInv'
      /\ WorkInv'
      /\ StopInv'
      /\ VerdictInv'
  BY DEF TypeOK, KeyInv, PlaceInv, WorkInv, StopInv, VerdictInv
<1>2. QED
  BY <1>1

LEMMA KeepsConstructed ==
    ASSUME IInv, Constructed
    PROVE  IInv'
<1> USE PrecompilerAssumption DEF IInv, Constructed, ownerVars, queueVars,
        workVars, OwnerPCs, WorkerPCs, Stopped, Reported, Busy
<1>1. /\ TypeOK'
      /\ KeyInv'
      /\ PlaceInv'
      /\ WorkInv'
      /\ StopInv'
      /\ VerdictInv'
  BY DEF TypeOK, KeyInv, PlaceInv, WorkInv, StopInv, VerdictInv
<1>2. QED
  BY <1>1

LEMMA KeepsInsert ==
    ASSUME IInv, NEW k \in Keys, Insert(k)
    PROVE  IInv'
<1> USE PrecompilerAssumption DEF IInv, Insert, queueVars, workVars, OwnerPCs,
        WorkerPCs, Stopped, Reported, Busy
<1>1. /\ TypeOK'
      /\ KeyInv'
      /\ PlaceInv'
      /\ WorkInv'
      /\ StopInv'
      /\ VerdictInv'
  BY DEF TypeOK, KeyInv, PlaceInv, WorkInv, StopInv, VerdictInv
<1>2. QED
  BY <1>1

LEMMA KeepsEnqueueAgain ==
    ASSUME IInv, NEW k \in Keys, EnqueueAgain(k)
    PROVE  IInv'
<1> USE PrecompilerAssumption DEF IInv, EnqueueAgain, queueVars, workVars,
        OwnerPCs, WorkerPCs, Stopped, Reported, Busy
<1>1. /\ TypeOK'
      /\ KeyInv'
      /\ PlaceInv'
      /\ WorkInv'
      /\ StopInv'
      /\ VerdictInv'
  BY DEF TypeOK, KeyInv, PlaceInv, WorkInv, StopInv, VerdictInv
<1>2. QED
  BY <1>1

LEMMA KeepsPushFails ==
    ASSUME IInv, PushFails
    PROVE  IInv'
<1> USE PrecompilerAssumption DEF IInv, PushFails, queueVars, workVars,
        OwnerPCs, WorkerPCs, Stopped, Reported, Busy
<1>1. /\ TypeOK'
      /\ KeyInv'
      /\ PlaceInv'
      /\ WorkInv'
      /\ StopInv'
      /\ VerdictInv'
  BY DEF TypeOK, KeyInv, PlaceInv, WorkInv, StopInv, VerdictInv
<1>2. QED
  BY <1>1

LEMMA KeepsNotify ==
    ASSUME IInv, Notify
    PROVE  IInv'
<1> USE PrecompilerAssumption DEF IInv, Notify, queueVars, workVars, Sleepers,
        OwnerPCs, WorkerPCs, Stopped, Reported, Busy
<1>1. TypeOK' /\ KeyInv' /\ VerdictInv'
  BY DEF TypeOK, KeyInv, VerdictInv
<1>2. PlaceInv'
  BY DEF TypeOK, PlaceInv
<1>3. WorkInv'
  BY DEF TypeOK, WorkInv
<1>4. StopInv'
  BY DEF TypeOK, StopInv
<1>5. QED
  BY <1>1, <1>2, <1>3, <1>4

LEMMA KeepsDestroy ==
    ASSUME IInv, Destroy
    PROVE  IInv'
<1> USE PrecompilerAssumption DEF IInv, Destroy, ownerVars, queueVars,
        workVars, OwnerPCs, WorkerPCs, Stopped, Reported, Busy
<1>1. /\ TypeOK'
      /\ KeyInv'
      /\ PlaceInv'
      /\ WorkInv'
      /\ StopInv'
      /\ VerdictInv'
  BY DEF TypeOK, KeyInv, PlaceInv, WorkInv, StopInv, VerdictInv
<1>2. QED
  BY <1>1

LEMMA KeepsMarkStopping ==
    ASSUME IInv, MarkStopping
    PROVE  IInv'
<1> USE PrecompilerAssumption DEF IInv, MarkStopping, ownerVars, workVars,
        OwnerPCs, WorkerPCs, Stopped, Reported, Busy
<1>1. /\ TypeOK'
      /\ KeyInv'
      /\ PlaceInv'
      /\ WorkInv'
      /\ StopInv'
      /\ VerdictInv'
  BY DEF TypeOK, KeyInv, PlaceInv, WorkInv, StopInv, VerdictInv
<1>2. QED
  BY <1>1

LEMMA KeepsNotifyAll ==
    ASSUME IInv, NotifyAll
    PROVE  IInv'
<1> USE PrecompilerAssumption DEF IInv, NotifyAll, ownerVars, queueVars,
        workVars, Sleepers, OwnerPCs, WorkerPCs, Stopped, Reported, Busy
<1>1. /\ TypeOK'
      /\ KeyInv'
      /\ PlaceInv'
      /\ WorkInv'
      /\ StopInv'
      /\ VerdictInv'
  BY DEF TypeOK, KeyInv, PlaceInv, WorkInv, StopInv, VerdictInv
<1>2. QED
  BY <1>1

LEMMA KeepsJoin ==
    ASSUME IInv, Join
    PROVE  IInv'
<1> USE PrecompilerAssumption DEF IInv, Join, ownerVars, queueVars, workVars,
        Workers, OwnerPCs, WorkerPCs, Stopped, Reported, Busy
<1>1. /\ TypeOK'
      /\ KeyInv'
      /\ PlaceInv'
      /\ WorkInv'
      /\ StopInv'
      /\ VerdictInv'
  BY DEF TypeOK, KeyInv, PlaceInv, WorkInv, StopInv, VerdictInv
<1>2. QED
  BY <1>1

LEMMA KeepsGetValue ==
    ASSUME IInv, GetValue
    PROVE  IInv'
<1> USE PrecompilerAssumption DEF IInv, GetValue, queueVars, workVars,
        OwnerPCs, WorkerPCs, Stopped, Reported, Busy
<1>1. TypeOK' /\ KeyInv' /\ PlaceInv' /\ WorkInv' /\ StopInv'
  BY DEF TypeOK, KeyInv, PlaceInv, WorkInv, StopInv
<1>2. VerdictInv'
  BY DEF TypeOK, VerdictInv
<1>3. QED
  BY <1>1, <1>2

LEMMA KeepsGetError ==
    ASSUME IInv, GetError
    PROVE  IInv'
<1> USE PrecompilerAssumption DEF IInv, GetError, ownerVars, queueVars,
        workVars, OwnerPCs, WorkerPCs, Stopped, Reported, Busy
<1>1. /\ TypeOK'
      /\ KeyInv'
      /\ PlaceInv'
      /\ WorkInv'
      /\ StopInv'
      /\ VerdictInv'
  BY DEF TypeOK, KeyInv, PlaceInv, WorkInv, StopInv, VerdictInv
<1>2. QED
  BY <1>1

LEMMA KeepsFinished ==
    ASSUME IInv, Finished
    PROVE  IInv'
<1> USE PrecompilerAssumption DEF IInv, Finished, ownerVars, queueVars,
        workVars, OwnerPCs, WorkerPCs, Stopped, Reported, Busy
<1>1. /\ TypeOK'
      /\ KeyInv'
      /\ PlaceInv'
      /\ WorkInv'
      /\ StopInv'
      /\ VerdictInv'
  BY DEF TypeOK, KeyInv, PlaceInv, WorkInv, StopInv, VerdictInv
<1>2. QED
  BY <1>1

LEMMA KeepsWakeSpuriously ==
    ASSUME IInv, NEW w \in Workers, WakeSpuriously(w)
    PROVE  IInv'
<1> USE PrecompilerAssumption DEF IInv, WakeSpuriously, ownerVars, queueVars,
        workVars, OwnerPCs, WorkerPCs, Stopped, Reported, Busy
<1>1. /\ TypeOK'
      /\ KeyInv'
      /\ PlaceInv'
      /\ WorkInv'
      /\ StopInv'
      /\ VerdictInv'
  BY DEF TypeOK, KeyInv, PlaceInv, WorkInv, StopInv, VerdictInv
<1>2. QED
  BY <1>1

LEMMA KeepsRun ==
    ASSUME IInv, NEW w \in Workers, NEW o \in Outcomes, Run(w, o)
    PROVE  IInv'
<1> USE PrecompilerAssumption DEF IInv, Run, ownerVars, queueVars, Outcomes,
        OwnerPCs, WorkerPCs, Stopped, Reported, Busy
<1>1. KeyInv' /\ StopInv'
  BY DEF KeyInv, StopInv
<1>2. TypeOK'
  BY DEF TypeOK, PlaceInv
<1>3. PlaceInv'
  BY DEF TypeOK, PlaceInv
<1>4. WorkInv'
  BY DEF TypeOK, PlaceInv, WorkInv
<1>5. VerdictInv'
  BY DEF StopInv, VerdictInv
<1>6. QED
  BY <1>1, <1>2, <1>3, <1>4, <1>5

LEMMA KeepsCount ==
    ASSUME IInv, NEW w \in Workers, Count(w)
    PROVE  IInv'
<1> USE PrecompilerAssumption DEF IInv, Count, ownerVars, OwnerPCs, WorkerPCs,
        Stopped, Reported, Busy
<1>1. TypeOK' /\ KeyInv' /\ WorkInv' /\ StopInv' /\ VerdictInv'
  BY DEF TypeOK, KeyInv, WorkInv, StopInv, VerdictInv
<1>2. PlaceInv'
  BY DEF TypeOK, PlaceInv
<1>3. QED
  BY <1>1, <1>2

LEMMA KeepsPush ==
    ASSUME IInv, Push
    PROVE  IInv'
<1> USE PrecompilerAssumption DEF IInv
<1>1. /\ key \in Keys /\ ~In(key, results) /\ results \in Seq(Keys) /\ jobs \in Seq(Keys)
      /\ pc = "inserted" /\ outcome[key] = "none"
      /\ ~In(key, jobs) /\ \A w \in Workers : hand[w] # key
  BY DEF Push, TypeOK, KeyInv, PlaceInv, WorkInv
<1>2. /\ results' \in Seq(Keys) /\ jobs' \in Seq(Keys) /\ Distinct(jobs')
      /\ \A k : In(k, results') <=> In(k, results) \/ k = key
      /\ \A k : In(k, jobs') <=> In(k, jobs) \/ k = key
  BY <1>1, InAppend DEF Push, PlaceInv
<1>3. got = 0 /\ ~stopping /\ ~aborted /\ pc' = "notifying" /\ accepted' = accepted \cup {key}
  BY <1>1 DEF Push, VerdictInv, Reported, StopInv, Stopped
<1>4. UNCHANGED <<key, aborted, started, submitted, got, stopping, completed, wpc, hand, outcome>>
  BY DEF Push, workVars
<1>5. TypeOK'
  <2>1. Len(results') \in Nat
    BY <1>2
  <2>2. QED
    BY <1>1, <1>2, <1>3, <1>4, <2>1 DEF TypeOK, OwnerPCs
<1>6. KeyInv'
  BY <1>1, <1>2, <1>3, <1>4 DEF KeyInv
<1>7. PlaceInv'
  BY <1>1, <1>2, <1>4 DEF PlaceInv, TypeOK
<1>8. WorkInv'
  BY <1>1, <1>2, <1>4 DEF WorkInv
<1>9. StopInv'
  BY <1>1, <1>3, <1>4 DEF StopInv, Stopped, Reported
<1>10. VerdictInv'
  BY <1>3, <1>4 DEF VerdictInv, Reported
<1>11. QED
  BY <1>5, <1>6, <1>7, <1>8, <1>9, <1>10

LEMMA KeepsTake ==
    ASSUME IInv, NEW w \in Workers, Take(w)
    PROVE  IInv'
<1> USE PrecompilerAssumption DEF IInv, Take, ownerVars
<1>1. CASE jobs = <<>>
  <2>1. jobs' = jobs /\ hand' = hand /\ wpc[w] = "checking"
        /\ wpc' = [wpc EXCEPT ![w] = IF stopping THEN "gone" ELSE "asleep"]
    BY <1>1
  <2>2. TypeOK' /\ KeyInv'
    BY <2>1 DEF TypeOK, WorkerPCs, KeyInv
  <2>3. PlaceInv'
    BY <2>1 DEF TypeOK, PlaceInv, Busy
  <2>4. WorkInv'
    BY <2>1 DEF TypeOK, WorkInv
  <2>5. StopInv'
    BY <1>1, <2>1 DEF TypeOK, StopInv
  <2>6. VerdictInv'
    BY DEF VerdictInv
  <2>7. QED
    BY <2>2, <2>3, <2>4, <2>5, <2>6
<1>2. CASE jobs # <<>>
  <2> DEFINE k == Head(jobs)
  <2>1. /\ wpc[w] = "checking" /\ jobs' = Tail(jobs)
        /\ wpc' = [wpc EXCEPT ![w] = "running"]
        /\ hand' = [hand EXCEPT ![w] = k]
    BY <1>2
  <2>2. /\ k \in Keys /\ jobs' \in Seq(Keys) /\ Distinct(jobs') /\ ~In(k, jobs')
        /\ \A j \in Keys : In(j, jobs) <=> In(j, jobs') \/ j = k
    BY <1>2, <2>1, InTail DEF TypeOK, PlaceInv
  <2>3. In(k, results) /\ outcome[k] = "none" /\ \A v \in Workers : hand[v] # k
    BY <2>2 DEF PlaceInv
  <2>4. TypeOK' /\ KeyInv'
    BY <2>1, <2>2 DEF TypeOK, WorkerPCs, KeyInv
  <2>5. PlaceInv'
    BY <2>1, <2>2, <2>3 DEF TypeOK, PlaceInv, Busy
  <2>6. WorkInv'
    BY <2>1, <2>2, <2>3 DEF TypeOK, WorkInv
  <2>7. StopInv'
    BY <1>2, <2>1 DEF TypeOK, StopInv
  <2>8. VerdictInv'
    BY DEF VerdictInv
  <2>9. QED
    BY <2>4, <2>5, <2>6, <2>7, <2>8
<1>3. QED
  BY <1>1, <1>2

-----------------------------------------------------------------------------
LEMMA InitIInv == Init => IInv
<1> SUFFICES ASSUME Init PROVE IInv
  OBVIOUS
<1> USE PrecompilerAssumption DEF Init
<1>1. TypeOK
  <2>1. results \in Seq(Keys) /\ jobs \in Seq(Keys) /\ got \in 0 .. Len(results)
    OBVIOUS
  <2>2. /\ started \in 0 .. NumWorkers /\ completed \in Nat
        /\ pc \in OwnerPCs /\ wpc \in [Workers -> WorkerPCs]
    BY DEF OwnerPCs, WorkerPCs
  <2>3. QED
    BY <2>1, <2>2 DEF TypeOK
<1>2. KeyInv /\ PlaceInv /\ WorkInv
  BY InEmpty DEF KeyInv, PlaceInv, WorkInv, Distinct, Busy
<1>3. StopInv /\ VerdictInv
  BY DEF StopInv, Stopped, Reported, VerdictInv, Workers
<1>4. QED
  BY <1>1, <1>2, <1>3 DEF IInv

LEMMA StutterIInv == IInv /\ UNCHANGED vars => IInv'
BY DEF vars, IInv, TypeOK, KeyInv, PlaceInv, WorkInv, StopInv, VerdictInv

(* The invariant, of every execution.                                        *)
THEOREM Inductive == Spec => []IInv
<1>1. ASSUME IInv, OwnerStep PROVE IInv'
  BY <1>1, KeepsStartWorker, KeepsStartFails, KeepsConstructed, KeepsInsert,
     KeepsEnqueueAgain, KeepsPush, KeepsPushFails, KeepsNotify, KeepsDestroy,
     KeepsMarkStopping, KeepsNotifyAll, KeepsJoin, KeepsGetValue, KeepsGetError,
     KeepsFinished DEF OwnerStep
<1>2. ASSUME IInv, NEW w \in Workers, WorkerStep(w) PROVE IInv'
  BY <1>2, KeepsTake, KeepsWakeSpuriously, KeepsCount, KeepsRun DEF WorkerStep
<1>3. IInv /\ [Next]_vars => IInv'
  BY <1>1, <1>2, StutterIInv DEF Next
<1>4. QED
  BY <1>3, InitIInv, PTL DEF Spec

(* Type correctness of the owner, the queue and the workers.                 *)
THEOREM TypeCorrect == Spec => []TypeOK
<1>1. IInv => TypeOK
  BY DEF IInv
<1>2. QED
  BY <1>1, Inductive, PTL

(* Once the workers are joined nothing is queued and nothing is in hand.      *)
LEMMA AllCompiled ==
    ASSUME IInv, pc \in Reported
    PROVE  \A k \in Keys : In(k, results) => outcome[k] # "none"
<1>1. 1 \in Workers /\ \A w \in Workers : wpc[w] = "gone"
  BY PrecompilerAssumption DEF IInv, StopInv, Workers
<1>2. jobs = <<>>
  BY <1>1 DEF IInv, StopInv
<1>3. QED
  BY <1>1, <1>2, InEmpty DEF IInv, WorkInv

(* Destruction drains the queue, for any number of workers and requests.      *)
THEOREM QueueIsDrained == Spec => []Drained
<1>1. IInv => Drained
  <2> SUFFICES ASSUME IInv, pc \in Reported, NEW k \in accepted
               PROVE  outcome[k] # "none"
    BY DEF Drained, Reported
  <2>1. k \in Keys /\ In(k, results)
    BY DEF IInv, TypeOK, KeyInv
  <2>2. QED
    BY <2>1, AllCompiled
<1>2. QED
  BY <1>1, Inductive, PTL

(* The exit status is right, and so is the error that is reported.            *)
THEOREM VerdictIsRight == Spec => []VerdictRight
<1>1. IInv => VerdictRight
  <2> SUFFICES ASSUME IInv PROVE VerdictRight
    OBVIOUS
  <2>1. ASSUME pc = "ended", NEW k \in accepted PROVE outcome[k] = "value"
    <3>1. k \in Keys /\ In(k, results)
      BY DEF IInv, TypeOK, KeyInv
    <3>2. PICK i \in 1 .. Len(results) : results[i] = k
      BY <3>1 DEF In
    <3>3. QED
      BY <2>1, <3>2 DEF IInv, VerdictInv
  <2>2. QED
    BY <2>1 DEF VerdictRight, IInv, VerdictInv
<1>2. QED
  BY <1>1, Inductive, PTL

(* No key is compiled twice, whatever the workers race for.                   *)
THEOREM EachCompiledOnce == Spec => []CompiledOnce
<1>1. IInv => CompiledOnce
  BY DEF IInv, PlaceInv, CompiledOnce
<1>2. QED
  BY <1>1, Inductive, PTL

(* The jobs in hand are the futures that are neither counted nor queued.      *)
LEMMA RunningIsFinite == IsFiniteSet(Running) /\ Cardinality(Running) \in Nat
<1>1. IsFiniteSet(Workers)
  BY FS_Interval, PrecompilerAssumption DEF Workers
<1>2. Running \subseteq Workers
  BY DEF Running
<1>3. QED
  BY <1>1, <1>2, FS_Subset, FS_CardinalityType

LEMMA SameHands ==
    ASSUME UNCHANGED <<results, jobs, completed, hand>>, ProgressAddsUp
    PROVE  ProgressAddsUp'
BY DEF ProgressAddsUp, Running

LEMMA TakeMovesOne ==
    ASSUME IInv, ProgressAddsUp, NEW w \in Workers, Take(w), jobs # <<>>
    PROVE  ProgressAddsUp'
<1>1. /\ hand[w] = None /\ Head(jobs) \in Keys /\ Head(jobs) # None
      /\ Len(jobs) \in Nat /\ Len(jobs') = Len(jobs) - 1
  BY PrecompilerAssumption, InTail DEF IInv, TypeOK, PlaceInv, Busy, Take
<1>2. hand' = [hand EXCEPT ![w] = Head(jobs)] /\ hand \in [Workers -> Keys \cup {None}]
  BY DEF Take, IInv, TypeOK
<1>3. Running' = Running \cup {w} /\ w \notin Running
  BY <1>1, <1>2 DEF Running
<1>4. Cardinality(Running') = Cardinality(Running) + 1
  BY <1>3, RunningIsFinite, FS_AddElement
<1>5. UNCHANGED <<results, completed>>
  BY DEF Take
<1>6. Len(results) \in Nat /\ completed \in Nat
  BY DEF IInv, TypeOK
<1>7. QED
  BY <1>1, <1>4, <1>5, <1>6, RunningIsFinite DEF ProgressAddsUp

LEMMA CountMovesOne ==
    ASSUME IInv, ProgressAddsUp, NEW w \in Workers, Count(w)
    PROVE  ProgressAddsUp'
<1>1. hand[w] # None /\ hand' = [hand EXCEPT ![w] = None] /\ completed' = completed + 1
  BY DEF IInv, PlaceInv, Busy, Count
<1>2. Running' = Running \ {w} /\ w \in Running
  BY <1>1 DEF Running, IInv, TypeOK
<1>3. Cardinality(Running') = Cardinality(Running) - 1
  BY <1>2, RunningIsFinite, FS_RemoveElement
<1>4. UNCHANGED <<results, jobs>>
  BY DEF Count
<1>5. Len(results) \in Nat /\ Len(jobs) \in Nat /\ completed \in Nat
  BY DEF IInv, TypeOK
<1>6. QED
  BY <1>1, <1>3, <1>4, <1>5, RunningIsFinite DEF ProgressAddsUp

LEMMA PushAddsOne ==
    ASSUME IInv, ProgressAddsUp, Push
    PROVE  ProgressAddsUp'
<1>1. /\ Len(results) \in Nat /\ Len(results') = Len(results) + 1
      /\ Len(jobs) \in Nat /\ Len(jobs') = Len(jobs) + 1
      /\ completed \in Nat
  BY DEF Push, IInv, TypeOK, KeyInv
<1>2. Running' = Running /\ completed' = completed
  BY DEF Push, workVars, Running
<1>3. QED
  BY <1>1, <1>2, RunningIsFinite DEF ProgressAddsUp

(* The number of running jobs that print_progress computes is right, hence     *)
(* never negative, for any number of workers.                                 *)
THEOREM ProgressIsRight == Spec => []ProgressAddsUp
<1>1. Init => ProgressAddsUp
  <2> SUFFICES ASSUME Init PROVE ProgressAddsUp
    OBVIOUS
  <2>1. Running = {} /\ Len(results) = 0 /\ Len(jobs) = 0 /\ completed = 0
    BY DEF Init, Running
  <2>2. QED
    BY <2>1, FS_EmptySet DEF ProgressAddsUp
<1>2. IInv /\ ProgressAddsUp /\ [Next]_vars => ProgressAddsUp'
  <2> SUFFICES ASSUME IInv, ProgressAddsUp, [Next]_vars PROVE ProgressAddsUp'
    OBVIOUS
  <2>1. CASE OwnerStep
    <3>1. CASE Push
      BY <3>1, PushAddsOne
    <3>2. CASE ~Push
      <4>1. UNCHANGED <<results, jobs, completed, hand>>
        BY <2>1, <3>2 DEF OwnerStep, StartWorker, StartFails, Constructed, Insert,
           EnqueueAgain, PushFails, Notify, Destroy, MarkStopping, NotifyAll, Join,
           GetValue, GetError, Finished, queueVars, workVars
      <4>2. QED
        BY <4>1, SameHands
    <3>3. QED
      BY <3>1, <3>2
  <2>2. ASSUME NEW w \in Workers, WorkerStep(w) PROVE ProgressAddsUp'
    <3>1. CASE Take(w) /\ jobs # <<>>
      BY <3>1, TakeMovesOne
    <3>2. CASE Count(w)
      BY <3>2, CountMovesOne
    <3>3. CASE \/ Take(w) /\ jobs = <<>>
               \/ WakeSpuriously(w) \/ \E o \in Outcomes : Run(w, o)
      <4>1. UNCHANGED <<results, jobs, completed, hand>>
        BY <3>3 DEF Take, WakeSpuriously, Run, queueVars, workVars
      <4>2. QED
        BY <4>1, SameHands
    <3>4. QED
      BY <2>2, <3>1, <3>2, <3>3 DEF WorkerStep
  <2>3. CASE UNCHANGED vars
    BY <2>3, SameHands DEF vars
  <2>4. QED
    BY <2>1, <2>2, <2>3 DEF Next
<1>3. QED
  BY <1>1, <1>2, Inductive, PTL DEF Spec

-----------------------------------------------------------------------------
(* The refinement.                                                           *)

LEMMA SubmittedIs ==
    ASSUME IInv PROVE \A k \in Keys : k \in Batch!Submitted <=> In(k, results)
BY DEF IInv, TypeOK, Batch!Submitted, In

LEMMA PushSubmits ==
    ASSUME IInv, Push
    PROVE  Batch!Submit(key) /\ key \in Keys
<1>1. key \in Keys /\ ~In(key, results)
  BY DEF IInv, Push, KeyInv
<1>2. Verdict = <<"open">> /\ Verdict' = <<"open">>
  BY DEF Push, Verdict
<1>3. QED
  BY <1>1, <1>2, SubmittedIs DEF Push, workVars, Batch!Submit, Batch!Open

LEMMA RunCompiles ==
    ASSUME IInv, NEW w \in Workers, NEW o \in Outcomes, Run(w, o)
    PROVE  Batch!Compile(hand[w], o) /\ hand[w] \in Keys
<1>1. hand[w] \in Keys /\ In(hand[w], results) /\ outcome[hand[w]] = "none"
  BY DEF IInv, TypeOK, PlaceInv, Busy, Run
<1>2. UNCHANGED <<results, Verdict>>
  BY DEF Run, ownerVars, queueVars, Verdict
<1>3. QED
  BY <1>1, <1>2, SubmittedIs DEF Run, Batch!Compile

LEMMA FinishedSucceeds == ASSUME IInv, Finished PROVE Batch!Succeed
<1>1. ASSUME NEW k \in Batch!Submitted PROVE outcome[k] = "value"
  <2>1. PICK i \in DOMAIN results : results[i] = k
    BY DEF Batch!Submitted
  <2>2. i \in 1 .. got
    BY <2>1 DEF Finished, IInv, TypeOK
  <2>3. QED
    BY <2>1, <2>2 DEF IInv, VerdictInv
<1>2. Verdict = <<"open">> /\ Verdict' = <<"success">>
  BY DEF Finished, Verdict
<1>3. QED
  BY <1>1, <1>2 DEF Finished, queueVars, workVars, Batch!Succeed, Batch!Open, Batch!Success

LEMMA GetErrorFails ==
    ASSUME IInv, GetError
    PROVE  Batch!Fail(got + 1) /\ got + 1 \in DOMAIN results
<1>1. ASSUME NEW k \in Batch!Submitted PROVE outcome[k] # "none"
  <2>1. k \in Keys /\ In(k, results)
    BY SubmittedIs DEF IInv, TypeOK, Batch!Submitted
  <2>2. QED
    BY <2>1, AllCompiled DEF GetError, Reported
<1>2. got \in Nat /\ got + 1 \in DOMAIN results /\ \A j \in 1 .. got + 1 - 1 : outcome[results[j]] = "value"
  BY DEF GetError, IInv, TypeOK, VerdictInv
<1>3. Verdict = Batch!Open /\ Verdict' = Batch!Failure(results[got + 1])
  BY DEF GetError, ownerVars, queueVars, Verdict, Batch!Open, Batch!Failure
<1>4. outcome[results[got + 1]] = "error" /\ UNCHANGED <<results, outcome>>
  BY DEF GetError, queueVars, workVars
<1>5. QED
  BY <1>1, <1>2, <1>3, <1>4 DEF Batch!Fail

LEMMA JoinRefuses == ASSUME IInv, Join PROVE Batch!Refuse \/ UNCHANGED Batch!bvars
<1>1. CASE aborted
  <2>1. results = <<>>
    BY <1>1 DEF IInv, StopInv
  <2>2. Verdict = <<"open">> /\ Verdict' = <<"refused">>
    BY <1>1 DEF Join, Verdict
  <2>3. QED
    BY <2>1, <2>2 DEF Join, queueVars, workVars, Batch!Refuse, Batch!Open, Batch!Refused
<1>2. CASE ~aborted
  BY <1>2 DEF Join, queueVars, workVars, Verdict, Batch!bvars
<1>3. QED
  BY <1>1, <1>2

LEMMA OtherOwnerSteps ==
    ASSUME \/ StartWorker \/ StartFails \/ Constructed
           \/ (\E k \in Keys : Insert(k) \/ EnqueueAgain(k))
           \/ PushFails \/ Notify \/ Destroy \/ MarkStopping \/ NotifyAll \/ GetValue
    PROVE  UNCHANGED Batch!bvars
<1>1. UNCHANGED <<results, outcome>>
  BY DEF StartWorker, StartFails, Constructed, Insert, EnqueueAgain, PushFails,
         Notify, Destroy, MarkStopping, NotifyAll, GetValue, queueVars, workVars
<1>2. /\ pc \notin {"ended", "exited", "refused"}
      /\ pc' \notin {"ended", "exited", "refused"}
  BY DEF StartWorker, StartFails, Constructed, Insert, EnqueueAgain, PushFails,
         Notify, Destroy, MarkStopping, NotifyAll, GetValue
<1>3. QED
  BY <1>1, <1>2 DEF Verdict, Batch!bvars

LEMMA OtherWorkerSteps ==
    ASSUME NEW w \in Workers, Take(w) \/ WakeSpuriously(w) \/ Count(w)
    PROVE  UNCHANGED Batch!bvars
BY DEF Take, WakeSpuriously, Count, ownerVars, queueVars, workVars, Verdict, Batch!bvars

LEMMA InitBatch == Init => Batch!BInit
BY DEF Init, Verdict, Batch!BInit, Batch!Open

(* The precompiler implements the batch of distinct keys.                    *)
THEOREM BatchImplemented == Spec => ImplementsBatch
<1>1. IInv /\ [Next]_vars => [Batch!BNext]_(Batch!bvars)
  <2> SUFFICES ASSUME IInv, [Next]_vars
               PROVE  Batch!BNext \/ UNCHANGED Batch!bvars
    OBVIOUS
  <2>1. CASE OwnerStep
    <3>1. CASE Push
      BY <3>1, PushSubmits DEF Batch!BNext
    <3>2. CASE Join
      BY <3>2, JoinRefuses DEF Batch!BNext
    <3>3. CASE GetError
      BY <3>3, GetErrorFails DEF Batch!BNext
    <3>4. CASE Finished
      BY <3>4, FinishedSucceeds DEF Batch!BNext
    <3>5. QED
      BY <2>1, <3>1, <3>2, <3>3, <3>4, OtherOwnerSteps DEF OwnerStep
  <2>2. ASSUME NEW w \in Workers, WorkerStep(w)
        PROVE  Batch!BNext \/ UNCHANGED Batch!bvars
    <3>1. CASE \E o \in Outcomes : Run(w, o)
      BY <3>1, RunCompiles DEF Batch!BNext, Outcomes
    <3>2. QED
      BY <2>2, <3>1, OtherWorkerSteps DEF WorkerStep
  <2>3. CASE UNCHANGED vars
    BY <2>3 DEF vars, Verdict, Batch!bvars
  <2>4. QED
    BY <2>1, <2>2, <2>3 DEF Next
<1>2. QED
  BY <1>1, InitBatch, Inductive, PTL DEF Spec, ImplementsBatch, Batch!BSpec
=============================================================================
