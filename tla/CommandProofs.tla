----------------------------- MODULE CommandProofs -----------------------------
(***************************************************************************)
(* Theorems of Command: the type of its variables, that descriptors and      *)
(* process identifiers are never mixed up between calls, and that output      *)
(* which is returned is complete.                                             *)
(***************************************************************************)
EXTENDS Command, TLAPS

(* The table and the local arrays agree, and a call that is not running, or   *)
(* past the spawn, has no end, or no write end.                               *)
FdOf(c) ==
    /\ \A e \in Ends : fd[c][e] # None => files[fd[c][e]] = <<c, e>>
    /\ \A n \in Fds, e \in Ends : files[n] = <<c, e>> => fd[c][e] = n
    /\ pc[c] \in {"idle", "ended"} => fd[c][1] = None /\ fd[c][2] = None
    /\ pc[c] \in {"loop", "wait", "exit"} => fd[c][2] = None

FdInv == \A c \in Calls : FdOf(c)

(* A call that did not fail knows its shell; what it knows is its own.        *)
PidOf(c) ==
    /\ pid[c] # None => procs[pid[c]] # None /\ procs[pid[c]][1] = c
    /\ pc[c] \in {"idle", "opened", "exit", "ended"} => pid[c] = None
    /\ answer[c] # "error" =>
          \A p \in Pids : procs[p] # None /\ procs[p][1] = c => pid[c] = p

PidInv == \A c \in Calls : PidOf(c)

(* The end of a pipe, once seen, is final.                                    *)
EofOf(c) ==
    /\ eof[c] \/ answer[c] = "output" => AtEnd(c)
    /\ eof[c] => pc[c] \in {"loop", "wait", "exit", "catch"}
    /\ answer[c] # "none" <=> pc[c] = "ended"
    /\ pc[c] = "exit" => eof[c]

EofInv == \A c \in Calls : EofOf(c)

IInv == /\ TypeOK
        /\ FdInv
        /\ PidInv
        /\ EofInv

-----------------------------------------------------------------------------
(* No end of a pipe and no shell is None.                                      *)
LEMMA NoneApart ==
    ASSUME NEW c \in Calls
    PROVE  /\ \A e \in Ends : <<c, e>> # None
           /\ \A s \in {"running"} \cup ExitCodes : <<c, s>> # None
<1>1. ASSUME NEW e \in Ends PROVE <<c, e>> # None
  BY CommandAssumption
<1>2. ASSUME NEW s \in {"running"} \cup ExitCodes PROVE <<c, s>> # None
  BY CommandAssumption
<1> QED
  BY <1>1, <1>2

(* A call whose ends nobody touched keeps them.                               *)
LEMMA FdKept ==
    ASSUME TypeOK, FdInv, NEW d \in Calls, fd'[d] = fd[d], pc'[d] = pc[d],
           \A n \in Fds, e \in Ends : files'[n] = <<d, e>> <=> files[n] = <<d, e>>
    PROVE  FdOf(d)'
<1>1. FdOf(d)
  BY DEF FdInv
<1>2. ASSUME NEW e \in Ends PROVE fd[d][e] \in Fds \cup {None}
  BY DEF TypeOK, Ends
<1>3. \A e \in Ends : fd'[d][e] # None => files'[fd'[d][e]] = <<d, e>>
  BY <1>1, <1>2 DEF FdOf
<1>4. \A n \in Fds, e \in Ends : files'[n] = <<d, e>> => fd'[d][e] = n
  BY <1>1 DEF FdOf
<1> QED
  BY <1>1, <1>3, <1>4 DEF FdOf

(* Closing both of a call's ends takes them, and only them, out of the table. *)
LEMMA Closing ==
    ASSUME TypeOK, FdInv, NEW c \in Calls,
           files' = [n \in Fds |-> IF n \in {fd[c][1], fd[c][2]} THEN None ELSE files[n]]
    PROVE  /\ files' \in [Fds -> {None} \cup (Calls \X Ends)]
           /\ \A n \in Fds, e \in Ends : files'[n] # <<c, e>>
           /\ \A d \in Calls \ {c}, n \in Fds, e \in Ends :
                 files'[n] = <<d, e>> <=> files[n] = <<d, e>>
<1>1. FdOf(c) /\ fd[c][1] \in Fds \cup {None} /\ fd[c][2] \in Fds \cup {None}
  BY DEF FdInv, TypeOK
<1>2. files' \in [Fds -> {None} \cup (Calls \X Ends)]
  BY DEF TypeOK
<1>3. ASSUME NEW n \in Fds, NEW e \in Ends PROVE files'[n] # <<c, e>>
  <2>1. CASE n \in {fd[c][1], fd[c][2]}
    BY <2>1, NoneApart
  <2>2. CASE n \notin {fd[c][1], fd[c][2]}
    BY <1>1, <2>2 DEF FdOf, Ends
  <2> QED
    BY <2>1, <2>2
<1>4. ASSUME NEW d \in Calls \ {c}, NEW n \in Fds, NEW e \in Ends
      PROVE  files'[n] = <<d, e>> <=> files[n] = <<d, e>>
  <2>1. <<d, e>> # None /\ <<d, e>> # <<c, 1>> /\ <<d, e>> # <<c, 2>>
    BY NoneApart
  <2>2. n \in {fd[c][1], fd[c][2]} => files[n] \in {<<c, 1>>, <<c, 2>>}
    BY <1>1, CommandAssumption DEF FdOf, Ends
  <2> QED
    BY <2>1, <2>2
<1> QED
  BY <1>2, <1>3, <1>4

(* The initial state satisfies the invariant.                                 *)
LEMMA InitHolds == Init => IInv
<1> SUFFICES ASSUME Init PROVE IInv
  OBVIOUS
<1> USE CommandAssumption DEF Init, Ends, ExitCodes
<1>1. TypeOK
  BY DEF TypeOK
<1>2. FdInv /\ PidInv
  BY DEF FdInv, FdOf, PidInv, PidOf
<1>3. EofInv
  BY DEF EofInv, EofOf
<1> QED
  BY <1>1, <1>2, <1>3 DEF IInv

-----------------------------------------------------------------------------
(* Every action preserves the invariant.                                      *)

LEMMA KeepsRefuse ==
    ASSUME IInv, NEW c \in Calls, Refuse(c)
    PROVE  IInv'
<1> USE CommandAssumption DEF IInv, Ends, ExitCodes, At, Goto, Refuse, Leave, Fault
<1>1. TypeOK'
  BY DEF TypeOK
<1>2. FdInv'
  BY DEF FdInv, FdOf, TypeOK
<1>3. PidInv'
  BY DEF PidInv, PidOf, EofInv, EofOf, TypeOK
<1>4. EofInv'
  BY DEF EofInv, EofOf, FdInv, FdOf, PidInv, PidOf, TypeOK, AtEnd, WriterOpen
<1> QED
  BY <1>1, <1>2, <1>3, <1>4

LEMMA KeepsOpen ==
    ASSUME IInv, NEW c \in Calls, NEW t \in Timeouts, Open(c, t)
    PROVE  IInv'
<1> USE DEF IInv, At, Goto
<1>a. PICK r, w \in Fds :
          /\ files[r] = None /\ files[w] = None /\ r # w
          /\ files' = [files EXCEPT ![r] = <<c, 1>>, ![w] = <<c, 2>>]
          /\ fd' = [fd EXCEPT ![c] = <<r, w>>]
  <2>1. PICK r, w \in Free : /\ r < w
                            /\ files' = [files EXCEPT ![r] = <<c, 1>>, ![w] = <<c, 2>>]
                            /\ fd' = [fd EXCEPT ![c] = <<r, w>>]
    BY DEF Open
  <2>2. r \in Fds /\ w \in Fds /\ files[r] = None /\ files[w] = None
    BY DEF Free
  <2>3. r # w
    BY <2>1, <2>2, CommandAssumption
  <2> QED
    BY <2>1, <2>2, <2>3
<1>b. /\ files'[r] = <<c, 1>> /\ files'[w] = <<c, 2>>
      /\ \A n \in Fds \ {r, w} : files'[n] = files[n]
  BY <1>a DEF TypeOK
<1>c. fd'[c][1] = r /\ fd'[c][2] = w /\ \A d \in Calls \ {c} : fd'[d] = fd[d]
  BY <1>a DEF TypeOK
<1>d. pc[c] = "idle" /\ pc'[c] = "opened" /\ \A d \in Calls \ {c} : pc'[d] = pc[d]
  BY DEF Open, TypeOK
<1>e. ASSUME NEW d \in Calls \ {c}, NEW n \in Fds, NEW e \in Ends
      PROVE  files'[n] = <<d, e>> <=> files[n] = <<d, e>>
  <2>1. <<d, e>> # None /\ <<d, e>> # <<c, 1>> /\ <<d, e>> # <<c, 2>>
    BY NoneApart
  <2> QED
    BY <1>a, <1>b, <2>1
<1>1. TypeOK'
  <2>1. fd' \in [Calls -> (Fds \cup {None}) \X (Fds \cup {None})]
    BY <1>a DEF TypeOK
  <2>2. files' \in [Fds -> {None} \cup (Calls \X Ends)]
    BY <1>a DEF TypeOK, Ends
  <2> QED
    BY <2>1, <2>2 DEF Open, TypeOK
<1>2. FdInv'
  <2>1. FdOf(c)'
    <3>1. \A n \in Fds, e \in Ends : files[n] # <<c, e>>
      BY <1>d, CommandAssumption DEF FdInv, FdOf, Ends
    <3> QED
      <4>1. \A e \in Ends : files'[fd'[c][e]] = <<c, e>>
        BY <1>b, <1>c DEF Ends
      <4>2. ASSUME NEW n \in Fds, NEW e \in Ends, files'[n] = <<c, e>> PROVE fd'[c][e] = n
        <5>1. n \in {r, w}
          BY <1>b, <3>1, <4>2
        <5>2. (n = r => e = 1) /\ (n = w => e = 2)
          <6>1. <<c, e>> = files'[n] /\ (<<c, e>> = <<c, 1>> => e = 1) /\ (<<c, e>> = <<c, 2>> => e = 2)
            BY <4>2
          <6> QED
            BY <1>b, <6>1
        <5> QED
          BY <1>c, <5>1, <5>2
      <4> QED
        BY <1>d, <4>1, <4>2 DEF FdOf
  <2>2. ASSUME NEW d \in Calls \ {c} PROVE FdOf(d)'
    BY <1>c, <1>d, <1>e, FdKept
  <2> QED
    BY <2>1, <2>2 DEF FdInv
<1>3. PidInv'
  BY CommandAssumption DEF PidInv, PidOf, EofInv, EofOf, TypeOK, Ends, ExitCodes, Open, Free
<1>4. EofInv'
  <2>1. EofOf(c)'
    BY <1>d DEF Open, EofInv, EofOf, TypeOK
  <2>2. ASSUME NEW d \in Calls \ {c} PROVE EofOf(d)'
    <3>1. \A n \in Fds : files'[n] = <<d, 2>> => files[n] = <<d, 2>>
      BY <1>e DEF Ends
    <3> QED
      BY <1>d, <3>1 DEF Open, EofInv, EofOf, AtEnd, WriterOpen
  <2> QED
    BY <2>1, <2>2 DEF EofInv
<1> QED
  BY <1>1, <1>2, <1>3, <1>4

LEMMA KeepsSpawnFails ==
    ASSUME IInv, NEW c \in Calls, SpawnFails(c)
    PROVE  IInv'
<1> USE CommandAssumption DEF IInv, Ends, ExitCodes, At, Goto, SpawnFails, Fault, Throw
<1>1. TypeOK'
  BY DEF TypeOK
<1>2. FdInv'
  BY DEF FdInv, FdOf, TypeOK
<1>3. PidInv'
  BY DEF PidInv, PidOf, EofInv, EofOf, TypeOK
<1>4. EofInv'
  BY DEF EofInv, EofOf, FdInv, FdOf, PidInv, PidOf, TypeOK, AtEnd, WriterOpen
<1> QED
  BY <1>1, <1>2, <1>3, <1>4

LEMMA KeepsSpawn ==
    ASSUME IInv, NEW c \in Calls, Spawn(c)
    PROVE  IInv'
<1> USE DEF IInv, At, Goto
<1>a. PICK p \in Pids : /\ procs[p] = None
                        /\ procs' = [procs EXCEPT ![p] = <<c, "running">>]
                        /\ pid' = [pid EXCEPT ![c] = p]
  BY DEF Spawn
<1>b. /\ fd[c] = <<fd[c][1], fd[c][2]>>
      /\ fd[c][1] \in Fds \cup {None} /\ fd[c][2] \in Fds \cup {None}
  BY DEF TypeOK
<1>c. fd' = [fd EXCEPT ![c] = <<fd[c][1], None>>]
  <2>1. fd' = [fd EXCEPT ![c] = [fd[c] EXCEPT ![2] = None]]
    BY DEF Spawn
  <2>2. [fd[c] EXCEPT ![2] = None] = <<fd[c][1], None>>
    BY <1>b
  <2> QED
    BY <2>1, <2>2
<1>d. fd'[c][1] = fd[c][1] /\ fd'[c][2] = None /\ \A d \in Calls \ {c} : fd'[d] = fd[d]
  BY <1>c DEF TypeOK
<1>e. \A n \in Fds : files'[n] = IF n = fd[c][2] THEN None ELSE files[n]
  BY DEF Spawn, Closed
<1>f. pc[c] = "opened" /\ pc'[c] = "loop" /\ \A d \in Calls \ {c} : pc'[d] = pc[d]
  BY DEF Spawn, TypeOK
<1>1. TypeOK'
  <2>1. fd' \in [Calls -> (Fds \cup {None}) \X (Fds \cup {None})]
    BY <1>b, <1>c DEF TypeOK
  <2>2. files' \in [Fds -> {None} \cup (Calls \X Ends)]
    BY DEF Spawn, Closed, TypeOK
  <2>3. procs' \in [Pids -> {None} \cup (Calls \X ({"running"} \cup ExitCodes))]
    BY <1>a DEF TypeOK
  <2>4. writers' \in [Calls -> SUBSET Commands]
    BY DEF Spawn, TypeOK, Commands
  <2> QED
    BY <1>a, <2>1, <2>2, <2>3, <2>4 DEF Spawn, TypeOK
<1>2. FdInv'
  <2>1. FdOf(c)'
    <3>1. FdOf(c)
      BY DEF FdInv
    <3>2. fd[c][1] # None => fd[c][1] # fd[c][2]
      BY <3>1, <1>b DEF FdOf, Ends
    <3>3. <<c, 1>> # None /\ <<c, 2>> # None
      BY NoneApart DEF Ends
    <3> QED
      BY <1>b, <1>d, <1>e, <1>f, <3>1, <3>2, <3>3 DEF FdOf, Ends
  <2>2. ASSUME NEW d \in Calls \ {c} PROVE FdOf(d)'
    <3>1. FdOf(d) /\ FdOf(c) /\ fd[d][1] \in Fds \cup {None} /\ fd[d][2] \in Fds \cup {None}
      BY DEF FdInv, TypeOK
    <3>2. \A n \in Fds, e \in Ends : files'[n] = <<d, e>> <=> files[n] = <<d, e>>
      <4> TAKE n \in Fds, e \in Ends
      <4>1. n = fd[c][2] => files[n] = <<c, 2>>
        BY <1>b, <3>1, CommandAssumption DEF FdOf, Ends
      <4>2. <<d, e>> # None /\ <<d, e>> # <<c, 2>>
        BY NoneApart
      <4> QED
        BY <1>e, <4>1, <4>2
    <3> QED
      BY <1>d, <1>f, <3>2, FdKept
  <2> QED
    BY <2>1, <2>2 DEF FdInv
<1>3. PidInv'
  <2>1. <<c, "running">> # None
    BY NoneApart
  <2>2. answer' = answer
    BY DEF Spawn
  <2>3. PidOf(c)'
    <3>1. answer[c] # "error" /\ PidOf(c)
      BY <1>f DEF PidInv, EofInv, EofOf
    <3> QED
      BY <1>a, <1>f, <2>1, <2>2, <3>1, CommandAssumption DEF PidOf, TypeOK
  <2>4. ASSUME NEW d \in Calls \ {c} PROVE PidOf(d)'
    <3>1. PidOf(d) /\ pid'[d] = pid[d] /\ pid[d] \in Pids \cup {None}
      BY <1>a DEF PidInv, TypeOK
    <3> QED
      BY <1>a, <1>f, <2>1, <2>2, <3>1 DEF PidOf, TypeOK
  <2> QED
    BY <2>3, <2>4 DEF PidInv
<1>4. EofInv'
  <2>1. EofOf(c)'
    BY <1>f DEF Spawn, EofInv, EofOf, TypeOK
  <2>2. ASSUME NEW d \in Calls \ {c} PROVE EofOf(d)'
    <3>1. \A n \in Fds : files'[n] = <<d, 2>> => files[n] = <<d, 2>>
      BY <1>e, NoneApart DEF Ends
    <3>2. writers'[d] = writers[d]
      BY DEF Spawn, Inherited, TypeOK
    <3> QED
      BY <1>f, <3>1, <3>2 DEF Spawn, EofInv, EofOf, AtEnd, WriterOpen
  <2> QED
    BY <2>1, <2>2 DEF EofInv
<1> QED
  BY <1>1, <1>2, <1>3, <1>4

LEMMA KeepsTimeOut ==
    ASSUME IInv, NEW c \in Calls, TimeOut(c)
    PROVE  IInv'
<1> USE CommandAssumption DEF IInv, Ends, ExitCodes, At, Goto, TimeOut, Throw, system
<1>1. TypeOK'
  BY DEF TypeOK
<1>2. FdInv'
  BY DEF FdInv, FdOf, TypeOK
<1>3. PidInv'
  BY DEF PidInv, PidOf, EofInv, EofOf, TypeOK
<1>4. EofInv'
  BY DEF EofInv, EofOf, FdInv, FdOf, PidInv, PidOf, TypeOK, AtEnd, WriterOpen
<1> QED
  BY <1>1, <1>2, <1>3, <1>4

LEMMA KeepsReadData ==
    ASSUME IInv, NEW c \in Calls, ReadData(c)
    PROVE  IInv'
<1> USE CommandAssumption DEF IInv, Ends, ExitCodes, At, Goto, ReadData, locals
<1>1. TypeOK'
  BY DEF TypeOK
<1>2. FdInv'
  BY DEF FdInv, FdOf, TypeOK
<1>3. PidInv'
  BY DEF PidInv, PidOf, EofInv, EofOf, TypeOK
<1>4. EofInv'
  BY DEF EofInv, EofOf, FdInv, FdOf, PidInv, PidOf, TypeOK, AtEnd, WriterOpen
<1> QED
  BY <1>1, <1>2, <1>3, <1>4

LEMMA KeepsReadNothing ==
    ASSUME IInv, NEW c \in Calls, ReadNothing(c)
    PROVE  IInv'
<1> USE CommandAssumption DEF IInv, Ends, ExitCodes, At, Goto, ReadNothing, system
<1>1. TypeOK'
  BY DEF TypeOK
<1>2. FdInv'
  BY DEF FdInv, FdOf, TypeOK
<1>3. PidInv'
  BY DEF PidInv, PidOf, EofInv, EofOf, TypeOK
<1>4. EofInv'
  BY DEF EofInv, EofOf, FdInv, FdOf, PidInv, PidOf, TypeOK, AtEnd, WriterOpen
<1> QED
  BY <1>1, <1>2, <1>3, <1>4

LEMMA KeepsWait ==
    ASSUME IInv, NEW c \in Calls, Wait(c)
    PROVE  IInv'
<1> USE DEF IInv, At, Goto, Wait
<1>a. ASSUME pid[c] # None /\ procs[pid[c]] \in {c} \X ExitCodes
      PROVE  TypeOK' /\ PidInv'
  <2>1. /\ procs[pid[c]][1] = c /\ procs[pid[c]][2] \in ExitCodes /\ pid[c] \in Pids
        /\ status' = [status EXCEPT ![c] = procs[pid[c]][2]]
    BY <1>a DEF TypeOK
  <2>2. TypeOK'
    BY <1>a, <2>1 DEF TypeOK
  <2>3. PidInv'
    <3>1. PidOf(c)'
      BY <1>a, <2>1 DEF PidInv, PidOf, TypeOK
    <3>2. ASSUME NEW d \in Calls \ {c} PROVE PidOf(d)'
      <4>1. PidOf(d) /\ pid'[d] = pid[d] /\ pid[d] \in Pids \cup {None} /\ pc'[d] = pc[d]
        BY <1>a DEF PidInv, TypeOK
      <4>2. procs' = [procs EXCEPT ![pid[c]] = None]
        BY <1>a
      <4>3. \A p \in Pids : procs[p] # None /\ procs[p][1] = d => p # pid[c]
        BY <2>1
      <4> QED
        BY <2>1, <4>1, <4>2, <4>3 DEF PidOf, TypeOK
    <3> QED
      BY <3>1, <3>2 DEF PidInv
  <2> QED
    BY <2>2, <2>3
<1>b. ASSUME ~(pid[c] # None /\ procs[pid[c]] \in {c} \X ExitCodes)
      PROVE  TypeOK' /\ PidInv'
  <2>1. TypeOK'
    BY <1>b DEF TypeOK
  <2>2. PidInv'
    BY <1>b DEF PidInv, PidOf, TypeOK
  <2> QED
    BY <2>1, <2>2
<1>1. TypeOK'
  BY <1>a, <1>b
<1>2. FdInv'
  BY CommandAssumption DEF FdInv, FdOf, TypeOK, Ends, ExitCodes, Wait
<1>3. PidInv'
  BY <1>a, <1>b
<1>4. EofInv'
  BY CommandAssumption DEF EofInv, EofOf, FdInv, FdOf, PidInv, PidOf, TypeOK, AtEnd, WriterOpen, Ends, ExitCodes, Wait
<1> QED
  BY <1>1, <1>2, <1>3, <1>4

LEMMA KeepsLoopFails ==
    ASSUME IInv, NEW c \in Calls, LoopFails(c)
    PROVE  IInv'
<1> USE CommandAssumption DEF IInv, Ends, ExitCodes, At, Goto, LoopFails, Fault, Throw
<1>1. TypeOK'
  BY DEF TypeOK
<1>2. FdInv'
  BY DEF FdInv, FdOf, TypeOK
<1>3. PidInv'
  BY DEF PidInv, PidOf, EofInv, EofOf, TypeOK
<1>4. EofInv'
  BY DEF EofInv, EofOf, FdInv, FdOf, PidInv, PidOf, TypeOK, AtEnd, WriterOpen
<1> QED
  BY <1>1, <1>2, <1>3, <1>4

LEMMA KeepsReturn ==
    ASSUME IInv, NEW c \in Calls, Return(c)
    PROVE  IInv'
<1> USE DEF IInv, At, Goto, Return, Leave, Closed
<1>a. files' = [n \in Fds |-> IF n \in {fd[c][1], fd[c][2]} THEN None ELSE files[n]]
  <2>1. fd[c][2] = None
    BY DEF FdInv, FdOf
  <2> QED
    BY <2>1, CommandAssumption
<1>b. files' \in [Fds -> {None} \cup (Calls \X Ends)]
  BY <1>a, Closing
<1>c. \A n \in Fds, e \in Ends : files'[n] # <<c, e>>
  BY <1>a, Closing
<1>d. \A d \in Calls \ {c}, n \in Fds, e \in Ends : files'[n] = <<d, e>> <=> files[n] = <<d, e>>
  BY <1>a, Closing
<1>e. /\ fd'[c] = <<None, None>> /\ \A d \in Calls \ {c} : fd'[d] = fd[d]
      /\ pc'[c] = "ended" /\ \A d \in Calls \ {c} : pc'[d] = pc[d]
  BY DEF TypeOK
<1>1. TypeOK'
  BY CommandAssumption DEF TypeOK, Ends, ExitCodes, Return, Leave, Closed
<1>2. FdInv'
  <2>1. FdOf(c)'
    <3>1. \A e \in Ends : fd'[c][e] = None
      BY <1>e DEF Ends
    <3> QED
      BY <1>c, <1>e, <3>1 DEF FdOf, Ends
  <2>2. ASSUME NEW d \in Calls \ {c} PROVE FdOf(d)'
    BY <1>d, <1>e, FdKept
  <2> QED
    BY <2>1, <2>2 DEF FdInv
<1>3. PidInv'
  BY CommandAssumption DEF PidInv, PidOf, EofInv, EofOf, TypeOK, Ends, ExitCodes, Return, Leave, Closed
<1>4. EofInv'
  <2>1. EofOf(c)'
    <3>1. AtEnd(c)
      BY DEF EofInv, EofOf
    <3>2. AtEnd(c)'
      BY <3>1, <1>c DEF AtEnd, WriterOpen, Ends
    <3>3. ~eof'[c] /\ answer'[c] = "output"
      BY DEF TypeOK
    <3> QED
      BY <1>e, <3>2, <3>3 DEF EofOf
  <2>2. ASSUME NEW d \in Calls \ {c} PROVE EofOf(d)'
    <3>1. AtEnd(d) => AtEnd(d)'
      BY <1>d DEF AtEnd, WriterOpen, Ends
    <3>2. eof'[d] = eof[d] /\ answer'[d] = answer[d]
      BY DEF TypeOK
    <3> QED
      BY <1>e, <3>1, <3>2 DEF EofInv, EofOf
  <2> QED
    BY <2>1, <2>2 DEF EofInv
<1> QED
  BY <1>1, <1>2, <1>3, <1>4

LEMMA KeepsExitFails ==
    ASSUME IInv, NEW c \in Calls, ExitFails(c)
    PROVE  IInv'
<1> USE CommandAssumption DEF IInv, Ends, ExitCodes, At, Goto, ExitFails, Throw, system
<1>1. TypeOK'
  BY DEF TypeOK
<1>2. FdInv'
  BY DEF FdInv, FdOf, TypeOK
<1>3. PidInv'
  BY DEF PidInv, PidOf, EofInv, EofOf, TypeOK
<1>4. EofInv'
  BY DEF EofInv, EofOf, FdInv, FdOf, PidInv, PidOf, TypeOK, AtEnd, WriterOpen
<1> QED
  BY <1>1, <1>2, <1>3, <1>4

LEMMA KeepsCatch ==
    ASSUME IInv, NEW c \in Calls, Catch(c)
    PROVE  IInv'
<1> USE DEF IInv, At, Goto, Catch, Leave, Closed, KilledShells
<1>a. files' = [n \in Fds |-> IF n \in {fd[c][1], fd[c][2]} THEN None ELSE files[n]]
  <2>1. \A n \in Fds : n \in {fd[c][e] : e \in Ends} \ {None} <=> n \in {fd[c][1], fd[c][2]}
    BY CommandAssumption DEF Ends
  <2> QED
    BY <2>1
<1>b. files' \in [Fds -> {None} \cup (Calls \X Ends)]
  BY <1>a, Closing
<1>c. \A n \in Fds, e \in Ends : files'[n] # <<c, e>>
  BY <1>a, Closing
<1>d. \A d \in Calls \ {c}, n \in Fds, e \in Ends : files'[n] = <<d, e>> <=> files[n] = <<d, e>>
  BY <1>a, Closing
<1>e. /\ fd'[c] = <<None, None>> /\ \A d \in Calls \ {c} : fd'[d] = fd[d]
      /\ pc'[c] = "ended" /\ \A d \in Calls \ {c} : pc'[d] = pc[d]
  BY DEF TypeOK
<1>f. /\ procs' \in [Pids -> {None} \cup (Calls \X ({"running"} \cup ExitCodes))]
      /\ \A p \in Pids : /\ procs[p] = None <=> procs'[p] = None
                         /\ procs[p] # None => procs'[p][1] = procs[p][1]
  <2>1. CASE pid[c] = None
    BY <2>1 DEF TypeOK
  <2>2. CASE pid[c] # None
    <3>1. /\ pid[c] \in Pids /\ procs[pid[c]] # None
          /\ procs[pid[c]] \in Calls \X ({"running"} \cup ExitCodes)
      BY <2>2 DEF PidInv, PidOf, TypeOK
    <3>2. procs' = [procs EXCEPT ![pid[c]] =
                       IF @[2] = "running" THEN <<@[1], "failed">> ELSE @]
      BY <2>2, <3>1
    <3>3. /\ \A p \in Pids \ {pid[c]} : procs'[p] = procs[p]
          /\ procs'[pid[c]] \in Calls \X ({"running"} \cup ExitCodes)
          /\ procs'[pid[c]][1] = procs[pid[c]][1]
          /\ DOMAIN procs' = Pids
      <4> DEFINE q == procs[pid[c]]
      <4>1. q[1] \in Calls /\ q[2] \in {"running"} \cup ExitCodes
        BY <3>1
      <4>2. "failed" \in ExitCodes
        BY DEF ExitCodes
      <4>3. procs'[pid[c]] = IF q[2] = "running" THEN <<q[1], "failed">> ELSE q
        BY <3>1, <3>2 DEF TypeOK
      <4> QED
        BY <3>1, <3>2, <4>1, <4>2, <4>3 DEF TypeOK
    <3> HIDE DEF Catch, KilledShells
    <3>4. procs'[pid[c]] # None
      BY <3>3, CommandAssumption
    <3>5. procs' \in [Pids -> {None} \cup (Calls \X ({"running"} \cup ExitCodes))]
      BY <3>2, <3>3 DEF TypeOK
    <3> QED
      BY <3>1, <3>3, <3>4, <3>5
  <2> QED
    BY <2>1, <2>2
<1>g. \A d \in Calls : writers'[d] \subseteq writers[d]
  OBVIOUS
<1>1. TypeOK'
  <2>1. writers' \in [Calls -> SUBSET Commands]
    BY DEF TypeOK
  <2>2. /\ fd' \in [Calls -> (Fds \cup {None}) \X (Fds \cup {None})]
        /\ pid' \in [Calls -> Pids \cup {None}]
    BY DEF TypeOK
  <2>3. "ok" \in ExitCodes
    BY DEF ExitCodes
  <2> QED
    BY <1>b, <1>f, <2>1, <2>2, <2>3 DEF TypeOK
<1>2. FdInv'
  <2>1. FdOf(c)'
    <3>1. \A e \in Ends : fd'[c][e] = None
      BY <1>e DEF Ends
    <3> QED
      BY <1>c, <1>e, <3>1 DEF FdOf, Ends
  <2>2. ASSUME NEW d \in Calls \ {c} PROVE FdOf(d)'
    BY <1>d, <1>e, FdKept
  <2> QED
    BY <2>1, <2>2 DEF FdInv
<1>3. PidInv'
  <2>1. /\ pid' = [pid EXCEPT ![c] = None] /\ answer' = [answer EXCEPT ![c] = "error"]
    OBVIOUS
  <2> HIDE DEF Catch
  <2>2. PidOf(c)'
    BY <1>e, <2>1 DEF PidOf, TypeOK
  <2>3. ASSUME NEW d \in Calls \ {c} PROVE PidOf(d)'
    <3>1. PidOf(d) /\ pid'[d] = pid[d] /\ pc'[d] = pc[d] /\ answer'[d] = answer[d]
      BY <1>e, <2>1 DEF PidInv, TypeOK
    <3> QED
      BY <1>f, <3>1 DEF PidOf, TypeOK
  <2> QED
    BY <2>2, <2>3 DEF PidInv
<1>4. EofInv'
  <2>1. EofOf(c)'
    <3>1. ~eof'[c] /\ answer'[c] = "error"
      BY DEF TypeOK
    <3> QED
      BY <1>e, <3>1 DEF EofOf
  <2>2. ASSUME NEW d \in Calls \ {c} PROVE EofOf(d)'
    <3>1. /\ eof'[d] = eof[d] /\ answer'[d] = answer[d] /\ pc'[d] = pc[d]
          /\ unread'[d] = unread[d]
      BY DEF TypeOK
    <3>2. AtEnd(d) => AtEnd(d)'
      <4> HIDE DEF Catch, KilledShells
      <4> QED
        BY <1>d, <1>g, <3>1 DEF AtEnd, WriterOpen, Ends
    <3> QED
      BY <3>1, <3>2 DEF EofInv, EofOf
  <2> QED
    BY <2>1, <2>2 DEF EofInv
<1> QED
  BY <1>1, <1>2, <1>3, <1>4

LEMMA KeepsExpire ==
    ASSUME IInv, NEW c \in Calls, Expire(c)
    PROVE  IInv'
<1> USE CommandAssumption DEF IInv, Ends, ExitCodes, At, Goto, Expire, system
<1>1. TypeOK'
  BY DEF TypeOK
<1>2. FdInv'
  BY DEF FdInv, FdOf, TypeOK
<1>3. PidInv'
  BY DEF PidInv, PidOf, EofInv, EofOf, TypeOK
<1>4. EofInv'
  BY DEF EofInv, EofOf, FdInv, FdOf, PidInv, PidOf, TypeOK, AtEnd, WriterOpen
<1> QED
  BY <1>1, <1>2, <1>3, <1>4

LEMMA KeepsFork ==
    ASSUME IInv, NEW c \in Calls, Fork(c)
    PROVE  IInv'
<1> USE CommandAssumption DEF IInv, Ends, ExitCodes, At, Goto, Fork, Running, locals
<1>1. TypeOK'
  <2>1. writers' \in [Calls -> SUBSET Commands]
    BY DEF TypeOK, Commands
  <2> QED
    BY <2>1 DEF TypeOK
<1>2. FdInv'
  BY DEF FdInv, FdOf, TypeOK
<1>3. PidInv'
  BY DEF PidInv, PidOf, EofInv, EofOf, TypeOK
<1>4. EofInv'
  BY DEF EofInv, EofOf, FdInv, FdOf, PidInv, PidOf, TypeOK, AtEnd, WriterOpen
<1> QED
  BY <1>1, <1>2, <1>3, <1>4

LEMMA KeepsWrite ==
    ASSUME IInv, NEW x \in Commands, Write(x)
    PROVE  IInv'
<1> USE CommandAssumption DEF IInv, Ends, ExitCodes, Commands, Write, Alive, Running, locals
<1>1. TypeOK'
  BY DEF TypeOK
<1>2. FdInv'
  BY DEF FdInv, FdOf, TypeOK
<1>3. PidInv'
  BY DEF PidInv, PidOf, EofInv, EofOf, TypeOK
<1>4. EofInv'
  BY DEF EofInv, EofOf, FdInv, FdOf, PidInv, PidOf, TypeOK, AtEnd, WriterOpen
<1> QED
  BY <1>1, <1>2, <1>3, <1>4

LEMMA KeepsCloseOutput ==
    ASSUME IInv, NEW x \in Commands, CloseOutput(x)
    PROVE  IInv'
<1> USE CommandAssumption DEF IInv, Ends, ExitCodes, Commands, CloseOutput, Alive, Running, locals
<1>1. TypeOK'
  BY DEF TypeOK
<1>2. FdInv'
  BY DEF FdInv, FdOf, TypeOK
<1>3. PidInv'
  BY DEF PidInv, PidOf, EofInv, EofOf, TypeOK
<1>4. EofInv'
  BY DEF EofInv, EofOf, FdInv, FdOf, PidInv, PidOf, TypeOK, AtEnd, WriterOpen
<1> QED
  BY <1>1, <1>2, <1>3, <1>4

LEMMA KeepsExit ==
    ASSUME IInv, NEW x \in Commands, Exit(x)
    PROVE  IInv'
<1> USE DEF IInv, At, Goto, Exit, Alive, Running, locals
<1>a. x = <<x[1], x[2]>> /\ x[1] \in Calls /\ x[2] \in {"shell", "child"}
  BY DEF Commands
<1>b. /\ procs' \in [Pids -> {None} \cup (Calls \X ({"running"} \cup ExitCodes))]
      /\ \A p \in Pids : /\ procs[p] = None <=> procs'[p] = None
                         /\ procs[p] # None => procs'[p][1] = procs[p][1]
  <2>1. CASE x[2] = "shell"
    <3>1. PICK p \in Pids, s \in ExitCodes :
             procs[p] = <<x[1], "running">> /\ procs' = [procs EXCEPT ![p] = <<x[1], s>>]
      BY <2>1
    <3> HIDE DEF Exit
    <3>2. <<x[1], "running">> # None /\ <<x[1], s>> # None
      BY <1>a, NoneApart
    <3>3. procs' \in [Pids -> {None} \cup (Calls \X ({"running"} \cup ExitCodes))]
      BY <1>a, <3>1 DEF TypeOK
    <3> QED
      BY <3>1, <3>2, <3>3 DEF TypeOK
  <2>2. CASE x[2] # "shell"
    BY <2>2 DEF TypeOK
  <2> QED
    BY <2>1, <2>2
<1>1. TypeOK'
  <2>1. child' \in [Calls -> {"none", "running", "gone"}]
    BY <1>a DEF TypeOK
  <2>2. writers' \in [Calls -> SUBSET Commands]
    BY DEF TypeOK
  <2> QED
    BY <1>b, <2>1, <2>2 DEF TypeOK
<1>2. FdInv'
  BY CommandAssumption DEF FdInv, FdOf, TypeOK, Ends, ExitCodes, Exit, Alive, Running, locals, Commands
<1>3. PidInv'
  <2>1. pid' = pid /\ pc' = pc /\ answer' = answer
    OBVIOUS
  <2> HIDE DEF Exit
  <2> QED
    BY <1>b, <2>1 DEF PidInv, PidOf, TypeOK
<1>4. EofInv'
  BY CommandAssumption DEF EofInv, EofOf, FdInv, FdOf, PidInv, PidOf, TypeOK, AtEnd, WriterOpen, Ends, ExitCodes, Exit, Alive, Running, locals, Commands
<1> QED
  BY <1>1, <1>2, <1>3, <1>4

-----------------------------------------------------------------------------
(* The invariant is inductive.                                                *)
LEMMA StepHolds == ASSUME IInv, [Next]_vars PROVE IInv'
<1>1. ASSUME NEW c \in Calls, CallStep(c) \/ Expire(c) \/ Fork(c) PROVE IInv'
  BY <1>1, KeepsRefuse, KeepsOpen, KeepsSpawnFails, KeepsSpawn, KeepsTimeOut, KeepsReadData,
     KeepsReadNothing, KeepsWait, KeepsLoopFails, KeepsReturn, KeepsExitFails, KeepsCatch,
     KeepsExpire, KeepsFork DEF CallStep
<1>2. ASSUME NEW x \in Commands, ProcessStep(x) PROVE IInv'
  BY <1>2, KeepsWrite, KeepsCloseOutput, KeepsExit DEF ProcessStep
<1>3. CASE UNCHANGED vars
  <2>1. TypeOK'
    BY <1>3 DEF vars, locals, system, IInv, TypeOK
  <2>2. FdInv' /\ PidInv'
    BY <1>3 DEF vars, locals, system, IInv, FdInv, FdOf, PidInv, PidOf
  <2>3. EofInv'
    BY <1>3 DEF vars, locals, system, IInv, EofInv, EofOf, AtEnd, WriterOpen
  <2> QED
    BY <2>1, <2>2, <2>3 DEF IInv
<1> QED
  BY <1>1, <1>2, <1>3 DEF Next

THEOREM Inductive == Spec => []IInv
BY InitHolds, StepHolds, PTL DEF Spec

(* Every variable keeps its type, for any calls, descriptors and processes.   *)
THEOREM TypeCorrect == Spec => []TypeOK
BY Inductive, PTL DEF IInv

(* What a call returns is the whole output of a command that is over          *)
(* (command.hpp:52-72).                                                       *)
THEOREM OutputIsComplete == Spec => []OutputComplete
<1>1. IInv => OutputComplete
  <2> SUFFICES ASSUME IInv, NEW c \in Calls, answer[c] = "output"
               PROVE  AtEnd(c) /\ \A p \in Pids : procs[p] = None \/ procs[p][1] # c
    BY DEF OutputComplete
  <2>1. AtEnd(c) /\ pc[c] = "ended"
    BY DEF IInv, EofInv, EofOf
  <2>2. pid[c] = None /\ \A p \in Pids : procs[p] # None /\ procs[p][1] = c => pid[c] = p
    BY <2>1 DEF IInv, PidInv, PidOf
  <2> QED
    BY <2>1, <2>2, CommandAssumption
<1> QED
  BY <1>1, Inductive, PTL

(* The two descriptors of a call are its own and are closed once, on every    *)
(* way out (command.hpp:21-30, 73-83).                                        *)
THEOREM DescriptorsAreOwned == Spec => []DescriptorsOwned
<1>1. IInv => DescriptorsOwned
  BY CommandAssumption DEF IInv, FdInv, FdOf, DescriptorsOwned, Ends
<1> QED
  BY <1>1, Inductive, PTL

(* Only the call's own shell is killed, and only while it is not reaped       *)
(* (command.hpp:76-78).                                                       *)
THEOREM KillIsOwn == Spec => KillsOwnShell
<1>1. ASSUME IInv, NEW c \in Calls, NEW p \in Pids, Catch(c), procs'[p] # procs[p]
      PROVE  procs[p] = <<c, "running">>
  <2>1. pid[c] # None /\ KilledShells(pid[c])
    BY <1>1 DEF Catch
  <2>2. /\ pid[c] \in Pids /\ procs[pid[c]] \in Calls \X ({"running"} \cup ExitCodes)
        /\ procs[pid[c]][1] = c
    BY <1>1, <2>1 DEF IInv, PidInv, PidOf, TypeOK
  <2>3. p = pid[c] /\ procs[pid[c]][2] = "running"
    BY <1>1, <2>1, <2>2 DEF KilledShells, IInv, TypeOK
  <2> QED
    BY <2>2, <2>3
<1>2. IInv /\ [Next]_vars =>
        [\A c \in Calls, p \in Pids :
           Catch(c) => (procs'[p] # procs[p] => procs[p] = <<c, "running">>)]_vars
  BY <1>1
<1> QED
  BY <1>2, Inductive, PTL DEF Spec, KillsOwnShell

=============================================================================
