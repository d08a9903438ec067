------------------------------- MODULE Command -------------------------------
(***************************************************************************)
(* call_external_command (utils/command.hpp): run a shell command, collect   *)
(* what it and its children write to a pipe, and give up at a deadline.       *)
(* Several threads of one process do so at once: they share the table of      *)
(* descriptors and the process identifiers, both of which are reused.         *)
(*                                                                           *)
(* Granularity: one action per system call, the deadline check joined to the  *)
(* read() after it and poll() to the waitpid() before it.  A shell may leave   *)
(* a child behind that holds the pipe; both belong to the environment, and     *)
(* nothing obliges either to exit.  Output is what is unread in the pipe.      *)
(***************************************************************************)
EXTENDS Naturals, FiniteSets

CONSTANTS Calls,     (* calls, one per thread                               *)
          Timeouts,  (* timeout arguments: "limited", "none" (0), "negative" *)
          Daemons,   (* calls whose shell may close its output or fork      *)
          Fds,       (* descriptor numbers                                  *)
          Pids,      (* process identifiers                                 *)
          PipeSize,  (* bound: units of output the pipe holds               *)
          MaxFaults, (* bound: system calls that fail                       *)
          None       (* -1: no descriptor, no process                       *)

ExitCodes == {"ok", "failed"}
Ends == {1, 2}

ASSUME CommandAssumption ==
    /\ Timeouts \subseteq {"limited", "none", "negative"}
    /\ Daemons \subseteq Calls
    /\ Fds \subseteq Nat
    /\ None \notin Fds \cup Pids
    /\ None \notin Calls \X Ends /\ None \notin Calls \X ({"running"} \cup ExitCodes)
    /\ PipeSize \in Nat \ {0}
    /\ MaxFaults \in Nat

VARIABLES
    pc,       (* where each call is                                          *)
    limited,  (* its timeout is not zero                                     *)
    late,     (* its deadline has passed                                     *)
    fd,       (* the local array fd: <<read end, write end>>                 *)
    pid,      (* the local variable pid                                      *)
    eof,      (* the local variable eof                                      *)
    status,   (* the local variable status                                   *)
    answer,   (* "output" returned or "error" thrown                         *)
    files,    (* the process's descriptor table: <<call, end>> of a pipe     *)
    procs,    (* the process table: the shells, zombies included             *)
    child,    (* the process a shell leaves in the background                *)
    writers,  (* other processes that hold the write end of a call's pipe    *)
    unread,   (* output in the pipe                                          *)
    faults    (* system calls that failed                                    *)

locals == <<pc, limited, late, fd, pid, eof, status, answer>>
system == <<files, procs, child, writers, unread, faults>>
vars == <<locals, system>>

Commands == Calls \X {"shell", "child"}

Init == /\ pc = [c \in Calls |-> "idle"]
        /\ limited = [c \in Calls |-> FALSE]
        /\ late = [c \in Calls |-> FALSE]
        /\ fd = [c \in Calls |-> <<None, None>>]
        /\ pid = [c \in Calls |-> None]
        /\ eof = [c \in Calls |-> FALSE]
        /\ status = [c \in Calls |-> "ok"]
        /\ answer = [c \in Calls |-> "none"]
        /\ files = [n \in Fds |-> None]
        /\ procs = [p \in Pids |-> None]
        /\ child = [c \in Calls |-> "none"]
        /\ writers = [c \in Calls |-> {}]
        /\ unread = [c \in Calls |-> 0]
        /\ faults = 0

-----------------------------------------------------------------------------
(* The kernel.                                                                *)

Free == {n \in Fds : files[n] = None}
ReaderOpen(c) == \E n \in Fds : files[n] = <<c, 1>>
WriterOpen(c) == writers[c] # {} \/ \E n \in Fds : files[n] = <<c, 2>>
AtEnd(c) == unread[c] = 0 /\ ~WriterOpen(c)

(* Descriptor table after close() of the numbers in ns.                       *)
Closed(ns) == [n \in Fds |-> IF n \in ns THEN None ELSE files[n]]

(* Pipes whose write end a process spawned by c keeps: pipe2(O_CLOEXEC) marks *)
(* every end, and only its own is duplicated onto its stdout and stderr.      *)
(* MUTANT: the pipe is made without O_CLOEXEC.                                *)
InheritedByAll(c) == {d \in Calls : \E n \in Fds : files[n] = <<d, 2>>}

Inherited(c) == {c}

(* Process identifiers whose shell is no zombie and belongs to the call c.    *)
Running(c) == {p \in Pids : procs[p] = <<c, "running">>}

Fault == faults < MaxFaults /\ faults' = faults + 1

-----------------------------------------------------------------------------
(* The call.                                                                  *)

At(c, l) == pc[c] = l
Goto(c, l) == pc' = [pc EXCEPT ![c] = l]
Throw(c) == Goto(c, "catch")

(* The call is over, and its locals with it.                                  *)
Leave(c, a) ==
    /\ Goto(c, "ended")
    /\ answer' = [answer EXCEPT ![c] = a]
    /\ limited' = [limited EXCEPT ![c] = FALSE]
    /\ late' = [late EXCEPT ![c] = FALSE]
    /\ fd' = [fd EXCEPT ![c] = <<None, None>>]
    /\ pid' = [pid EXCEPT ![c] = None]
    /\ eof' = [eof EXCEPT ![c] = FALSE]
    /\ status' = [status EXCEPT ![c] = "ok"]

(* The preconditions; then pipe2, before the try block: nothing to clean up.  *)
Refuse(c) ==
    /\ At(c, "idle")
    /\ \/ "negative" \in Timeouts /\ UNCHANGED faults
       \/ Fault
    /\ Leave(c, "error")
    /\ UNCHANGED <<files, procs, child, writers, unread>>

(* The kernel gives the lowest numbers that are free.                         *)
Open(c, t) ==
    /\ At(c, "idle")
    /\ t \in Timeouts \ {"negative"}
    /\ \E r, w \in Free :
          /\ r < w
          /\ \A n \in Free : n >= w \/ n = r
          /\ files' = [files EXCEPT ![r] = <<c, 1>>, ![w] = <<c, 2>>]
          /\ fd' = [fd EXCEPT ![c] = <<r, w>>]
    /\ limited' = [limited EXCEPT ![c] = (t = "limited")]
    /\ Goto(c, "opened")
    /\ UNCHANGED <<late, pid, eof, status, answer, procs, child, writers, unread, faults>>

(* fcntl or one of the steps that prepare and start the shell fails.          *)
SpawnFails(c) ==
    /\ At(c, "opened")
    /\ Fault
    /\ Throw(c)
    /\ UNCHANGED <<limited, late, fd, pid, eof, status, answer, files, procs, child,
                   writers, unread>>

(* posix_spawn, then the library closes its own write end.                    *)
Spawn(c) ==
    /\ At(c, "opened")
    /\ \E p \in Pids :
          /\ procs[p] = None
          /\ procs' = [procs EXCEPT ![p] = <<c, "running">>]
          /\ pid' = [pid EXCEPT ![c] = p]
    /\ writers' = [d \in Calls |-> IF d \in Inherited(c)
                                   THEN writers[d] \cup {<<c, "shell">>} ELSE writers[d]]
    /\ files' = Closed({fd[c][2]})
    /\ fd' = [fd EXCEPT ![c][2] = None]
    /\ Goto(c, "loop")
    /\ UNCHANGED <<limited, late, eof, status, answer, child, unread, faults>>

(* The top of the loop: the deadline comes first, whatever there is to read.  *)
(* Output sends the loop back to its top; only an empty pipe goes on.         *)
TimeOut(c) ==
    /\ At(c, "loop")
    /\ late[c]
    /\ Throw(c)
    /\ UNCHANGED <<limited, late, fd, pid, eof, status, answer, system>>

ReadData(c) ==
    /\ At(c, "loop")
    /\ ~late[c] /\ ~eof[c]
    /\ unread[c] > 0
    /\ \E k \in 0 .. unread[c] - 1 : unread' = [unread EXCEPT ![c] = k]
    /\ UNCHANGED <<locals, files, procs, child, writers, faults>>

ReadNothing(c) ==
    /\ At(c, "loop")
    /\ ~late[c]
    /\ eof[c] \/ unread[c] = 0
    /\ eof' = [eof EXCEPT ![c] = @ \/ AtEnd(c)]
    /\ Goto(c, "wait")
    /\ UNCHANGED <<limited, late, fd, pid, status, answer, system>>

(* waitpid(pid, WNOHANG) reaps a zombie, whose identifier is free again.      *)
(* Otherwise poll() sleeps for at most 10 ms and the loop goes on.            *)
(* MUTANT: pid still names the process that was reaped.                       *)
WaitKeepsPid(c) ==
    /\ At(c, "wait")
    /\ IF pid[c] # None /\ procs[pid[c]] \in {c} \X ExitCodes
       THEN /\ status' = [status EXCEPT ![c] = procs[pid[c]][2]]
            /\ procs' = [procs EXCEPT ![pid[c]] = None]
            /\ Goto(c, IF eof[c] THEN "exit" ELSE "loop")
       ELSE /\ Goto(c, "loop")
            /\ UNCHANGED <<status, procs>>
    /\ UNCHANGED <<limited, late, fd, pid, eof, answer, files, child, writers, unread, faults>>

(* MUTANT: the loop is left as soon as the shell was reaped.                  *)
WaitForShellOnly(c) ==
    /\ At(c, "wait")
    /\ IF pid[c] # None /\ procs[pid[c]] \in {c} \X ExitCodes
       THEN /\ status' = [status EXCEPT ![c] = procs[pid[c]][2]]
            /\ procs' = [procs EXCEPT ![pid[c]] = None]
            /\ pid' = [pid EXCEPT ![c] = None]
            /\ Goto(c, "exit")
       ELSE /\ Goto(c, "loop")
            /\ UNCHANGED <<pid, status, procs>>
    /\ UNCHANGED <<limited, late, fd, eof, answer, files, child, writers, unread, faults>>

Wait(c) ==
    /\ At(c, "wait")
    /\ IF pid[c] # None /\ procs[pid[c]] \in {c} \X ExitCodes
       THEN /\ status' = [status EXCEPT ![c] = procs[pid[c]][2]]
            /\ procs' = [procs EXCEPT ![pid[c]] = None]
            /\ pid' = [pid EXCEPT ![c] = None]
            /\ Goto(c, IF eof[c] THEN "exit" ELSE "loop")
       ELSE /\ Goto(c, IF eof[c] /\ pid[c] = None THEN "exit" ELSE "loop")
            /\ UNCHANGED <<pid, status, procs>>
    /\ UNCHANGED <<limited, late, fd, eof, answer, files, child, writers, unread, faults>>

(* read, waitpid or poll fails.                                               *)
LoopFails(c) ==
    /\ \E l \in {"loop", "wait"} : At(c, l)
    /\ Fault
    /\ Throw(c)
    /\ UNCHANGED <<limited, late, fd, pid, eof, status, answer, files, procs, child,
                   writers, unread>>

(* A status other than 0 is thrown inside the try block.                      *)
Return(c) ==
    /\ At(c, "exit")
    /\ status[c] = "ok"
    /\ files' = Closed({fd[c][1]})
    /\ Leave(c, "output")
    /\ UNCHANGED <<procs, child, writers, unread, faults>>

ExitFails(c) ==
    /\ At(c, "exit")
    /\ status[c] # "ok"
    /\ Throw(c)
    /\ UNCHANGED <<limited, late, fd, pid, eof, status, answer, system>>

(* kill(p, SIGKILL): only a process that still runs is affected; it lets go   *)
(* of every pipe.  A child it left behind is not in its way.                  *)
KilledShells(p) ==
    /\ procs' = [procs EXCEPT ![p] = IF @ # None /\ @[2] = "running" THEN <<@[1], "failed">> ELSE @]
    /\ writers' = [d \in Calls |->
          writers[d] \ {<<e, "shell">> : e \in {e \in Calls : procs[p] = <<e, "running">>}}]

(* The catch block: both ends, then the shell, which is not waited for.       *)
(* MUTANT: only the read end is closed.                                       *)
CatchOneEnd(c) ==
    /\ At(c, "catch")
    /\ files' = Closed({fd[c][1]} \ {None})
    /\ IF pid[c] # None THEN KilledShells(pid[c]) ELSE UNCHANGED <<procs, writers>>
    /\ Leave(c, "error")
    /\ UNCHANGED <<child, unread, faults>>

Catch(c) ==
    /\ At(c, "catch")
    /\ files' = Closed({fd[c][e] : e \in Ends} \ {None})
    /\ IF pid[c] # None THEN KilledShells(pid[c]) ELSE UNCHANGED <<procs, writers>>
    /\ Leave(c, "error")
    /\ UNCHANGED <<child, unread, faults>>

-----------------------------------------------------------------------------
(* The environment: time, the shell and its child.                            *)

Expire(c) ==
    /\ limited[c] /\ ~late[c]
    /\ \E l \in {"loop", "wait"} : At(c, l)
    /\ late' = [late EXCEPT ![c] = TRUE]
    /\ UNCHANGED <<pc, limited, fd, pid, eof, status, answer, system>>

Alive(x) == IF x[2] = "shell" THEN Running(x[1]) # {} ELSE child[x[1]] = "running"

(* SIGPIPE ends a writer whose reader is gone: see Exit.                      *)
Write(x) ==
    /\ Alive(x)
    /\ \E d \in Calls :
          /\ x \in writers[d]
          /\ ReaderOpen(d)
          /\ unread[d] < PipeSize
          /\ unread' = [unread EXCEPT ![d] = @ + 1]
    /\ UNCHANGED <<locals, files, procs, child, writers, faults>>

(* exec >&- 2>&-: a command closes its output and goes on.                    *)
CloseOutput(x) ==
    /\ x[1] \in Daemons
    /\ Alive(x)
    /\ x \in writers[x[1]]
    /\ writers' = [writers EXCEPT ![x[1]] = @ \ {x}]
    /\ UNCHANGED <<locals, files, procs, child, unread, faults>>

Fork(c) ==
    /\ c \in Daemons
    /\ Running(c) # {}
    /\ child[c] = "none"
    /\ child' = [child EXCEPT ![c] = "running"]
    /\ writers' = [d \in Calls |-> IF <<c, "shell">> \in writers[d]
                                   THEN writers[d] \cup {<<c, "child">>} ELSE writers[d]]
    /\ UNCHANGED <<locals, files, procs, unread, faults>>

Exit(x) ==
    /\ Alive(x)
    /\ IF x[2] = "shell"
       THEN /\ \E p \in Running(x[1]), s \in ExitCodes :
                  procs' = [procs EXCEPT ![p] = <<x[1], s>>]
            /\ UNCHANGED child
       ELSE /\ child' = [child EXCEPT ![x[1]] = "gone"]
            /\ UNCHANGED procs
    /\ writers' = [d \in Calls |-> writers[d] \ {x}]
    /\ UNCHANGED <<locals, files, unread, faults>>

CallStep(c) ==
    \/ Refuse(c) \/ \E t \in Timeouts : Open(c, t)
    \/ SpawnFails(c) \/ Spawn(c)
    \/ TimeOut(c) \/ ReadData(c) \/ ReadNothing(c) \/ Wait(c) \/ LoopFails(c)
    \/ Return(c) \/ ExitFails(c) \/ Catch(c)

ProcessStep(x) == Write(x) \/ CloseOutput(x) \/ Exit(x)

Next == \/ \E c \in Calls : CallStep(c) \/ Expire(c) \/ Fork(c)
        \/ \E x \in Commands : ProcessStep(x)

Spec == Init /\ [][Next]_vars

(* The scheduler runs every thread, and time passes.  Nothing is assumed of   *)
(* the commands.                                                              *)
FairSpec == Spec /\ \A c \in Calls : WF_vars(CallStep(c)) /\ WF_vars(Expire(c))

-----------------------------------------------------------------------------
TypeOK ==
    /\ pc \in [Calls -> {"idle", "opened", "loop", "wait", "exit", "catch", "ended"}]
    /\ limited \in [Calls -> BOOLEAN] /\ late \in [Calls -> BOOLEAN]
    /\ fd \in [Calls -> (Fds \cup {None}) \X (Fds \cup {None})]
    /\ pid \in [Calls -> Pids \cup {None}]
    /\ eof \in [Calls -> BOOLEAN]
    /\ status \in [Calls -> ExitCodes]
    /\ answer \in [Calls -> {"none", "output", "error"}]
    /\ files \in [Fds -> {None} \cup (Calls \X Ends)]
    /\ procs \in [Pids -> {None} \cup (Calls \X ({"running"} \cup ExitCodes))]
    /\ child \in [Calls -> {"none", "running", "gone"}]
    /\ writers \in [Calls -> SUBSET Commands]
    /\ unread \in [Calls -> 0 .. PipeSize]
    /\ faults \in 0 .. MaxFaults

(* A call that returns has the whole output of a command that succeeded: no   *)
(* process holds the pipe any more, nothing in it is unread, and the shell    *)
(* was reaped (the loop's two conditions, eof and pid).                       *)
OutputComplete ==
    \A c \in Calls : answer[c] = "output" =>
        /\ AtEnd(c)
        /\ \A p \in Pids : procs[p] = None \/ procs[p][1] # c

(* The numbers in fd are the call's own ends while it runs, and no end        *)
(* outlives it: nothing is leaked on any of the error paths, and no number    *)
(* that another thread may have been given since is closed a second time.     *)
DescriptorsOwned ==
    /\ \A c \in Calls, e \in Ends : fd[c][e] # None => files[fd[c][e]] = <<c, e>>
    /\ \A c \in Calls, n \in Fds : pc[c] = "ended" => files[n] \notin {c} \X Ends

(* SIGKILL reaches the call's own shell and nothing else: the identifier of a *)
(* shell that was reaped may by now be another thread's.                      *)
KillsOwnShell ==
    [][\A c \in Calls, p \in Pids :
         Catch(c) => (procs'[p] # procs[p] => procs[p] = <<c, "running">>)]_vars

(* A call ends when its deadline passes, even when output never ends, the     *)
(* output was closed or a child holds the pipe; and, limited or not, when its *)
(* own command is over, whatever the other threads' commands do.              *)
Over(c) == Running(c) = {} /\ child[c] # "running"
CallsEnd ==
    \A c \in Calls : At(c, "loop") /\ (limited[c] \/ Over(c)) ~> At(c, "ended")
=============================================================================
