------------------------------- MODULE PshRun -------------------------------
(***************************************************************************)
(* How psh runs a command line: psh_backend_do_run and execute_single_cmd  *)
(* (src/backends/posix2/run.c) with the job list (src/jobs.c), exit_psh    *)
(* (src/util.c) and the read loop around them (src/main.c), as one shell   *)
(* process and the children it forks, over the descriptors and pipes of    *)
(* module Kernel.  Fork, set-up, data transfer and exit of the children    *)
(* interleave with the shell's own steps.                                  *)
(*                                                                         *)
(* A command line is the list of _psh_command that filpinfo() hands over:  *)
(* each has a type, the program argv[0] names, and at most one             *)
(* redirection, of standard input or output, to a file.                    *)
(***************************************************************************)
EXTENDS Kernel, Sequences, FiniteSets

CONSTANTS
    Lines,      \* the command lines the user may type
    Pids,       \* process numbers: the children that may exist at once
    Shell, NoPid,
    PipeCap,    \* how many items a pipe holds
    Writes,     \* how many items echo and seq write
    Failures,   \* which calls may fail: a subset of FailureKinds
    LineBuffered \* stdout was set up on a terminal before the fork

Builtins == {"echo", "cd", "exit"}
Programs == {"seq", "cat", "nosuch"}
CmdType == {"SINGLE", "BACKGROUND", "PIPED", "RUN_AND", "RUN_OR", "MULTICMD"}
Redir == {"none", "in", "out"}
Command == [type : CmdType, prog : Builtins \cup Programs, redir : Redir]

(* fork(), pipe() or open() fail whenever they like; "limits": lines are   *)
(* also typed when Pids and Pipes, the bounds on what there is of either,  *)
(* are too small for them.                                                 *)
FailureKinds == {"fork", "pipe", "open", "limits"}

(* Commands the shell runs without forking.                                *)
InShell(cmd) == cmd.prog \in Builtins /\ cmd.type \notin {"PIPED", "BACKGROUND"}

ASSUME RunAssumption ==
    /\ Lines \subseteq Seq(Command)
    \* filpinfo() reads a continuation line after a trailing |
    /\ \A l \in Lines : l # <<>> /\ l[Len(l)].type # "PIPED"
    \* a builtin's redirection is only followed as far as a failing open()
    /\ \A l \in Lines : \A k \in 1..Len(l) :
          InShell(l[k]) /\ l[k].redir # "none" => "open" \in Failures
    /\ Pids \subseteq Nat /\ Shell \notin Pids /\ NoPid \notin Pids /\ NoPid # Shell
    /\ PipeCap \in Nat \ {0} /\ Writes \in Nat \ {0}
    /\ Failures \subseteq FailureKinds
    /\ LineBuffered \in BOOLEAN

(* Every pipe of the lines ls is read by a child.                          *)
ReadersFork(ls) ==
    \A l \in ls : \A k \in 1..Len(l) :
        k < Len(l) /\ l[k].type = "PIPED" => ~InShell(l[k + 1])

(* The two descriptors of an int[2] from pipe(2); 0 is "no pipe".          *)
FdPair == [r : Fd, w : Fd]
NoPipe == [r |-> 0, w |-> 0]

(* What a forked child carries over: the arguments of execute_single_cmd,  *)
(* and the copies of the job list and of ? in its image of the shell.      *)
Call == [in : Fd, out : Fd, close1 : Fd, close2 : Fd,
         prog : Builtins \cup Programs, redir : Redir,
         jobs : SUBSET Pids, ques : Nat]
NoCall == [in |-> 0, out |-> 0, close1 |-> 0, close2 |-> 0, prog |-> "nosuch",
           redir |-> "none", jobs |-> {}, ques |-> 0]

(* waitpid(2)'s encoding: an exit code is in the second byte, a signal in  *)
(* the first.                                                              *)
Exited(code) == code * 256
SIGHUP  == 1
SIGPIPE == 13

VARIABLES
    pc,           \* where the shell is in the loop of psh_backend_do_run
    line, i,      \* the list being run and the position in it
    last_pipe_fd, pipe_fd, pid,    \* the function's locals
    ques,         \* the variable ?
    jobs,         \* pids of state->jobs
    fds,          \* descriptor table of every process
    pstate,       \* state of every process number
    call,         \* what each child was forked for
    todo,         \* items a child has yet to write
    wstat,        \* status waitpid will report
    buf           \* items in each pipe

shellVars == <<pc, line, i, last_pipe_fd, pipe_fd, pid, ques, jobs>>
procVars  == <<pstate, call, todo, wstat>>
vars == <<shellVars, procVars, fds, buf>>

Cmd == line[i]
Alive(p) == pstate[p] \in {"forked", "running"}
Everyone == Pids \cup {Shell}
Open(file) == \E x \in Everyone : Holds(fds[x], file)

Init ==
    /\ pc = "prompt" /\ line = <<>> /\ i = 0
    /\ last_pipe_fd = NoPipe /\ pipe_fd = NoPipe /\ pid = NoPid
    /\ ques = 0 /\ jobs = {}
    /\ fds = [x \in Everyone |-> IF x = Shell THEN TtyTable ELSE ClosedTable]
    /\ pstate = [p \in Pids |-> "free"]
    /\ call = [p \in Pids |-> NoCall]
    /\ todo = [p \in Pids |-> 0]
    /\ wstat = [p \in Pids |-> 0]
    /\ buf = [q \in Pipes |-> 0]

-----------------------------------------------------------------------------
(* Death of the processes in the set ps, with the status st: their         *)
(* descriptors are closed, and they wait for waitpid().                    *)
Die(ps, st) ==
    /\ pstate' = [p \in Pids |-> IF p \in ps THEN "zombie" ELSE pstate[p]]
    /\ wstat'  = [p \in Pids |-> IF p \in ps THEN st[p] ELSE wstat[p]]
    /\ call'   = [p \in Pids |-> IF p \in ps THEN NoCall ELSE call[p]]
    /\ UNCHANGED todo

ClosedFor(ps) == [x \in Everyone |-> IF x \in ps THEN ClosedTable ELSE fds[x]]

(* psh_jobs_free with sighup set: SIGHUP to every job of the list js.      *)
HungUp(js) == {p \in js : Alive(p)}

(* Mutant: one iteration too many.                                         *)
AdvanceTooFar(last) ==
    /\ pid' = NoPid /\ pipe_fd' = NoPipe
    /\ IF i <= Len(line)
       THEN pc' = "top" /\ i' = i + 1 /\ last_pipe_fd' = last /\ UNCHANGED line
       ELSE pc' = "prompt" /\ line' = <<>> /\ i' = 0 /\ last_pipe_fd' = NoPipe

(* "cmd = cmd->next": go on with the list, or return to the prompt, where  *)
(* the locals of the call are gone.                                        *)
Advance(last) ==
    /\ pid' = NoPid /\ pipe_fd' = NoPipe
    /\ IF i < Len(line)
       THEN pc' = "top" /\ i' = i + 1 /\ last_pipe_fd' = last /\ UNCHANGED line
       ELSE pc' = "prompt" /\ line' = <<>> /\ i' = 0 /\ last_pipe_fd' = NoPipe

-----------------------------------------------------------------------------
(* The shell                                                               *)

Unused(q) == ~Open(ReadEnd(q)) /\ ~Open(WriteEnd(q))

(* Process numbers and pipes enough for the whole line                     *)
Room(l) ==
    /\ Cardinality({p \in Pids : pstate[p] = "free"}) >= Len(l)
    /\ Cardinality({q \in Pipes : Unused(q)}) >=
          Cardinality({k \in 1..Len(l) : l[k].type = "PIPED"})

ReadLine ==
    /\ pc = "prompt"
    /\ \E l \in Lines :
          /\ "limits" \in Failures \/ Room(l)
          /\ line' = l
    /\ pc' = "top" /\ i' = 1
    /\ UNCHANGED <<last_pipe_fd, pipe_fd, pid, ques, jobs, procVars, fds, buf>>

(* exit_psh: hang up the jobs, free the list, exit.                        *)
ExitPsh ==
    /\ pc' = "exited" /\ line' = <<>> /\ i' = 0
    /\ last_pipe_fd' = NoPipe /\ pipe_fd' = NoPipe /\ pid' = NoPid
    /\ jobs' = {} /\ UNCHANGED <<ques, buf>>
    /\ Die(HungUp(jobs), [p \in Pids |-> SIGHUP])
    /\ fds' = ClosedFor(HungUp(jobs) \cup {Shell})

EndOfInput == pc = "prompt" /\ ExitPsh

(* A builtin that need not be asynchronous runs in the shell, whether or   *)
(* not the command before it left the read end of a pipe in last_pipe_fd.  *)
(* Its redirections are followed only as far as an open() that fails.      *)
RunBuiltin ==
    /\ pc = "top" /\ InShell(Cmd) /\ Cmd.prog # "exit" /\ Cmd.redir = "none"
    /\ ques' \in IF Cmd.prog = "cd" THEN {0, 1} ELSE {0}
    /\ Advance(last_pipe_fd)
    /\ UNCHANGED <<jobs, procVars, fds, buf>>

BuiltinRedirFails ==
    /\ pc = "top" /\ InShell(Cmd) /\ Cmd.redir # "none" /\ "open" \in Failures
    /\ Advance(last_pipe_fd)
    /\ UNCHANGED <<ques, jobs, procVars, fds, buf>>

RunExit ==
    /\ pc = "top" /\ InShell(Cmd) /\ Cmd.prog = "exit" /\ Cmd.redir = "none"
    /\ ExitPsh

(* A command before a | gets a pipe.  Which pipe object, like which pid a  *)
(* child, makes no difference but by its identity: the least unused one.   *)
PipeAvailable(q, rd, wr) ==
    /\ Unused(q) /\ \A r \in Pipes : Unused(r) => q <= r
    /\ LowestTwo(fds[Shell], rd, wr)

MakePipe ==
    /\ pc = "top" /\ Cmd.type = "PIPED"
    /\ \E q \in Pipes, rd \in Fd, wr \in Fd :
          /\ PipeAvailable(q, rd, wr)
          /\ pipe_fd' = [r |-> rd, w |-> wr]
          /\ fds' = [fds EXCEPT ![Shell] =
                        [@ EXCEPT ![rd] = ReadEnd(q), ![wr] = WriteEnd(q)]]
          /\ buf' = [buf EXCEPT ![q] = 0]
    /\ pc' = "fork"
    /\ UNCHANGED <<line, i, last_pipe_fd, pid, ques, jobs, procVars>>

(* pipe() failed: the command is skipped, last_pipe_fd is left as it was.  *)
PipeFails ==
    /\ pc = "top" /\ Cmd.type = "PIPED"
    /\ \/ "pipe" \in Failures
       \/ ~\E q \in Pipes, rd \in Fd, wr \in Fd : PipeAvailable(q, rd, wr)
    /\ Advance(last_pipe_fd)
    /\ UNCHANGED <<ques, jobs, procVars, fds, buf>>

NeedsNoPipe ==
    /\ pc = "top" /\ ~InShell(Cmd) /\ Cmd.type # "PIPED"
    /\ pc' = "fork"
    /\ UNCHANGED <<line, i, last_pipe_fd, pipe_fd, pid, ques, jobs,
                   procVars, fds, buf>>

(* Mutant: pipe_fd[0] and pipe_fd[1] the wrong way round.                  *)
ChildCallSwapped == [in |-> last_pipe_fd.r, out |-> pipe_fd.r,
                     close1 |-> pipe_fd.w, close2 |-> last_pipe_fd.w,
                     prog |-> Cmd.prog, redir |-> Cmd.redir,
                     jobs |-> IF Cmd.prog = "exit" THEN jobs ELSE {},
                     ques |-> IF Cmd.prog = "exit" THEN ques ELSE 0]

ChildCall == [in |-> last_pipe_fd.r, out |-> pipe_fd.w,
              close1 |-> pipe_fd.r, close2 |-> last_pipe_fd.w,
              prog |-> Cmd.prog, redir |-> Cmd.redir,
              jobs |-> IF Cmd.prog = "exit" THEN jobs ELSE {},
              ques |-> IF Cmd.prog = "exit" THEN ques ELSE 0]

(* execute_single_cmd, in the parent: the child starts with a copy of the  *)
(* shell's descriptors and memory.                                         *)
Fork ==
    /\ pc = "fork"
    /\ \E p \in Pids :
          /\ pstate[p] = "free" /\ \A r \in Pids : pstate[r] = "free" => p <= r
          /\ pid' = p
          /\ pstate' = [pstate EXCEPT ![p] = "forked"]
          /\ call' = [call EXCEPT ![p] = ChildCall]
          /\ todo' = [todo EXCEPT ![p] =
                         IF Cmd.prog \in {"echo", "seq"} THEN Writes ELSE 0]
          /\ wstat' = [wstat EXCEPT ![p] = 0]
          /\ fds' = [fds EXCEPT ![p] = fds[Shell]]
    /\ pc' = "close"
    /\ UNCHANGED <<line, i, last_pipe_fd, pipe_fd, ques, jobs, buf>>

ForkFails ==
    /\ pc = "fork"
    /\ "fork" \in Failures \/ \A p \in Pids : pstate[p] # "free"
    /\ pid' = NoPid /\ pc' = "close"
    /\ UNCHANGED <<line, i, last_pipe_fd, pipe_fd, ques, jobs,
                   procVars, fds, buf>>

(* What follows the close()s of CloseEnds: give up if there is no child,   *)
(* add a job and go on, or wait.                                           *)
AfterFork(last) ==
    IF pid = NoPid
    THEN /\ pc' = "prompt" /\ line' = <<>> /\ i' = 0
         /\ last_pipe_fd' = NoPipe /\ pipe_fd' = NoPipe
         /\ UNCHANGED <<pid, jobs>>
    ELSE IF Cmd.type \in {"PIPED", "BACKGROUND"}
    THEN jobs' = jobs \cup {pid} /\ Advance(last)
    ELSE /\ pc' = "wait" /\ last_pipe_fd' = last
         /\ UNCHANGED <<line, i, pipe_fd, pid, jobs>>

(* Mutants: every child becomes a job; the shell keeps the write end; it   *)
(* keeps the read end; the pipe of an earlier command is not forgotten.    *)
CloseEndsJobForAll ==
    /\ pc = "close"
    /\ fds' = [fds EXCEPT ![Shell] =
                  CloseIf(CloseIf(@, last_pipe_fd.r), pipe_fd.w)]
    /\ IF pid # NoPid /\ Cmd.type \notin {"PIPED", "BACKGROUND"}
       THEN /\ jobs' = jobs \cup {pid} /\ pc' = "wait" /\ last_pipe_fd' = pipe_fd
            /\ UNCHANGED <<line, i, pipe_fd, pid>>
       ELSE AfterFork(pipe_fd)
    /\ UNCHANGED <<ques, procVars, buf>>

CloseEndsKeepsWriter ==
    /\ pc = "close"
    /\ fds' = [fds EXCEPT ![Shell] = CloseIf(@, last_pipe_fd.r)]
    /\ AfterFork(pipe_fd)
    /\ UNCHANGED <<ques, procVars, buf>>

CloseEndsKeepsReader ==
    /\ pc = "close"
    /\ fds' = [fds EXCEPT ![Shell] = CloseIf(@, pipe_fd.w)]
    /\ AfterFork(pipe_fd)
    /\ UNCHANGED <<ques, procVars, buf>>

CloseEndsKeepsLast ==
    /\ pc = "close"
    /\ fds' = [fds EXCEPT ![Shell] =
                  CloseIf(CloseIf(@, last_pipe_fd.r), pipe_fd.w)]
    /\ AfterFork(IF pipe_fd = NoPipe THEN last_pipe_fd ELSE pipe_fd)
    /\ UNCHANGED <<ques, procVars, buf>>

(* The shell drops the ends the child uses and remembers the pipe for the  *)
(* next command.                                                           *)
CloseEnds ==
    /\ pc = "close"
    /\ fds' = [fds EXCEPT ![Shell] =
                  CloseIf(CloseIf(@, last_pipe_fd.r), pipe_fd.w)]
    /\ AfterFork(pipe_fd)
    /\ UNCHANGED <<ques, procVars, buf>>

(* waitpid(pid, &status, 0); ? = status                                    *)
Wait ==
    /\ pc = "wait" /\ pstate[pid] = "zombie"
    /\ ques' = wstat[pid]
    /\ pstate' = [pstate EXCEPT ![pid] = "free"]
    /\ todo' = [todo EXCEPT ![pid] = 0]
    /\ wstat' = [wstat EXCEPT ![pid] = 0]
    /\ Advance(last_pipe_fd)
    /\ UNCHANGED <<jobs, call, fds, buf>>

-----------------------------------------------------------------------------
(* The children                                                            *)

ChildExit(p, st) ==
    /\ Die({p}, [x \in Pids |-> st])
    /\ fds' = ClosedFor({p})

(* Mutants: the closing before the moving; the child keeps the read end of *)
(* the pipe it writes.                                                     *)
PipedCloseFirst(p) ==
    LET c == call[p]
        t == CloseIf(CloseIf(fds[p], c.close1), c.close2)
    IN  Move(Move(t, c.in, 0), c.out, 1)

PipedKeepsReader(p) ==
    LET c == call[p]
        t == Move(Move(fds[p], c.in, 0), c.out, 1)
    IN  CloseIf(t, c.close2)

(* The pipe ends move to 0 and 1, the rest of the two pipes is closed, and *)
(* only then the redirections are applied.                                 *)
Piped(p) ==
    LET c == call[p]
        t == Move(Move(fds[p], c.in, 0), c.out, 1)
    IN  CloseIf(CloseIf(t, c.close1), c.close2)

Redirected(t, redir) ==
    CASE redir = "none" -> t
      [] redir = "in"   -> [t EXCEPT ![0] = Disk]
      [] redir = "out"  -> [t EXCEPT ![1] = Disk]

(* dup2() of a descriptor that is not open                                 *)
DupFails(p) == \/ call[p].in # 0 /\ fds[p][call[p].in] = Closed
               \/ call[p].out # 0 /\ fds[p][call[p].out] = Closed

ChildSetup(p) ==
    /\ pstate[p] = "forked" /\ ~DupFails(p)
    /\ fds' = [fds EXCEPT ![p] = Redirected(Piped(p), call[p].redir)]
    /\ pstate' = [pstate EXCEPT ![p] = "running"]
    /\ UNCHANGED <<shellVars, call, todo, wstat, buf>>

ChildSetupFails(p) ==
    /\ pstate[p] = "forked"
    /\ DupFails(p) \/ ("open" \in Failures /\ call[p].redir # "none")
    /\ ChildExit(p, Exited(1))
    /\ UNCHANGED <<shellVars, buf>>

(* A program that writes.  A pipe nobody can read kills it, a full pipe    *)
(* blocks it.  What a forked builtin printed stays in its stdio buffer     *)
(* unless that is line buffered: _Exit() does not flush it.                *)
Writing(p) ==
    /\ pstate[p] = "running" /\ todo[p] > 0
    /\ call[p].prog = "echo" => LineBuffered

WriteOne(p) ==
    /\ Writing(p)
    /\ \E q \in Pipes :
          /\ fds[p][1] = WriteEnd(q)
          /\ Open(ReadEnd(q)) /\ buf[q] < PipeCap
          /\ buf' = [buf EXCEPT ![q] = @ + 1]
    /\ todo' = [todo EXCEPT ![p] = @ - 1]
    /\ UNCHANGED <<shellVars, pstate, call, wstat, fds>>

WriteElsewhere(p) ==
    /\ Writing(p) /\ \A q \in Pipes : fds[p][1] # WriteEnd(q)
    /\ todo' = [todo EXCEPT ![p] = @ - 1]
    /\ UNCHANGED <<shellVars, pstate, call, wstat, fds, buf>>

BrokenPipe(p) ==
    /\ Writing(p)
    /\ \E q \in Pipes : fds[p][1] = WriteEnd(q) /\ ~Open(ReadEnd(q))
    /\ ChildExit(p, SIGPIPE)
    /\ UNCHANGED <<shellVars, buf>>

(* cat copies one item at a time.                                          *)
ReadOne(p) ==
    /\ pstate[p] = "running" /\ call[p].prog = "cat" /\ todo[p] = 0
    /\ \E q \in Pipes :
          /\ fds[p][0] = ReadEnd(q) /\ buf[q] > 0
          /\ buf' = [buf EXCEPT ![q] = @ - 1]
    /\ todo' = [todo EXCEPT ![p] = 1]
    /\ UNCHANGED <<shellVars, pstate, call, wstat, fds>>

(* A pipe is at its end when it is empty and no write end is open; every   *)
(* other standard input is taken to be at its end.                         *)
AtEof(p) == \A q \in Pipes :
    fds[p][0] = ReadEnd(q) => buf[q] = 0 /\ ~Open(WriteEnd(q))

Finish(p) ==
    /\ pstate[p] = "running"
    /\ \/ call[p].prog = "cat" /\ todo[p] = 0 /\ AtEof(p) /\ ChildExit(p, Exited(0))
       \/ call[p].prog = "seq" /\ todo[p] = 0 /\ ChildExit(p, Exited(0))
       \/ call[p].prog = "echo" /\ (todo[p] = 0 \/ ~LineBuffered)
             /\ ChildExit(p, Exited(0))
       \/ call[p].prog = "cd" /\ \E code \in {0, 1} : ChildExit(p, Exited(code))
       \/ call[p].prog = "nosuch" /\ ChildExit(p, Exited(127))
    /\ UNCHANGED <<shellVars, buf>>

(* Mutant: SIGHUP to the process group.                                    *)
ChildExitPshGroup(p) ==
    /\ pstate[p] = "running" /\ call[p].prog = "exit"
    /\ LET hung == HungUp(Pids) IN
          /\ Die(hung \cup {p},
                 [x \in Pids |-> IF x = p THEN Exited(call[p].ques % 256)
                                 ELSE SIGHUP])
          /\ fds' = ClosedFor(hung \cup {p})
    /\ UNCHANGED <<shellVars, buf>>

(* exit in a forked child is still exit_psh, on the child's copy of the    *)
(* job list.                                                               *)
ChildExitPsh(p) ==
    /\ pstate[p] = "running" /\ call[p].prog = "exit"
    /\ LET hung == HungUp(call[p].jobs) IN
          /\ Die(hung \cup {p},
                 [x \in Pids |-> IF x = p THEN Exited(call[p].ques % 256)
                                 ELSE SIGHUP])
          /\ fds' = ClosedFor(hung \cup {p})
    /\ UNCHANGED <<shellVars, buf>>

-----------------------------------------------------------------------------
RunStep ==
    \/ RunBuiltin \/ BuiltinRedirFails \/ RunExit
    \/ MakePipe \/ PipeFails \/ NeedsNoPipe
    \/ Fork \/ ForkFails \/ CloseEnds \/ Wait

ChildStep(p) ==
    \/ ChildSetup(p) \/ ChildSetupFails(p)
    \/ WriteOne(p) \/ WriteElsewhere(p) \/ BrokenPipe(p)
    \/ ReadOne(p) \/ Finish(p) \/ ChildExitPsh(p)

Next ==
    \/ ReadLine \/ EndOfInput \/ RunStep
    \/ \E p \in Pids : ChildStep(p)

Spec == Init /\ [][Next]_vars

(* The operating system goes on running the shell and every child.  Nobody *)
(* has to type a line.                                                     *)
Fairness ==
    /\ WF_vars(RunStep)
    /\ \A p \in Pids : WF_vars(ChildStep(p))

FairSpec == Spec /\ Fairness

-----------------------------------------------------------------------------
(* The values of the state: only what the code may ever store in it.       *)
TypeOK ==
    /\ pc \in {"prompt", "top", "fork", "close", "wait", "exited"}
    /\ line \in Lines \cup {<<>>}
    /\ i \in Nat
    /\ pc \in {"top", "fork", "close", "wait"} => line \in Lines /\ i \in 1..Len(line)
    /\ last_pipe_fd \in FdPair /\ pipe_fd \in FdPair
    /\ pid \in Pids \cup {NoPid}
    /\ pc = "wait" => pid \in Pids
    /\ ques \in Nat /\ jobs \subseteq Pids
    /\ fds \in [Everyone -> FdTable]
    /\ pstate \in [Pids -> {"free", "forked", "running", "zombie"}]
    /\ call \in [Pids -> Call]
    /\ todo \in [Pids -> Nat]
    /\ wstat \in [Pids -> Nat]
    /\ buf \in [Pipes -> 0..PipeCap]

(* SIGHUP never reaches a recycled process number or the command in the    *)
(* foreground: a number in the job list, or in a child's copy of it, is    *)
(* never handed to waitpid() and so never free for fork() to reuse.        *)
JobPidsUnreaped ==
    /\ \A p \in jobs : pstate[p] # "free"
    /\ \A c \in Pids : \A p \in call[c].jobs : pstate[p] # "free"
    /\ pc \in {"close", "wait"} /\ pid # NoPid =>
          /\ pstate[pid] # "free" /\ pid \notin jobs
          /\ \A c \in Pids : pid \notin call[c].jobs

(* End of file depends on this: the write end of a pipe is held by one     *)
(* child at most, and by the shell only from pipe() to the close() after   *)
(* fork(), when it is pipe_fd[1].                                          *)
OneWriter ==
    \A q \in Pipes :
       /\ \A p1, p2 \in Pids :
             Holds(fds[p1], WriteEnd(q)) /\ Holds(fds[p2], WriteEnd(q)) => p1 = p2
       /\ \A f \in Fd : fds[Shell][f] = WriteEnd(q) =>
             /\ pc \in {"fork", "close"} /\ f = pipe_fd.w
             /\ pc = "fork" => \A p \in Pids : ~Holds(fds[p], WriteEnd(q))

(* The numbers a child is given still name, in its own table, the read end *)
(* and the write end they named in the shell; and once it runs, what it    *)
(* reads can be read and what it writes can be written, however the stale  *)
(* last_pipe_fd[1] it closed had been reused.                              *)
RightEnds ==
    \A p \in Pids :
       /\ pstate[p] = "forked" =>
             /\ call[p].in # 0 => \E q \in Pipes : fds[p][call[p].in] = ReadEnd(q)
             /\ call[p].out # 0 => \E q \in Pipes : fds[p][call[p].out] = WriteEnd(q)
       /\ pstate[p] = "running" =>
             /\ fds[p][0] \in {Tty, Disk} \cup {ReadEnd(q) : q \in Pipes}
             /\ fds[p][1] \in {Tty, Disk} \cup {WriteEnd(q) : q \in Pipes}

(* A running child has no pipe but its own standard input and output: a    *)
(* stray read end would keep the writer from its SIGPIPE, a stray write    *)
(* end the reader from its end of file.                                    *)
NoStrayEnds ==
    \A p \in Pids : pstate[p] = "running" =>
       \A f \in Fd \ {0, 1} : fds[p][f] \in {Tty, Closed}

(* Only the command after a | reads from a pipe.                           *)
StdinFromPredecessor ==
    pc \in {"top", "fork"} /\ last_pipe_fd.r # 0 =>
       i > 1 /\ line[i - 1].type = "PIPED"

(* Between command lines the shell holds no pipe: "Make sure the used fds  *)
(* of the pipe are closed in the main process."                            *)
PipesClosedAtPrompt ==
    pc = "prompt" => \A f \in Fd : fds[Shell][f] \in {Tty, Closed}

(* A command that ended well wrote all it had to write.                    *)
AllOutputWritten ==
    \A p \in Pids : pstate[p] = "zombie" /\ wstat[p] = 0 => todo[p] = 0

(* The command after && runs only if the one before it succeeded.          *)
AndListRunsOnSuccess ==
    pc = "top" /\ i > 1 /\ line[i - 1].type = "RUN_AND" => ques = 0

(* fork() succeeds for a command before a |.                               *)
PipedForkWorks == [][ForkFails => Cmd.type # "PIPED"]_vars

(* SIGHUP only ever kills a process of the job list, whoever runs exit.    *)
HupOnlyJobs ==
    [][\A p \in Pids :
          Alive(p) /\ pstate'[p] = "zombie" /\ wstat'[p] = SIGHUP => p \in jobs]_vars

(* Whatever runs, leaks or fails, the shell comes back to the prompt.      *)
PromptReturns == pc = "top" ~> pc \in {"prompt", "exited"}

(* No command of a pipeline blocks for ever on a pipe nobody will read or  *)
(* nobody will write.                                                      *)
EveryStageEnds == \A p \in Pids : Alive(p) ~> ~Alive(p)
=============================================================================
