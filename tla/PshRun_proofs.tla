---------------------------- MODULE PshRun_proofs ----------------------------
(***************************************************************************)
(* Proofs about PshRun for every set of command lines, processes, pipes    *)
(* and failures.                                                           *)
(***************************************************************************)
EXTENDS PshRun, TLAPS

-----------------------------------------------------------------------------
(* Descriptor tables                                                       *)

LEMMA FdFacts ==
    /\ 0 \in Fd /\ 1 \in Fd /\ 2 \in Fd
    /\ Fd \subseteq Nat
    /\ Closed \in File /\ Tty \in File /\ Disk \in File
    /\ \A q \in Pipes : ReadEnd(q) \in File /\ WriteEnd(q) \in File
    /\ TtyTable \in FdTable /\ ClosedTable \in FdTable
    /\ NoPipe \in FdPair
BY KernelAssumption DEF Fd, File, ReadEnd, WriteEnd, TtyTable, ClosedTable,
                        FdTable, NoPipe, FdPair

LEMMA CloseIfType ==
    ASSUME NEW t \in FdTable, NEW f \in Fd
    PROVE  CloseIf(t, f) \in FdTable
BY FdFacts DEF CloseIf, Close, FdTable

LEMMA MoveType ==
    ASSUME NEW t \in FdTable, NEW from \in Fd, NEW to \in Fd
    PROVE  Move(t, from, to) \in FdTable
BY FdFacts DEF Move, FdTable

LEMMA ClosedForType ==
    ASSUME fds \in [Everyone -> FdTable], NEW ps
    PROVE  ClosedFor(ps) \in [Everyone -> FdTable]
BY FdFacts DEF ClosedFor

LEMMA NoCallType == NoCall \in Call
BY FdFacts DEF NoCall, Call, Builtins, Programs, Redir

LEMMA DieType ==
    ASSUME TypeOK, NEW ps, NEW st \in [Pids -> Nat], Die(ps, st)
    PROVE  /\ pstate' \in [Pids -> {"free", "forked", "running", "zombie"}]
           /\ wstat' \in [Pids -> Nat]
           /\ call' \in [Pids -> Call]
           /\ todo' \in [Pids -> Nat]
BY NoCallType DEF TypeOK, Die

(* The variables Advance writes keep their types.                          *)
LoopType ==
    /\ pc \in {"prompt", "top", "fork", "close", "wait", "exited"}
    /\ line \in Lines \cup {<<>>}
    /\ i \in Nat
    /\ pc \in {"top", "fork", "close", "wait"} => line \in Lines /\ i \in 1..Len(line)
    /\ last_pipe_fd \in FdPair /\ pipe_fd \in FdPair
    /\ pid \in Pids \cup {NoPid}
    /\ pc = "wait" => pid \in Pids

LEMMA LenType == ASSUME NEW l \in Lines PROVE Len(l) \in Nat
BY RunAssumption, Z3 DEF Command

LEMMA CmdType1 ==
    ASSUME TypeOK, pc \in {"top", "fork", "close", "wait"}
    PROVE  Cmd \in Command
BY RunAssumption DEF TypeOK, Cmd

LEMMA AdvanceType ==
    ASSUME TypeOK, pc \in {"top", "fork", "close", "wait"},
           NEW last \in FdPair, Advance(last)
    PROVE  LoopType'
<1>1. line \in Lines /\ i \in 1..Len(line) /\ Len(line) \in Nat
  BY LenType DEF TypeOK
<1>2. CASE i < Len(line)
  BY <1>1, <1>2, FdFacts DEF Advance, LoopType, TypeOK
<1>3. CASE ~(i < Len(line))
  BY <1>1, <1>3, FdFacts DEF Advance, LoopType, TypeOK
<1>4. QED BY <1>2, <1>3

-----------------------------------------------------------------------------
(* TypeOK                                                                  *)

LEMMA InitType == Init => TypeOK
<1> SUFFICES ASSUME Init PROVE TypeOK
  OBVIOUS
<1>1. LoopType
  BY FdFacts DEF Init, LoopType
<1>2. fds \in [Everyone -> FdTable]
  BY FdFacts DEF Init
<1>3. call \in [Pids -> Call]
  BY NoCallType DEF Init
<1>4. /\ ques \in Nat /\ jobs \subseteq Pids
      /\ pstate \in [Pids -> {"free", "forked", "running", "zombie"}]
      /\ todo \in [Pids -> Nat] /\ wstat \in [Pids -> Nat]
  BY DEF Init
<1>5. buf \in [Pipes -> 0..PipeCap]
  BY RunAssumption DEF Init
<1> QED BY <1>1, <1>2, <1>3, <1>4, <1>5 DEF TypeOK, LoopType

(* The parts of TypeOK that are not LoopType                               *)
ProcType ==
    /\ pstate \in [Pids -> {"free", "forked", "running", "zombie"}]
    /\ call \in [Pids -> Call]
    /\ todo \in [Pids -> Nat]
    /\ wstat \in [Pids -> Nat]

LEMMA TypeParts ==
    TypeOK <=> /\ LoopType /\ ProcType
               /\ ques \in Nat /\ jobs \subseteq Pids
               /\ fds \in [Everyone -> FdTable]
               /\ buf \in [Pipes -> 0..PipeCap]
BY DEF TypeOK, LoopType, ProcType

LEMMA TypePartsNext ==
    TypeOK' <=> /\ LoopType' /\ ProcType'
                /\ ques' \in Nat /\ jobs' \subseteq Pids
                /\ fds' \in [Everyone -> FdTable]
                /\ buf' \in [Pipes -> 0..PipeCap]
BY DEF TypeOK, LoopType, ProcType

LEMMA ExitPshType ==
    ASSUME TypeOK, ExitPsh
    PROVE  TypeOK'
<1>1. LoopType'
  BY FdFacts DEF ExitPsh, LoopType
<1>2. ProcType'
  <2>1. [p \in Pids |-> SIGHUP] \in [Pids -> Nat]
    BY DEF SIGHUP
  <2> QED BY <2>1, DieType DEF ExitPsh, ProcType
<1>3. fds' \in [Everyone -> FdTable]
  BY ClosedForType DEF ExitPsh, TypeOK
<1>4. ques' \in Nat /\ jobs' \subseteq Pids /\ buf' \in [Pipes -> 0..PipeCap]
  BY DEF ExitPsh, TypeOK
<1> QED BY <1>1, <1>2, <1>3, <1>4, TypeParts, TypePartsNext

LEMMA ChildExitType ==
    ASSUME TypeOK, NEW p \in Pids, NEW st \in Nat, ChildExit(p, st),
           UNCHANGED <<shellVars, buf>>
    PROVE  TypeOK'
<1>1. ProcType'
  <2>1. [x \in Pids |-> st] \in [Pids -> Nat]
    OBVIOUS
  <2> QED BY <2>1, DieType DEF ChildExit, ProcType
<1>2. fds' \in [Everyone -> FdTable]
  BY ClosedForType DEF ChildExit, TypeOK
<1>3. LoopType' /\ ques' \in Nat /\ jobs' \subseteq Pids /\ buf' \in [Pipes -> 0..PipeCap]
  BY DEF TypeOK, LoopType, shellVars
<1> QED BY <1>1, <1>2, <1>3, TypeParts, TypePartsNext

LEMMA RunStepType ==
    ASSUME TypeOK, RunStep
    PROVE  TypeOK'
<1> USE TypeParts, TypePartsNext
<1>1. CASE RunBuiltin
  <2>1. LoopType'
    BY <1>1, AdvanceType DEF RunBuiltin, TypeOK
  <2> QED BY <1>1, <2>1 DEF RunBuiltin, ProcType, procVars
<1>2. CASE BuiltinRedirFails
  <2>1. LoopType'
    BY <1>2, AdvanceType DEF BuiltinRedirFails, TypeOK
  <2> QED BY <1>2, <2>1 DEF BuiltinRedirFails, ProcType, procVars
<1>3. CASE RunExit
  BY <1>3, ExitPshType DEF RunExit
<1>4. CASE MakePipe
  <2> PICK q \in Pipes, rd \in Fd, wr \in Fd :
        /\ pipe_fd' = [r |-> rd, w |-> wr]
        /\ fds' = [fds EXCEPT ![Shell] =
                      [@ EXCEPT ![rd] = ReadEnd(q), ![wr] = WriteEnd(q)]]
        /\ buf' = [buf EXCEPT ![q] = 0]
    BY <1>4 DEF MakePipe
  <2>1. pipe_fd' \in FdPair
    BY DEF FdPair
  <2>2. LoopType'
    BY <1>4, <2>1 DEF MakePipe, LoopType
  <2>3. fds' \in [Everyone -> FdTable]
    BY FdFacts DEF FdTable, Everyone
  <2>4. buf' \in [Pipes -> 0..PipeCap]
    BY RunAssumption
  <2> QED BY <1>4, <2>2, <2>3, <2>4 DEF MakePipe, ProcType, procVars
<1>5. CASE PipeFails
  <2>1. LoopType'
    BY <1>5, AdvanceType DEF PipeFails, TypeOK
  <2> QED BY <1>5, <2>1 DEF PipeFails, ProcType, procVars
<1>6. CASE NeedsNoPipe
  <2>1. LoopType'
    BY <1>6 DEF NeedsNoPipe, LoopType
  <2> QED BY <1>6, <2>1 DEF NeedsNoPipe, ProcType, procVars
<1>7. CASE Fork
  <2> PICK p \in Pids :
        /\ pid' = p
        /\ pstate' = [pstate EXCEPT ![p] = "forked"]
        /\ call' = [call EXCEPT ![p] = ChildCall]
        /\ todo' = [todo EXCEPT ![p] =
                       IF Cmd.prog \in {"echo", "seq"} THEN Writes ELSE 0]
        /\ wstat' = [wstat EXCEPT ![p] = 0]
        /\ fds' = [fds EXCEPT ![p] = fds[Shell]]
    BY <1>7 DEF Fork
  <2>1. LoopType'
    BY <1>7 DEF Fork, LoopType
  <2>2. ChildCall \in Call
    <3>1. Cmd.prog \in Builtins \cup Programs /\ Cmd.redir \in Redir
      BY <1>7, CmdType1 DEF Fork, Command
    <3> QED BY <3>1 DEF ChildCall, Call, LoopType, FdPair
  <2>3. ProcType'
    BY <2>2, RunAssumption DEF ProcType
  <2>4. fds' \in [Everyone -> FdTable]
    BY DEF Everyone
  <2> QED BY <1>7, <2>1, <2>3, <2>4 DEF Fork
<1>8. CASE ForkFails
  <2>1. LoopType'
    BY <1>8 DEF ForkFails, LoopType
  <2> QED BY <1>8, <2>1 DEF ForkFails, ProcType, procVars
<1>9. CASE CloseEnds
  <2>1. last_pipe_fd.r \in Fd /\ pipe_fd.w \in Fd
    BY DEF LoopType, FdPair
  <2>2. fds' \in [Everyone -> FdTable]
    BY <1>9, <2>1, CloseIfType DEF CloseEnds, Everyone
  <2>3. LoopType' /\ jobs' \subseteq Pids
    <3>1. CASE pid = NoPid
      BY <1>9, <3>1, FdFacts DEF CloseEnds, AfterFork, LoopType
    <3>2. CASE pid # NoPid /\ Cmd.type \in {"PIPED", "BACKGROUND"}
      <4>1. Advance(pipe_fd) /\ jobs' = jobs \cup {pid}
        BY <1>9, <3>2 DEF CloseEnds, AfterFork
      <4>2. LoopType'
        BY <1>9, <4>1, AdvanceType DEF CloseEnds, LoopType
      <4> QED BY <3>2, <4>1, <4>2 DEF LoopType
    <3>3. CASE pid # NoPid /\ Cmd.type \notin {"PIPED", "BACKGROUND"}
      BY <1>9, <3>3 DEF CloseEnds, AfterFork, LoopType
    <3> QED BY <3>1, <3>2, <3>3
  <2> QED BY <1>9, <2>2, <2>3 DEF CloseEnds, ProcType, procVars
<1>10. CASE Wait
  <2>1. pid \in Pids
    BY <1>10 DEF Wait, LoopType
  <2>2. LoopType'
    BY <1>10, AdvanceType DEF Wait, LoopType
  <2>3. ProcType' /\ ques' \in Nat
    BY <1>10, <2>1 DEF Wait, ProcType
  <2> QED BY <1>10, <2>2, <2>3 DEF Wait
<1> QED BY <1>1, <1>2, <1>3, <1>4, <1>5, <1>6, <1>7, <1>8, <1>9, <1>10 DEF RunStep

LEMMA ChildStepType ==
    ASSUME TypeOK, NEW p \in Pids, ChildStep(p)
    PROVE  TypeOK'
<1> USE TypeParts, TypePartsNext
<1>0. /\ fds[p] \in FdTable /\ call[p] \in Call /\ call[p].in \in Fd /\ call[p].out \in Fd
      /\ call[p].close1 \in Fd /\ call[p].close2 \in Fd /\ call[p].redir \in Redir
      /\ call[p].ques \in Nat
  BY DEF ProcType, Everyone, Call
<1>0a. UNCHANGED shellVars
  BY DEF ChildStep, ChildSetup, ChildSetupFails, WriteOne, WriteElsewhere, BrokenPipe,
         ReadOne, Finish, ChildExitPsh
<1>0b. LoopType' /\ ques' \in Nat /\ jobs' \subseteq Pids
  BY <1>0a DEF shellVars, LoopType
<1>1. CASE ChildSetup(p)
  <2>1. Piped(p) \in FdTable
    BY <1>0, FdFacts, MoveType, CloseIfType DEF Piped
  <2>2. Redirected(Piped(p), call[p].redir) \in FdTable
    BY <1>0, <2>1, FdFacts DEF Redirected, Redir, FdTable
  <2>3. fds' \in [Everyone -> FdTable]
    BY <1>1, <2>2 DEF ChildSetup, Everyone
  <2>4. ProcType'
    BY <1>1 DEF ChildSetup, ProcType
  <2> QED BY <1>0b, <1>1, <2>3, <2>4 DEF ChildSetup
<1>2. CASE ChildSetupFails(p)
  BY <1>2, ChildExitType DEF ChildSetupFails, Exited
<1>3. CASE WriteOne(p)
  <2> PICK q \in Pipes : buf[q] < PipeCap /\ buf' = [buf EXCEPT ![q] = @ + 1]
    BY <1>3 DEF WriteOne
  <2>1. buf' \in [Pipes -> 0..PipeCap]
    BY RunAssumption
  <2>2. ProcType'
    BY <1>3 DEF WriteOne, Writing, ProcType
  <2> QED BY <1>0b, <1>3, <2>1, <2>2 DEF WriteOne
<1>4. CASE WriteElsewhere(p)
  <2>1. ProcType'
    BY <1>4 DEF WriteElsewhere, Writing, ProcType
  <2> QED BY <1>0b, <1>4, <2>1 DEF WriteElsewhere
<1>5. CASE BrokenPipe(p)
  BY <1>5, ChildExitType DEF BrokenPipe, SIGPIPE
<1>6. CASE ReadOne(p)
  <2> PICK q \in Pipes : buf[q] > 0 /\ buf' = [buf EXCEPT ![q] = @ - 1]
    BY <1>6 DEF ReadOne
  <2>1. buf' \in [Pipes -> 0..PipeCap]
    BY RunAssumption
  <2>2. ProcType'
    BY <1>6 DEF ReadOne, ProcType
  <2> QED BY <1>0b, <1>6, <2>1, <2>2 DEF ReadOne
<1>7. CASE Finish(p)
  <2>1. PICK code \in {0, 1, 127} : ChildExit(p, Exited(code))
    BY <1>7 DEF Finish
  <2>2. Exited(code) \in Nat
    BY DEF Exited
  <2> QED BY <1>7, <2>1, <2>2, ChildExitType DEF Finish
<1>8. CASE ChildExitPsh(p)
  <2> DEFINE hung == HungUp(call[p].jobs)
             st == [x \in Pids |-> IF x = p THEN Exited(call[p].ques % 256) ELSE SIGHUP]
  <2>1. st \in [Pids -> Nat]
    BY <1>0 DEF Exited, SIGHUP
  <2>2. Die(hung \cup {p}, st) /\ fds' = ClosedFor(hung \cup {p})
    BY <1>8 DEF ChildExitPsh
  <2> HIDE DEF hung, st
  <2>3. ProcType'
    BY <2>1, <2>2, DieType DEF ProcType
  <2>4. fds' \in [Everyone -> FdTable]
    BY <2>2, ClosedForType
  <2> QED BY <1>0b, <1>8, <2>3, <2>4 DEF ChildExitPsh
<1> QED BY <1>1, <1>2, <1>3, <1>4, <1>5, <1>6, <1>7, <1>8 DEF ChildStep

LEMMA TypeInductive == TypeOK /\ [Next]_vars => TypeOK'
<1> SUFFICES ASSUME TypeOK, [Next]_vars PROVE TypeOK'
  OBVIOUS
<1>1. CASE ReadLine
  <2>1. PICK l \in Lines : line' = l
    BY <1>1 DEF ReadLine
  <2>2. l # <<>> /\ Len(l) \in Nat /\ 1 \in 1..Len(l)
    <3>1. l \in Seq(Command) /\ l # <<>>
      BY RunAssumption
    <3> QED BY <3>1
  <2>3. LoopType'
    BY <1>1, <2>1, <2>2, TypeParts, TypePartsNext DEF ReadLine, LoopType
  <2> QED BY <1>1, <2>3, TypeParts, TypePartsNext DEF ReadLine, ProcType, procVars
<1>2. CASE EndOfInput
  BY <1>2, ExitPshType DEF EndOfInput
<1>3. CASE RunStep
  BY <1>3, RunStepType
<1>4. CASE \E p \in Pids : ChildStep(p)
  BY <1>4, ChildStepType
<1>5. CASE UNCHANGED vars
  BY <1>5, TypeParts, TypePartsNext DEF vars, shellVars, procVars, LoopType, ProcType
<1> QED BY <1>1, <1>2, <1>3, <1>4, <1>5 DEF Next

(* Every state variable of the model keeps to its values: the loop of      *)
(* psh_backend_do_run never leaves its list, whatever fails.               *)
THEOREM TypeCorrect == Spec => []TypeOK
<1>1. QED BY InitType, TypeInductive, PTL DEF Spec

-----------------------------------------------------------------------------
(* Process numbers                                                         *)

(* What a step does to the processes it does not start: their numbers stay *)
(* taken, their calls stay or are dropped.                                 *)
LEMMA DieFrame ==
    ASSUME TypeOK, NEW ps, NEW st, Die(ps, st)
    PROVE  \A x \in Pids :
              /\ pstate[x] # "free" => pstate'[x] # "free"
              /\ call'[x].jobs \subseteq call[x].jobs
BY DEF TypeOK, Die, NoCall

LEMMA ChildFrame ==
    ASSUME TypeOK, NEW p \in Pids, ChildStep(p)
    PROVE  /\ UNCHANGED shellVars
           /\ \A x \in Pids :
                 /\ pstate[x] # "free" => pstate'[x] # "free"
                 /\ call'[x].jobs \subseteq call[x].jobs
<1>1. UNCHANGED shellVars
  BY DEF ChildStep, ChildSetup, ChildSetupFails, WriteOne, WriteElsewhere, BrokenPipe,
         ReadOne, Finish, ChildExitPsh
<1>2. CASE \E ps, st : Die(ps, st)
  BY <1>1, <1>2, DieFrame
<1>3. CASE ~\E ps, st : Die(ps, st)
  <2>1. ~ChildExitPsh(p)
    BY <1>3 DEF ChildExitPsh
  <2>2. ~ChildSetupFails(p) /\ ~BrokenPipe(p) /\ ~Finish(p)
    BY <1>3 DEF ChildSetupFails, BrokenPipe, Finish, ChildExit
  <2>3. ChildSetup(p) \/ WriteOne(p) \/ WriteElsewhere(p) \/ ReadOne(p)
    BY <2>1, <2>2 DEF ChildStep
  <2> QED BY <1>1, <2>3 DEF TypeOK, ChildSetup, WriteOne, WriteElsewhere, ReadOne
<1> QED BY <1>2, <1>3

LEMMA ExitFrame ==
    ASSUME TypeOK, ExitPsh
    PROVE  \A x \in Pids :
              /\ pstate[x] # "free" => pstate'[x] # "free"
              /\ call'[x].jobs \subseteq call[x].jobs
BY DieFrame DEF ExitPsh

LEMMA JobsInductive ==
    TypeOK /\ JobPidsUnreaped /\ [Next]_vars => JobPidsUnreaped'
<1> SUFFICES ASSUME TypeOK, JobPidsUnreaped, [Next]_vars PROVE JobPidsUnreaped'
  OBVIOUS
<1> USE DEF JobPidsUnreaped
<1>1. CASE ReadLine
  BY <1>1 DEF ReadLine, procVars
<1>2. CASE EndOfInput \/ RunExit
  <2>1. ExitPsh
    BY <1>2 DEF EndOfInput, RunExit
  <2>2. \A c \in Pids : call[c].jobs \subseteq Pids
    BY DEF TypeOK, Call
  <2> QED BY <2>1, <2>2, ExitFrame DEF ExitPsh
<1>3. CASE RunBuiltin \/ BuiltinRedirFails \/ PipeFails
  BY <1>3 DEF RunBuiltin, BuiltinRedirFails, PipeFails, Advance, procVars
<1>4. CASE MakePipe \/ NeedsNoPipe
  BY <1>4 DEF MakePipe, NeedsNoPipe, procVars
<1>5. CASE Fork
  <2> PICK p \in Pids :
        /\ pstate[p] = "free"
        /\ pid' = p
        /\ pstate' = [pstate EXCEPT ![p] = "forked"]
        /\ call' = [call EXCEPT ![p] = ChildCall]
    BY <1>5 DEF Fork
  <2>1. ChildCall.jobs \subseteq jobs
    BY DEF ChildCall
  <2>2. p \notin jobs /\ \A c \in Pids : p \notin call[c].jobs
    OBVIOUS
  <2>3. \A c \in Pids : call'[c].jobs = IF c = p THEN ChildCall.jobs ELSE call[c].jobs
    BY DEF TypeOK
  <2>4. \A x \in Pids : pstate[x] # "free" => pstate'[x] # "free"
    BY DEF TypeOK
  <2>5. pstate'[p] # "free" /\ jobs' = jobs
    BY <1>5 DEF TypeOK, Fork
  <2>6. \A c \in Pids : \A x \in call'[c].jobs : x \in Pids /\ pstate[x] # "free" /\ x # p
    BY <2>1, <2>2, <2>3 DEF TypeOK, Call
  <2> QED BY <1>5, <2>2, <2>4, <2>5, <2>6 DEF TypeOK
<1>6. CASE ForkFails
  BY <1>6 DEF ForkFails, procVars
<1>7. CASE CloseEnds
  <2>1. UNCHANGED procVars /\ AfterFork(pipe_fd) /\ pc = "close"
    BY <1>7 DEF CloseEnds
  <2>2. CASE pid = NoPid
    BY <2>1, <2>2 DEF AfterFork, procVars
  <2>3. CASE pid # NoPid /\ Cmd.type \in {"PIPED", "BACKGROUND"}
    <3>1. jobs' = jobs \cup {pid} /\ pc' \in {"top", "prompt"}
      BY <2>1, <2>3 DEF AfterFork, Advance
    <3> QED BY <2>1, <2>3, <3>1 DEF procVars
  <2>4. CASE pid # NoPid /\ Cmd.type \notin {"PIPED", "BACKGROUND"}
    BY <2>1, <2>4 DEF AfterFork, procVars
  <2> QED BY <2>2, <2>3, <2>4
<1>8. CASE Wait
  <2>1. pid \in Pids /\ pid # NoPid /\ pc = "wait"
    BY <1>8, RunAssumption DEF Wait, TypeOK
  <2>2. pc' \in {"top", "prompt"} /\ jobs' = jobs /\ call' = call
    BY <1>8 DEF Wait, Advance
  <2>3. \A x \in Pids : x # pid => pstate'[x] = pstate[x]
    BY <1>8 DEF Wait, TypeOK
  <2> QED BY <2>1, <2>2, <2>3 DEF TypeOK, Call
<1>9. CASE \E p \in Pids : ChildStep(p)
  <2>1. /\ UNCHANGED shellVars
        /\ \A x \in Pids : /\ pstate[x] # "free" => pstate'[x] # "free"
                           /\ call'[x].jobs \subseteq call[x].jobs
    BY <1>9, ChildFrame
  <2>2. \A c \in Pids : call[c].jobs \subseteq Pids
    BY DEF TypeOK, Call
  <2>3. pc = pc' /\ pid = pid' /\ jobs = jobs'
    BY <2>1 DEF shellVars
  <2> QED BY <2>1, <2>2, <2>3 DEF TypeOK
<1>10. CASE UNCHANGED vars
  BY <1>10 DEF vars, shellVars, procVars
<1> QED BY <1>1, <1>2, <1>3, <1>4, <1>5, <1>6, <1>7, <1>8, <1>9, <1>10 DEF Next, RunStep

(* A number in the job list, or in a copy of it, is never free: no SIGHUP  *)
(* meets a process that is not the job's.                                  *)
THEOREM JobPidsStayTaken == Spec => []JobPidsUnreaped
<1>1. Init => JobPidsUnreaped
  BY DEF Init, JobPidsUnreaped, NoCall
<1> QED BY <1>1, TypeCorrect, JobsInductive, PTL DEF Spec

-----------------------------------------------------------------------------
(* SIGHUP                                                                  *)

(* A child's copy of the job list names no process that is alive and not   *)
(* in the shell's own list, even after the shell has exited and freed it.  *)
CopiesAreJobs ==
    \A c \in Pids : \A p \in call[c].jobs : Alive(p) => p \in jobs

(* No process but a new one comes to life.                                 *)
LEMMA NoneRevived ==
    ASSUME TypeOK, [Next]_vars, ~Fork
    PROVE  \A x \in Pids : pstate'[x] \in {"forked", "running"} =>
                              pstate[x] \in {"forked", "running"}
<1>1. CASE \E ps, st : Die(ps, st)
  BY <1>1 DEF Die
<1>2. CASE ~\E ps, st : Die(ps, st)
  <2>1. ~ExitPsh /\ \A p \in Pids : ~ChildExitPsh(p)
    BY <1>2 DEF ChildExitPsh, ExitPsh
  <2>2. \A p \in Pids : ~ChildSetupFails(p) /\ ~BrokenPipe(p) /\ ~Finish(p)
    BY <1>2 DEF ChildSetupFails, BrokenPipe, Finish, ChildExit
  <2>3. CASE \E p \in Pids : ChildStep(p)
    <3> PICK p \in Pids : ChildSetup(p) \/ WriteOne(p) \/ WriteElsewhere(p) \/ ReadOne(p)
      BY <2>1, <2>2, <2>3 DEF ChildStep
    <3> QED BY DEF TypeOK, ChildSetup, WriteOne, WriteElsewhere, ReadOne
  <2>4. CASE Wait
    <3>1. pid \in Pids
      BY <2>4 DEF Wait, TypeOK
    <3> QED BY <2>4, <3>1 DEF TypeOK, Wait
  <2>5. CASE ReadLine \/ RunBuiltin \/ BuiltinRedirFails \/ MakePipe \/ PipeFails
             \/ NeedsNoPipe \/ ForkFails \/ CloseEnds \/ UNCHANGED vars
    BY <2>5 DEF ReadLine, RunBuiltin, BuiltinRedirFails, MakePipe, PipeFails,
                NeedsNoPipe, ForkFails, CloseEnds, vars, procVars
  <2> QED BY <2>1, <2>3, <2>4, <2>5 DEF Next, RunStep, EndOfInput, RunExit
<1> QED BY <1>1, <1>2

LEMMA CopiesInductive ==
    TypeOK /\ JobPidsUnreaped /\ CopiesAreJobs /\ [Next]_vars => CopiesAreJobs'
<1> SUFFICES ASSUME TypeOK, JobPidsUnreaped, CopiesAreJobs, [Next]_vars
             PROVE  CopiesAreJobs'
  OBVIOUS
<1>0. \A c \in Pids : call[c].jobs \subseteq Pids
  BY DEF TypeOK, Call
<1>1. CASE Fork
  <2> PICK p \in Pids :
        /\ pstate[p] = "free"
        /\ pstate' = [pstate EXCEPT ![p] = "forked"]
        /\ call' = [call EXCEPT ![p] = ChildCall]
    BY <1>1 DEF Fork
  <2>1. \A c \in Pids : p \notin call[c].jobs
    BY DEF JobPidsUnreaped
  <2>2. \A c \in Pids : call'[c].jobs \subseteq call[c].jobs \cup jobs
    BY DEF TypeOK, ChildCall
  <2>3. \A x \in Pids : x # p => pstate'[x] = pstate[x]
    BY DEF TypeOK
  <2>4. p \notin jobs /\ jobs' = jobs /\ jobs \subseteq Pids
    BY <1>1 DEF Fork, JobPidsUnreaped, TypeOK
  <2> QED BY <1>0, <2>1, <2>2, <2>3, <2>4 DEF CopiesAreJobs, Alive
<1>2. CASE ExitPsh
  <2>2. \A x \in Pids : pstate'[x] = IF x \in HungUp(jobs) THEN "zombie" ELSE pstate[x]
    BY <1>2 DEF ExitPsh, Die
  <2>3. \A x \in jobs : ~(pstate'[x] \in {"forked", "running"})
    BY <2>2 DEF HungUp, Alive, TypeOK
  <2>4. \A x \in Pids : pstate'[x] \in {"forked", "running"} =>
                           pstate[x] \in {"forked", "running"}
    BY <2>2
  <2> QED BY <1>0, <1>2, <2>3, <2>4, ExitFrame DEF CopiesAreJobs, Alive
<1>3. CASE ~Fork /\ ~ExitPsh
  <2>1. jobs \subseteq jobs'
    <3>1. CASE \E p \in Pids : ChildStep(p)
      BY <3>1, ChildFrame DEF shellVars
    <3>2. CASE CloseEnds
      BY <3>2 DEF CloseEnds, AfterFork
    <3>3. CASE ReadLine \/ RunBuiltin \/ BuiltinRedirFails \/ MakePipe \/ PipeFails
               \/ NeedsNoPipe \/ ForkFails \/ Wait \/ UNCHANGED vars
      BY <3>3 DEF ReadLine, RunBuiltin, BuiltinRedirFails, MakePipe, PipeFails,
                  NeedsNoPipe, ForkFails, Wait, vars, shellVars
    <3> QED BY <1>3, <3>1, <3>2, <3>3 DEF Next, RunStep, EndOfInput, RunExit
  <2>2. \A c \in Pids : call'[c].jobs \subseteq call[c].jobs
    <3>1. CASE \E p \in Pids : ChildStep(p)
      BY <3>1, ChildFrame
    <3>2. CASE ReadLine \/ RunBuiltin \/ BuiltinRedirFails \/ MakePipe \/ PipeFails
               \/ NeedsNoPipe \/ ForkFails \/ CloseEnds \/ Wait \/ UNCHANGED vars
      BY <3>2 DEF ReadLine, RunBuiltin, BuiltinRedirFails, MakePipe, PipeFails,
                  NeedsNoPipe, ForkFails, CloseEnds, Wait, vars, procVars
    <3> QED BY <1>3, <3>1, <3>2 DEF Next, RunStep, EndOfInput, RunExit
  <2>3. \A x \in Pids : pstate'[x] \in {"forked", "running"} =>
                           pstate[x] \in {"forked", "running"}
    BY <1>3, NoneRevived
  <2> SUFFICES ASSUME NEW c \in Pids, NEW p \in call'[c].jobs,
                      pstate'[p] \in {"forked", "running"}
               PROVE  p \in jobs'
    BY DEF CopiesAreJobs, Alive
  <2>4. p \in call[c].jobs /\ p \in Pids
    BY <1>0, <2>2
  <2>5. pstate[p] \in {"forked", "running"}
    BY <2>3, <2>4
  <2> QED BY <2>1, <2>4, <2>5 DEF CopiesAreJobs, Alive
<1> QED BY <1>1, <1>2, <1>3

(* A step that kills with SIGHUP kills jobs only.                          *)
LEMMA HupStep ==
    ASSUME TypeOK, CopiesAreJobs, [Next]_vars,
           NEW p \in Pids, Alive(p), pstate'[p] = "zombie", wstat'[p] = SIGHUP
    PROVE  p \in jobs
<1>1. CASE ExitPsh
  <2>1. pstate'[p] = IF p \in HungUp(jobs) THEN "zombie" ELSE pstate[p]
    BY <1>1 DEF ExitPsh, Die
  <2> QED BY <2>1 DEF HungUp, Alive
<1>2. CASE \E c \in Pids : ChildExitPsh(c)
  <2> PICK c \in Pids : ChildExitPsh(c)
    BY <1>2
  <2> DEFINE hung == HungUp(call[c].jobs)
             st == [x \in Pids |-> IF x = c THEN Exited(call[c].ques % 256) ELSE SIGHUP]
  <2>1. Die(hung \cup {c}, st)
    BY DEF ChildExitPsh
  <2>2. p \in hung \cup {c}
    BY <2>1 DEF Die, Alive
  <2> HIDE DEF hung, st
  <2>3. wstat'[p] = st[p]
    BY <2>1, <2>2 DEF Die
  <2> USE DEF hung, st
  <2>4. CASE p = c
    <3>1. call[c].ques \in Nat
      BY DEF TypeOK, Call
    <3>2. Exited(call[c].ques % 256) # SIGHUP
      BY <3>1 DEF Exited, SIGHUP
    <3> QED BY <2>3, <2>4, <3>2
  <2>5. CASE p # c
    BY <2>2, <2>5 DEF HungUp, CopiesAreJobs
  <2> QED BY <2>4, <2>5
<1>3. CASE \E c \in Pids, st \in Nat : ChildExit(c, st) /\ st # SIGHUP
  <2> PICK c \in Pids, st \in Nat : ChildExit(c, st) /\ st # SIGHUP
    BY <1>3
  <2>1. pstate'[p] = (IF p \in {c} THEN "zombie" ELSE pstate[p])
        /\ wstat'[p] = (IF p \in {c} THEN st ELSE wstat[p])
    BY DEF ChildExit, Die
  <2> QED BY <2>1 DEF Alive
<1>4. CASE \/ ~ExitPsh /\ ~\E c \in Pids : ChildStep(c)
           \/ \E c \in Pids : ChildSetup(c) \/ WriteOne(c) \/ WriteElsewhere(c) \/ ReadOne(c)
  <2>1. pstate'[p] # "zombie"
    <3>1. CASE \E c \in Pids : ChildSetup(c) \/ WriteOne(c) \/ WriteElsewhere(c) \/ ReadOne(c)
      BY <3>1 DEF TypeOK, ChildSetup, WriteOne, WriteElsewhere, ReadOne, Alive
    <3>2. CASE Fork \/ Wait
      BY <3>2 DEF Fork, Wait, TypeOK, Alive
    <3>3. CASE ReadLine \/ RunBuiltin \/ BuiltinRedirFails \/ MakePipe \/ PipeFails
               \/ NeedsNoPipe \/ ForkFails \/ CloseEnds \/ UNCHANGED vars
      BY <3>3 DEF ReadLine, RunBuiltin, BuiltinRedirFails, MakePipe, PipeFails,
                  NeedsNoPipe, ForkFails, CloseEnds, vars, procVars, Alive
    <3> QED BY <1>4, <3>1, <3>2, <3>3 DEF Next, RunStep, EndOfInput, RunExit
  <2> QED BY <2>1
<1>5. ASSUME NEW c \in Pids, ChildStep(c) PROVE p \in jobs
  <2>1. CASE ChildSetupFails(c) \/ BrokenPipe(c) \/ Finish(c)
    <3>1. \E st \in {Exited(1), SIGPIPE, Exited(0), Exited(127)} : ChildExit(c, st)
      BY <2>1 DEF ChildSetupFails, BrokenPipe, Finish
    <3>2. \A st \in {Exited(1), SIGPIPE, Exited(0), Exited(127)} : st \in Nat /\ st # SIGHUP
      BY DEF Exited, SIGPIPE, SIGHUP
    <3> QED BY <1>3, <3>1, <3>2
  <2> QED BY <1>2, <1>4, <1>5, <2>1 DEF ChildStep
<1> QED BY <1>1, <1>4, <1>5

(* Whoever runs exit_psh, the shell or a child with an old copy of the job *)
(* list, SIGHUP kills only processes of the shell's job list.              *)
THEOREM SighupOnlyJobs == Spec => HupOnlyJobs
<1>1. Init => CopiesAreJobs
  BY DEF Init, CopiesAreJobs, NoCall
<1>2. Spec => []CopiesAreJobs
  BY <1>1, TypeCorrect, JobPidsStayTaken, CopiesInductive, PTL DEF Spec
<1>3. TypeOK /\ CopiesAreJobs /\ [Next]_vars =>
        [\A p \in Pids : Alive(p) /\ pstate'[p] = "zombie" /\ wstat'[p] = SIGHUP
                            => p \in jobs]_vars
  BY HupStep
<1> QED BY <1>2, <1>3, TypeCorrect, PTL DEF Spec, HupOnlyJobs

-----------------------------------------------------------------------------
(* The ends of the pipes: who holds the write end of a pipe and what a     *)
(* child finds on its standard input and output; and what is left of the   *)
(* pipes when they are no longer needed.                                   *)

(* A descriptor an int[2] of run.c may hold: 0, or none of the standard    *)
(* ones.                                                                   *)
NotStd(f) == f # 1 /\ f # 2

IsRead(file)  == \E q \in Pipes : file = ReadEnd(q)
IsWrite(file) == \E q \in Pipes : file = WriteEnd(q)

(* The shell's own descriptors.                                            *)
ShellEnds ==
    /\ NotStd(last_pipe_fd.r) /\ NotStd(last_pipe_fd.w)
    /\ NotStd(pipe_fd.r) /\ NotStd(pipe_fd.w)
    /\ pc \in {"prompt", "top"} => pipe_fd = NoPipe
    /\ pc # "exited" =>
          /\ \A f \in {0, 1, 2} : fds[Shell][f] = Tty
          /\ last_pipe_fd.r # 0 => IsRead(fds[Shell][last_pipe_fd.r])
    /\ pc \in {"fork", "close"} =>
          /\ pipe_fd.w # 0 => IsWrite(fds[Shell][pipe_fd.w])
          /\ pipe_fd.r # 0 => /\ IsRead(fds[Shell][pipe_fd.r])
                              /\ pipe_fd.r # last_pipe_fd.r

(* What a child has inherited and not yet rearranged.                      *)
ForkedEnds ==
    \A p \in Pids : pstate[p] = "forked" =>
       /\ \A f \in {0, 1, 2} : fds[p][f] = Tty
       /\ NotStd(call[p].in) /\ NotStd(call[p].out)
       /\ NotStd(call[p].close1) /\ NotStd(call[p].close2)

-----------------------------------------------------------------------------
(* The files a descriptor can stand for are told apart.                    *)
LEMMA EndFacts ==
    /\ Closed # Tty /\ Closed # Disk /\ Tty # Disk
    /\ \A q \in Pipes : /\ ReadEnd(q) \notin {Closed, Tty, Disk}
                        /\ WriteEnd(q) \notin {Closed, Tty, Disk}
    /\ \A q, r \in Pipes : /\ ReadEnd(q) # WriteEnd(r)
                           /\ WriteEnd(q) = WriteEnd(r) => q = r
BY KernelAssumption DEF ReadEnd, WriteEnd

LEMMA TableFacts ==
    /\ \A f \in {0, 1, 2} : TtyTable[f] = Tty
    /\ \A f \in Fd : TtyTable[f] \in {Tty, Closed} /\ ClosedTable[f] = Closed
BY FdFacts DEF TtyTable, ClosedTable

(* Closing and moving change no other descriptor, and bring no file that   *)
(* was not there.                                                          *)
LEMMA CloseIfAt ==
    ASSUME NEW t \in FdTable, NEW f \in Fd, NEW g \in Fd
    PROVE  CloseIf(t, f)[g] = IF f # 0 /\ f = g THEN Closed ELSE t[g]
BY DEF CloseIf, Close, FdTable

LEMMA MoveAt ==
    ASSUME NEW t \in FdTable, NEW from \in Fd, NEW to \in Fd, from # to, NEW g \in Fd
    PROVE  Move(t, from, to)[g] = IF from = 0 THEN t[g]
                                  ELSE IF g = from THEN Closed
                                  ELSE IF g = to THEN t[from] ELSE t[g]
BY DEF Move, FdTable

(* The descriptors of a child after its pipes are in place.                *)
LEMMA PipedType ==
    ASSUME TypeOK, NEW p \in Pids
    PROVE  Piped(p) \in FdTable
<1>1. call[p] \in Call /\ fds[p] \in FdTable
  BY DEF TypeOK, Everyone
<1>2. /\ call[p].in \in Fd /\ call[p].out \in Fd
      /\ call[p].close1 \in Fd /\ call[p].close2 \in Fd
  BY <1>1 DEF Call
<1> DEFINE t1 == Move(fds[p], call[p].in, 0)
           t2 == Move(t1, call[p].out, 1)
           t3 == CloseIf(t2, call[p].close1)
<1>3. t1 \in FdTable
  BY <1>1, <1>2, FdFacts, MoveType
<1>4. t2 \in FdTable
  <2> HIDE DEF t1
  <2> QED BY <1>2, <1>3, FdFacts, MoveType
<1>5. t3 \in FdTable
  <2> HIDE DEF t2
  <2> QED BY <1>2, <1>4, CloseIfType
<1>6. CloseIf(t3, call[p].close2) \in FdTable
  <2> HIDE DEF t3
  <2> QED BY <1>2, <1>5, CloseIfType
<1> QED BY <1>6 DEF Piped

LEMMA PipedAt ==
    ASSUME TypeOK, ForkedEnds, RightEnds, NEW p \in Pids, pstate[p] = "forked"
    PROVE  /\ Piped(p)[0] = IF call[p].in = 0 THEN Tty ELSE fds[p][call[p].in]
           /\ Piped(p)[1] = IF call[p].out = 0 THEN Tty ELSE fds[p][call[p].out]
           /\ \A f \in Fd : \/ Piped(p)[f] = Closed
                            \/ \E g \in Fd : Piped(p)[f] = fds[p][g]
           /\ \A f \in Fd \ {0, 1} :
                 Piped(p)[f] = IF f \in {call[p].in, call[p].out, call[p].close1, call[p].close2}
                               THEN Closed ELSE fds[p][f]
<1>1. call[p] \in Call /\ fds[p] \in FdTable
  BY DEF TypeOK, Everyone
<1> DEFINE in == call[p].in
           out == call[p].out
           t == fds[p]
           t1 == Move(t, in, 0)
           t2 == Move(t1, out, 1)
           t3 == CloseIf(t2, call[p].close1)
           t4 == CloseIf(t3, call[p].close2)
<1>2. in \in Fd /\ out \in Fd /\ call[p].close1 \in Fd /\ call[p].close2 \in Fd
  BY <1>1 DEF Call
<1>3. /\ t[0] = Tty /\ t[1] = Tty /\ t[2] = Tty
      /\ NotStd(in) /\ NotStd(out) /\ NotStd(call[p].close1) /\ NotStd(call[p].close2)
  BY DEF ForkedEnds
<1>4. in # 0 /\ out # 0 => in # out
  BY EndFacts DEF RightEnds
<1>5. t1 \in FdTable /\ \A g \in Fd :
        t1[g] = IF in = 0 THEN t[g]
                ELSE IF g = in THEN Closed ELSE IF g = 0 THEN t[in] ELSE t[g]
  <2>1. CASE in = 0
    BY <1>1, <2>1 DEF Move
  <2>2. CASE in # 0
    <3>1. t \in FdTable /\ in \in Fd /\ 0 \in Fd /\ in # 0
      BY <1>1, <1>2, <2>2, FdFacts
    <3> HIDE DEF in, t
    <3>2. t1 \in FdTable
      BY <3>1, MoveType
    <3>3. \A g \in Fd : t1[g] = IF g = in THEN Closed ELSE IF g = 0 THEN t[in] ELSE t[g]
      BY <3>1, MoveAt
    <3> QED BY <2>2, <3>2, <3>3
  <2> QED BY <2>1, <2>2
<1>6. t2 \in FdTable /\ \A g \in Fd :
        t2[g] = IF out = 0 THEN t1[g]
                ELSE IF g = out THEN Closed ELSE IF g = 1 THEN t1[out] ELSE t1[g]
  <2> HIDE DEF t1, out
  <2> QED BY <1>2, <1>3, <1>5, FdFacts, MoveType, MoveAt DEF NotStd
<1>7. t3 \in FdTable /\ \A g \in Fd :
        t3[g] = IF call[p].close1 # 0 /\ call[p].close1 = g THEN Closed ELSE t2[g]
  <2> HIDE DEF t2
  <2> QED BY <1>2, <1>6, CloseIfType, CloseIfAt
<1>8. \A g \in Fd :
        t4[g] = IF call[p].close2 # 0 /\ call[p].close2 = g THEN Closed ELSE t3[g]
  <2> HIDE DEF t3
  <2> QED BY <1>2, <1>7, CloseIfAt
<1>9. t4 = Piped(p)
  BY DEF Piped
<1> HIDE DEF t1, t2, t3, t4, in, out, t
<1>10. /\ t4[0] = IF in = 0 THEN Tty ELSE t[in]
       /\ t4[1] = IF out = 0 THEN Tty ELSE t[out]
  <2>1. t4[0] = t2[0] /\ t4[1] = t2[1]
    BY <1>2, <1>3, <1>7, <1>8, FdFacts DEF NotStd
  <2>2. t2[0] = IF in = 0 THEN Tty ELSE t[in]
    BY <1>2, <1>3, <1>4, <1>5, <1>6, FdFacts DEF NotStd
  <2>3. t2[1] = IF out = 0 THEN Tty ELSE t[out]
    BY <1>2, <1>3, <1>4, <1>5, <1>6, FdFacts DEF NotStd
  <2> QED BY <2>1, <2>2, <2>3
<1>11. \A f \in Fd : t4[f] = Closed \/ \E g \in Fd : t4[f] = t[g]
  BY <1>2, <1>3, <1>4, <1>5, <1>6, <1>7, <1>8, FdFacts
<1>12. \A f \in Fd \ {0, 1} :
          t4[f] = IF f \in {in, out, call[p].close1, call[p].close2} THEN Closed ELSE t[f]
  BY <1>2, <1>3, <1>5, <1>6, <1>7, <1>8, FdFacts DEF NotStd
<1> QED BY <1>9, <1>10, <1>11, <1>12 DEF in, out, t

LEMMA RedirectedAt ==
    ASSUME NEW t \in FdTable, NEW redir \in Redir
    PROVE  /\ Redirected(t, redir) \in FdTable
           /\ Redirected(t, redir)[0] \in {Disk, t[0]}
           /\ Redirected(t, redir)[1] \in {Disk, t[1]}
           /\ \A f \in Fd : Redirected(t, redir)[f] \in {Disk, t[f]}
           /\ \A f \in Fd \ {0, 1} : Redirected(t, redir)[f] = t[f]
BY FdFacts DEF Redirected, Redir, FdTable

-----------------------------------------------------------------------------
(* What the steps do to the descriptors                                    *)

(* A process that dies leaves only closed descriptors.                     *)
LEMMA ClosedForAt ==
    ASSUME TypeOK, NEW ps, fds' = ClosedFor(ps)
    PROVE  \A x \in Everyone :
              /\ x \notin ps => fds'[x] = fds[x]
              /\ \A f \in Fd : fds'[x][f] \in {Closed, fds[x][f]}
BY TableFacts DEF ClosedFor

(* A step of a child leaves the shell alone, and gives a pipe end to       *)
(* nobody who did not hold it.                                             *)
LEMMA ChildShell ==
    ASSUME TypeOK, NEW p \in Pids, ChildStep(p)
    PROVE  UNCHANGED shellVars /\ fds'[Shell] = fds[Shell]
<1>1. Shell \in Everyone /\ Shell \notin Pids /\ p # Shell
  BY RunAssumption DEF Everyone
<1>2. CASE \E ps : ps \subseteq Pids /\ fds' = ClosedFor(ps)
  BY <1>1, <1>2, ClosedForAt, ChildFrame
<1>3. CASE ~\E ps : ps \subseteq Pids /\ fds' = ClosedFor(ps)
  <2>0. call[p].jobs \subseteq Pids
    BY DEF TypeOK, Call
  <2>1. ~ChildExitPsh(p)
    BY <1>3, <2>0 DEF ChildExitPsh, HungUp
  <2>2. ~ChildSetupFails(p) /\ ~BrokenPipe(p) /\ ~Finish(p)
    BY <1>3 DEF ChildSetupFails, BrokenPipe, Finish, ChildExit
  <2>3. ChildSetup(p) \/ WriteOne(p) \/ WriteElsewhere(p) \/ ReadOne(p)
    BY <2>1, <2>2 DEF ChildStep
  <2> QED BY <1>1, <2>3, ChildFrame DEF TypeOK, ChildSetup, WriteOne, WriteElsewhere, ReadOne
<1> QED BY <1>2, <1>3

LEMMA ChildSheds ==
    ASSUME TypeOK, ForkedEnds, RightEnds, NEW p \in Pids, ChildStep(p),
           NEW x \in Everyone, NEW q \in Pipes, NEW file \in {ReadEnd(q), WriteEnd(q)},
           Holds(fds'[x], file)
    PROVE  Holds(fds[x], file)
<1>1. p \in Everyone /\ file \notin {Closed, Tty, Disk}
  BY EndFacts DEF Everyone
<1>2. CASE \E ps : fds' = ClosedFor(ps)
  BY <1>1, <1>2, ClosedForAt DEF Holds
<1>3. CASE ChildSetup(p)
  <2>1. fds' = [fds EXCEPT ![p] = Redirected(Piped(p), call[p].redir)]
        /\ pstate[p] = "forked"
    BY <1>3 DEF ChildSetup
  <2>2. call[p].redir \in Redir
    BY DEF TypeOK, Call
  <2>3. fds \in [Everyone -> FdTable]
    BY DEF TypeOK
  <2>4. CASE x # p
    BY <2>1, <2>3, <2>4
  <2>5. CASE x = p
    <3>1. PICK f \in Fd : Redirected(Piped(p), call[p].redir)[f] = file
      BY <1>1, <2>1, <2>3, <2>5 DEF Holds
    <3>2. Piped(p)[f] = file
      BY <1>1, <2>2, <3>1, PipedType, RedirectedAt
    <3> QED BY <1>1, <2>1, <2>5, <3>2, PipedAt DEF Holds
  <2> QED BY <2>4, <2>5
<1>4. CASE UNCHANGED fds
  BY <1>4
<1>5. ChildSetupFails(p) \/ BrokenPipe(p) \/ Finish(p) \/ ChildExitPsh(p)
          => \E ps : fds' = ClosedFor(ps)
  BY DEF ChildSetupFails, BrokenPipe, Finish, ChildExitPsh, ChildExit
<1>6. WriteOne(p) \/ WriteElsewhere(p) \/ ReadOne(p) => UNCHANGED fds
  BY DEF WriteOne, WriteElsewhere, ReadOne
<1> QED BY <1>2, <1>3, <1>4, <1>5, <1>6 DEF ChildStep

(* The shell's table after pipe(): two descriptors that were closed.       *)
LEMMA PipeMade ==
    ASSUME TypeOK, ShellEnds, MakePipe
    PROVE  \E q \in Pipes, rd \in Fd, wr \in Fd :
              /\ Unused(q) /\ rd # wr
              /\ fds[Shell][rd] = Closed /\ fds[Shell][wr] = Closed
              /\ rd \notin {0, 1, 2} /\ wr \notin {0, 1, 2}
              /\ pipe_fd' = [r |-> rd, w |-> wr]
              /\ \A x \in Pids : fds'[x] = fds[x]
              /\ \A f \in Fd : fds'[Shell][f] = IF f = wr THEN WriteEnd(q)
                                              ELSE IF f = rd THEN ReadEnd(q)
                                              ELSE fds[Shell][f]
<1>1. PICK q \in Pipes, rd \in Fd, wr \in Fd :
          /\ PipeAvailable(q, rd, wr)
          /\ pipe_fd' = [r |-> rd, w |-> wr]
          /\ fds' = [fds EXCEPT ![Shell] =
                        [@ EXCEPT ![rd] = ReadEnd(q), ![wr] = WriteEnd(q)]]
  BY DEF MakePipe
<1>2. /\ Unused(q) /\ rd < wr
      /\ fds[Shell][rd] = Closed /\ fds[Shell][wr] = Closed
  BY <1>1 DEF PipeAvailable, LowestTwo
<1>3. \A f \in {0, 1, 2} : fds[Shell][f] = Tty
  BY DEF ShellEnds, MakePipe
<1>4. rd \notin {0, 1, 2} /\ wr \notin {0, 1, 2} /\ rd # wr
  BY <1>2, <1>3, EndFacts, FdFacts
<1>5. fds \in [Everyone -> FdTable] /\ Shell \in Everyone /\ Shell \notin Pids
      /\ Pids \subseteq Everyone
  BY RunAssumption DEF TypeOK, Everyone
<1>6. \A x \in Pids : fds'[x] = fds[x]
  BY <1>1, <1>5
<1>7. \A f \in Fd : fds'[Shell][f] = IF f = wr THEN WriteEnd(q)
                                     ELSE IF f = rd THEN ReadEnd(q)
                                     ELSE fds[Shell][f]
  BY <1>1, <1>4, <1>5 DEF FdTable
<1> QED BY <1>1, <1>2, <1>4, <1>6, <1>7

(* The shell's table after the two close()s.                               *)
LEMMA EndsClosed ==
    ASSUME TypeOK, CloseEnds
    PROVE  /\ \A x \in Pids : fds'[x] = fds[x]
           /\ \A f \in Fd : fds'[Shell][f] =
                 IF (last_pipe_fd.r # 0 /\ f = last_pipe_fd.r)
                       \/ (pipe_fd.w # 0 /\ f = pipe_fd.w)
                 THEN Closed ELSE fds[Shell][f]
<1>1. fds \in [Everyone -> FdTable] /\ Shell \in Everyone /\ Shell \notin Pids
      /\ Pids \subseteq Everyone
  BY RunAssumption DEF TypeOK, Everyone
<1>2. last_pipe_fd.r \in Fd /\ pipe_fd.w \in Fd
  BY DEF TypeOK, FdPair
<1> DEFINE t == CloseIf(fds[Shell], last_pipe_fd.r)
<1>3. fds' = [fds EXCEPT ![Shell] = CloseIf(t, pipe_fd.w)]
  BY DEF CloseEnds
<1>4. t \in FdTable
        /\ \A f \in Fd : t[f] = IF last_pipe_fd.r # 0 /\ last_pipe_fd.r = f
                                THEN Closed ELSE fds[Shell][f]
  BY <1>1, <1>2, CloseIfType, CloseIfAt
<1> HIDE DEF t
<1>5. \A f \in Fd : CloseIf(t, pipe_fd.w)[f] =
                       IF pipe_fd.w # 0 /\ pipe_fd.w = f THEN Closed ELSE t[f]
  BY <1>2, <1>4, CloseIfAt
<1>6. fds'[Shell] = CloseIf(t, pipe_fd.w) /\ \A x \in Pids : fds'[x] = fds[x]
  BY <1>1, <1>3
<1> QED BY <1>4, <1>5, <1>6

-----------------------------------------------------------------------------
(* ShellEnds                                                               *)

LEMMA ShellEndsInit == Init => ShellEnds
BY FdFacts, TableFacts DEF Init, ShellEnds, NotStd, NoPipe, Everyone

(* Going on with the list, with the pipe of the command before in last.    *)
LEMMA AdvanceShellEnds ==
    ASSUME TypeOK, NEW last \in FdPair, Advance(last), pc # "exited",
           NotStd(last.r), NotStd(last.w),
           last.r # 0 => IsRead(fds'[Shell][last.r]),
           \A f \in {0, 1, 2} : fds'[Shell][f] = Tty
    PROVE  ShellEnds'
BY DEF Advance, ShellEnds, NotStd, NoPipe, IsRead

LEMMA ShellEndsInductive ==
    TypeOK /\ TypeOK' /\ ShellEnds /\ [Next]_vars => ShellEnds'
<1> SUFFICES ASSUME TypeOK, TypeOK', ShellEnds, [Next]_vars
             PROVE  ShellEnds'
  OBVIOUS
<1>0. /\ last_pipe_fd \in FdPair /\ pipe_fd \in FdPair
      /\ last_pipe_fd.r \in Fd /\ pipe_fd.r \in Fd /\ pipe_fd.w \in Fd
  BY DEF TypeOK, FdPair
<1>1. CASE \E p \in Pids : ChildStep(p)
  BY <1>1, ChildShell DEF ShellEnds, shellVars, IsRead, IsWrite, NotStd
<1>2. CASE ReadLine \/ NeedsNoPipe \/ Fork \/ ForkFails \/ UNCHANGED vars
  <2>1. fds'[Shell] = fds[Shell]
    <3>1. CASE Fork
      BY <3>1, RunAssumption DEF Fork, TypeOK, Everyone
    <3> QED BY <1>2, <3>1 DEF ReadLine, NeedsNoPipe, ForkFails, vars
  <2>2. CASE ReadLine \/ UNCHANGED vars
    BY <2>1, <2>2 DEF ReadLine, ShellEnds, vars, shellVars, IsRead, IsWrite, NotStd
  <2>3. CASE NeedsNoPipe
    BY <2>1, <2>3 DEF NeedsNoPipe, ShellEnds, IsRead, IsWrite, NotStd, NoPipe
  <2>4. CASE Fork \/ ForkFails
    BY <2>1, <2>4 DEF Fork, ForkFails, ShellEnds, IsRead, IsWrite, NotStd
  <2> QED BY <1>2, <2>2, <2>3, <2>4
<1>3. CASE ExitPsh
  BY <1>3 DEF ExitPsh, ShellEnds, NotStd, NoPipe
<1>4. CASE RunBuiltin \/ BuiltinRedirFails \/ PipeFails \/ Wait
  <2>1. UNCHANGED fds /\ Advance(last_pipe_fd) /\ pc # "exited"
    BY <1>4 DEF RunBuiltin, BuiltinRedirFails, PipeFails, Wait
  <2> QED BY <1>0, <2>1, AdvanceShellEnds DEF ShellEnds
<1>5. CASE MakePipe
  <2> PICK q \in Pipes, rd \in Fd, wr \in Fd :
              /\ rd # wr
              /\ fds[Shell][rd] = Closed /\ fds[Shell][wr] = Closed
              /\ rd \notin {0, 1, 2} /\ wr \notin {0, 1, 2}
              /\ pipe_fd' = [r |-> rd, w |-> wr]
              /\ \A f \in Fd : fds'[Shell][f] = IF f = wr THEN WriteEnd(q)
                                              ELSE IF f = rd THEN ReadEnd(q)
                                              ELSE fds[Shell][f]
    BY <1>5, PipeMade
  <2>1. pc = "top" /\ pc' = "fork" /\ last_pipe_fd' = last_pipe_fd
    BY <1>5 DEF MakePipe
  <2>2. last_pipe_fd.r # 0 => /\ IsRead(fds[Shell][last_pipe_fd.r])
                              /\ last_pipe_fd.r # rd /\ last_pipe_fd.r # wr
    BY <2>1, EndFacts DEF ShellEnds, IsRead
  <2>3. IsWrite(fds'[Shell][wr]) /\ IsRead(fds'[Shell][rd])
    BY DEF IsRead, IsWrite
  <2>4. \A f \in {0, 1, 2} : fds'[Shell][f] = Tty
    BY <2>1, FdFacts DEF ShellEnds
  <2>5. last_pipe_fd.r # 0 => IsRead(fds'[Shell][last_pipe_fd.r])
    BY <1>0, <2>2 DEF IsRead
  <2>6. NotStd(last_pipe_fd.r) /\ NotStd(last_pipe_fd.w) /\ NotStd(rd) /\ NotStd(wr)
    BY DEF ShellEnds, NotStd
  <2> QED BY <2>1, <2>2, <2>3, <2>4, <2>5, <2>6 DEF ShellEnds
<1>6. CASE CloseEnds
  <2>1. /\ pc = "close" /\ AfterFork(pipe_fd)
        /\ \A f \in Fd : fds'[Shell][f] =
                 IF (last_pipe_fd.r # 0 /\ f = last_pipe_fd.r)
                       \/ (pipe_fd.w # 0 /\ f = pipe_fd.w)
                 THEN Closed ELSE fds[Shell][f]
    BY <1>6, EndsClosed DEF CloseEnds
  <2>2. /\ NotStd(last_pipe_fd.r) /\ NotStd(pipe_fd.r) /\ NotStd(pipe_fd.w)
        /\ pipe_fd.w # 0 => IsWrite(fds[Shell][pipe_fd.w])
        /\ pipe_fd.r # 0 => /\ IsRead(fds[Shell][pipe_fd.r])
                            /\ pipe_fd.r # last_pipe_fd.r
    BY <2>1 DEF ShellEnds
  <2>3. \A f \in {0, 1, 2} : fds'[Shell][f] = Tty
    BY <2>1, <2>2, FdFacts DEF ShellEnds, NotStd
  <2>4. pipe_fd.r # 0 => IsRead(fds'[Shell][pipe_fd.r])
    <3>1. pipe_fd.r # 0 /\ pipe_fd.w # 0 => pipe_fd.r # pipe_fd.w
      BY <2>2, EndFacts DEF IsRead, IsWrite
    <3> QED BY <1>0, <2>1, <2>2, <3>1 DEF IsRead
  <2>5. CASE Advance(pipe_fd)
    BY <1>0, <2>1, <2>2, <2>3, <2>4, <2>5, AdvanceShellEnds
  <2>6. CASE pc' \in {"prompt", "wait"} /\ ~Advance(pipe_fd)
    BY <2>1, <2>2, <2>3, <2>4, <2>6
       DEF AfterFork, ShellEnds, NotStd, NoPipe, IsRead
  <2> QED BY <2>1, <2>5, <2>6 DEF AfterFork
<1> QED BY <1>1, <1>2, <1>3, <1>4, <1>5, <1>6 DEF Next, RunStep, EndOfInput, RunExit

-----------------------------------------------------------------------------
(* ForkedEnds and RightEnds                                                *)

(* Children that are still forked, or still running, after a step that is  *)
(* not a fork nor the set-up of a child have not changed.                  *)
LEMMA ChildKept ==
    ASSUME TypeOK, [Next]_vars, ~Fork, NEW x \in Pids, ~ChildSetup(x), Alive(x)'
    PROVE  pstate'[x] = pstate[x] /\ fds'[x] = fds[x] /\ call'[x] = call[x]
<1>0. fds \in [Everyone -> FdTable] /\ x \in Everyone /\ x # Shell
  BY RunAssumption DEF TypeOK, Everyone
<1>1. ASSUME NEW ps, NEW st, Die(ps, st), fds' = ClosedFor(ps) \/ fds' = ClosedFor(ps \cup {Shell})
      PROVE  pstate'[x] = pstate[x] /\ fds'[x] = fds[x] /\ call'[x] = call[x]
  BY <1>0, <1>1 DEF Die, ClosedFor, Alive, TypeOK
<1>2. CASE \E ps, st : Die(ps, st) /\ (fds' = ClosedFor(ps) \/ fds' = ClosedFor(ps \cup {Shell}))
  BY <1>1, <1>2
<1>3. CASE ~\E ps, st : Die(ps, st) /\ (fds' = ClosedFor(ps) \/ fds' = ClosedFor(ps \cup {Shell}))
  <2>1. ~ExitPsh /\ \A p \in Pids : ~ChildExitPsh(p)
    BY <1>3 DEF ChildExitPsh, ExitPsh
  <2>2. \A p \in Pids : ~ChildSetupFails(p) /\ ~BrokenPipe(p) /\ ~Finish(p)
    BY <1>3 DEF ChildSetupFails, BrokenPipe, Finish, ChildExit
  <2>3. CASE \E p \in Pids : ChildStep(p)
    <3> PICK p \in Pids : ChildSetup(p) \/ WriteOne(p) \/ WriteElsewhere(p) \/ ReadOne(p)
      BY <2>1, <2>2, <2>3 DEF ChildStep
    <3>1. CASE ChildSetup(p)
      BY <1>0, <3>1 DEF ChildSetup, TypeOK
    <3>2. CASE WriteOne(p) \/ WriteElsewhere(p) \/ ReadOne(p)
      BY <3>2 DEF WriteOne, WriteElsewhere, ReadOne
    <3> QED BY <3>1, <3>2
  <2>4. CASE Wait
    BY <2>4 DEF Wait, TypeOK, Alive
  <2>5. CASE ReadLine \/ RunBuiltin \/ BuiltinRedirFails \/ PipeFails
             \/ NeedsNoPipe \/ ForkFails \/ UNCHANGED vars
    BY <2>5 DEF ReadLine, RunBuiltin, BuiltinRedirFails, PipeFails,
                NeedsNoPipe, ForkFails, vars, procVars
  <2>6. CASE MakePipe \/ CloseEnds
    BY <1>0, <2>6 DEF MakePipe, CloseEnds, procVars
  <2> QED BY <2>1, <2>3, <2>4, <2>5, <2>6 DEF Next, RunStep, EndOfInput, RunExit
<1> QED BY <1>2, <1>3

(* The child that fork() makes: the shell's table and the int[2]s.         *)
LEMMA Forked ==
    ASSUME TypeOK, Fork
    PROVE  \E p \in Pids :
              /\ pstate[p] = "free" /\ pid' = p
              /\ pstate'[p] = "forked" /\ fds'[p] = fds[Shell]
              /\ call'[p].in = last_pipe_fd.r /\ call'[p].out = pipe_fd.w
              /\ call'[p].close1 = pipe_fd.r /\ call'[p].close2 = last_pipe_fd.w
              /\ fds'[Shell] = fds[Shell]
              /\ \A x \in Pids : x # p =>
                    pstate'[x] = pstate[x] /\ fds'[x] = fds[x] /\ call'[x] = call[x]
<1>1. fds \in [Everyone -> FdTable] /\ Pids \subseteq Everyone /\ Shell \in Everyone
      /\ Shell \notin Pids
  BY RunAssumption DEF TypeOK, Everyone
<1>2. PICK p \in Pids :
          /\ pstate[p] = "free" /\ pid' = p
          /\ pstate' = [pstate EXCEPT ![p] = "forked"]
          /\ call' = [call EXCEPT ![p] = ChildCall]
          /\ fds' = [fds EXCEPT ![p] = fds[Shell]]
  BY DEF Fork
<1>3. pstate'[p] = "forked" /\ call'[p] = ChildCall /\ fds'[p] = fds[Shell]
      /\ fds'[Shell] = fds[Shell]
  BY <1>1, <1>2 DEF TypeOK
<1>4. \A x \in Pids : x # p =>
        pstate'[x] = pstate[x] /\ fds'[x] = fds[x] /\ call'[x] = call[x]
  BY <1>1, <1>2 DEF TypeOK
<1>5. /\ ChildCall.in = last_pipe_fd.r /\ ChildCall.out = pipe_fd.w
      /\ ChildCall.close1 = pipe_fd.r /\ ChildCall.close2 = last_pipe_fd.w
  BY DEF ChildCall
<1> QED BY <1>2, <1>3, <1>4, <1>5

LEMMA ForkedEndsInductive ==
    TypeOK /\ ShellEnds /\ ForkedEnds /\ [Next]_vars => ForkedEnds'
<1> SUFFICES ASSUME TypeOK, ShellEnds, ForkedEnds, [Next]_vars,
                    NEW x \in Pids, pstate'[x] = "forked"
             PROVE  /\ \A f \in {0, 1, 2} : fds'[x][f] = Tty
                    /\ NotStd(call'[x].in) /\ NotStd(call'[x].out)
                    /\ NotStd(call'[x].close1) /\ NotStd(call'[x].close2)
  BY DEF ForkedEnds, NotStd
<1>1. CASE Fork
  <2> PICK p \in Pids :
              /\ fds'[p] = fds[Shell]
              /\ call'[p].in = last_pipe_fd.r /\ call'[p].out = pipe_fd.w
              /\ call'[p].close1 = pipe_fd.r /\ call'[p].close2 = last_pipe_fd.w
              /\ \A y \in Pids : y # p =>
                    pstate'[y] = pstate[y] /\ fds'[y] = fds[y] /\ call'[y] = call[y]
    BY <1>1, Forked
  <2>1. CASE x = p
    BY <1>1, <2>1 DEF Fork, ShellEnds
  <2>2. CASE x # p
    BY <2>2 DEF ForkedEnds
  <2> QED BY <2>1, <2>2
<1>2. CASE ~Fork
  <2>1. ~ChildSetup(x)
    BY DEF ChildSetup, TypeOK
  <2> QED BY <1>2, <2>1, ChildKept DEF Alive, ForkedEnds
<1> QED BY <1>1, <1>2

(* What a child finds on 0 and 1 once it is set up.                        *)
LEMMA SetupEnds ==
    ASSUME TypeOK, ForkedEnds, RightEnds, NEW p \in Pids, ChildSetup(p)
    PROVE  /\ fds'[p][0] \in {Tty, Disk} \cup {ReadEnd(q) : q \in Pipes}
           /\ fds'[p][1] \in {Tty, Disk} \cup {WriteEnd(q) : q \in Pipes}
<1>1. /\ pstate[p] = "forked"
      /\ fds'[p] = Redirected(Piped(p), call[p].redir)
      /\ call[p].redir \in Redir
  BY DEF ChildSetup, TypeOK, Everyone, Call
<1>2. /\ Piped(p)[0] \in {Tty} \cup {ReadEnd(q) : q \in Pipes}
      /\ Piped(p)[1] \in {Tty} \cup {WriteEnd(q) : q \in Pipes}
  BY <1>1, PipedAt DEF RightEnds
<1> QED BY <1>1, <1>2, PipedType, RedirectedAt

LEMMA RightEndsInductive ==
    TypeOK /\ ShellEnds /\ ForkedEnds /\ RightEnds /\ [Next]_vars => RightEnds'
<1> SUFFICES ASSUME TypeOK, ShellEnds, ForkedEnds, RightEnds, [Next]_vars, NEW x \in Pids
             PROVE  /\ pstate'[x] = "forked" =>
                       /\ call'[x].in # 0 => \E q \in Pipes : fds'[x][call'[x].in] = ReadEnd(q)
                       /\ call'[x].out # 0 => \E q \in Pipes : fds'[x][call'[x].out] = WriteEnd(q)
                    /\ pstate'[x] = "running" =>
                       /\ fds'[x][0] \in {Tty, Disk} \cup {ReadEnd(q) : q \in Pipes}
                       /\ fds'[x][1] \in {Tty, Disk} \cup {WriteEnd(q) : q \in Pipes}
  BY DEF RightEnds
<1>1. CASE Fork
  <2> PICK p \in Pids :
              /\ pstate'[p] = "forked" /\ fds'[p] = fds[Shell]
              /\ call'[p].in = last_pipe_fd.r /\ call'[p].out = pipe_fd.w
              /\ \A y \in Pids : y # p =>
                    pstate'[y] = pstate[y] /\ fds'[y] = fds[y] /\ call'[y] = call[y]
    BY <1>1, Forked
  <2>1. CASE x = p
    BY <1>1, <2>1 DEF Fork, ShellEnds, IsRead, IsWrite
  <2>2. CASE x # p
    BY <2>2 DEF RightEnds
  <2> QED BY <2>1, <2>2
<1>2. CASE ChildSetup(x)
  <2>1. pstate'[x] = "running"
    BY <1>2 DEF ChildSetup, TypeOK
  <2> QED BY <1>2, <2>1, SetupEnds
<1>3. CASE ~Fork /\ ~ChildSetup(x)
  BY <1>3, ChildKept DEF Alive, RightEnds
<1> QED BY <1>1, <1>2, <1>3

-----------------------------------------------------------------------------
(* OneWriter                                                               *)

(* The state predicate of OneWriter for one pipe.                          *)
OneWriterOf(q) ==
    /\ \A p1, p2 \in Pids :
          Holds(fds[p1], WriteEnd(q)) /\ Holds(fds[p2], WriteEnd(q)) => p1 = p2
    /\ \A f \in Fd : fds[Shell][f] = WriteEnd(q) =>
          /\ pc \in {"fork", "close"} /\ f = pipe_fd.w
          /\ pc = "fork" => \A p \in Pids : ~Holds(fds[p], WriteEnd(q))

(* Steps after which nobody holds a write end that he did not hold, and    *)
(* the shell none at all.                                                  *)
LEMMA FewerWriters ==
    ASSUME NEW q \in Pipes, OneWriterOf(q),
           \A x \in Pids : Holds(fds'[x], WriteEnd(q)) => Holds(fds[x], WriteEnd(q)),
           \A f \in Fd : fds'[Shell][f] # WriteEnd(q)
    PROVE  OneWriterOf(q)'
BY DEF OneWriterOf

LEMMA OneWriterInductive ==
    TypeOK /\ ShellEnds /\ ForkedEnds /\ RightEnds /\ OneWriter /\ [Next]_vars => OneWriter'
<1> SUFFICES ASSUME TypeOK, ShellEnds, ForkedEnds, RightEnds, OneWriter, [Next]_vars,
                    NEW q \in Pipes
             PROVE  OneWriterOf(q)'
  BY DEF OneWriter, OneWriterOf
<1>0. OneWriterOf(q) /\ Pids \subseteq Everyone /\ Shell \notin Pids /\ Shell \in Everyone
  BY RunAssumption DEF OneWriter, OneWriterOf, Everyone
<1>1. CASE \E p \in Pids : ChildStep(p)
  <2> PICK p \in Pids : ChildStep(p)
    BY <1>1
  <2>1. UNCHANGED shellVars /\ fds'[Shell] = fds[Shell]
    BY ChildShell
  <2>2. \A x \in Pids : Holds(fds'[x], WriteEnd(q)) => Holds(fds[x], WriteEnd(q))
    BY <1>0, ChildSheds
  <2> QED BY <1>0, <2>1, <2>2 DEF OneWriterOf, shellVars
<1>2. CASE UNCHANGED fds /\ (pc \notin {"fork", "close"} \/ UNCHANGED vars)
  BY <1>0, <1>2 DEF OneWriterOf, vars, shellVars
<1>3. CASE ReadLine \/ RunBuiltin \/ BuiltinRedirFails \/ PipeFails \/ NeedsNoPipe
           \/ Wait \/ UNCHANGED vars
  BY <1>2, <1>3 DEF ReadLine, RunBuiltin, BuiltinRedirFails, PipeFails, NeedsNoPipe,
                    Wait, vars
<1>4. CASE ExitPsh
  <2>1. fds' = ClosedFor(HungUp(jobs) \cup {Shell})
    BY <1>4 DEF ExitPsh
  <2>2. \A x \in Pids : Holds(fds'[x], WriteEnd(q)) => Holds(fds[x], WriteEnd(q))
    BY <1>0, <2>1, ClosedForAt, EndFacts DEF Holds
  <2>3. \A f \in Fd : fds'[Shell][f] = Closed
    BY <1>0, <2>1, TableFacts DEF ClosedFor
  <2> QED BY <1>0, <2>2, <2>3, EndFacts, FewerWriters
<1>5. CASE MakePipe
  <2> PICK q0 \in Pipes, rd \in Fd, wr \in Fd :
              /\ Unused(q0) /\ pipe_fd' = [r |-> rd, w |-> wr]
              /\ \A x \in Pids : fds'[x] = fds[x]
              /\ \A f \in Fd : fds'[Shell][f] = IF f = wr THEN WriteEnd(q0)
                                              ELSE IF f = rd THEN ReadEnd(q0)
                                              ELSE fds[Shell][f]
    BY <1>5, PipeMade
  <2>1. pc = "top" /\ pc' = "fork"
    BY <1>5 DEF MakePipe
  <2>2. \A f \in Fd : fds[Shell][f] # WriteEnd(q)
    BY <1>0, <2>1 DEF OneWriterOf
  <2>3. \A f \in Fd : fds'[Shell][f] = WriteEnd(q) => f = wr /\ q = q0
    BY <2>2, EndFacts
  <2>4. \A p \in Pids : ~Holds(fds[p], WriteEnd(q0))
    BY <1>0 DEF Unused, Open
  <2> QED BY <1>0, <2>1, <2>3, <2>4 DEF OneWriterOf, Holds
<1>6. CASE Fork
  <2> PICK p \in Pids : /\ fds'[p] = fds[Shell] /\ fds'[Shell] = fds[Shell]
                        /\ \A x \in Pids : x # p => fds'[x] = fds[x]
    BY <1>6, Forked
  <2>1. pc = "fork" /\ pc' = "close" /\ pipe_fd' = pipe_fd
    BY <1>6 DEF Fork
  <2>2. \A f \in Fd : fds[Shell][f] = WriteEnd(q) =>
           f = pipe_fd.w /\ \A x \in Pids : ~Holds(fds[x], WriteEnd(q))
    BY <1>0, <2>1 DEF OneWriterOf
  <2>3. \A p1, p2 \in Pids :
           Holds(fds'[p1], WriteEnd(q)) /\ Holds(fds'[p2], WriteEnd(q)) => p1 = p2
    <3>1. CASE Holds(fds[Shell], WriteEnd(q))
      BY <2>2, <3>1 DEF Holds
    <3>2. CASE ~Holds(fds[Shell], WriteEnd(q))
      BY <1>0, <3>2 DEF OneWriterOf
    <3> QED BY <3>1, <3>2
  <2> QED BY <2>1, <2>2, <2>3 DEF OneWriterOf
<1>7. CASE ForkFails
  <2>1. UNCHANGED <<fds, pipe_fd>> /\ pc = "fork" /\ pc' = "close"
    BY <1>7 DEF ForkFails
  <2> QED BY <1>0, <2>1 DEF OneWriterOf
<1>8. CASE CloseEnds
  <2>1. pc = "close" /\ fds[Shell][0] = Tty
    BY <1>8 DEF CloseEnds, ShellEnds
  <2>2. \A f \in Fd : fds'[Shell][f] # WriteEnd(q)
    BY <1>0, <1>8, <2>1, EndsClosed, EndFacts DEF OneWriterOf
  <2>3. \A x \in Pids : fds'[x] = fds[x]
    BY <1>8, EndsClosed
  <2> QED BY <1>0, <2>2, <2>3, FewerWriters
<1> QED BY <1>1, <1>3, <1>4, <1>5, <1>6, <1>7, <1>8
        DEF Next, RunStep, EndOfInput, RunExit

-----------------------------------------------------------------------------
EndsInv == ShellEnds /\ ForkedEnds /\ RightEnds /\ OneWriter

LEMMA EndsInit == Init => EndsInv
<1> SUFFICES ASSUME Init
             PROVE  ForkedEnds /\ RightEnds /\ OneWriter
  BY ShellEndsInit DEF EndsInv
<1>1. ForkedEnds /\ RightEnds
  BY DEF Init, ForkedEnds, RightEnds
<1>2. \A x \in Everyone : \A f \in Fd : fds[x][f] \in {Tty, Closed}
  BY TableFacts DEF Init
<1>3. Pids \subseteq Everyone /\ Shell \in Everyone
  BY DEF Everyone
<1>4. OneWriter
  BY <1>2, <1>3, EndFacts DEF OneWriter, Holds
<1> QED BY <1>1, <1>4

LEMMA EndsAlways == Spec => []EndsInv
<1>1. TypeOK /\ TypeOK' /\ EndsInv /\ [Next]_vars => EndsInv'
  BY ShellEndsInductive, ForkedEndsInductive, RightEndsInductive, OneWriterInductive
     DEF EndsInv
<1> QED BY <1>1, EndsInit, TypeCorrect, PTL DEF Spec

(* Whatever fails, leaks or is recycled, a pipe never has two writers, and *)
(* the shell keeps a write end only until it has forked.                   *)
THEOREM PipesHaveOneWriter == Spec => []OneWriter
BY EndsAlways, PTL DEF EndsInv

(* Every child reads what can be read and writes what can be written, on   *)
(* the descriptors it was forked for.                                      *)
THEOREM ChildrenGetRightEnds == Spec => []RightEnds
BY EndsAlways, PTL DEF EndsInv

-----------------------------------------------------------------------------
(* What is left over of the pipes.  This is about lines in which every pipe*)
(* is read by a child, since a builtin that runs in the shell leaves the   *)
(* pipe before it open; the last two theorems are also about behaviours in *)
(* which fork() succeeds for a command before a |, since the shell         *)
(* otherwise gives up with the new pipe open.  Everything else may fail.   *)

(* Where the position in the line is                                       *)

(* The last command of a line is not before a |, and the one after such a  *)
(* command is forked.                                                      *)
LEMMA PipedHasReader ==
    ASSUME TypeOK, ReadersFork(Lines), pc \in {"top", "fork", "close", "wait"}
    PROVE  /\ line \in Lines /\ i \in Nat /\ i >= 1 /\ Len(line) \in Nat /\ i <= Len(line)
           /\ Cmd.type = "PIPED" => i < Len(line)
           /\ i > 1 /\ line[i - 1].type = "PIPED" => ~InShell(Cmd)
<1>1. line \in Lines /\ i \in 1..Len(line) /\ Len(line) \in Nat
  BY LenType DEF TypeOK
<1>2. Cmd.type = "PIPED" => i # Len(line)
  BY <1>1, RunAssumption DEF Cmd
<1>3. \A k \in 1..Len(line) :
         k < Len(line) /\ line[k].type = "PIPED" => ~InShell(line[k + 1])
  BY <1>1 DEF ReadersFork
<1>4. ASSUME i > 1, line[i - 1].type = "PIPED"
      PROVE  ~InShell(Cmd)
  <2>1. i - 1 \in 1..Len(line) /\ i - 1 < Len(line) /\ (i - 1) + 1 = i
    BY <1>1, <1>4
  <2>2. ~InShell(line[(i - 1) + 1])
    BY <1>3, <1>4, <2>1
  <2> QED BY <2>1, <2>2 DEF Cmd
<1> QED BY <1>1, <1>2, <1>4

-----------------------------------------------------------------------------
(* StdinFromPredecessor                                                    *)

(* The int[2]s that run.c carries from one command to the next.            *)
PipeOfPredecessor ==
    /\ StdinFromPredecessor
    /\ pc \in {"fork", "close"} /\ Cmd.type # "PIPED" => pipe_fd = NoPipe
    /\ pc \in {"prompt", "wait"} => last_pipe_fd = NoPipe

(* Going on after a command before a |, or with no pipe.                   *)
LEMMA AdvancePredecessor ==
    ASSUME TypeOK, ReadersFork(Lines), pc \in {"top", "fork", "close", "wait"},
           NEW last \in FdPair, Advance(last), Cmd.type = "PIPED" \/ last.r = 0
    PROVE  PipeOfPredecessor'
<1>1. i \in Nat /\ Len(line) \in Nat
  BY PipedHasReader
<1>2. CASE i < Len(line)
  <2>1. /\ pc' = "top" /\ i' = i + 1 /\ last_pipe_fd' = last /\ line' = line
    BY <1>2 DEF Advance
  <2>2. i' - 1 = i
    BY <1>1, <2>1
  <2>3. last.r # 0 => i' > 1 /\ line'[i' - 1].type = "PIPED"
    <3>1. last.r # 0 => line[i].type = "PIPED" /\ i >= 1
      BY PipedHasReader DEF Cmd
    <3> QED BY <1>1, <2>1, <2>2, <3>1
  <2> QED BY <2>1, <2>3 DEF PipeOfPredecessor, StdinFromPredecessor
<1>3. CASE ~(i < Len(line))
  BY <1>3 DEF Advance, PipeOfPredecessor, StdinFromPredecessor
<1> QED BY <1>2, <1>3

LEMMA PredecessorInductive ==
    ReadersFork(Lines) /\ TypeOK /\ ShellEnds /\ PipeOfPredecessor /\ [Next]_vars
        => PipeOfPredecessor'
<1> SUFFICES ASSUME ReadersFork(Lines), TypeOK, ShellEnds, PipeOfPredecessor, [Next]_vars
             PROVE  PipeOfPredecessor'
  OBVIOUS
<1>0. last_pipe_fd \in FdPair /\ pipe_fd \in FdPair /\ NoPipe.r = 0
  BY DEF TypeOK, NoPipe
<1>1. CASE (\E p \in Pids : ChildStep(p)) \/ UNCHANGED vars
  <2>1. UNCHANGED shellVars
    BY <1>1, ChildFrame DEF vars
  <2> QED BY <2>1 DEF shellVars, PipeOfPredecessor, StdinFromPredecessor, Cmd
<1>2. CASE ReadLine
  BY <1>0, <1>2 DEF ReadLine, PipeOfPredecessor, StdinFromPredecessor
<1>3. CASE ExitPsh
  BY <1>3 DEF ExitPsh, PipeOfPredecessor, StdinFromPredecessor
<1>4. CASE RunBuiltin \/ BuiltinRedirFails
  <2>1. pc = "top" /\ InShell(Cmd) /\ Advance(last_pipe_fd)
    BY <1>4 DEF RunBuiltin, BuiltinRedirFails
  <2>2. last_pipe_fd.r = 0
    BY <2>1, PipedHasReader DEF PipeOfPredecessor, StdinFromPredecessor
  <2> QED BY <1>0, <2>1, <2>2, AdvancePredecessor
<1>5. CASE PipeFails
  BY <1>0, <1>5, AdvancePredecessor DEF PipeFails
<1>6. CASE MakePipe
  BY <1>6 DEF MakePipe, PipeOfPredecessor, StdinFromPredecessor, Cmd
<1>7. CASE NeedsNoPipe
  BY <1>7 DEF NeedsNoPipe, PipeOfPredecessor, StdinFromPredecessor, Cmd, ShellEnds
<1>8. CASE Fork \/ ForkFails
  BY <1>8 DEF Fork, ForkFails, PipeOfPredecessor, StdinFromPredecessor, Cmd
<1>9. CASE CloseEnds
  <2>1. pc = "close" /\ AfterFork(pipe_fd)
    BY <1>9 DEF CloseEnds
  <2>2. Cmd.type # "PIPED" => pipe_fd = NoPipe
    BY <2>1 DEF PipeOfPredecessor
  <2>3. CASE Advance(pipe_fd)
    BY <1>0, <2>1, <2>2, <2>3, AdvancePredecessor
  <2>4. CASE pc' = "prompt" /\ last_pipe_fd' = NoPipe
    BY <2>4 DEF PipeOfPredecessor, StdinFromPredecessor
  <2>5. CASE pc' = "wait" /\ last_pipe_fd' = pipe_fd /\ Cmd.type \notin {"PIPED", "BACKGROUND"}
    BY <2>2, <2>5 DEF PipeOfPredecessor, StdinFromPredecessor
  <2> QED BY <2>1, <2>3, <2>4, <2>5 DEF AfterFork
<1>10. CASE Wait
  <2>1. pc = "wait" /\ Advance(last_pipe_fd) /\ last_pipe_fd.r = 0
    BY <1>0, <1>10 DEF Wait, PipeOfPredecessor
  <2> QED BY <1>0, <2>1, AdvancePredecessor
<1> QED BY <1>1, <1>2, <1>3, <1>4, <1>5, <1>6, <1>7, <1>8, <1>9, <1>10
        DEF Next, RunStep, EndOfInput, RunExit

LEMMA PredecessorInit == Init => PipeOfPredecessor
BY DEF Init, PipeOfPredecessor, StdinFromPredecessor

LEMMA PredecessorAlways == ReadersFork(Lines) => (Spec => []PipeOfPredecessor)
<1> SUFFICES ASSUME ReadersFork(Lines) PROVE Spec => []PipeOfPredecessor
  OBVIOUS
<1>1. TypeOK /\ ShellEnds /\ PipeOfPredecessor /\ [Next]_vars => PipeOfPredecessor'
  BY PredecessorInductive
<1>2. EndsInv => ShellEnds
  BY DEF EndsInv
<1> QED BY <1>1, <1>2, PredecessorInit, EndsAlways, TypeCorrect, PTL DEF Spec

(* Whatever fails, a command reads from a pipe only when the command       *)
(* before it in the line was to write to one: last_pipe_fd is never that   *)
(* of an earlier pipeline or of an earlier line.                           *)
THEOREM StdinIsPredecessors == ReadersFork(Lines) => (Spec => []StdinFromPredecessor)
<1> SUFFICES ASSUME ReadersFork(Lines) PROVE Spec => []StdinFromPredecessor
  OBVIOUS
<1>1. PipeOfPredecessor => StdinFromPredecessor
  BY DEF PipeOfPredecessor
<1> QED BY <1>1, PredecessorAlways, PTL

-----------------------------------------------------------------------------
(* PipesClosedAtPrompt and NoStrayEnds                                     *)

Plain(file) == file \in {Tty, Closed}

(* The shell holds the pipe of the command before, and the pipe it has     *)
(* just made for this one; a child is there to write to the latter.        *)
ShellPipes ==
    /\ pc # "exited" => \A f \in Fd :
          \/ Plain(fds[Shell][f])
          \/ pc \in {"top", "fork", "close"} /\ f = last_pipe_fd.r
          \/ pc \in {"fork", "close"} /\ f \in {pipe_fd.r, pipe_fd.w}
    /\ pc = "close" /\ Cmd.type = "PIPED" => pid # NoPid

LEMMA ShellPipesKept ==
    ASSUME ShellPipes, fds'[Shell] = fds[Shell], UNCHANGED shellVars
    PROVE  ShellPipes'
BY DEF ShellPipes, shellVars, Cmd, Plain

(* When no pipe is left to the next command the shell holds none at all.   *)
LEMMA ShellPipesGone ==
    ASSUME ShellEnds, ShellPipes, pc \in {"prompt", "top", "wait"}, last_pipe_fd.r = 0
    PROVE  \A f \in Fd : Plain(fds[Shell][f])
BY FdFacts DEF ShellPipes, ShellEnds, Plain

LEMMA ShellPipesInductive ==
    /\ ReadersFork(Lines) /\ TypeOK /\ ShellEnds /\ PipeOfPredecessor /\ ShellPipes
    /\ [Next]_vars /\ (ForkFails => Cmd.type # "PIPED")
    => ShellPipes'
<1> SUFFICES ASSUME ReadersFork(Lines), TypeOK, ShellEnds, PipeOfPredecessor, ShellPipes,
                    [Next]_vars, ForkFails => Cmd.type # "PIPED"
             PROVE  ShellPipes'
  OBVIOUS
<1>0. /\ last_pipe_fd \in FdPair /\ pipe_fd \in FdPair /\ NoPipe.r = 0 /\ NoPipe.w = 0
      /\ last_pipe_fd.r \in Fd /\ pipe_fd.r \in Fd /\ pipe_fd.w \in Fd
      /\ Shell \in Everyone /\ Shell \notin Pids /\ Pids \subseteq Everyone
  BY RunAssumption DEF TypeOK, NoPipe, FdPair, Everyone
<1>1. CASE \E p \in Pids : ChildStep(p)
  BY <1>1, ChildShell, ShellPipesKept
<1>2. CASE UNCHANGED vars
  BY <1>2, ShellPipesKept DEF vars
<1>3. CASE ReadLine
  BY <1>3 DEF ReadLine, ShellPipes, Plain
<1>4. CASE ExitPsh
  BY <1>4 DEF ExitPsh, ShellPipes
<1>5. CASE RunBuiltin \/ BuiltinRedirFails \/ Wait
  <2>1. /\ pc \in {"top", "wait"} /\ UNCHANGED fds /\ Advance(last_pipe_fd)
        /\ last_pipe_fd.r = 0
    <3>1. CASE Wait
      BY <1>0, <3>1 DEF Wait, PipeOfPredecessor
    <3>2. CASE RunBuiltin \/ BuiltinRedirFails
      BY <3>2, PipedHasReader DEF RunBuiltin, BuiltinRedirFails, PipeOfPredecessor,
                                  StdinFromPredecessor
    <3> QED BY <1>5, <3>1, <3>2
  <2>2. \A f \in Fd : Plain(fds'[Shell][f])
    BY <2>1, ShellPipesGone
  <2> QED BY <2>1, <2>2 DEF Advance, ShellPipes, Plain
<1>6. CASE PipeFails
  <2>1. /\ pc = "top" /\ UNCHANGED fds /\ pc' = "top" /\ last_pipe_fd' = last_pipe_fd
    BY <1>6, PipedHasReader DEF PipeFails, Advance
  <2> QED BY <2>1 DEF ShellPipes, Plain
<1>7. CASE MakePipe
  <2> PICK q \in Pipes, rd \in Fd, wr \in Fd :
              /\ pipe_fd' = [r |-> rd, w |-> wr]
              /\ \A f \in Fd : fds'[Shell][f] = IF f = wr THEN WriteEnd(q)
                                              ELSE IF f = rd THEN ReadEnd(q)
                                              ELSE fds[Shell][f]
    BY <1>7, PipeMade
  <2>1. pc = "top" /\ pc' = "fork" /\ last_pipe_fd' = last_pipe_fd
    BY <1>7 DEF MakePipe
  <2> QED BY <2>1 DEF ShellPipes, Plain
<1>8. CASE NeedsNoPipe
  BY <1>8 DEF NeedsNoPipe, ShellPipes, Plain
<1>9. CASE Fork
  <2>1. pc = "fork" /\ pc' = "close" /\ UNCHANGED <<line, i, last_pipe_fd, pipe_fd>>
    BY <1>9 DEF Fork
  <2>2. fds'[Shell] = fds[Shell] /\ pid' \in Pids /\ pid' # NoPid
    BY <1>9, Forked, RunAssumption
  <2> QED BY <2>1, <2>2 DEF ShellPipes, Plain
<1>10. CASE ForkFails
  <2>1. Cmd.type # "PIPED"
    BY <1>10
  <2> QED BY <1>10, <2>1 DEF ForkFails, ShellPipes, Plain, Cmd
<1>11. CASE CloseEnds
  <2>1. /\ pc = "close" /\ AfterFork(pipe_fd)
        /\ \A f \in Fd : fds'[Shell][f] =
                 IF (last_pipe_fd.r # 0 /\ f = last_pipe_fd.r)
                       \/ (pipe_fd.w # 0 /\ f = pipe_fd.w)
                 THEN Closed ELSE fds[Shell][f]
    BY <1>11, EndsClosed DEF CloseEnds
  <2>2. fds[Shell][0] = Tty
    BY <2>1 DEF ShellEnds
  <2>3. \A f \in Fd : Plain(fds'[Shell][f]) \/ f = pipe_fd.r
    BY <2>1, <2>2 DEF ShellPipes, Plain
  <2>4. CASE Cmd.type = "PIPED"
    <3>1. pid # NoPid
      BY <2>1, <2>4 DEF ShellPipes
    <3>2. Advance(pipe_fd) /\ i < Len(line)
      BY <2>1, <2>4, <3>1, PipedHasReader DEF AfterFork
    <3>3. pc' = "top" /\ last_pipe_fd' = pipe_fd
      BY <3>2 DEF Advance
    <3> QED BY <2>3, <3>3 DEF ShellPipes
  <2>5. CASE Cmd.type # "PIPED"
    <3>1. pipe_fd.r = 0 /\ pipe_fd.w = 0
      BY <1>0, <2>1, <2>5 DEF PipeOfPredecessor
    <3>2. fds'[Shell][0] = Tty
      BY <2>1, <2>2, <3>1, FdFacts
    <3>3. \A f \in Fd : Plain(fds'[Shell][f])
      BY <2>3, <3>1, <3>2 DEF Plain
    <3>4. pc' \in {"top", "prompt", "wait"}
      BY <2>1 DEF AfterFork, Advance
    <3> QED BY <3>3, <3>4 DEF ShellPipes
  <2> QED BY <2>4, <2>5
<1> QED BY <1>1, <1>2, <1>3, <1>4, <1>5, <1>6, <1>7, <1>8, <1>9, <1>10, <1>11
        DEF Next, RunStep, EndOfInput, RunExit

(* What a child inherits besides the ends it was forked to use or close.   *)
ForkedPipes ==
    \A p \in Pids : pstate[p] = "forked" =>
       \A f \in Fd : Plain(fds[p][f]) \/ f \in {call[p].in, call[p].out, call[p].close1}

LEMMA ForkedPipesInductive ==
    TypeOK /\ ShellPipes /\ ForkedPipes /\ [Next]_vars => ForkedPipes'
<1> SUFFICES ASSUME TypeOK, ShellPipes, ForkedPipes, [Next]_vars,
                    NEW x \in Pids, pstate'[x] = "forked", NEW f \in Fd
             PROVE  Plain(fds'[x][f]) \/ f \in {call'[x].in, call'[x].out, call'[x].close1}
  BY DEF ForkedPipes, Plain
<1>1. CASE Fork
  <2> PICK p \in Pids :
              /\ fds'[p] = fds[Shell]
              /\ call'[p].in = last_pipe_fd.r /\ call'[p].out = pipe_fd.w
              /\ call'[p].close1 = pipe_fd.r
              /\ \A y \in Pids : y # p =>
                    pstate'[y] = pstate[y] /\ fds'[y] = fds[y] /\ call'[y] = call[y]
    BY <1>1, Forked
  <2>1. CASE x = p
    BY <1>1, <2>1 DEF Fork, ShellPipes
  <2>2. CASE x # p
    BY <2>2 DEF ForkedPipes
  <2> QED BY <2>1, <2>2
<1>2. CASE ~Fork
  <2>1. ~ChildSetup(x)
    BY DEF ChildSetup, TypeOK
  <2> QED BY <1>2, <2>1, ChildKept DEF Alive, ForkedPipes
<1> QED BY <1>1, <1>2

LEMMA NoStrayEndsInductive ==
    /\ TypeOK /\ ForkedEnds /\ RightEnds /\ ForkedPipes /\ NoStrayEnds /\ [Next]_vars
    => NoStrayEnds'
<1> SUFFICES ASSUME TypeOK, ForkedEnds, RightEnds, ForkedPipes, NoStrayEnds, [Next]_vars,
                    NEW x \in Pids, pstate'[x] = "running", NEW f \in Fd \ {0, 1}
             PROVE  fds'[x][f] \in {Tty, Closed}
  BY DEF NoStrayEnds
<1>1. CASE Fork
  <2> PICK p \in Pids :
              /\ pstate'[p] = "forked"
              /\ \A y \in Pids : y # p =>
                    pstate'[y] = pstate[y] /\ fds'[y] = fds[y] /\ call'[y] = call[y]
    BY <1>1, Forked
  <2> QED BY DEF NoStrayEnds
<1>2. CASE ChildSetup(x)
  <2>1. /\ pstate[x] = "forked"
        /\ fds'[x] = Redirected(Piped(x), call[x].redir)
        /\ call[x].redir \in Redir
    BY <1>2 DEF ChildSetup, TypeOK, Everyone, Call
  <2>2. fds'[x][f] = Piped(x)[f]
    BY <2>1, PipedType, RedirectedAt
  <2>3. \/ Piped(x)[f] = Closed
        \/ /\ f \notin {call[x].in, call[x].out, call[x].close1}
           /\ Piped(x)[f] = fds[x][f]
    BY <2>1, PipedAt
  <2> QED BY <2>1, <2>2, <2>3 DEF ForkedPipes, Plain
<1>3. CASE ~Fork /\ ~ChildSetup(x)
  BY <1>3, ChildKept DEF Alive, NoStrayEnds
<1> QED BY <1>1, <1>2, <1>3

LeftOver == ShellPipes /\ ForkedPipes /\ NoStrayEnds

LEMMA LeftOverInit == Init => LeftOver
<1> SUFFICES ASSUME Init PROVE ShellPipes
  BY DEF LeftOver, Init, ForkedPipes, NoStrayEnds
<1> QED BY TableFacts DEF Init, ShellPipes, Plain, Everyone

LEMMA LeftOverAlways == ReadersFork(Lines) => (Spec /\ PipedForkWorks => []LeftOver)
<1> SUFFICES ASSUME ReadersFork(Lines) PROVE Spec /\ PipedForkWorks => []LeftOver
  OBVIOUS
<1>1. /\ TypeOK /\ EndsInv /\ PipeOfPredecessor /\ LeftOver
      /\ [Next]_vars /\ [ForkFails => Cmd.type # "PIPED"]_vars
      => LeftOver'
  <2> SUFFICES ASSUME TypeOK, EndsInv, PipeOfPredecessor, LeftOver, [Next]_vars,
                      [ForkFails => Cmd.type # "PIPED"]_vars
               PROVE  LeftOver'
    OBVIOUS
  <2>1. ForkedPipes' /\ NoStrayEnds'
    BY ForkedPipesInductive, NoStrayEndsInductive DEF LeftOver, EndsInv
  <2>2. ForkFails => pc' # pc
    BY DEF ForkFails
  <2>3. ForkFails => Cmd.type # "PIPED"
    BY <2>2 DEF vars, shellVars
  <2>4. ShellPipes'
    BY <2>3, ShellPipesInductive DEF LeftOver, EndsInv
  <2> QED BY <2>1, <2>4 DEF LeftOver
<1> QED BY <1>1, LeftOverInit, TypeCorrect, EndsAlways, PredecessorAlways, PTL
        DEF Spec, PipedForkWorks

(* "Make sure the used fds of the pipe are closed in the main process":    *)
(* whatever else fails, the shell is back at the prompt with no pipe open. *)
THEOREM ShellKeepsNoPipe ==
    ReadersFork(Lines) => (Spec /\ PipedForkWorks => []PipesClosedAtPrompt)
<1> SUFFICES ASSUME ReadersFork(Lines)
             PROVE  Spec /\ PipedForkWorks => []PipesClosedAtPrompt
  OBVIOUS
<1>1. LeftOver => PipesClosedAtPrompt
  BY DEF LeftOver, ShellPipes, PipesClosedAtPrompt, Plain
<1> QED BY <1>1, LeftOverAlways, PTL

(* A child runs its program with no end of a pipe but those on its         *)
(* standard input and output, whatever the shell itself still had open     *)
(* when it forked.                                                         *)
THEOREM ChildrenHoldNoPipe ==
    ReadersFork(Lines) => (Spec /\ PipedForkWorks => []NoStrayEnds)
<1> SUFFICES ASSUME ReadersFork(Lines)
             PROVE  Spec /\ PipedForkWorks => []NoStrayEnds
  OBVIOUS
<1>1. LeftOver => NoStrayEnds
  BY DEF LeftOver
<1> QED BY <1>1, LeftOverAlways, PTL
=============================================================================
