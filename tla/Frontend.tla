------------------------------- MODULE Frontend -------------------------------
(***************************************************************************)
(* The main loop of src/main.c around the expansion of the prompt          *)
(* (Prompts), read_cmdline of src/input.c and the parser (Filpinfo).  The  *)
(* alias table is empty, as it is when the shell starts (Aliases has the   *)
(* other case), and the commands are handed to psh_backend_do_run, which   *)
(* is PshRun.                                                              *)
(*                                                                         *)
(* A session is what the shell meets: the value of PS1, the directory it   *)
(* is in and the line that is typed, with what is meant by PS1 and by the  *)
(* line where that is known.                                               *)
(***************************************************************************)
EXTENDS Prompts, Filpinfo

CONSTANTS
    Sessions,
    Unknown         \* nothing is said of what is meant

ASSUME SessionsAssumption ==
    \A s \in Sessions :
        /\ DOMAIN s = {"ps1", "shown", "cwd", "line", "commands"}
        /\ s.cwd \in Seq(PromptCharacter) /\ s.cwd # <<>> /\ s.cwd[1] = "/"
        /\ s.ps1 \in Seq(PromptCharacter) /\ s.line \in Seq(Character)

VARIABLES
    mode,           \* where main() is
    session

vars == <<mode, session, x, p>>

Modes == {"expanding", "reading", "parsing", "running", "exited", "crashed"}

Init ==
    /\ session \in Sessions
    /\ mode = "expanding"
    /\ x = Expanding(session.ps1, session.cwd)
    /\ p = Fresh(<<>>)

(* continue: the locals of the parser and the expander are gone.           *)
Prompt ==
    /\ mode' = "expanding"
    /\ x' = Expanding(session.ps1, session.cwd)
    /\ p' = Fresh(<<>>)
    /\ UNCHANGED session

Expand == mode = "expanding" /\ ExpandChar /\ UNCHANGED <<mode, session, p>>

ShowPrompt ==
    /\ mode = "expanding" /\ x.end = "done"
    /\ mode' = "reading"
    /\ UNCHANGED <<session, x, p>>

(* read_cmdline: the end of input exits, an empty line is not run.         *)
EndOfInput == mode = "reading" /\ mode' = "exited" /\ UNCHANGED <<session, x, p>>

EmptyLine == mode = "reading" /\ session.line = <<>> /\ Prompt

ReadLine ==
    /\ mode = "reading" /\ session.line # <<>>
    /\ mode' = "parsing"
    /\ p' = Begin(session.line)
    /\ UNCHANGED <<session, x>>

Parse == mode = "parsing" /\ ReadChar /\ UNCHANGED <<mode, session, x>>

SyntaxError == mode = "parsing" /\ p.end = "done" /\ p.ret = "error" /\ Prompt

HandOver ==
    /\ mode = "parsing" /\ p.end = "done" /\ p.ret # "error"
    /\ mode' = "running"
    /\ UNCHANGED <<session, x, p>>

(* do_run looks for a builtin by the name of the command, and counts the   *)
(* arguments up to a null pointer, for which argv must have room.          *)
Nulls(argv) == {j \in 1..MaxArgs : j \in DOMAIN argv => argv[j] = NoCell}
Terminated(argv) == Nulls(argv) # {}
Runnable(cmd) == cmd.argv[1] # NoCell /\ Terminated(cmd.argv)

CommandsRun ==
    mode = "running" /\ (\A i \in DOMAIN p.cmds : Runnable(p.cmds[i])) /\ Prompt

(* One of them is exit, or exec.                                           *)
RunExits ==
    /\ mode = "running" /\ Runnable(p.cmds[1])
    /\ mode' = "exited"
    /\ UNCHANGED <<session, x, p>>

(* The memory of others is read or written, a null pointer is followed, or *)
(* code_fault() is called.                                                 *)
Crash ==
    /\ \/ mode = "expanding" /\ x.end = "astray"
       \/ mode = "parsing" /\ p.end \in {"astray", "eof", "aborted"}
       \/ mode = "running" /\ \E i \in DOMAIN p.cmds : ~Runnable(p.cmds[i])
    /\ mode' = "crashed"
    /\ UNCHANGED <<session, x, p>>

MainLoop ==
    \/ Expand \/ ShowPrompt \/ ReadLine \/ EmptyLine \/ Parse \/ SyntaxError
    \/ HandOver \/ CommandsRun \/ Crash

Next == MainLoop \/ EndOfInput \/ RunExits

Spec == Init /\ [][Next]_vars /\ WF_vars(MainLoop)

-----------------------------------------------------------------------------
TypeOK ==
    /\ mode \in Modes
    /\ x.end \in {"no", "done", "astray", "hung"}
    /\ x.cur \in 1..Len(x.text) /\ x.start \in 1..Len(x.text) + 1
    /\ x.level \in 0..2 /\ x.backslash \in BOOLEAN
    /\ p.end \in {"no", "done", "astray", "eof", "aborted"}
    /\ p.ret \in {"empty", "some", "error"}
    /\ p.redirecting \in {"no", "fd", "file"}
    /\ p.asked \in 0..MaxAsked /\ p.element \in 0..MaxArgs
    /\ p.squote \in BOOLEAN /\ p.dquote \in BOOLEAN

(* What do_run is given: the type of every command, and its arguments,     *)
(* which are those up to the first null pointer, if argv has one.          *)
UpToNull(argv) == SubSeq(argv, 1, Min(Nulls(argv)) - 1)

Given(q) ==
    [i \in DOMAIN q.cmds |->
        [type |-> q.cmds[i].type, argv |-> UpToNull(q.cmds[i].argv)]]

(* A line written with quotes, escapes, blanks and operators is read as    *)
(* the commands and the arguments that were meant, and there is a null     *)
(* pointer behind the arguments of each.                                   *)
ReadsWhatWasWritten ==
    mode = "running" /\ session.commands # Unknown
        => /\ \A i \in DOMAIN p.cmds : Terminated(p.cmds[i].argv)
           /\ Given(p) = session.commands

(* PS1 is shown as what its escapes mean.                                  *)
PromptShown ==
    x.end = "done" /\ session.shown # Unknown => x.out = session.shown

(* The arguments of a command are those up to the first null pointer.      *)
NoGaps ==
    mode = "running" =>
        \A i \in DOMAIN p.cmds : \A j \in DOMAIN p.cmds[i].argv :
            p.cmds[i].argv[j] = NoCell => j = Len(p.cmds[i].argv)

(* Such a line is not lost: it is run, without asking for more of it.      *)
WrittenLinesRun ==
    mode = "parsing" /\ session.commands # Unknown ~> mode = "running"

(* The expander and the parser move their position about, but they stop on *)
(* every prompt, but for an empty \D, and on every line.                   *)
LoopGoesOn ==
    /\ mode = "expanding" ~> mode # "expanding" \/ x.end = "hung"
    /\ mode = "parsing" ~> mode # "parsing"
=============================================================================
