------------------------------ MODULE MCPshRun ------------------------------
(* The command lines PshRun is model-checked on.                           *)
EXTENDS PshRun

Stage(t, p) == [type |-> t, prog |-> p, redir |-> "none"]
StageTo(t, p, r) == [type |-> t, prog |-> p, redir |-> r]

(* Every pipe has a forked command on both sides.                          *)
MCSoundLines ==
    { << Stage("PIPED", "seq"), Stage("PIPED", "cat"), Stage("PIPED", "cat"),
         Stage("SINGLE", "cat") >>,
      << Stage("RUN_AND", "cd"), Stage("PIPED", "seq"), Stage("RUN_OR", "nosuch") >>,
      << Stage("PIPED", "echo"), Stage("BACKGROUND", "cd") >>,
      << StageTo("PIPED", "seq", "out"), Stage("PIPED", "exit"), Stage("MULTICMD", "cat"),
         Stage("SINGLE", "exit") >> }

ASSUME SoundLinesAssumption == ReadersFork(MCSoundLines)

(* Pipes whose last command is a builtin, and calls that fail.             *)
MCFailingLines ==
    { << Stage("PIPED", "seq"), Stage("SINGLE", "cd") >>,
      << Stage("PIPED", "seq"), Stage("MULTICMD", "echo"), Stage("SINGLE", "cat") >>,
      << Stage("PIPED", "seq"), Stage("PIPED", "cat"), StageTo("SINGLE", "cat", "in") >>,
      << StageTo("RUN_AND", "cd", "out"), Stage("BACKGROUND", "exit") >> }
=============================================================================
