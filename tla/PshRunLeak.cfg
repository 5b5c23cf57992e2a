\* A builtin as the last command of a pipeline.
SPECIFICATION Spec
CONSTANTS
    Lines <- MCFailingLines
    Pids = {1, 2}
    Pipes = {1, 2}
    Shell = Shell
    NoPid = NoPid
    MaxFd = 5
    Tty = Tty
    Disk = Disk
    Closed = Closed
    PipeCap = 1
    Writes = 2
    Failures = {"open"}
    LineBuffered = TRUE
INVARIANT PipesClosedAtPrompt
CHECK_DEADLOCK FALSE
