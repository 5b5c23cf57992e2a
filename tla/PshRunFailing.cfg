SPECIFICATION FairSpec
CONSTANTS
    Lines <- MCFailingLines
    Pids = {1, 2}
    Pipes = {1, 2}
    Shell = Shell
    NoPid = NoPid
    MaxFd = 5
    Tty = Tty
    Disk = Disk
    Closed = Closed
    PipeCap = 1
    Writes = 1
    Failures = {"fork", "pipe", "open", "limits"}
    LineBuffered = FALSE
INVARIANTS
    JobPidsUnreaped
    OneWriter
    RightEnds
PROPERTIES
    PromptReturns
CHECK_DEADLOCK FALSE
