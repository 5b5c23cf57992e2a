SPECIFICATION FairSpec
CONSTANTS
    Lines <- MCSoundLines
    Pids = {1, 2, 3, 4, 5}
    Pipes = {1, 2, 3}
    Shell = Shell
    NoPid = NoPid
    MaxFd = 5
    Tty = Tty
    Disk = Disk
    Closed = Closed
    PipeCap = 1
    Writes = 2
    Failures = {}
    LineBuffered = TRUE
INVARIANTS
    TypeOK
    JobPidsUnreaped
    OneWriter
    RightEnds
    NoStrayEnds
    StdinFromPredecessor
    PipesClosedAtPrompt
PROPERTIES
    HupOnlyJobs
    PromptReturns
    EveryStageEnds
CHECK_DEADLOCK FALSE
