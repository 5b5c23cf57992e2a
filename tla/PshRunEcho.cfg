\* A forked builtin whose standard output is not line buffered.
SPECIFICATION Spec
CONSTANTS
    Lines <- MCSoundLines
    Pids = {1, 2, 3}
    Pipes = {1, 2, 3}
    Shell = Shell
    NoPid = NoPid
    MaxFd = 5
    Tty = Tty
    Disk = Disk
    Closed = Closed
    PipeCap = 1
    Writes = 2
    Failures = {}
    LineBuffered = FALSE
INVARIANT AllOutputWritten
CHECK_DEADLOCK FALSE
