SPECIFICATION Spec
CONSTANTS
    MaxFd = 5
    Names = {f1, f2}
    Std = Std
    Closed = Closed
    Lists <- MCParserLists
    MaxLeft = 4
INVARIANTS
    ShellKeepsItsFds
CHECK_DEADLOCK FALSE
