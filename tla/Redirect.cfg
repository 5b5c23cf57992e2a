SPECIFICATION Spec
CONSTANTS
    MaxFd = 5
    Names = {f1, f2}
    Std = Std
    Closed = Closed
    Lists <- MCOrderlyLists
    MaxLeft = 4
INVARIANTS
    TypeOK
    ChildGetsWhatItAsked
    BuiltinGetsWhatItAsked
PROPERTIES
    RestoredAfterBuiltin
    ExecKeepsRedirections
CHECK_DEADLOCK FALSE
