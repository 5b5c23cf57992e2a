SPECIFICATION Spec
CONSTANTS
    HaveReadline = TRUE
    Home <- MCHome
    Continuations <- MCContinuations
    MaxAsked = 1
    MaxArgs = 4
    Users <- MCUsers
    NoCell = NoCell
    Unknown = Unknown
    Sessions <- MCSessions
INVARIANTS
    TypeOK
    ReadsWhatWasWritten
    PromptShown
    NoGaps
PROPERTIES
    WrittenLinesRun
    LoopGoesOn
CHECK_DEADLOCK FALSE
