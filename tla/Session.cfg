SPECIFICATION Spec
CONSTANTS
    Strings <- MCStrings
    Dirs <- MCDirs
    FileDirs <- MCFileDirs
    Links <- MCLinks
    Nowhere = Nowhere
    PathOf <- MCPathOf
    HomeVar <- MCHomeVar
    Unset = Unset
    AliasNames <- MCAliasNames
    Definitions <- MCDefinitions
    NoAlias = NoAlias
    Commands <- MCCommands
    SearchPath <- MCSearchPath
    FileOf <- MCFileOf
    NotFound = NotFound
    Lines <- MCLines
    Idle <- MCIdle
    Inherited <- MCInherited
INVARIANTS
    TypeOK
    PwdNamesCwd
    RunsWhatSearchFinds
    ExpansionKeepsArguments
PROPERTIES
    CdLeavesWayBack
    ExpansionEnds
CHECK_DEADLOCK FALSE
