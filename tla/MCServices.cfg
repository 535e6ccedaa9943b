SPECIFICATION ServiceSpec
CONSTANTS
    Tree <- MCTree
    Roots <- MCRoots
    Parts <- MCParts
    Attached <- MCAttached
    Size <- MCSize
    Asks <- MCAsks
    MaxBytes = 3
    MaxTrees = 2
    MaxReads = 3
    MaxMoves = 1
    MaxFaults = 1
    Change <- MCChange
    Nature <- MCNature
    Programs <- MCPrograms
    Targets <- MCTargets
    MaxBroken = 2
    Workspace = {"w1", "w2"}
    Path = {"p1", "p2"}
    Process = {"u", "v"}
    Registries <- MCRegistries
    MaxJobs = 2
    MaxMishaps = 2
    Clone = {"here", "there"}
    Fact <- MCFact
    MaxRecords = 3
    MaxExports = 2
    MaxImports = 3
    MaxDisposals = 1
    Versions <- MCVersions
    Conflicting <- MCConflicting
    Unmerged <- MCUnmerged
    Drafts <- MCDrafts
    Code <- MCCode
    MaxPicks = 2
    MaxActs = 3
INVARIANTS
    ServicesTypeOK AnswersTrue CatalogWhole EnginesAgree CleansUp
    NoUpdateLost JournalsKept Recoverable CheckpointsNamed
    OneFact NothingDropped DecidedStays
    MergeKeepsBoth DecisionsTrue
PROPERTIES EveryReadEnds
CHECK_DEADLOCK FALSE
