CONSTANTS
    a = a
    b = b
    c = c
    lib = lib
    main = main
    readme = readme
    x = x
    y = y
    Ident = {a, b, c}
    Path = {lib, main, readme}
    Content = {x, y}
    Missing = Missing
    Directory = Directory
    Plans <- MCPlans
    Parallelism = 2
    MaxSteps = 2
    Above <- MCAbove
    Rank <- MCRank
    InitialTree <- MCInitial
    WorkerTree <- MCTrees
SPECIFICATION FairSpec
INVARIANTS
    WorkersSeePrerequisites
    CompletedRunKeepsAllWork
    FailureStopsLaterLayers
    StatusIsEarliestFailure
    NoWorkerOutlivesGroup
    GroupMergedExactly
PROPERTIES
    OnlyAgreedWorkIsWritten
    RunTerminates
    ImplementsPlanExecution
    ImplementsWorkerContract
