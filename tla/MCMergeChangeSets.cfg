CONSTANTS
    lib = lib
    libX = libX
    main = main
    x = x
    y = y
    Path = {lib, libX, main}
    Content = {x, y}
    Missing = Missing
    Directory = Directory
    Above <- MCAbove
    Rank <- MCRank
    Owner <- MCOwner
SPECIFICATION Spec
INVARIANTS
    MergeIsExact
    RejectsExactlyConflicts
    FailedMergeIsPrefix
