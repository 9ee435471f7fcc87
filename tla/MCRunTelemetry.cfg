CONSTANTS
    f = f
    g = g
    x = x
    y = y
    id1 = id1
    id2 = id2
    stop = stop
    None = None
    Piece = {f, g, x, y}
    Label = {id1, id2, stop}
    Events <- MCEvents
    MaxEvents = 3
    Tasks <- MCTasks
    Strategies <- MCStrategies
    Baseline = "single"
    CallsBeside <- MCCallsBeside
    WallTimes = {0, 2}
    OtherLines <- MCOtherLines
SPECIFICATION TelemetrySpec
INVARIANTS
    EventsSurviveFraming
    CallsAreAssembled
    RateLiesBetweenItsCalls
    AnalysisAgrees
