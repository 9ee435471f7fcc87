CONSTANTS
    MaxSteps = 3
    MaxCalls = 2
    Blank = Blank
    hello = hello
    bye = bye
    id1 = id1
    Text = {hello, bye}
    CallId = {id1}
SPECIFICATION Spec
INVARIANTS
    TranscriptAnswersEveryCall
    FallbackIdsAreUnique
    TraceIsConsistent
PROPERTY
    ImplementsWorkerContract
