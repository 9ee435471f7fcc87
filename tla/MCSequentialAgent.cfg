CONSTANTS
    a = a
    b = b
    c = c
    Ident = {a, b, c}
    Plans <- MCPlans
    MaxSteps = 3
SPECIFICATION Spec
INVARIANTS
    WorkersObserveEarlierChanges
    StopsAtFirstFailure
PROPERTIES
    ImplementsPlanExecution
    ImplementsWorkerContract
