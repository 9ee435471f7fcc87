CONSTANTS
    Tasks <- MCTasks
    Strategies <- MCStrategies
    Repetitions = 1
    ManualRuns <- MCManualRuns
    MaxInvocations = 3
SPECIFICATION Spec
INVARIANT AppendedLineIsOneObject
