CONSTANTS
    a = a
    b = b
    c = c
    d = d
    e = e
    Ident <- MCIdent
    Plans <- MCPlans
    MaxPlanSubtasks = 4
    MaxSubtasks = 3
SPECIFICATION FairSpec
INVARIANTS
    GroupsPartitionPlan
    DependenciesInEarlierGroups
    GroupsAreEarliest
    CycleVerdictIsExact
PROPERTY PlanningTerminates
