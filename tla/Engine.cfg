\* Every built-in plan, as a run and as a stream; or three children in parallel.
SPECIFICATION EngineSpec
CONSTANTS
    NodeTypes <- DefaultTypes
    Plans <- BuiltInPlans
    ReflectionNodes <- DefaultReflectionNodes
    RoundLimits <- Limits
    MaxSteps = 20
    a = a
    b = b
    c = c
    Nobody = Nobody
    Children = {a, b, c}
    Configurations <- Layouts
    MaxIterations = 3
    MaxRecords = 3
INVARIANTS OrderSound JudgedSqlWasExecuted WorkCompletes RecordsSound
PROPERTIES RepairsAreBounded RecordsOnlyGrow
