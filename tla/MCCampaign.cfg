SPECIFICATION Spec
CONSTANTS
    Targets <- MCTargets
    Plan <- MCPlan
    RunnerGuards = {"nothing", "json", "v18", "e8"}
    Evidences <- MCEvidences
    Selections <- MCSelections
    MaxTurns = 3
    MaxUnchecked = 2
INVARIANTS
    NoMixing
    PlanPrefix
PROPERTIES
    NeverOverwritten
    FalseOnlyFromStale
    SurveyStartsFresh
CHECK_DEADLOCK FALSE
