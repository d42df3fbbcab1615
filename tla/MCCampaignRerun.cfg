SPECIFICATION Spec
CONSTANTS
    Targets <- MCTargets
    Plan <- MCPlan
    RunnerGuards = {"nothing"}
    Evidences <- MCEvidences
    Selections <- MCSelections
    MaxTurns = 3
    MaxUnchecked = 2
INVARIANTS
    VerifiedIsApplied
CHECK_DEADLOCK FALSE
