SPECIFICATION MCSpec
CONSTANTS
    Cells = {"x", "y"}
    Values = {0, 1}
    Results = {0, 1, 2}
    Actions = {"toggled", "refused", "taken", "left"}
    Descriptions = {"toggle", "swap", "blind", "mirror", "await", "either", "total"}
    Evaluate <- MCEvaluate
    Initial <- MCInitial
    MaxAttempts = 6
    MaxRoots = 3
    EvalOperand <- MCOperand
    InterpretInner <- MCInner
    Parts <- MCParts
    Openings <- MCOpenings
    Branches <- MCBranches
    Stores <- MCStores
INVARIANTS OrElseRunsOneBranch SingleCustody NoMissedWakeup HistorySerializable
CHECK_DEADLOCK FALSE
