SPECIFICATION Spec
CONSTANTS
    Cells = {"x", "y"}
    Values = {0, 1}
    Results = {0}
    Actions = {}
    Descriptions = {"setY", "setX"}
    Evaluate <- MCEvaluate
    Initial <- MCInitial
    EvalOperand <- MCOperand
    InterpretInner <- MCInner
    MaxAttempts = 2
    MaxRoots = 2
INVARIANT HistorySerializable
CHECK_DEADLOCK FALSE
