SPECIFICATION AdapterSpec
CONSTANTS
    root = root
    child = child
    nobody = nobody
    none = none
    silence = silence
    noEvent = noEvent
    t1 = t1
    Scopes = {root, child}
    Root = root
    NoScope = nobody
    Tasks = {t1}
    Programs <- MCPrograms
    NoProgram = none
    Silence = silence
    NoEvent = noEvent
    MaxScopes = 2
    MaxTasks = 2
    MaxYields = 1
INVARIANTS CallerIsToldTheTruth
PROPERTIES RefinesOracle EveryEventIsAnswered
CHECK_DEADLOCK FALSE
