SPECIFICATION DrainingSpec
CONSTANTS
    root = root
    left = left
    right = right
    nobody = nobody
    none = none
    silence = silence
    Silence = silence
    t1 = t1
    t2 = t2
    Scopes = {root, left, right}
    Root = root
    NoScope = nobody
    Tasks = {t1, t2}
    Programs <- MCPrograms
    NoProgram = none
    MaxScopes = 3
    MaxTasks = 2
    MaxYields = 1
INVARIANTS ClosedScopesAreDone OutcomeIsEarned
PROPERTIES ExitsConverge
CHECK_DEADLOCK FALSE
