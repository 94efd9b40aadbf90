SPECIFICATION Spec
CONSTANTS
    root = root
    left = left
    right = right
    extra = extra
    pipe = pipe
    file = file
    a1 = a1
    a2 = a2
    a3 = a3
    nobody = nobody
    Scopes = {root, left, right, extra}
    Root = root
    Resources = {pipe, file}
    Attempts = {a1, a2, a3}
    NoScope = nobody
    MaxScopes = 3
    MaxResources = 2
    MaxEvents = 7
SYMMETRY MCSymmetry
INVARIANTS SingularOwnership ClosedScopesAreDone ReverseInstallation
CHECK_DEADLOCK FALSE
