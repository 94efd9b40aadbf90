SPECIFICATION MCSpec
CONSTANTS
    a1 = a1
    a2 = a2
    b1 = b1
    c1 = c1
    n = n
    junk = junk
    malformed = malformed
    nothing = nothing
    Artifacts = {a1, a2, b1, c1}
    SemanticOf <- MCSemanticOf
    Junk = junk
    Names = {n}
    Malformed = malformed
    ReplayInputs <- MCReplayInputs
    Graphs <- MCGraphs
    Selections <- MCSelections
    Recipes <- MCRecipes
    Environments <- MCEnvironments
    MaxValues = 3
    MaxArtifacts = 3
    MaxBindings = 1
    MaxNodes = 3
    MaxEdges = 4
    MaxCapabilities = 2
    Nothing = nothing
    CaseOf <- MCCaseOf
    Scenario <- MCScenario
    IdOrder <- MCIdOrder
    FirstDocuments <- MCFirst
    Theories <- MCTheories
    RealizationLists <- MCRealizationLists
    SuiteLists <- MCSuiteLists
    Policies <- MCPolicies
    MaxEdits = 2
    MaxOutcomes = 2
    MaxFaults = 1
    MaxClaims = 2
    None = None
    Failed = Failed
    FirstProjects <- MCFirstProjects
    NewRelations <- MCNewRelations
    Requests <- MCRequests
    KeyOrder <- MCKeyOrder
    Documents = {"m", "n"}
    MaxEntities = 5
    MaxRelations = 4
    MaxQueryRoots = 2
    MaxQueryDepth = 3
    MaxQueryNodes = 5
    Denied = Denied
    Absent = Absent
    MaxAuthored = 4
INVARIANTS StoreIsClosed ClosuresStayTrue SelectionIsEarned ClaimsReadBack CheckerAgrees ProjectIsTold
CHECK_DEADLOCK FALSE
