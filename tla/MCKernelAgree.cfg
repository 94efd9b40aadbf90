SPECIFICATION ToolsSpec
CONSTANTS
    Signature <- MCAllOperations
    Sources <- MCSources
    Programs <- AllPrograms
    Scripts <- MCScripts
    Bounds <- MCBounds
    Requests <- MCRequests
    Values <- MCValues
    HasThunk <- ContainsThunk
    Admits <- Shaped
    Metadata = {}
    Filed = {}
    CodePoints <- MCCodePoints
    Rewritten <- MCRewritten
    MaxOperations = 12
    MaxAssumptions = 2
    MaxSourceUnits = 3
    MaxCorrespondences = 3
    Histories = {}
    Names <- MCNames
    Scopes = {"root", "left"}
    Root = "root"
    Resources = {"pipe", "file", "port"}
    Attempts = {"a", "b", "c"}
    NoScope = "none"
    MaxScopes = 2
    MaxResources = 3
    MaxEvents = 6
    MaxProjectedEvents = 5
    MaxProjectedResources = 2
    MaxReplayRequests = 7
    MaxGeneratedLets = 7
    MaxTrace = 150
    MaxVmTrace = 300
    MaxOperands = 5
    MaxDepth = 7
    MaxTokens = 480
    MaxNesting = 16
    MaxDeclarations = 6
    MaxClauses = 3
    MaxRawDepth = 20
    MaxRawNodes = 260
    MaxTermDepth = 14
    MaxTermNodes = 90
    MaxCollection = 5
    MaxContext = 16
    MaxJudgments = 100
    MaxTypeNodes = 60
INVARIANT BackendsAgree
