SPECIFICATION MCSpec
CONSTANTS
    alpha = alpha
    beta = beta
    v1 = v1
    v2 = v2
    absent = absent
    damaged = damaged
    p1 = p1
    p2 = p2
    nobody = nobody
    orphan = orphan
    Sources = {alpha, beta}
    Order <- MCOrder
    Versions = {v1, v2}
    Absent = absent
    Damaged = damaged
    Processes = {p1, p2}
    Nobody = nobody
    Orphan = orphan
    MaxTransactions = 3
    MaxCrashes = 2
    MaxLosses = 1
    Scenes = {"transactions", "checkouts"}
    Commits = {1, 2, 3}
    Linked = {3}
    Unlicensed = {2}
    Refs <- MCRefs
    ShortName <- MCShortName
    Annotated = {"refs/tags/signed"}
    Branches = {"refs/heads/master", "refs/heads/next", "refs/heads/custody"}
    Custody = "refs/heads/custody"
    SourceIds = {alpha, beta}
    AllIds <- MCOrder
    Tools = {p1, p2}
    Free = nobody
    MaxCommands = 3
    MaxEdits = 1
    MaxStops = 1
    MaxFaults = 2
    MaxEvents = 5
    FirstCatalog <- MCCatalog
    FirstOrigins <- MCOrigins
    FirstSiblings <- MCSiblings
    CatalogEdits <- MCCatalogEdits
    OriginEdits <- MCOriginEdits
    SiblingEdits <- MCSiblingEdits
    CheckoutEdits <- MCCheckoutEdits
    EntryEdits <- MCEntryEdits
INVARIANTS LockedIsRecoverable AllOrNothing StatusIsTrue LockedIsReplayable
PROPERTY CheckoutsAreKept
CONSTRAINT OneAtATime
SYMMETRY MCSymmetry
CHECK_DEADLOCK FALSE
