SPECIFICATION MCSpec
CONSTANTS
    c1 = c1
    o1 = o1
    a1 = a1
    a2 = a2
    a3 = a3
    Commands = {c1}
    Observations = {o1}
    Actions = {a1, a2, a3}
    Bounds <- MCBounds
    MaxGiven = 2
    MaxBurst = 2
    MaxBound = 4
    MaxStock = 3
    None = None
    Failed = Failed
    AuthoredSpecs <- MCAuthoredSpecs
    FirstStocks <- MCFirstStocks
    CommandEnvelopes <- MCCommandEnvelopes
    OutsideObservations <- MCOutsideObservations
    Identifiers <- MCIdentifiers
    MaxSafeInteger = 3
    MaxInputs = 5
    MaxInterpretations = 2
SYMMETRY ActionSymmetry
INVARIANTS NothingLost AttemptedOnce EventsTellTheInventory
CHECK_DEADLOCK FALSE
