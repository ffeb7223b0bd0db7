SPECIFICATION Spec
CONSTANTS
    w1 = w1
    w2 = w2
    Worker = {w1, w2}
    Event <- MCTwoEvents
    Id <- DistinctIds
    Requests <- OneRequest
    MaxOutages = 1
    MaxCrashes = 1
SYMMETRY WorkerSymmetry
INVARIANT Custody
