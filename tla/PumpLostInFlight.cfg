SPECIFICATION Spec
CONSTANTS
    Worker = {w1}
    Event <- MCTwoEvents
    Id <- DistinctIds
    Requests <- DeadLetterRequests
    MaxOutages = 1
    MaxCrashes = 1
INVARIANTS DeletedIsNeverLost
