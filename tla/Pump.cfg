SPECIFICATION FairSpec
CONSTANTS
    Worker = {w1}
    Event <- MCEvent
    Id <- DistinctIds
    Requests <- MCRequests
    MaxOutages = 1
    MaxCrashes = 2
INVARIANTS BufferedIsNeverLost DeliveredInOrder NoDuplicateWithoutCrash RetryBudget
PROPERTIES ImplementsAtLeastOnce NeverResurrected BufferedIsSettled ProcessChangesReturns
