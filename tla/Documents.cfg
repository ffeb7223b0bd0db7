SPECIFICATION Spec
CONSTANTS
    MaxRow = 3
    FirstRows = {1, 2}
    Coded <- MCCoded
    PageSize = 1
    connMax429Backoffs = 1
    Walker = {"w1"}
    MaxChanges = 1
    Caller = {"w1"}
    Asked <- MCAsked
    Fault = {"refused", "lost", "closed", "seal"}
    MaxDocs = 2
INVARIANTS TypeOK NothingSkipped SealedForItsTarget NoHalfDocument
PROPERTY GoroutineEnds
CHECK_DEADLOCK FALSE
