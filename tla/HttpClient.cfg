SPECIFICATION Spec
CONSTANTS
    c1 = c1
    c2 = c2
    r1 = r1
    r2 = r2
    front = front
    nobase = nobase
    Caller = {c1, c2}
    Region = {r1, r2}
    Front = front
    NoBase = nobase
    maxRetries429 = 1
    MaxChanges = 1
    MaxResets = 1
SYMMETRY CallersAndRegions
INVARIANTS AloneIsServed SendBudget ReplaysAreFirstDeliveries
