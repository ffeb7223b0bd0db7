SPECIFICATION Spec
CONSTANTS
    c1 = c1
    c2 = c2
    o1 = o1
    Caller = {c1, c2}
    Owner = {o1}
    Kind = {"code", "user", "person"}
    Tagged <- MCTagged
    MaxRotations = 2
    MaxPublishes = 1
    MaxCopies = 1
SYMMETRY CallerSymmetry
INVARIANTS InvalidationDominates QuietCacheIsCurrent HandedOutIsFresh StaleTwiceMeansRotatedTwice
