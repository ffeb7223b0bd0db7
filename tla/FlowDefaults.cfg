SPECIFICATION Spec
CONSTANTS
    Process = {"w1", "c1"}
    UserOf <- MCUserOf
    Org = "org"
    Definition <- MCCopied
    Key <- MCKey
    BaseOf <- MCBaseOf
    FillOf <- MCFillOf
    Sensitive = {"iban"}
    Stray = {"note"}
    Asker = {}
    MaxFaults = 1
    LiveAnswers <- MCLiveAnswers
    NextNode <- MCNextNode
    BoundError <- MCBoundError
INVARIANTS DefaultsAreMarked
CHECK_DEADLOCK FALSE
