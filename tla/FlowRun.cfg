SPECIFICATION Spec
CONSTANTS
    Process = {"w1", "w2", "c1"}
    UserOf <- MCUserOf
    Org = "org"
    Definition <- MCDefinition
    Key <- MCKey
    BaseOf <- MCBaseOf
    FillOf <- MCFillOf
    Sensitive = {"iban"}
    Stray = {"note"}
    Asker = {"w1"}
    MaxFaults = 2
    LiveAnswers <- MCLiveAnswers
    NextNode <- MCNextNode
    BoundError <- MCBoundError
INVARIANTS TypeOK GeneratedFromWholeRun PrivateStaysPrivate
PROPERTIES RoutedAsStored RunSettles
CHECK_DEADLOCK FALSE
