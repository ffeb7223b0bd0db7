SPECIFICATION Spec
CONSTANTS
    Key <- MCKey
    BaseOf <- MCBaseOf
    Definition <- MCDefinition
    MaxRank = 2
INVARIANTS DependenciesFirst OnlyCyclesAreCut NothingPrivateIsSent
CHECK_DEADLOCK FALSE
