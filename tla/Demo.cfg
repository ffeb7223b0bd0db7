SPECIFICATION Spec
CONSTANTS
    Setup <- MCSetup
    Visits <- MCVisits
    MaxRuns = 2
    MaxSaves = 2
    MaxFaults = 1
    Waits <- MCWaits
    WithClaims = {"3", "4", "5"}
    WithService = {"4"}
    AppKey = "k1"
    Flows <- MCFlows
    MaxShown = 3
    Event = {"e1", "e2"}
    Broken = {"e2"}
    MaxDocs = 3
INVARIANTS TypeOK ConfigsKeepTheirKeys RouteIsLive ReportedAsAnswered StepsAsSubmitted CreatedIsRecorded
PROPERTIES SupersededStandsStill RunsSettle
CHECK_DEADLOCK FALSE
