SPECIFICATION MCSpec
CONSTANTS
    AssistantIds = {"a", "b"}
    DefaultIds = {"b"}
    Clients = {"ann", "bob"}
    OrgOf <- OneOrg
    Contents = {"x", "y"}
    GraphOf <- TwoGraphs
    Registry = {"g", "h"}
    Loadable = {"g"}
    Calls = {c1, c2, c3, c4}
    MaxVersions = 4
    MaxCrashes = 1
    CronIds = {j1, j2}
    Servers = {s1, s2}
    ForThreads = {j1}
    Runnable = {j1}
    MaxTime = 1
    MaxCronRuns = 3
    MaxCronFaults = 1
    Lists = {"audit", "threads", "rules", "assistants", "runs", "foundRuns",
             "crons", "flags", "overrides"}
    Rows = {1, 2, 3}
    MaxRowTime = 3
    PageLimit = 1
    HistoryLimit = 2
    MaxCheckpoints = 3
INVARIANTS AssistantInv CronInv ListingsInv SummaryAdds HistoryInv
PROPERTIES BackOnlyByChoiceOrRace
CHECK_DEADLOCK FALSE
