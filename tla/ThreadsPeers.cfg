SPECIFICATION MCSpec
CONSTANTS
    ThreadIds = {"t1", "t2"}
    ThreadUsers = {"ann", "bob"}
    Creators = {"ann"}
    OrgOfUser <- OneOrg
    Stateless = {"t2"}
    RunTasks = {r1}
    Deletions = {d1}
    Copies = {q1}
    MaxThreadFaults = 1
    PeerCalls = {p1, p2, p3}
    FailureThreshold = 2
    HalfOpenMaxCalls = 2
    MaxAttempts = 2
    MaxCards = 1
    MaxLeaks = 2
INVARIANTS ThreadInv FedInv
PROPERTIES ExpiredGo HalfOpenDecides
CHECK_DEADLOCK FALSE
