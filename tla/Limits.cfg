SPECIFICATION MCSpec
CONSTANTS
    Callers = {"org", "ip"}
    Endpoints <- Paths
    LimitRequests = {q1, q2}
    TypeLimit <- TwoOfType
    AnonFloor = 1
    Fallback = "error"
    Window = 1
    MaxCount = 4
    MaxFaults = 2
    Rules <- RuleIds
    RuleValues <- Values
    StartRules <- Start1
    RuleCallers <- Ann
    Checks = {k1, k2}
    Edits = {e1}
    RuleTtl = 1
    MaxRuleFaults = 1
INVARIANTS LimiterInv 
 
CHECK_DEADLOCK FALSE
