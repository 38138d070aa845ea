SPECIFICATION MCSpec
CONSTANTS
    Users <- People
    CustomRoles <- Auditor
    GivenRoles <- SomeRoles
    ApiKeys = {k1}
    RolePerms <- AuditPerms
    CustomPerms <- Withheld
    StartMembers <- Developer
    Requests = {r1, r2}
    Readers = {q1}
    PermTtl = 1
    MaxOrgFaults = 1
    FlagUsers = {"ann", "anon"}
    FlagOrgs = {"acme"}
    Evaluators = {e1}
    Adders = {a1, a2}
    OverrideIds = {v1, v2}
    OverrideValues = {"beta"}
    Bucket <- SomeBucket
    Percents = {1, 2}
    Hundred = 3
    FlagTtl = 1
    MaxChanges = 3
INVARIANT DeniedIsWithheld
CHECK_DEADLOCK FALSE
