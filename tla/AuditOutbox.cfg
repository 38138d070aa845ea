SPECIFICATION FairSpec
CONSTANTS
  s1 = s1
  s2 = s2
  q1 = q1
  q2 = q2
  Servers <- TwoServers
  Requests <- TwoRequests
  ServerOf <- AtBoth
  Bad <- BadFirst
  BatchSize = 2
  CacheSize = 1
  MaxRetry = 2
  MonthsAhead = 0
  MaxMonth = 2
  MaxFaults = 1
CHECK_DEADLOCK FALSE
INVARIANTS OutboxInv AckedIsKept GivenUpIsRetried
PROPERTIES ImplementsFate OutboxDrains
