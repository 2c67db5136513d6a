CONSTANTS
  s1 = s1
  s2 = s2
  Instances = {s1, s2}
  Nobody = nobody
  Gone = gone
  NumJobs = 2
  Interval = 2
  RetryDelay = 1
  LeaseTTL = 6
  Timeout = 1
  UpdateTimeout = 1
  ClaimBy <- InTurn
  Skew <- OneAhead
  MaxSkew = 1
  MaxFaults = 1
SPECIFICATION FairSpec
INVARIANTS
  OneRunner
  RunnerHoldsLease
PROPERTIES
  JobsKeepSucceeding
