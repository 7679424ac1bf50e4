CONSTANTS
  r1 = r1  r2 = r2  r3 = r3
  Requests = {r1, r2, r3}
  KindOf <- Routes
  Configs <- TwoConfigs
  MaxConns = 1
  MaxFaults = 1
SPECIFICATION FairSpec
CHECK_DEADLOCK FALSE
INVARIANT DrainLosesNothing
INVARIANT HalfEnqueueExplained
PROPERTY ShutdownEnds
