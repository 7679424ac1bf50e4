CONSTANTS
  w1 = w1  w2 = w2  j1 = j1  j2 = j2
  Jobs = {j1, j2}
  NoJob = NoJob
  BadJobs = {j2}
  Replicas = {{w1}, {w2}}
  MaxAttempts = 2
  MaxDeliver = 2
  ForeignMsgs = 1
  MaxCrashes = 0
  MaxFaults = 0
  MaxExpiries = 0
  MaxPanics = 0
SPECIFICATION FairSpec
CHECK_DEADLOCK FALSE
INVARIANT NoOrphanedJob
INVARIANT FailureJustified
INVARIANT AttemptsRunOutFirst
PROPERTY EveryJobSettles
PROPERTY QueueDrains
