CONSTANTS
  r1 = r1  r2 = r2  k1 = k1  c1 = c1  b1 = b1  w1 = w1
  Requests = {r1, r2}
  NoJob = NoJob
  Keys = {k1}
  NoKey = NoKey
  KeyOf <- OneKey
  HashOf <- OneBody
  Cancels = {}
  TargetOf <- CancelFirst
  MaxFaults = 1
  Replicas = {{w1}}
  MaxAttempts = 1
  MaxDeliver = 2
  MaxWorkerFaults = 0
  MaxCrashes = 1
  MaxExpiries = 1
  MaxPanics = 1
SPECIFICATION SysFairSpec
CHECK_DEADLOCK FALSE
PROPERTY AcceptedSettles
PROPERTY SweepHeals
PROPERTY EveryRequestAnswered
