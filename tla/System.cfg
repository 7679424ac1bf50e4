CONSTANTS
  r1 = r1  r2 = r2  k1 = k1  c1 = c1  b1 = b1  w1 = w1
  Requests = {r1, r2}
  NoJob = NoJob
  Keys = {k1}
  NoKey = NoKey
  KeyOf <- OneKey
  HashOf <- OneBody
  Cancels = {c1}
  TargetOf <- CancelFirst
  MaxFaults = 1
  Replicas = {{w1}}
  MaxAttempts = 2
  MaxDeliver = 1
  MaxWorkerFaults = 0
  MaxCrashes = 1
  MaxExpiries = 0
  MaxPanics = 0
SPECIFICATION SysSpec
CHECK_DEADLOCK FALSE
PROPERTY ServiceSpec
PROPERTY WorkerSpec
