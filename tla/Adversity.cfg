CONSTANTS
  w1 = w1  w2 = w2  j1 = j1  j2 = j2
  Jobs = {j1}
  NoJob = NoJob
  BadJobs = {}
  Replicas = {{w1}, {w2}}
  MaxAttempts = 2
  MaxDeliver = 3
  ForeignMsgs = 0
  MaxCrashes = 1
  MaxFaults = 1
  MaxExpiries = 1
  MaxPanics = 1
SPECIFICATION Spec
SYMMETRY Symmetry
CHECK_DEADLOCK FALSE
INVARIANT TypeOK
INVARIANT SingleOwner
INVARIANT OwnerView
INVARIANT RetryBudget
INVARIANT AttemptLedger
INVARIANT ResultIntegrity
INVARIANT LossExplained
PROPERTY OutcomeIsFinal
PROPERTY LifecycleSpec
