CONSTANTS
  r1 = r1  r2 = r2  r3 = r3  k1 = k1  c1 = c1  b1 = b1  b2 = b2
  Requests = {r1, r2, r3}
  NoJob = NoJob
  Keys = {k1}
  NoKey = NoKey
  KeyOf <- OneKey
  HashOf <- Bodies
  Cancels = {c1}
  TargetOf <- CancelFirst
  MaxFaults = 2
SPECIFICATION Spec
CHECK_DEADLOCK FALSE
INVARIANT TypeOK
INVARIANT OneJobPerKey
INVARIANT SameKeySameJob
INVARIANT KeyBindsBody
INVARIANT PublishedOnce
INVARIANT CancelHolds
