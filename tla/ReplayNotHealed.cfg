CONSTANTS
  r1 = r1  r2 = r2  r3 = r3  k1 = k1  c1 = c1  b1 = b1  b2 = b2
  Requests = {r2, r3}
  NoJob = NoJob
  Keys = {k1}
  NoKey = NoKey
  KeyOf <- FirstUnkeyed
  HashOf <- OneBody
  Cancels = {}
  TargetOf <- CancelFirst
  MaxFaults = 1
SPECIFICATION Spec
CHECK_DEADLOCK FALSE
INVARIANT AcceptedIsPublished
