CONSTANTS
  r1 = r1  r2 = r2  r3 = r3  k1 = k1  c1 = c1  b1 = b1  b2 = b2
  Requests = {r1}
  NoJob = NoJob
  Keys = {k1}
  NoKey = NoKey
  KeyOf <- FirstUnkeyed
  HashOf <- OneBody
  Cancels = {c1}
  TargetOf <- CancelFirst
  MaxFaults = 0
SPECIFICATION Spec
CHECK_DEADLOCK FALSE
PROPERTY RefusalIsTerminal
