CONSTANTS
  Objects <- SmallObjects
  NoObject = NoObject
  UploadRequests <- SmallUploadRequests
  UploadIDs <- SmallUploadIDs
  MaxUploadBytes = 2
  MaxDecodeBytes = 3
  MaxPixels = 4
  MaxEdge = 2
  MaxAttempts = 2
  MaxFaults = 1
  MaxDrops = 1
SPECIFICATION Spec
CHECK_DEADLOCK FALSE
INVARIANT CompletedIsWhole
INVARIANT StepAudit
INVARIANT AdmittedFits
INVARIANT BackoffInterval
PROPERTY RunContract
