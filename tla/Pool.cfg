CONSTANTS
  w1 = w1  w2 = w2  m1 = m1  m2 = m2  m3 = m3  m4 = m4
  Workers = {w1, w2}
  Msgs = {m1, m2, m3, m4}
  NoMsg = NoMsg
  BadMsgs = {m4}
  HasJobTimeout = TRUE
  MaxNextErrors = 1
SPECIFICATION FairSpec
CHECK_DEADLOCK FALSE
INVARIANT TypeOK
INVARIANT OneHolder
INVARIANT NoSendAfterClose
INVARIANT CleanReturn
INVARIANT SignalSparesJobs
PROPERTY ShutdownCompletes
PROPERTY QueueIsServed
