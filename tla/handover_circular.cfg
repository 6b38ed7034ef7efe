SPECIFICATION FairSpec
CONSTANTS
  a1 = a1
  a2 = a2
  s1 = s1
  s2 = s2
  s3 = s3
  Agents = {a1, a2}
  Sessions = {s1, s2}
  NoSession = NoSession
  Interlocked = TRUE
  MaxEpoch = 1
  MaxTurns = 1
  MaxFaults = 0
PROPERTY HandoverCompletes
CHECK_DEADLOCK FALSE
