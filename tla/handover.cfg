SPECIFICATION FairSpec
CONSTANTS
  a1 = a1
  a2 = a2
  s1 = s1
  s2 = s2
  s3 = s3
  Agents = {a1, a2}
  Sessions = {s1, s2, s3}
  NoSession = NoSession
  Interlocked = FALSE
  MaxEpoch = 2
  MaxTurns = 1
  MaxFaults = 1
INVARIANTS TypeOK AskedOnce ClosedWithBundle NeverTwoPairs TornDownForSuccessor OneReplacementPerFault
PROPERTY HandoverCompletes
CHECK_DEADLOCK FALSE
