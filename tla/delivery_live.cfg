SPECIFICATION FairSpec
CONSTANTS
  Messages = {m1}
  Deliverers = {d1, d2}
  Readers = {r1}
  Inbox = Inbox
  Nobody = Nobody
  AppServer = {TRUE, FALSE}
  Ttl = {m1}
  Slow = FALSE
  MaxFaults = 1
INVARIANTS TypeOK DeliveredMeansConsumed InjectedOnceUnlessFault
PROPERTY EveryMessageReachesAgent
CHECK_DEADLOCK FALSE
