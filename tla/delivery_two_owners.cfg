SPECIFICATION Spec
CONSTANTS
  Messages = {m1}
  Deliverers = {d1}
  Readers = {r1}
  Inbox = Inbox
  Nobody = Nobody
  AppServer = {TRUE}
  Ttl = {}
  Slow = FALSE
  MaxFaults = 0
INVARIANT SingleOwner
CHECK_DEADLOCK FALSE
