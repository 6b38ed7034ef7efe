SPECIFICATION Spec
CONSTANTS
  Messages = {m1}
  Deliverers = {d1, d2}
  Readers = {r1}
  Inbox = Inbox
  Nobody = Nobody
  AppServer = {TRUE}
  Ttl = {}
  Slow = TRUE
  MaxFaults = 0
INVARIANT InjectedOnce
CHECK_DEADLOCK FALSE
