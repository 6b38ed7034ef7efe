SPECIFICATION Spec
CONSTANTS
  Procs = {p1, p2, p3}
  Gone = Gone
  Faults = TRUE
  MaxFaults = 1
PROPERTY FreshLockRemainsOwned
