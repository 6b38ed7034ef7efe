CONSTANTS
  Parts = {"lock", "jobs", "fence", "native", "journal", "work"}
  Procs = {p1, p2, p3}
  Gone = Gone
  Faults = TRUE
  MaxFaults = 2
  MaxEpoch = 2
  j1 = j1
  j2 = j2
  g1 = g1
  MaxStarts = 3
  Beside = 1
  Limit = 1
  MaxWindows = 1
  Children = {k1, k2}
  NoChild = none
  Controls = {c1}
  MaxObs = 2
  CompactAt = 3
  Primary = a1
  Peer = a2
  MaxIterations = 3
  MaxHops = 2
  MaxMsgs = 2
  MaxFollowUps = 1
  MaxCrashes = 1
  Outputs <- Reviews
SPECIFICATION LiveSpec
INVARIANTS LiveTypeOK FenceKept OneChildInTheSlot JournalKept WorkKept
PROPERTIES AbandonedLockIsBroken ExclusiveUnlessBroken CurrentUnlessBroken EveryRequestSettles
           SupervisedUnlessSpent ServedInTime SlotFreed JournalGoesOn
CHECK_DEADLOCK FALSE
