SPECIFICATION SettingSpec
CONSTANTS
  j1 = j1
  j2 = j2
  g1 = g1
  g2 = g2
  p = p
  q = q
  Jobs = {j1, j2}
  Governesses = {g1, g2}
  Tiers <- MCTiers
  DirectTier = "direct"
  Tier <- PoolTier
  Limit <- MCLimit
  Wanted <- PoolWanted
  Scope <- WriterScope
  NoJob = NoJob
  Faults = TRUE
  MaxEpoch = 2
INVARIANTS TypeOK RunnerOwnsJob ClaimedWithinLimit WritersDisjoint ReportedOnceAndTruly
PROPERTIES TierQueueInOrder LifecycleSpec
SYMMETRY GovernessSymmetry
CHECK_DEADLOCK FALSE
