SPECIFICATION FairSpec
CONSTANTS
  j1 = j1
  j2 = j2
  g1 = g1
  g2 = g2
  p = p
  q = q
  Jobs = {j1, j2}
  Governesses = {g1}
  Tiers <- MCTiers
  DirectTier = "direct"
  Tier <- PoolTier
  Limit <- MCLimit
  Wanted <- PoolWanted
  Scope <- PoolScope
  NoJob = NoJob
  Faults = FALSE
  MaxEpoch = 1
PROPERTY CompletionReported
CHECK_DEADLOCK FALSE
