CONSTANTS
  Parts = {"cycle", "roles", "launch", "startup", "ledger", "worker", "proxy", "server", "inject", "helper", "patch", "output", "sdk", "routing", "update", "entry", "sweep", "mcp", "call", "store", "socket", "memory"}
  MaxFaults = 1
  MaxEpoch = 2
  Agents = {a1, a2}
  a1 = a1
  a2 = a2
  Judges = {j1, j2}
  MaxEpisode = 2
  NoAgent = none
  Launchers = {l1, l2}
  l1 = l1
  l2 = l2
  Runs = {1, 2, 3}
  Old = old
  Nobody = nobody
  New = new
  MaxTicks = 13
  m1 = m1
  m2 = m2
  m3 = m3
  MaxVersion = 4
SPECIFICATION Spec
INVARIANTS TypeOK LaunchKept BridgeKept HelpersKept
PROPERTIES GovernessKept CodexKept PatchKept SetupKept
CHECK_DEADLOCK FALSE
