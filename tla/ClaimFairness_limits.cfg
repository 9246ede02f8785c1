SPECIFICATION FSpec
CONSTANTS
  Jobs = {1, 2, 3}
  Agents = {1, 2, 3}
  Providers = {1, 2, 3}
  Instances <- MixedInstances
  Workers = {"w1", "w2"}
  Capability <- SplitCapability
  Budget <- SplitBudget
  MaxAttempts = 1
  LeaseDuration = 2
  ReclaimBackoff = 0
  RetryBase = 1
  GlobalActive = 2
  AgentActive = 1
  ProviderActive = 1
  MaxPending = 3
  MaxPendingPerAgent = 2
  MaxPendingPerProvider = 2
  MaxCalls = 0
  MaxLag = 1
  MaxTime = 3
VIEW Relevant
INVARIANTS ActiveWithinLimits NoSecondBypass
CHECK_DEADLOCK FALSE
