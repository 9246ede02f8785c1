SPECIFICATION SubmitFairSpec
CONSTANTS
  Jobs = {1, 2}
  Agents = {1}
  Providers = {1}
  Instances <- OneInstance
  Workers = {"w1"}
  Capability <- AllCapable
  Budget <- AmpleBudget
  Callers = {1, 2}
  MaxAttempts = 2
  LeaseDuration = 1
  ReclaimBackoff = 1
  RetryBase = 1
  GlobalActive = 2
  AgentActive = 2
  ProviderActive = 2
  MaxPending = 2
  MaxPendingPerAgent = 2
  MaxPendingPerProvider = 2
  MaxCalls = 0
  MaxLag = 0
  MaxTime = 3
INVARIANTS AcceptedIsDurable
PROPERTIES WorkProgresses
CHECK_DEADLOCK FALSE
