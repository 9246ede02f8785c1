SPECIFICATION FairSpec
CONSTANTS
  Jobs = {1}
  Agents = {1}
  Providers = {1}
  Instances <- OneInstance
  Workers = {"w1"}
  Capability <- AllCapable
  Budget <- AmpleBudget
  MaxAttempts = 3
  LeaseDuration = 1
  ReclaimBackoff = 1
  RetryBase = 1
  GlobalActive = 2
  AgentActive = 2
  ProviderActive = 2
  MaxPending = 2
  MaxPendingPerAgent = 2
  MaxPendingPerProvider = 2
  MaxCalls = 0
  MaxLag = 0
  MaxTime = 5
PROPERTIES RecoveredWorkIsServed
CHECK_DEADLOCK FALSE
