SPECIFICATION Spec
CONSTANTS
  Jobs = {1}
  Agents = {1}
  Providers = {1}
  Instances <- OneInstance
  Workers = {"w1"}
  Capability <- AllCapable
  Budget <- AmpleBudget
  MaxAttempts = 2
  LeaseDuration = 2
  ReclaimBackoff = 1
  RetryBase = 1
  GlobalActive = 2
  AgentActive = 2
  ProviderActive = 2
  MaxPending = 2
  MaxPendingPerAgent = 2
  MaxPendingPerProvider = 2
  MaxCalls = 1
  MaxLag = 1
  MaxTime = 6
INVARIANTS
  TypeOK ClaimAgreement SettlementAgreement StartTruthful
  ReplayOnlyWhenSafe TimelineTruthful
PROPERTIES
  HistoryIsFrozen ImplementsLifecycle
CHECK_DEADLOCK FALSE
