SPECIFICATION MCSpec
CONSTANTS
  ClientMessage = {1, 2, 3, 4, 5}
  Cost <- MCCost
  Blocks <- MCBlocks
  BlockBound = 2
  ContextBudget = 5
  RecentPairs = 1
  CompactionBatch = 2
  CompactionLimit = 2
  CompactionRoom = 2
  MaxAttempts = 2
  MaxRuns = 5
  Facts = {1}
  Editors = {e1, e2}
  ScopeCapacity = 1
  PerScope = 1
  MemoryBudget = 1
  ExtractLimit = 1
  MaxItems = 2
  MaxVersions = 3
  MaxPolicies = 1
CHECK_DEADLOCK FALSE
INVARIANTS
  ConversationSound ContextFaithful MemorySound
PROPERTIES
  AnswerStays ProposalsSettle
