SPECIFICATION MCSpec
CONSTANTS
  Transition = 0
  OffsetBefore = 0
  OffsetAfter = 0
  CronPeriod = 1
  Horizon = 100
  a1 = a1
  a2 = a2
  TriggerId = {1, 2}
  Agent = {a1, a2}
  Target <- TargetTwo
  Definition = {d1}
  Scheduler = {s1}
  Client = {c1}
  Schedule <- TickSchedules
  Input = {1}
  Batch = 1
  AgentCapacity = 1
  Capacity = 2
  StartTime = 1
  MaxTime = 1
  MaxRevision = 1
  Workflow = {w1, w2}
  First = w1
  Budgets <- MCBudgets
  StepClaim = 1
  SignalKeys = {"go", "stop"}
  Payloads = {1}
  MaxActive = 2
  QueueCapacity = 1
  ScanLimit = 1
  Retained = 1
  DeadlineAfter = 2
  DecisionLife = 1
  MaxInstant = 2
  MaxEdits = 1
CHECK_DEADLOCK FALSE
INVARIANTS WorkflowSound
PROPERTIES WorkflowFinal WorkflowProgress DueIsHonoured
