SPECIFICATION Spec
CONSTANTS
  Transition = 10
  OffsetBefore = 4
  OffsetAfter = 0
  CronPeriod = 2
  Horizon = 100
  a1 = a1
  a2 = a2
  TriggerId = {1}
  Agent = {a1}
  Target <- TargetOne
  Definition = {d1}
  Scheduler = {s1}
  Client = {c1}
  Schedule <- CronSchedules
  Input = {1}
  Batch = 2
  AgentCapacity = 1
  Capacity = 2
  StartTime = 7
  MaxTime = 12
  MaxRevision = 1
INVARIANTS
  MissedCronIsHonoured
