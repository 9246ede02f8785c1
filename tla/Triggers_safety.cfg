SPECIFICATION Spec
SYMMETRY Symmetric
CONSTANTS
  Transition = 8
  OffsetBefore = 0
  OffsetAfter = 2
  CronPeriod = 3
  Horizon = 100
  a1 = a1
  a2 = a2
  TriggerId = {1}
  Agent = {a1}
  Target <- TargetOne
  Definition = {d1, d2}
  Scheduler = {s1, s2}
  Client = {c1}
  Schedule <- AllSchedules
  Input = {1}
  Batch = 2
  AgentCapacity = 1
  Capacity = 2
  StartTime = 7
  MaxTime = 9
  MaxRevision = 2
INVARIANTS
  TypeOK
  OneTimeFiresOnce
  RevisionNamesConfiguration
PROPERTIES
  AppliedToCurrentRow
  CoalescesToLatest
