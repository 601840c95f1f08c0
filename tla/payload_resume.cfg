SPECIFICATION Spec
CONSTANTS
  b1 = b1
  b2 = b2
  o1 = o1
  o2 = o2
  p1 = p1
  p2 = p2
  BashTask = {b1, b2}
  BashSlots = 1
  OpsTask = {o1}
  OpsSlots = 1
  TaskTTL = 1
  Spill = {1, 2, 3}
  MaxSpills = 1
  SpillTTL = 1
  Payload = {p1, p2}
  Stage = {1, 2, 3}
  Lines = 3
  MaxStages = 2
  StageTTL = 1
  Budgets <- MCPayloadBudgets
  MaxTime = 3
INVARIANTS ResumeKeepsEveryLine

CHECK_DEADLOCK FALSE
