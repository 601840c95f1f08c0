SPECIFICATION Spec
CONSTANTS
  r1 = r1
  r2 = r2
  l1 = l1
  t1 = t1
  t2 = t2
  p1 = p1
  p2 = p2
  k1 = k1
  k2 = k2
  n1 = n1
  v1 = v1
  g1 = g1
  g2 = g2
  UI = UI
  NoValue = NoValue
  NoGroup = NoGroup
  Request = {r1, r2}
  Line = {l1}
  Token = {t1, t2}
  Password = {p1, p2}
  PairLifetime = 1
  SessionIdle = 1
  SessionAbsolute = 2
  FailureCooldown = 1
  FailureLimit = 2
  Key = {k1, k2}
  Name = {n1}
  Value = {v1}
  Group = {g1, g2}
  Ops <- MCOps
  Budgets <- MCBudgets
  MaxTime = 5
INVARIANTS TypeOK VaultSurvives OneSessionPerCode
PROPERTIES VaultKeepsPromise  RequestsEnd
CHECK_DEADLOCK FALSE
