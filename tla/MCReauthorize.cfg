CONSTANTS
  p1 = p1
  p2 = p2
  c1 = c1
  c2 = c2
  c3 = c3
  old = old
  t1 = t1
  None = None
  Txn = {t1}
  Line = {old, t1}
  Start = old
  Process = {p1, p2}
  Call = {c1, c2, c3}
  Home <- MCHome
  Workloads <- WhileReauthorized
  Threshold = 1
  MaxRetries = 1
  MaxGen = 2
  MaxVersion = 4
SPECIFICATION Spec
PROPERTY GrantIsStored
CHECK_DEADLOCK FALSE
