\* Three calls for one lock; three attempts to open two sessions, two releases;
\* two messages of any kind on one connection, and two losses of its session.
CONSTANTS
  p = p
  q = q
  a = a
  b = b
  x = x
  k1 = k1
  k2 = k2
  s1 = s1
  s2 = s2
  s3 = s3
  Process = {p, q}
  Call = {a, b, x}
  Home <- MCHome
  None = None
  Gone = Gone
  Key = {k1, k2}
  Scope <- MCScope
  Attempt = {s1, s2, s3}
  Releaser = {r1, r2}
  Undefined = Undefined
  Calls = {c1, c2}
  MaxTransports = 4
  MaxLosses = 2
  MaxStreams = 3
SPECIFICATION SharingSpec
INVARIANTS
  LeaseLockTypeOK
  RowGuardsItsHolder
  SessionsTypeOK
  HandsOutOpen
  SharedAttempt
  ReleasedWhileConnecting
  ConnectionTypeOK
  ReplaysAreIdempotent
  OneRenewalPerLoss
  OneServerStream
  ReleasedHoldsNothing
PROPERTIES
  ImplementsLease
  TurnComes
  
CHECK_DEADLOCK FALSE
