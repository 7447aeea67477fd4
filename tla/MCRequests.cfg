CONSTANTS
  a1 = a1
  a2 = a2
  r1 = r1
  None = None
  Upstream = {1, 2, 3}
  Segment <- MCSegment
  BlockedRiskLevels = {}
  ConfirmationRiskLevels = {"DESTRUCTIVE", "FINANCIAL"}
  DisableUnknownDestructive = TRUE
  Conn = {1, 2}
  Actor = {a1, a2}
  Offer <- MCOffer
  FirstAlias <- MCFirstAlias
  NewAlias <- MCNewAlias
  Workloads <- MCHandlerWorkloads
  Request = {r1}
  PageSize = 1
  Mix <- MCHandlerMix
  v1 = v1
  v2 = v2
  Visitor = {v1, v2}
  Tenant = {"t1", "t2"}
  Limit = 2
  Interval = 5
  Burst = 2
  Second = 2
  Grain = 1
  Error = 1
  Unknown = Unknown
  MaxKeys = 3
  Ttl = 5
  Cooldown = 2
  Latency = 1
  Nothing = Nothing
  User = {"u0", "u1", "u2"}
  Role = {"owner", "member"}
  ApiKeys <- MCApiKeys
  Claimed <- MCClaimed
  DoorMixes <- MCDoorMixes
  Host = {"api", "intranet", "local", "nat64"}
  Literal <- MCLiteral
  Resolves <- MCResolves
  Policies <- MCPolicies
  MetadataServers <- MCMetadataServers
  k1 = k1
  k2 = k2
  k3 = k3
  k4 = k4
  Call = {k1, k2, k3, k4}
  ProofMixes <- MCProofMixes
SPECIFICATION RequestsSpec
INVARIANT RequestsTypeOK
INVARIANT StoredIsOneSync
INVARIANT WalkMissesNothing
INVARIANT ReadableWhileRewritten
INVARIANT BudgetIsKept
INVARIANT KeysAreFollowed
INVARIANT ProvisionedWhenServed
INVARIANT ChainIsContained
INVARIANT ProofsAreFresh
PROPERTY ChangeIsSynced
CHECK_DEADLOCK FALSE
