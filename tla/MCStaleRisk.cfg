CONSTANTS
  a1 = a1
  a2 = a2
  r1 = r1
  None = None
  Upstream = {1, 2, 3}
  Segment <- MCSegment
  BlockedRiskLevels = {}
  ConfirmationRiskLevels = {"DESTRUCTIVE", "FINANCIAL"}
  DisableUnknownDestructive = TRUE
  Conn = {1, 2}
  Actor = {a1, a2}
  Offer <- OfferOfHints
  FirstAlias <- MCFirstAlias
  NewAlias <- MCNewAlias
  Workloads <- CallWorkloads
  Request = {r1}
  PageSize = 1
  Mix <- MixOfCall
SPECIFICATION Spec
INVARIANT DestructiveIsConfirmed
CHECK_DEADLOCK FALSE
