CONSTANTS
  None = None
  Absent = Absent
  Unreadable = Unreadable
  Issuer = {"documents", "expiring", "portal", "other"}
  Feature <- MCFeature
  MaxRows = 12
  Url <- MCUrl
  Protected = {"u1", "u2"}
  Alias <- MCAlias
  Name = {"mine", "local", "one", "two", "gateway", "u", "u-2", "u-3"}
  Actor = {1, 2}
  MaxTxn = 2
  File = {"cursor", "codex", "vscode", "claude", "none"}
  Creatable = {"claude"}
  Installable = {"cursor", "codex", "vscode", "claude"}
  Served0 <- MCServed0
  Canonical <- MCCanonical
  Spelling <- MCSpelling
  Mixes <- MCAskedFor
SPECIFICATION Spec
INVARIANT PrunedWasServed
CHECK_DEADLOCK FALSE
