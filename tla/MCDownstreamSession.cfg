CONSTANTS
  MaxStreams = 3
  Post = {p1}
  HistoryLimit = 2
  MaxEvents = 3
  None = None
SPECIFICATION Spec
INVARIANT TypeOK
INVARIANT NothingLost
INVARIANT OneStream
INVARIANT NewestReads
INVARIANT WithheldOnlyByResume
INVARIANT AskedAndTimed
INVARIANT StillCancellable
PROPERTY AskerGoesOn
CHECK_DEADLOCK FALSE
