\* One request on one event stream suffices.
SPECIFICATION Spec
CONSTANTS
  Calls = {c1}
  MaxStreams = 1
INVARIANT GatewayStaysUp
CHECK_DEADLOCK FALSE
