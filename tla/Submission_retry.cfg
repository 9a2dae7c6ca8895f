SPECIFICATION Spec
CONSTANTS
  Requests = {r1, r2, r3}
  Keys = {k1}
  FaultKinds = {"call"}
  MaxFaults = 1
  None = None
INVARIANT RetryIsNotRefused
