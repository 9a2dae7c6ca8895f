SPECIFICATION Spec
CONSTANTS
  Jobs = {j1}
  Malformed = {}
  Unregistered = {}
  Workers = {w1}
  Slots = {s1, s2}
  MaxAttempts = 1
  NumTiers = 2
  Threshold = 1
  FaultKinds = {"channel"}
  MaxFaults = 1
  NoMsg = NoMsg
PROPERTY NeverResendCompleted
