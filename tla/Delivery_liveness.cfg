SPECIFICATION FairSpec
CONSTANTS
  Jobs = {j1}
  Malformed = {}
  Unregistered = {}
  Workers = {w1, w2}
  Slots = {s1}
  MaxAttempts = 2
  NumTiers = 2
  Threshold = 2
  FaultKinds = {"call", "channel", "stop", "crash"}
  MaxFaults = 1
  NoMsg = NoMsg
PROPERTIES
  EventuallyDrained
