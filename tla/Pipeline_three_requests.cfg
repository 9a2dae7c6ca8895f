SPECIFICATION Spec
CONSTANTS
  Requests = {r1, r2, r3}
  Keys = {k1}
  None = None
  Malformed = {r2}
  Unregistered = {r3}
  Workers = {w1}
  Slots = {s1}
  MaxAttempts = 1
  NumTiers = 2
  Threshold = 1
  ApiFaultKinds = {"call", "crash"}
  MaxApiFaults = 1
  WorkerFaultKinds = {"call", "channel", "stop", "crash"}
  MaxWorkerFaults = 1
INVARIANTS
  PromiseKept
  OneEmailPerKey
