SPECIFICATION Spec
CONSTANTS
  Jobs = {j1}
  Replicas = {r1}
  Slots = {s1}
  MaxRetries = 1
  FaultKinds = {}
  MaxFaults = 0
  None = None
INVARIANTS
  DeliveredWhenConfirmed
