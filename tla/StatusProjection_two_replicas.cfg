SPECIFICATION FairSpec
CONSTANTS
  Jobs = {j1}
  Replicas = {r1, r2}
  Slots = {s1}
  MaxRetries = 1
  FaultKinds = {"call", "channel", "crash"}
  MaxFaults = 2
  None = None
INVARIANTS
  TypeOK
  NoEventLost
  ExactUnlessDisturbed
  ProjectionInv
PROPERTIES
  EventuallyApplied
