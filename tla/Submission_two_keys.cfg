SPECIFICATION Spec
CONSTANTS
  Requests = {r1, r2, r3, r4}
  Keys = {k1, k2}
  FaultKinds = {"call", "crash", "expiry"}
  MaxFaults = 3
  None = None
SYMMETRY Symmetry
INVARIANTS
  SubmissionInv
  OneJobPerKey
  OneAnswerPerKey
  HolderOwnsKey
  DuplicateIsBacked
PROPERTY
  ImplementsKeyDecision
