SPECIFICATION Spec
CONSTANTS
  Jobs = {j1}
  Malformed = {}
  Unregistered = {}
  Workers = {w1, w2}
  Slots = {s1}
  MaxAttempts = 1
  NumTiers = 2
  Threshold = 1
  FaultKinds = {"call", "channel", "stop", "crash"}
  MaxFaults = 2
  NoMsg = NoMsg
SYMMETRY Symmetry
INVARIANTS
  NoSilentLoss
  LedgerTruthful
  AttemptsInOrder
  StatusTruthful
  OutputsPaidFor
  IInv
  BudgetInv
PROPERTIES
  ImplementsCustody
  ClaimsHoldUndisturbed
