SPECIFICATION FairSpec
CONSTANTS
  Emails = {e1, e2}
  Logins = {l1, l2}
  Mailboxes = {m1, m2}
  FaultKinds = {"call", "connection", "crash"}
  MaxFaults = 1
  None = None
INVARIANTS
  TypeOK
  AtMostOnce
  RowsAreWhole
  CountsAreBacked
  GoInv
PROPERTIES
  EventuallyHandled
