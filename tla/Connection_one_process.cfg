SPECIFICATION FairSpec
CONSTANTS
  Conns = {c1, c2, c3, c4}
  Tasks = {t1, t2}
  Slots = {s1, s2, s3}
  Prefetch = 2
  FaultKinds = {"dial", "link", "cancel", "stop", "kill"}
  MaxFaults = 4
  None = None
INVARIANTS
  TypeOK
  OneWayToChannel
  ChannelIsWatched
  SettlesWhereDelivered
  ConsumesOnce
CHECK_DEADLOCK FALSE
PROPERTIES
  ConsumesAgain
  ImplementsWorkerChannel
