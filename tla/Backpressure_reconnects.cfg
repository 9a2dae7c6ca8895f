SPECIFICATION Spec
CONSTANTS
  Workers = {w1}
  Channels = {c1, c2}
  Slots = {s1, s2}
  Burst = 2
  Threshold = 3
  Cooldown = 2
  MaxSkew = 1
  MaxTime = 4
  MaxBack = 1
SYMMETRY Symmetry
INVARIANTS
  TypeOK
  RateBound
  OpenBreakerShields
  HealthyProviderKeepsBreakerClosed
