SPECIFICATION Spec
CONSTANTS
  s1 = s1  s2 = s2
  Announced <- TwoServices
  PingEvery = 2
  IdleTimeout = 5
  MaxDelay = 1
  MaxBusy = 1
  MaxTime = 16
INVARIANTS
  NoFalseTimeout
  SilenceIsNoticed
  NoGhostProviders
