SPECIFICATION FairSpec
CONSTANTS
  r1 = r1  r2 = r2
  Readers = {r1, r2}
  MaxPush = 3
INVARIANTS
  NothingLost
  DrainedBeforeError
  NoLostWakeup
PROPERTIES
  ClosedReleasesAll
