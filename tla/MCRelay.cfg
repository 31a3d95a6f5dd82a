SPECIFICATION RelayFairSpec
CONSTANTS
  j1 = j1  j2 = j2
  p1 = p1  p2 = p2
  s1 = s1
  e1 = e1
  None = None
  Jobs = {j1}
  Providers = {p1, p2}
  Services = {s1}
  Service <- AloneService
  Slots <- OneSlot
  Priority <- Equal
  Timeout = 0
  MaxTime = 0
  Endpoints = {e1}
  Endpoint <- OnePeer
  MayLeave = {j1}
  MayBreak = {p1}
  Unsayable = {}
INVARIANTS
  AnswerWellFormed
  EndedMeansAnswered
  EndedHoldsNothing
PROPERTIES
  AcquireReturns
  EveryJobAnswered
  CancelledEnds
  OrphansStop
