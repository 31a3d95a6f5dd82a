SPECIFICATION OrderSpec
SYMMETRY JobSymmetry
CONSTANTS
  j1 = j1  j2 = j2  j3 = j3
  p1 = p1  p2 = p2
  s1 = s1
  None = None
  Jobs <- AllJobs
  Providers = {p1, p2}
  Services = {s1}
  Service <- CrowdedService
  Slots <- CrowdedSlots
  Priority <- CrowdedPriority
  Timeout = 1
  MaxTime = 1
INVARIANTS
  SlotAccounting
  NeverOverSubscribed
  WorkConserving
  QueuedOrHanded
  RequeuedFirst
PROPERTIES
  DeadlineFromArrival
  FreshInOrder
  ImplementsSlotPool
