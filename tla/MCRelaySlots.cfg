SPECIFICATION RelaySpec
CONSTANTS
  j1 = j1  j2 = j2
  p1 = p1  p2 = p2
  s1 = s1
  e1 = e1
  None = None
  Jobs = {j1, j2}
  Providers = {p1}
  Services = {s1}
  Service <- SoloService
  Slots <- SoloSlot
  Priority <- SoloEqual
  Timeout = 0
  MaxTime = 0
  Endpoints = {e1}
  Endpoint <- SoloPeer
  MayLeave = {j1}
  MayBreak = {}
  Unsayable = {}
INVARIANTS
  SlotBusyUntilTerminated
