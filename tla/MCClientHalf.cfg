SPECIFICATION FairSpec
CONSTANTS
  h1 = h1
  Requests = {h1}
  Unsendable = {h1}
  MayLeave = {}
  MaxSessions = 1
  MaxNaps = 1
  BackoffFirst = 2
  BackoffLongest = 6
PROPERTIES
  NoJobLeftAtServer
