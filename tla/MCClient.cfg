SPECIFICATION FairSpec
CONSTANTS
  h1 = h1
  Requests = {h1}
  Unsendable = {}
  MayLeave = {h1}
  MaxSessions = 3
  MaxNaps = 3
  BackoffFirst = 2
  BackoffLongest = 6
INVARIANTS
  AnswerIsHonest
  ReturnsWithAnswer
  NoOrphanJobs
  BackoffDoubles
PROPERTIES
  EveryRequestEnds
  NoSentJobLeft
