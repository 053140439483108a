SPECIFICATION FetchSpec
CONSTANTS
  h1 = h1
  h2 = h2
  h3 = h3
  NoHeader = NoHeader
  Nil = Nil
  Master = p1
  Noop <- MCNoop
  Headers <- MCHeaders
  Number <- MCNumber
  Parent <- MCParent
  Leavers = {p2}
  Peers = {p1, p2}
  CacheItems = 2
  MaxResults = 1
  MaxLacking = 1
  MaxQueued = 2
  MaxChunk = 2
  MaxCount = 2
  MinFails = 1
  MaxAnswers = 1
CHECK_DEADLOCK FALSE
INVARIANTS
  NoDoubleAssignment
