SPECIFICATION FetchSpec
CONSTANTS
  h1 = h1
  h2 = h2
  h3 = h3
  NoHeader = NoHeader
  Nil = Nil
  Master = p1
  Noop <- MCNoop
  Headers <- LongHeaders
  Number <- LongNumber
  Parent <- LongParent
  Leavers = {}
  Peers = {p1, p2}
  CacheItems = 3
  MaxResults = 1
  MaxLacking = 1
  MaxQueued = 3
  MaxChunk = 2
  MaxCount = 2
  MinFails = 1
  MaxAnswers = 2
CHECK_DEADLOCK FALSE
PROPERTIES
  StaleMeansIdle
