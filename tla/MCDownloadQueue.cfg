SPECIFICATION Spec
CONSTANTS
  h1 = h1
  h2 = h2
  h3 = h3
  f2 = f2
  NoHeader = NoHeader
  Nil = Nil
  Peers = {p1, p2}
  Headers <- MCHeaders
  Number <- MCNumber
  Parent <- MCParent
  Noop <- MCNoop
  CacheItems = 2
  MaxResults = 1
  MaxLacking = 2
  MaxQueued = 3
  MaxChunk = 2
  MaxCount = 2
SYMMETRY PeerSymmetry
INVARIANTS
  ExactlyOnePlace
  NothingForgotten
  NoIndexOverflow
  NoLostWakeup
PROPERTY
  DeliversInOrder
