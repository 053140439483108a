SPECIFICATION FairSpec
CONSTANTS
  b1 = b1
  b2 = b2
  x = x
  txs = txs
  nothing = nothing
  Genesis = Genesis
  None = None
  Peers = {p2}
  Honest = {}
  Valid = {b1}
  Blocks <- LiveBlocks
  Number <- LiveNumber
  Parent <- LiveParent
  Body <- LiveBody
  EmptyBody = nothing
  hashLimit = 2
  blockLimit = 1
  maxUncleDist = 1
  maxQueueDist = 2
  MaxInputs = 2
  MaxBodies = 2
CHECK_DEADLOCK FALSE
PROPERTIES
  AnnouncementsServed
  ImportsEnd
