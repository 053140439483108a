SPECIFICATION Spec
CONSTANTS
  b1 = b1
  b2 = b2
  x = x
  txs = txs
  nothing = nothing
  Genesis = Genesis
  None = None
  Peers = {p1, p2}
  Honest = {p1}
  Valid = {b1, b2}
  Blocks <- MCBlocks
  Number <- MCNumber
  Parent <- MCParent
  Body <- MCBody
  EmptyBody = nothing
  hashLimit = 2
  blockLimit = 1
  maxUncleDist = 1
  maxQueueDist = 2
  MaxInputs = 2
  MaxBodies = 2
CHECK_DEADLOCK FALSE
INVARIANTS
  ImportedOnce
  QueueAllowance
  OneStage
  TimersArmed
  HonestKept
