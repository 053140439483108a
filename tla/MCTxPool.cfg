SPECIFICATION Spec
CONSTANTS
  Accounts = {"alice", "bob"}
  Txs <- MCTxs
  Sender <- MCSender
  Nonce <- MCNonce
  Price <- MCPrice
  Cost <- MCCost
  Blocks <- MCBlocks
  Genesis = "g"
  Parent <- MCParent
  Body <- MCBody
  Balance <- MCBalance
  PriceLimit = 1
  Batches <- MCBatches
  Submitters = {"alice"}
  GasPrices = {1, 2}
  AccountSlots = 2
  GlobalSlots = 3
  AccountQueue = 1
  GlobalQueue = 1
  PriceBump = 10
  MaxJournal = 2
INVARIANT IndexesAgree Executable PoolBound
PROPERTY HeadEnforcesLimits LocalsKept
