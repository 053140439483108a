CONSTANTS
  g = g
  a1 = a1
  a2 = a2
  b2 = b2
  b3 = b3
  x2 = x2
  x3 = x3
  Blocks <- MCBlocks
  Genesis = g
  Parent <- MCParent
  Difficulty <- MCDifficulty
  Root <- MCRoot
  Bad = {x2, x3}
  None = None
  TriesInMemory = 1
  Networks <- MCNetworks
SPECIFICATION Spec
INVARIANTS CanonicalChain HeadUsable HeaviestHead StartsUnlessRewinding CleanStopKeepsHead
