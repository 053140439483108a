SPECIFICATION FairSpec
CONSTANTS
  Peers = {m, q}
  Master = m
  a1 = a1
  a2 = a2
  a3 = a3
  a4 = a4
  a5 = a5
  x3 = x3
  x4 = x4
  Headers <- MCHeaders
  Chain <- MCChain
  Number <- MCNumber
  Parent <- MCParent
  NoHeader = NoHeader
  Nil = Nil
  First = 1
  MaxHeaderFetch = 2
  MaxSkeleton = 2
  HeaderDelay = 1
  ForeignTails <- MCForeignTails
  MaxFrom = 5
CHECK_DEADLOCK FALSE
INVARIANTS
  TypeOK
  OriginTrusted
  OriginKept
  BatchOnePlace
  ForwardedOnce

PROPERTIES
  FillEnds
