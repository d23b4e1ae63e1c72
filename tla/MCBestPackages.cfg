SPECIFICATION LoadSpec
CONSTANTS
  MaxInt = 50
  ArchOrder <- Archs
  Pools <- SmallPools
INVARIANTS BestFound EqualMeansSame
