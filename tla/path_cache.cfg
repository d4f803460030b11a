SPECIFICATION Spec
CONSTANTS
  KeyRoot = KeyRoot
  KeyInter = KeyInter
  KeyLeaf = KeyLeaf
  NoKey = NoKey
  Keys <- MCKeys
  Names <- MCNames
  Sha256 <- MCSha256
  Chains <- CacheChains
  Prefixes = {0, 1, 2, 3, 4, 5}
  Timestamps <- CacheTimestamps
  RootDer <- MCRootDer
  MaxAge = 1000
  MaxNow = 5000
INVARIANTS
  PathCacheInv
  AcceptedIsRooted
  AcceptedIsFresh
PROPERTY
  CacheSound
