SPECIFICATION ChainSpec
CONSTANTS
  KeyRoot = KeyRoot
  KeyInter = KeyInter
  KeyLeaf = KeyLeaf
  NoKey = NoKey
  Keys <- MCKeys
  Names <- MCNames
  Sha256 <- MCSha256
  Chains <- FaultChains
  Prefixes = {0, 1, 2, 3, 4}
  Timestamps <- FaultTimestamps
INVARIANTS
  ChainInv
  DigestNamesOnePath
PROPERTIES
  ImplementsPolicy
CHECK_DEADLOCK FALSE
