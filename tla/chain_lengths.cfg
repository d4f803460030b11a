SPECIFICATION ChainSpec
CONSTANTS
  KeyRoot = KeyRoot
  KeyInter = KeyInter
  KeyLeaf = KeyLeaf
  NoKey = NoKey
  Keys <- MCKeys
  Names <- MCNames
  Sha256 <- MCSha256
  Chains <- LengthChains
  Prefixes = {0, 1, 2, 3, 4, 5}
  Timestamps = {1500}
PROPERTIES
  ImplementsPolicy
CHECK_DEADLOCK FALSE
