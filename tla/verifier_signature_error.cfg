SPECIFICATION Spec
CONSTANTS
  KeyRoot = KeyRoot
  KeyInter = KeyInter
  KeyLeaf = KeyLeaf
  NoKey = NoKey
  Keys <- MCKeys
  Names <- MCNames
  Sha256 <- MCSha256
  Chains <- MCChains
  Prefixes = {0, 1, 2, 4}
  Timestamps = {}
  Reports <- MCReports
INVARIANT SignatureErrorIsCose
CHECK_DEADLOCK FALSE
