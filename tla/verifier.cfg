SPECIFICATION Spec
CONSTANTS
  KeyRoot = KeyRoot
  KeyInter = KeyInter
  KeyLeaf = KeyLeaf
  NoKey = NoKey
  Keys <- MCKeys
  Names <- MCNames
  Sha256 <- MCSha256
  Chains <- MCChains
  Prefixes = {0, 1, 2, 4}
  Timestamps = {}
  Reports <- MCReports
INVARIANTS
  VerifierInv
  NoKeyMeansAbsent
PROPERTIES
  ImplementsGate
CHECK_DEADLOCK FALSE
