SPECIFICATION Spec
CONSTANTS
  good = good
  hostOnly = hostOnly
  guestOnly = guestOnly
  bad = bad
  Calls = {c1, c2}
  Tokens = {t1, t2}
  Attestations <- MCAttestations
  HostAccepts <- MCHostAccepts
  GuestAccepts <- MCGuestAccepts
INVARIANT
  RejectionIsReported
