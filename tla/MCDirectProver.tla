--------------------------- MODULE MCDirectProver ---------------------------
(***************************************************************************)
(* Two or three calls that share two tokens, and attestations of all four  *)
(* kinds: accepted by both verifiers, by one of them, by neither.          *)
(***************************************************************************)
EXTENDS DirectProver, TLC

CONSTANTS good, hostOnly, guestOnly, bad

MCAttestations == {good, hostOnly, guestOnly, bad}
MCHostAccepts == {good, hostOnly}
MCGuestAccepts == {good, guestOnly}

CallSymmetry == Permutations(Calls) \cup Permutations(Tokens)
=============================================================================
