-------------------------------- MODULE X509 --------------------------------
(***************************************************************************)
(* The checks verifier/src/x509.rs makes on one certificate, or on one     *)
(* certificate and its parent: algorithm, basicConstraints, keyUsage,      *)
(* validity period and signature.                                          *)
(*                                                                         *)
(* A certificate is a record of the facts those checks read.  An optional  *)
(* path length is a set with at most one element.  A key is a model value; *)
(* NoKey stands for bytes that are not a P-384 point (as a certificate's   *)
(* key) and for a signature that no key made (as its signer), so that      *)
(* p384's `verify` succeeds exactly when the two agree on a real key.      *)
(***************************************************************************)
EXTENDS Integers, Sequences

CONSTANTS
  Names,  \* distinguished names, the subjects and issuers
  Keys,   \* P-384 public keys
  NoKey   \* neither a point of the curve nor the maker of any signature

ASSUME KeysAssumption == NoKey \notin Keys

\* How x509-parser (0.17) answers for an extension: an error if it occurs
\* twice; none if it does not occur or cannot be read; or its value.
ExtensionStatus == {"error", "absent", "present"}

BasicConstraints ==
  [status : ExtensionStatus, ca : BOOLEAN, pathLen : SUBSET Nat]

KeyUsage ==
  [status : ExtensionStatus, bits : SUBSET {"digitalSignature", "keyCertSign"}]

Certificate ==
  [subject : Names, issuer : Names,
   key : Keys \cup {NoKey}, signedBy : Keys \cup {NoKey},
   sigAlg : {"ecdsaSha384", "other"},
   keyAlg : {"ec", "other"}, curve : {"p384", "other", "missing"},
   bc : BasicConstraints, ku : KeyUsage,
   notBefore : Int, notAfter : Int]      \* seconds since the epoch

\* The bytes handed to the parser: either no certificate at all, or a
\* certificate followed by some or no further bytes.
DerBytes == [cert : Certificate, malformed : BOOLEAN, trailing : BOOLEAN]

-----------------------------------------------------------------------------
SelfIssued(c) == c.issuer = c.subject

UsesP384(c) ==
  /\ c.sigAlg = "ecdsaSha384"
  /\ c.keyAlg = "ec"
  /\ c.curve = "p384"

LeafContentOK(c) ==
  /\ c.bc.status = "present" => ~c.bc.ca
  /\ c.ku.status = "present" => "digitalSignature" \in c.ku.bits

CaContentOK(c) ==
  /\ c.bc.status = "present" /\ c.bc.ca
  /\ c.ku.status = "present" /\ "keyCertSign" \in c.ku.bits

ValidateCertContent(c, isLeaf) ==
  /\ UsesP384(c)
  /\ c.bc.status # "error"
  /\ c.ku.status # "error"
  /\ IF isLeaf THEN LeafContentOK(c) ELSE CaContentOK(c)

\* Mutant of CheckValidity: the last second of the period already expired.
CheckValidityExclusive(c, timestampMs) ==
  LET timestampSecs == timestampMs \div 1000
  IN  c.notBefore <= timestampSecs /\ timestampSecs < c.notAfter

\* The timestamp is in milliseconds and the period in whole seconds.  The
\* cast to i64 cannot wrap: a u64 divided by 1000 is below 2^63 (see
\* SecondsFitI64 in CertChainProofs).
CheckValidity(c, timestampMs) ==
  LET timestampSecs == timestampMs \div 1000
  IN  c.notBefore <= timestampSecs /\ timestampSecs <= c.notAfter

VerifySignature(parent, child) ==
  parent.key \in Keys /\ child.signedBy = parent.key
=============================================================================
