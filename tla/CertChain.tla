----------------------------- MODULE CertChain ------------------------------
(***************************************************************************)
(* CertChain of verifier/src/x509.rs: from_der, then verify_chain with its *)
(* two loops (compute_path_digests, and the walk from root to leaf), one   *)
(* action per loop iteration.  Indices are those of TLA+: certificate 0 of *)
(* the code is certificate 1 here.                                         *)
(*                                                                         *)
(* The walk stands at certificate Len(expiries) + 1, the digest loop at    *)
(* Len(digests) + 1: each pushes exactly one entry per iteration.          *)
(***************************************************************************)
EXTENDS X509

CONSTANTS
  Sha256(_),   \* the hash of a sequence of byte strings, put end to end
  Chains,      \* the sequences of DER blobs the caller may pass
  Prefixes,    \* the values of trusted_prefix_len, a u8
  Timestamps   \* the values of timestamp, milliseconds in a u64

ASSUME ChainsAssumption     == Chains \subseteq Seq(DerBytes)
ASSUME PrefixesAssumption   == Prefixes \subseteq Nat
ASSUME TimestampsAssumption == Timestamps \subseteq Nat

VARIABLES
  ders, prefix, timestamp,  \* the arguments
  phase,     \* where the call stands
  digests,   \* accumulated path digests pushed so far
  expiries,  \* notAfter of the certificates walked so far
  error      \* the VerifierError variant returned, or "none"

inputs == <<ders, prefix, timestamp>>
chainVars == <<ders, prefix, timestamp, phase, digests, expiries, error>>

Phases == {"from_der", "prefix_len", "digests", "walk", "accepted", "rejected"}
ChainErrors == {"none", "X509Parse", "CertificateVerification", "SignatureVerification"}

-----------------------------------------------------------------------------
ChainLen == Len(ders)
Cert(k) == ders[k].cert
CertsOf(path) == [k \in 1 .. Len(path) |-> path[k].cert]

\* The certificate the walk is at.
At == Len(expiries) + 1

\* leaf_public_key: the last certificate's key, whoever asks.
LeafPublicKey == Cert(ChainLen).key

ChainReturns(err) ==
  /\ phase' = "rejected"
  /\ error' = err
  /\ UNCHANGED <<ders, prefix, timestamp, digests, expiries>>

\* Mutant of Parses: bytes after the certificate are let through.
ParsesLoosely(path) == path # <<>> /\ \A k \in 1 .. Len(path) : ~path[k].malformed

\* from_der collects every certificate or the first failure.
Parses(path) ==
  path # <<>> /\ \A k \in 1 .. Len(path) : ~path[k].malformed /\ ~path[k].trailing

FromDer ==
  /\ phase = "from_der"
  /\ Parses(ders)
  /\ phase' = "prefix_len"
  /\ UNCHANGED <<ders, prefix, timestamp, digests, expiries, error>>

FromDerFails ==
  /\ phase = "from_der"
  /\ ~Parses(ders)
  /\ ChainReturns("X509Parse")

CheckPrefixLen ==
  /\ phase = "prefix_len"
  /\ prefix <= ChainLen
  /\ phase' = "digests"
  /\ UNCHANGED <<ders, prefix, timestamp, digests, expiries, error>>

PrefixTooLong ==
  /\ phase = "prefix_len"
  /\ prefix > ChainLen
  /\ ChainReturns("CertificateVerification")

-----------------------------------------------------------------------------
\* Mutant of NextDigest: the digest forgets the path above the certificate.
NextDigestAlone(soFar, der) == Sha256(<<der>>)

\* path_digest after one more certificate.
NextDigest(soFar, der) ==
  IF soFar = <<>> THEN Sha256(<<der>>)
  ELSE Sha256(<<soFar[Len(soFar)], Sha256(<<der>>)>>)

\* compute_path_digests as a function of its argument.
PathDigests(path) ==
  LET upTo[k \in 1 .. Len(path)] ==
        IF k = 1 THEN NextDigest(<<>>, path[1])
        ELSE NextDigest(<<upTo[k - 1]>>, path[k])
  IN  upTo

PathDigestOf(path) == PathDigests(path)[Len(path)]

\* What is hashed on the way to a path's digests.
HashInputs(path) ==
  {<<path[k]>> : k \in 1 .. Len(path)}
    \cup {<<PathDigests(path)[k - 1], Sha256(<<path[k]>>)>> : k \in 2 .. Len(path)}

\* SHA-256 has no collision among the inputs these paths lead to.
CollisionFree(paths) ==
  \A one, other \in UNION {HashInputs(path) : path \in paths} :
    Sha256(one) = Sha256(other) => one = other

ASSUME HashAssumption == CollisionFree(Chains)

PushDigest ==
  /\ phase = "digests"
  /\ Len(digests) < ChainLen
  /\ digests' = Append(digests, NextDigest(digests, ders[Len(digests) + 1]))
  /\ UNCHANGED <<ders, prefix, timestamp, phase, expiries, error>>

DigestsDone ==
  /\ phase = "digests"
  /\ Len(digests) = ChainLen
  /\ phase' = "walk"
  /\ UNCHANGED <<ders, prefix, timestamp, digests, expiries, error>>

-----------------------------------------------------------------------------
\* The checks of one iteration of the walk, on certificate k.

\* Mutant of ExpiryIsUnsigned: the conversion is left out where the prefix is
\* trusted, as every other check of the loop is.
ExpiryUncheckedInPrefix(k) == k > prefix => Cert(k).notAfter >= 0

ExpiryIsUnsigned(k) == Cert(k).notAfter >= 0

\* Mutant of SelfIssuedOnlyAtRoot: the check is skipped in the trusted prefix.
SelfIssuedOnlyAfterPrefix(k) == k > prefix /\ k > 1 => ~SelfIssued(Cert(k))

SelfIssuedOnlyAtRoot(k) == k > 1 => ~SelfIssued(Cert(k))

\* Mutant of InTrustedPrefix: one certificate too many is trusted.
InTrustedPrefixInclusive(k) == k <= prefix + 1

InTrustedPrefix(k) == k <= prefix

\* A leaf only if last of several: a lone root is checked as a CA.
IsLeaf(k) == k = ChainLen /\ ChainLen > 1

IssuerMatchesParent(k) == Cert(k).issuer = Cert(k - 1).subject

\* Mutant of Remaining: the leaf counts as an intermediate.
RemainingWithLeaf(k) == ChainLen - k + 1

\* The certificates below k: what its parent's path length constraint bounds.
Remaining(k) == ChainLen - k

PathLengthOK(k) ==
  LET parentBc == Cert(k - 1).bc
  IN  /\ parentBc.status # "error"
      /\ parentBc.status = "present" => \A max \in parentBc.pathLen : Remaining(k) <= max

CertificateOK(k) ==
  /\ ExpiryIsUnsigned(k)
  /\ SelfIssuedOnlyAtRoot(k)
  /\ ~InTrustedPrefix(k) =>
       /\ ValidateCertContent(Cert(k), IsLeaf(k))
       /\ CheckValidity(Cert(k), timestamp)
       /\ k > 1 => IssuerMatchesParent(k) /\ PathLengthOK(k)

SignatureOK(k) ==
  ~InTrustedPrefix(k) => VerifySignature(Cert(IF k = 1 THEN 1 ELSE k - 1), Cert(k))

\* Mutant of WalkCertificate: the expiries are one certificate behind.
WalkCertificateBehind ==
  /\ phase = "walk"
  /\ At <= ChainLen
  /\ CertificateOK(At)
  /\ SignatureOK(At)
  /\ expiries' = Append(expiries, Cert(IF At = 1 THEN 1 ELSE At - 1).notAfter)
  /\ UNCHANGED <<ders, prefix, timestamp, phase, digests, error>>

WalkCertificate ==
  /\ phase = "walk"
  /\ At <= ChainLen
  /\ CertificateOK(At)
  /\ SignatureOK(At)
  /\ expiries' = Append(expiries, Cert(At).notAfter)
  /\ UNCHANGED <<ders, prefix, timestamp, phase, digests, error>>

CertificateFails ==
  /\ phase = "walk"
  /\ At <= ChainLen
  /\ ~CertificateOK(At)
  /\ ChainReturns("CertificateVerification")

SignatureFails ==
  /\ phase = "walk"
  /\ At <= ChainLen
  /\ CertificateOK(At)
  /\ ~SignatureOK(At)
  /\ ChainReturns("SignatureVerification")

\* Mutant of WalkDone: the walk may stop before the leaf.
WalkDoneEarly ==
  /\ phase = "walk"
  /\ phase' = "accepted"
  /\ UNCHANGED <<ders, prefix, timestamp, digests, expiries, error>>

WalkDone ==
  /\ phase = "walk"
  /\ At > ChainLen
  /\ phase' = "accepted"
  /\ UNCHANGED <<ders, prefix, timestamp, digests, expiries, error>>

-----------------------------------------------------------------------------
\* A fresh call on any arguments.
ChainStart ==
  phase = "from_der" /\ digests = <<>> /\ expiries = <<>> /\ error = "none"

ChainInit ==
  /\ ders \in Chains
  /\ prefix \in Prefixes
  /\ timestamp \in Timestamps
  /\ ChainStart

ChainNext ==
  \/ FromDer \/ FromDerFails
  \/ CheckPrefixLen \/ PrefixTooLong
  \/ PushDigest \/ DigestsDone
  \/ WalkCertificate \/ CertificateFails \/ SignatureFails \/ WalkDone

ChainSpec == ChainInit /\ [][ChainNext]_chainVars

-----------------------------------------------------------------------------
(* Properties.                                                             *)

\* s is a sequence, whatever its elements are.
IsSequence(s) == s \in Seq({s[k] : k \in DOMAIN s})

\* Types, and the loops' cursors within the chain.  Every expiry the call
\* hands out is a u64: not_after.timestamp() is an i64 and may be negative.
TypeOK ==
  /\ ders \in Seq(DerBytes)
  /\ prefix \in Nat
  /\ timestamp \in Nat
  /\ phase \in Phases
  /\ IsSequence(digests) /\ Len(digests) <= ChainLen
  /\ expiries \in Seq(Nat) /\ Len(expiries) <= ChainLen
  /\ error \in ChainErrors
  /\ error = "none" <=> phase # "rejected"

\* What each phase may rely on: the work of the phases before it.
PhaseInv ==
  /\ phase \in {"prefix_len", "digests", "walk", "accepted"} => Parses(ders)
  /\ phase \in {"digests", "walk", "accepted"} => prefix <= ChainLen
  /\ phase \in {"from_der", "prefix_len"} => digests = <<>>
  /\ phase \in {"from_der", "prefix_len", "digests"} => expiries = <<>>
  /\ phase \in {"walk", "accepted"} => Len(digests) = ChainLen
  /\ phase = "accepted" => Len(expiries) = ChainLen

\* Each digest pushed commits to the digest before it and to its certificate.
DigestInv ==
  \A k \in 1 .. Len(digests) :
    digests[k] = IF k = 1 THEN Sha256(<<ders[1]>>)
                 ELSE Sha256(<<digests[k - 1], Sha256(<<ders[k]>>)>>)

\* Every certificate the walk has passed was sound, with its own expiry.
WalkInv ==
  \A k \in 1 .. Len(expiries) :
    /\ expiries[k] = Cert(k).notAfter
    /\ CertificateOK(k)
    /\ SignatureOK(k)

\* The inductive invariant of the call: at every step of verify_chain what
\* is pushed so far is right, so that no early return, skip of the trusted
\* prefix (`continue`) or end of a loop leaves a certificate unexamined.
ChainInv == TypeOK /\ PhaseInv /\ DigestInv /\ WalkInv

-----------------------------------------------------------------------------
\* The call as ChainPolicy sees it: undecided until it returns.
Policy ==
  INSTANCE ChainPolicy WITH
    verdict <- IF phase \in {"accepted", "rejected"} THEN phase ELSE "pending",
    output  <- IF phase = "accepted"
               THEN [digests |-> digests, expiries |-> expiries]
               ELSE [digests |-> <<>>, expiries |-> <<>>]

\* verify_chain implements the policy: whatever the order of its checks and
\* its early returns, it accepts exactly the chains that are valid beyond
\* the trusted prefix, and yields one chained digest and one expiry for each
\* certificate, trusted ones included.
ImplementsPolicy == Policy!Spec

\* An error is returned only for a chain the policy rejects.
VerdictInv == phase = "rejected" => ~Policy!Acceptable

\* A path digest stands for one path, and a path has one digest.  The
\* on-chain contract caches the digests and later trusts a prefix by its
\* digest (compute_path_digests), so two paths the parser lets through, of
\* this chain or of another, share a digest exactly when they hold the same
\* certificates (the trailing-DER test of x509.rs).  A certificate's signature
\* is part of it: the same contents under another one (ECDSA has (r, -s) for
\* every (r, s)) are another certificate, and have another digest.
DigestNamesOnePath ==
  phase = "accepted" =>
    \A chain \in Chains, j \in 1 .. ChainLen :
      Parses(chain) =>
        (PathDigestOf(chain) = digests[j] <=> CertsOf(chain) = CertsOf(SubSeq(ders, 1, j)))
=============================================================================
