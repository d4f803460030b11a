-------------------------- MODULE CertChainProofs ---------------------------
(***************************************************************************)
(* Proofs about CertChain, for every set of chains, prefixes, timestamps   *)
(* and keys and for every hash function.                                   *)
(***************************************************************************)
EXTENDS CertChain, TLAPS

-----------------------------------------------------------------------------
(* Sequences whose elements have no type of their own (the digests).       *)

\* The empty vector of digests is a sequence.
LEMMA EmptyIsSequence == IsSequence(<<>>) /\ Len(<<>>) = 0
  BY DEF IsSequence

\* Pushing a digest gives a sequence that is one longer.
LEMMA AppendIsSequence ==
  ASSUME NEW s, NEW e, IsSequence(s)
  PROVE  /\ IsSequence(Append(s, e))
         /\ Len(Append(s, e)) = Len(s) + 1
         /\ \A k \in 1 .. Len(s) : Append(s, e)[k] = s[k]
         /\ Append(s, e)[Len(s) + 1] = e
<1> DEFINE S == {s[k] : k \in DOMAIN s}
           t == Append(s, e)
           T == {t[k] : k \in DOMAIN t}
<1>1. s \in Seq(S \cup {e}) /\ e \in S \cup {e}
  BY DEF IsSequence
<1>2. t \in Seq(S \cup {e}) /\ Len(t) = Len(s) + 1
  BY <1>1
<1>3. \A k \in 1 .. Len(s) : t[k] = s[k]
  BY <1>1
<1>4. t[Len(s) + 1] = e
  BY <1>1
<1>6. Len(t) \in Nat /\ DOMAIN t = 1 .. Len(t) /\ \A k \in DOMAIN t : t[k] \in T
  BY <1>2
<1>5. t \in Seq(T)
  BY <1>2, <1>6
<1> QED
  BY <1>2, <1>3, <1>4, <1>5 DEF IsSequence

-----------------------------------------------------------------------------
(* The inductive invariant.                                                *)

\* A fresh call satisfies the chain's inductive invariant.
LEMMA InitEstablishesChainInv == ChainInit => ChainInv
<1> SUFFICES ASSUME ChainInit PROVE ChainInv
  OBVIOUS
<1>1. TypeOK
  BY EmptyIsSequence, ChainsAssumption, PrefixesAssumption, TimestampsAssumption
  DEF ChainInit, ChainStart, TypeOK, Phases, ChainErrors, ChainLen
<1>2. PhaseInv /\ DigestInv /\ WalkInv
  BY EmptyIsSequence DEF ChainInit, ChainStart, PhaseInv, DigestInv, WalkInv
<1> QED
  BY <1>1, <1>2 DEF ChainInv

\* Returning an error leaves nothing to be relied on but the types.
LEMMA ReturnPreservesChainInv ==
  ASSUME ChainInv, NEW err \in ChainErrors \ {"none"}, ChainReturns(err)
  PROVE  ChainInv'
<1>1. TypeOK'
  BY DEF ChainInv, ChainReturns, TypeOK, Phases, ChainErrors, ChainLen, IsSequence
<1>2. PhaseInv'
  BY DEF ChainInv, ChainReturns, PhaseInv
<1>3. DigestInv'
  BY DEF ChainInv, ChainReturns, DigestInv
<1>4. WalkInv'
  BY DEF ChainInv, ChainReturns, WalkInv, CertificateOK, SignatureOK, ExpiryIsUnsigned,
         SelfIssuedOnlyAtRoot, InTrustedPrefix, IsLeaf, IssuerMatchesParent,
         PathLengthOK, Remaining, Cert, ChainLen
<1> QED
  BY <1>1, <1>2, <1>3, <1>4 DEF ChainInv

\* The checks of the walk read the arguments only.
LEMMA ChecksReadArguments ==
  ASSUME UNCHANGED inputs
  PROVE  /\ ChainLen' = ChainLen
         /\ \A k : CertificateOK(k)' = CertificateOK(k) /\ SignatureOK(k)' = SignatureOK(k)
                   /\ Cert(k)' = Cert(k)
  BY DEF inputs, CertificateOK, SignatureOK, ExpiryIsUnsigned,
         SelfIssuedOnlyAtRoot, InTrustedPrefix, IsLeaf, IssuerMatchesParent,
         PathLengthOK, Remaining, Cert, ChainLen

\* A step to the next phase with nothing pushed: only PhaseInv is at stake.
LEMMA PhaseStepPreservesChainInv ==
  ASSUME ChainInv, phase # "rejected", phase' \in Phases \ {"rejected"}, PhaseInv',
         UNCHANGED <<ders, prefix, timestamp, digests, expiries, error>>
  PROVE  ChainInv'
<1>1. TypeOK'
  BY DEF ChainInv, TypeOK, ChainLen, IsSequence
<1>2. DigestInv'
  BY DEF ChainInv, DigestInv
<1>3. WalkInv'
  BY ChecksReadArguments DEF ChainInv, WalkInv, inputs
<1> QED
  BY <1>1, <1>2, <1>3 DEF ChainInv

\* An iteration of compute_path_digests keeps the invariant.
LEMMA PushDigestPreservesChainInv ==
  ASSUME ChainInv, PushDigest
  PROVE  ChainInv'
<1> DEFINE n == Len(digests)
           d == NextDigest(digests, ders[n + 1])
<1> USE DEF ChainInv
<1>1. /\ IsSequence(digests') /\ Len(digests') = n + 1
      /\ \A k \in 1 .. n : digests'[k] = digests[k]
      /\ digests'[n + 1] = d
  BY AppendIsSequence DEF PushDigest, TypeOK
<1>2. n \in Nat /\ (n = 0 <=> digests = <<>>)
  BY DEF TypeOK, IsSequence
<1>3. TypeOK'
  BY <1>1, <1>2 DEF PushDigest, TypeOK, ChainLen
<1>4. PhaseInv'
  BY DEF PushDigest, PhaseInv, ChainLen
<1>5. DigestInv'
  <2> SUFFICES ASSUME NEW k \in 1 .. (n + 1)
               PROVE  digests'[k] = IF k = 1 THEN Sha256(<<ders[1]>>)
                        ELSE Sha256(<<digests'[k - 1], Sha256(<<ders[k]>>)>>)
    BY <1>1 DEF DigestInv, PushDigest
  <2>1. CASE k \in 1 .. n
    <3>1. k \in 1 .. n /\ (k # 1 => k - 1 \in 1 .. n)
      BY <2>1, <1>2
    <3>2. digests'[k] = digests[k] /\ (k # 1 => digests'[k - 1] = digests[k - 1])
      BY <3>1, <1>1
    <3>3. digests[k] = IF k = 1 THEN Sha256(<<ders[1]>>)
                       ELSE Sha256(<<digests[k - 1], Sha256(<<ders[k]>>)>>)
      BY <3>1 DEF DigestInv
    <3> QED
      BY <3>2, <3>3
  <2>2. CASE k = n + 1
    BY <2>2, <1>1, <1>2 DEF NextDigest
  <2> QED
    BY <2>1, <2>2, <1>2
<1>6. WalkInv'
  BY ChecksReadArguments DEF PushDigest, WalkInv, inputs
<1> QED
  BY <1>3, <1>4, <1>5, <1>6

\* An iteration of verify_chain's loop that finds no fault keeps the invariant.
LEMMA WalkPreservesChainInv ==
  ASSUME ChainInv, WalkCertificate
  PROVE  ChainInv'
<1> DEFINE n == Len(expiries)
<1> USE DEF ChainInv
<1>1. n \in Nat /\ At = n + 1 /\ At \in 1 .. ChainLen /\ ChainLen \in Nat
  BY DEF At, WalkCertificate, TypeOK, ChainLen
<1>2. Cert(At).notAfter \in Nat
  <2>1. ders[At] \in DerBytes
    BY <1>1 DEF TypeOK, ChainLen
  <2>2. Cert(At).notAfter \in Int
    BY <2>1 DEF Cert, DerBytes, Certificate
  <2> QED
    BY <2>2 DEF WalkCertificate, CertificateOK, ExpiryIsUnsigned
<1>3. /\ expiries' \in Seq(Nat) /\ Len(expiries') = n + 1
      /\ \A k \in 1 .. n : expiries'[k] = expiries[k]
      /\ expiries'[n + 1] = Cert(At).notAfter
  BY <1>1, <1>2 DEF WalkCertificate, TypeOK
<1>4. TypeOK'
  BY <1>1, <1>3 DEF WalkCertificate, TypeOK, ChainLen
<1>5. PhaseInv'
  BY DEF WalkCertificate, PhaseInv, ChainLen
<1>6. DigestInv'
  BY DEF WalkCertificate, DigestInv
<1>7. WalkInv'
  <2> SUFFICES ASSUME NEW k \in 1 .. (n + 1)
               PROVE  expiries'[k] = Cert(k).notAfter /\ CertificateOK(k) /\ SignatureOK(k)
    BY <1>3, ChecksReadArguments DEF WalkInv, WalkCertificate, inputs
  <2>1. CASE k \in 1 .. n
    BY <2>1, <1>3 DEF WalkInv
  <2>2. CASE k = n + 1
    BY <2>2, <1>1, <1>3 DEF WalkCertificate
  <2> QED
    BY <2>1, <2>2, <1>1
<1> QED
  BY <1>4, <1>5, <1>6, <1>7

\* Every step of from_der and verify_chain keeps the inductive invariant.
LEMMA NextPreservesChainInv == ChainInv /\ [ChainNext]_chainVars => ChainInv'
<1> SUFFICES ASSUME ChainInv, [ChainNext]_chainVars
             PROVE  ChainInv'
  OBVIOUS
<1>1. CASE FromDer
  <2>1. PhaseInv'
    BY <1>1 DEF FromDer, ChainInv, PhaseInv
  <2> QED
    BY <1>1, <2>1, PhaseStepPreservesChainInv DEF FromDer, Phases
<1>2. CASE FromDerFails
  BY <1>2, ReturnPreservesChainInv DEF FromDerFails, ChainErrors
<1>3. CASE CheckPrefixLen
  <2>1. PhaseInv'
    BY <1>3 DEF CheckPrefixLen, ChainInv, PhaseInv, ChainLen
  <2> QED
    BY <1>3, <2>1, PhaseStepPreservesChainInv DEF CheckPrefixLen, Phases
<1>4. CASE PrefixTooLong
  BY <1>4, ReturnPreservesChainInv DEF PrefixTooLong, ChainErrors
<1>5. CASE PushDigest
  BY <1>5, PushDigestPreservesChainInv
<1>6. CASE DigestsDone
  <2>1. PhaseInv'
    BY <1>6 DEF DigestsDone, ChainInv, PhaseInv, ChainLen
  <2> QED
    BY <1>6, <2>1, PhaseStepPreservesChainInv DEF DigestsDone, Phases
<1>7. CASE WalkCertificate
  BY <1>7, WalkPreservesChainInv
<1>8. CASE CertificateFails
  BY <1>8, ReturnPreservesChainInv DEF CertificateFails, ChainErrors
<1>9. CASE SignatureFails
  BY <1>9, ReturnPreservesChainInv DEF SignatureFails, ChainErrors
<1>10. CASE WalkDone
  <2>1. Len(expiries) = ChainLen
    BY <1>10 DEF WalkDone, At, ChainInv, TypeOK, ChainLen
  <2>2. PhaseInv'
    BY <1>10, <2>1 DEF WalkDone, ChainInv, PhaseInv, ChainLen
  <2> QED
    BY <1>10, <2>2, PhaseStepPreservesChainInv DEF WalkDone, Phases
<1>11. CASE UNCHANGED chainVars
  <2>1. UNCHANGED inputs
    BY <1>11 DEF chainVars, inputs
  <2>2. TypeOK' /\ PhaseInv' /\ DigestInv'
    <3>1. /\ ders' = ders /\ prefix' = prefix /\ timestamp' = timestamp /\ phase' = phase
          /\ digests' = digests /\ expiries' = expiries /\ error' = error
          /\ TypeOK /\ PhaseInv /\ DigestInv
      BY <1>11 DEF chainVars, ChainInv
    <3>2. TypeOK'
      BY <3>1 DEF TypeOK, ChainLen, IsSequence
    <3>3. PhaseInv'
      BY <3>1 DEF PhaseInv, ChainLen, Parses
    <3>4. DigestInv'
      BY <3>1 DEF DigestInv
    <3> QED
      BY <3>2, <3>3, <3>4
  <2>3. WalkInv'
    BY <1>11, <2>1, ChecksReadArguments DEF chainVars, ChainInv, WalkInv
  <2> QED
    BY <2>2, <2>3 DEF ChainInv
<1> QED
  BY <1>1, <1>2, <1>3, <1>4, <1>5, <1>6, <1>7, <1>8, <1>9, <1>10, <1>11 DEF ChainNext

\* At every step of every call the digests, the expiries and the checks made
\* so far are right: verify_chain passes no certificate it has not examined.
THEOREM ChainInvariance == ChainSpec => []ChainInv
  BY InitEstablishesChainInv, NextPreservesChainInv, PTL DEF ChainSpec

-----------------------------------------------------------------------------
(* The checks of the code say what the policy says.                        *)

\* The comparison in whole seconds is the interval in milliseconds.
LEMMA ValidityIsInterval ==
  ASSUME NEW c \in Certificate, NEW t \in Nat
  PROVE  CheckValidity(c, t) <=> Policy!ValidAt(c, t)
<1>1. c.notBefore \in Int /\ c.notAfter \in Int
  BY DEF Certificate
<1>2. ASSUME NEW b \in Int, NEW a \in Int
      PROVE  /\ b <= t \div 1000 <=> 1000 * b <= t
             /\ t \div 1000 <= a <=> t < 1000 * (a + 1)
  OBVIOUS
<1> QED
  BY <1>1, <1>2 DEF CheckValidity, Policy!ValidAt

\* The division by 1000 makes the cast of check_validity from u64 to i64
\* harmless: no timestamp can come out negative.
LEMMA SecondsFitI64 ==
  ASSUME NEW t \in 0 .. (18446744073709551616 - 1)
  PROVE  t \div 1000 \in 0 .. (9223372036854775808 - 1)
  OBVIOUS

\* validate_cert_content accepts exactly what the policy lets act in that role.
LEMMA ContentIsRole ==
  ASSUME NEW c \in Certificate, NEW leaf \in BOOLEAN
  PROVE  ValidateCertContent(c, leaf)
           <=> UsesP384(c) /\ (IF leaf THEN Policy!MayAttest(c) ELSE Policy!MayCertify(c))
<1>1. c.bc.status \in ExtensionStatus /\ c.ku.status \in ExtensionStatus
  BY DEF Certificate, BasicConstraints, KeyUsage
<1> QED
  BY <1>1 DEF ValidateCertContent, LeafContentOK, CaContentOK, ExtensionStatus,
              Policy!MayAttest, Policy!MayCertify

\* Each parent in turn leaves room for the rest of the chain: the one bound
\* the code checks is the largest of those the constraint is about.
LEMMA RemainingIsPathLength ==
  ASSUME TypeOK, NEW k \in 2 .. ChainLen
  PROVE  (\A max \in Cert(k - 1).bc.pathLen : Remaining(k) <= max)
           <=> Policy!PathLengthKept(CertsOf(ders), k - 1)
<1> DEFINE n == ChainLen
<1>1. n \in Nat /\ Len(CertsOf(ders)) = n /\ CertsOf(ders)[k - 1] = Cert(k - 1)
  BY DEF TypeOK, ChainLen, CertsOf, Cert
<1>2. Cert(k - 1).bc.pathLen \subseteq Nat
  <2>1. ders[k - 1] \in DerBytes
    BY <1>1 DEF TypeOK, ChainLen
  <2> QED
    BY <2>1 DEF Cert, DerBytes, Certificate, BasicConstraints
<1>3. ASSUME NEW max \in Nat
      PROVE  Remaining(k) <= max <=> \A m \in ((k - 1) + 1) .. (n - 1) : m - (k - 1) <= max
  <2>1. CASE k = n
    BY <2>1, <1>1 DEF Remaining
  <2>2. CASE k < n
    <3>1. n - 1 \in ((k - 1) + 1) .. (n - 1)
      BY <2>2, <1>1
    <3> QED
      BY <2>2, <3>1, <1>1 DEF Remaining
  <2> QED
    BY <2>1, <2>2, <1>1
<1> QED
  BY <1>1, <1>2, <1>3 DEF Policy!PathLengthKept

\* The checks of the walk on certificate k are the clauses of ValidChain
\* about k.
LEMMA ChecksAreClauses ==
  ASSUME TypeOK, NEW k \in 1 .. ChainLen
  PROVE  CertificateOK(k) /\ SignatureOK(k)
           <=> /\ Cert(k).notAfter >= 0
               /\ k > 1 => Cert(k).issuer # Cert(k).subject
               /\ k > prefix =>
                    /\ UsesP384(Cert(k))
                    /\ IF k = ChainLen /\ k > 1 THEN Policy!MayAttest(Cert(k))
                                                ELSE Policy!MayCertify(Cert(k))
                    /\ Policy!ValidAt(Cert(k), timestamp)
                    /\ Policy!Vouched(CertsOf(ders), k)
<1>1. ChainLen \in Nat /\ prefix \in Nat /\ timestamp \in Nat /\ k \in Nat
  BY DEF TypeOK, ChainLen
<1>2. Cert(k) \in Certificate
  <2>1. ders[k] \in DerBytes
    BY <1>1 DEF TypeOK, ChainLen
  <2> QED
    BY <2>1 DEF Cert, DerBytes
<1>3. CertsOf(ders)[k] = Cert(k) /\ CertsOf(ders)[1] = Cert(1)
      /\ (k > 1 => CertsOf(ders)[k - 1] = Cert(k - 1))
  BY <1>1 DEF CertsOf, Cert, ChainLen
<1>4. IsLeaf(k) \in BOOLEAN /\ (IsLeaf(k) <=> k = ChainLen /\ k > 1)
  BY <1>1 DEF IsLeaf
<1>5. ValidateCertContent(Cert(k), IsLeaf(k))
        <=> UsesP384(Cert(k)) /\ IF k = ChainLen /\ k > 1 THEN Policy!MayAttest(Cert(k))
                                 ELSE Policy!MayCertify(Cert(k))
  BY <1>2, <1>4, ContentIsRole
<1>6. CheckValidity(Cert(k), timestamp) <=> Policy!ValidAt(Cert(k), timestamp)
  BY <1>1, <1>2, ValidityIsInterval
<1>7. (k > 1 => IssuerMatchesParent(k) /\ PathLengthOK(k))
      /\ VerifySignature(Cert(IF k = 1 THEN 1 ELSE k - 1), Cert(k))
        <=> Policy!Vouched(CertsOf(ders), k)
  <2>1. CASE k = 1
    BY <2>1, <1>3 DEF Policy!Vouched, VerifySignature
  <2>2. CASE k > 1
    <3>1. k \in 2 .. ChainLen
      BY <2>2, <1>1
    <3>2. PathLengthOK(k)
            <=> /\ Cert(k - 1).bc.status # "error"
                /\ Cert(k - 1).bc.status = "present" => Policy!PathLengthKept(CertsOf(ders), k - 1)
      BY <3>1, RemainingIsPathLength DEF PathLengthOK
    <3> QED
      BY <2>2, <3>2, <1>1, <1>3 DEF Policy!Vouched, VerifySignature, IssuerMatchesParent
  <2> QED
    BY <2>1, <2>2, <1>1
<1> QED
  BY <1>1, <1>5, <1>6, <1>7 DEF CertificateOK, SignatureOK, ExpiryIsUnsigned,
     SelfIssuedOnlyAtRoot, SelfIssued, InTrustedPrefix

\* A chain every iteration of the walk finds sound is valid, and conversely.
LEMMA WalkIsValidChain ==
  ASSUME TypeOK, prefix <= ChainLen
  PROVE  (\A k \in 1 .. ChainLen : CertificateOK(k) /\ SignatureOK(k))
           <=> Policy!ValidChain(CertsOf(ders), prefix, timestamp)
<1>1. ChainLen \in Nat /\ prefix \in Nat /\ Len(CertsOf(ders)) = ChainLen
  BY DEF TypeOK, ChainLen, CertsOf
<1>2. \A k \in 1 .. ChainLen : CertsOf(ders)[k] = Cert(k)
  BY DEF CertsOf, Cert, ChainLen
<1> DEFINE Clause(k) ==
             /\ UsesP384(Cert(k))
             /\ IF k = ChainLen /\ k > 1 THEN Policy!MayAttest(Cert(k))
                                         ELSE Policy!MayCertify(Cert(k))
             /\ Policy!ValidAt(Cert(k), timestamp)
             /\ Policy!Vouched(CertsOf(ders), k)
<1>3. \A k \in 1 .. ChainLen :
        CertificateOK(k) /\ SignatureOK(k)
          <=> /\ Cert(k).notAfter >= 0
              /\ k > 1 => Cert(k).issuer # Cert(k).subject
              /\ k > prefix => Clause(k)
  BY ChecksAreClauses
<1>4. Policy!ValidChain(CertsOf(ders), prefix, timestamp)
        <=> /\ \A k \in 1 .. ChainLen : Cert(k).notAfter >= 0
            /\ \A k \in 2 .. ChainLen : Cert(k).issuer # Cert(k).subject
            /\ \A k \in (prefix + 1) .. ChainLen : Clause(k)
  <2>1. \A c : Policy!UsesP384(c) <=> UsesP384(c)
    BY DEF Policy!UsesP384, UsesP384
  <2> QED
    BY <1>1, <1>2, <2>1 DEF Policy!ValidChain
<1> HIDE DEF Clause
<1> QED
  BY <1>1, <1>3, <1>4

-----------------------------------------------------------------------------
(* Every step of the call is a step of the policy, or none.                *)

\* A fresh call is an undecided policy.
LEMMA InitIsPolicyInit == ChainInit => Policy!Init
  BY DEF ChainInit, ChainStart, Policy!Init, Policy!NoOutput

\* Both specifications read the same certificates from the bytes.
LEMMA CertsOfIsPolicyCertsOf == Policy!CertsOf(ders) = CertsOf(ders)
  BY DEF CertsOf, Policy!CertsOf

\* Until it returns, the call looks undecided.
LEMMA RunningIsStutter ==
  ASSUME phase \notin {"accepted", "rejected"}, phase' \notin {"accepted", "rejected"},
         UNCHANGED inputs
  PROVE  UNCHANGED Policy!policyVars
  BY DEF inputs, Policy!policyVars

\* A call that returns an error returns it on a chain the policy rejects.
LEMMA ReturnIsReject ==
  ASSUME NEW err, ChainReturns(err), phase \notin {"accepted", "rejected"}, ~Policy!Acceptable
  PROVE  Policy!Reject
  BY DEF ChainReturns, Policy!Reject

\* A chain all of whose certificates were passed is one the policy accepts,
\* and what was pushed is what the policy yields.
LEMMA FinishedWalkIsAcceptable ==
  ASSUME ChainInv, Parses(ders), prefix <= ChainLen,
         Len(digests) = ChainLen, Len(expiries) = ChainLen
  PROVE  /\ Policy!Acceptable
         /\ Policy!IsPathDigests(digests, ders)
         /\ Policy!IsExpiries(expiries, Policy!CertsOf(ders))
<1> USE DEF ChainInv
<1>1. Policy!ValidChain(CertsOf(ders), prefix, timestamp)
  BY WalkIsValidChain DEF WalkInv
<1>2. Policy!Acceptable
  BY <1>1, CertsOfIsPolicyCertsOf DEF Policy!Acceptable, Policy!Canonical, Parses
<1>3. Policy!IsPathDigests(digests, ders)
  BY DEF Policy!IsPathDigests, DigestInv, ChainLen
<1>4. Policy!IsExpiries(expiries, CertsOf(ders))
  BY DEF Policy!IsExpiries, WalkInv, CertsOf, Cert, ChainLen
<1> QED
  BY <1>2, <1>3, <1>4, CertsOfIsPolicyCertsOf

\* The end of the walk is the policy's acceptance.
LEMMA WalkDoneIsAccept ==
  ASSUME ChainInv, WalkDone
  PROVE  Policy!Accept
<1>1. Len(digests) = ChainLen /\ Len(expiries) = ChainLen /\ prefix <= ChainLen /\ Parses(ders)
  BY DEF WalkDone, At, ChainInv, TypeOK, PhaseInv, ChainLen
<1> QED
  BY <1>1, FinishedWalkIsAcceptable DEF WalkDone, Policy!Accept

\* Every step of the call is a step of the policy, or none.
LEMMA StepIsPolicyStep ==
  ASSUME ChainInv, [ChainNext]_chainVars
  PROVE  [Policy!Next]_(Policy!policyVars)
<1> USE DEF ChainInv
<1>1. CASE FromDer \/ CheckPrefixLen \/ PushDigest \/ DigestsDone \/ WalkCertificate
  BY <1>1, RunningIsStutter
  DEF FromDer, CheckPrefixLen, PushDigest, DigestsDone, WalkCertificate, inputs
<1>2. CASE FromDerFails
  <2>1. ~Policy!Acceptable
    BY <1>2 DEF FromDerFails, Parses, Policy!Acceptable, Policy!Canonical, ChainLen
  <2> QED
    BY <1>2, <2>1, ReturnIsReject DEF FromDerFails, Policy!Next
<1>3. CASE PrefixTooLong
  <2>1. ~(prefix <= Len(CertsOf(ders)))
    BY <1>3 DEF PrefixTooLong, CertsOf, ChainLen, TypeOK
  <2>2. ~Policy!Acceptable
    BY <2>1, CertsOfIsPolicyCertsOf DEF Policy!Acceptable, Policy!ValidChain
  <2> QED
    BY <1>3, <2>2, ReturnIsReject DEF PrefixTooLong, Policy!Next
<1>4. CASE CertificateFails \/ SignatureFails
  <2>1. At \in 1 .. ChainLen /\ ~(CertificateOK(At) /\ SignatureOK(At))
    BY <1>4 DEF CertificateFails, SignatureFails, At, TypeOK, ChainLen
  <2>2. prefix <= ChainLen
    BY <1>4 DEF CertificateFails, SignatureFails, PhaseInv
  <2>3. ~Policy!Acceptable
    BY <2>1, <2>2, WalkIsValidChain, CertsOfIsPolicyCertsOf DEF Policy!Acceptable
  <2> QED
    BY <1>4, <2>3, ReturnIsReject DEF CertificateFails, SignatureFails, Policy!Next
<1>5. CASE WalkDone
  BY <1>5, WalkDoneIsAccept DEF Policy!Next
<1>6. CASE UNCHANGED chainVars
  BY <1>6 DEF chainVars, Policy!policyVars
<1> QED
  BY <1>1, <1>2, <1>3, <1>4, <1>5, <1>6 DEF ChainNext

\* verify_chain accepts exactly the chains that are valid beyond the trusted
\* prefix, and yields the path digests and the expiries of all of them.
THEOREM Implementation == ChainSpec => ImplementsPolicy
<1>1. ChainInit => Policy!Init
  BY InitIsPolicyInit
<1>2. ChainInv /\ [ChainNext]_chainVars => [Policy!Next]_(Policy!policyVars)
  BY StepIsPolicyStep
<1> QED
  BY <1>1, <1>2, ChainInvariance, PTL DEF ChainSpec, ImplementsPolicy, Policy!Spec

-----------------------------------------------------------------------------
(* The loops end.                                                          *)

\* How many steps of from_der and verify_chain are left at most.
ChainStepsLeft ==
  CASE phase = "from_der"   -> 2 * ChainLen + 4
    [] phase = "prefix_len" -> 2 * ChainLen + 3
    [] phase = "digests"    -> 2 * ChainLen + 2 - Len(digests)
    [] phase = "walk"       -> ChainLen + 1 - Len(expiries)
    [] OTHER                -> 0

\* Each step of the call, a loop's iteration above all, leaves fewer.
LEMMA ChainStepsRunOut ==
  ASSUME ChainInv, ChainNext
  PROVE  /\ ChainStepsLeft \in Nat /\ ChainStepsLeft' \in Nat
         /\ ChainStepsLeft' < ChainStepsLeft
<1> USE DEF ChainStepsLeft
<1>1. /\ ChainLen \in Nat /\ Len(digests) \in Nat /\ Len(expiries) \in Nat
      /\ Len(digests) <= ChainLen /\ Len(expiries) <= ChainLen
  BY DEF ChainInv, TypeOK, ChainLen, IsSequence
<1>2. ChainLen' = ChainLen
  BY DEF ChainNext, FromDer, FromDerFails, CheckPrefixLen, PrefixTooLong, PushDigest,
         DigestsDone, WalkCertificate, CertificateFails, SignatureFails, WalkDone,
         ChainReturns, ChainLen
<1>3. CASE FromDer \/ CheckPrefixLen
  <2>1. digests = <<>> /\ digests' = digests
    BY <1>3 DEF FromDer, CheckPrefixLen, ChainInv, PhaseInv
  <2> QED
    BY <1>1, <1>2, <1>3, <2>1 DEF FromDer, CheckPrefixLen
<1>4. CASE FromDerFails \/ PrefixTooLong \/ CertificateFails \/ SignatureFails
  BY <1>1, <1>2, <1>4 DEF FromDerFails, PrefixTooLong, CertificateFails, SignatureFails,
                          ChainReturns
<1>5. CASE PushDigest
  <2>1. Len(digests') = Len(digests) + 1 /\ phase = "digests" /\ phase' = "digests"
        /\ Len(digests) < ChainLen
    BY <1>5, AppendIsSequence DEF PushDigest, ChainInv, TypeOK
  <2> QED
    BY <1>1, <1>2, <2>1
<1>6. CASE DigestsDone
  <2>1. expiries = <<>> /\ expiries' = expiries
    BY <1>6 DEF DigestsDone, ChainInv, PhaseInv
  <2> QED
    BY <1>1, <1>2, <1>6, <2>1 DEF DigestsDone
<1>7. CASE WalkCertificate
  <2>1. Len(expiries') = Len(expiries) + 1 /\ phase = "walk" /\ phase' = "walk"
        /\ Len(expiries) < ChainLen
    BY <1>1, <1>7 DEF WalkCertificate, At, ChainInv, TypeOK
  <2> QED
    BY <1>1, <1>2, <2>1
<1>8. CASE WalkDone
  BY <1>1, <1>2, <1>8 DEF WalkDone
<1> QED
  BY <1>3, <1>4, <1>5, <1>6, <1>7, <1>8 DEF ChainNext
=============================================================================
