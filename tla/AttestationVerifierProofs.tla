---------------------- MODULE AttestationVerifierProofs ---------------------
(***************************************************************************)
(* Proofs about AttestationVerifier, for any reports and any hash.  What   *)
(* is proved of CertChain carries over: its steps are the steps of stage   *)
(* "chain", and no other step disturbs its variables once it runs.         *)
(***************************************************************************)
EXTENDS AttestationVerifier, CertChainProofs

-----------------------------------------------------------------------------
(* The inductive invariant.                                                *)

\* No step of from_der or verify_chain changes the arguments of the call.
LEMMA ChainStepKeepsInputs ==
  ASSUME ChainNext
  PROVE  UNCHANGED inputs
  BY DEF ChainNext, FromDer, FromDerFails, CheckPrefixLen, PrefixTooLong, PushDigest,
         DigestsDone, WalkCertificate, CertificateFails, SignatureFails, WalkDone,
         ChainReturns, inputs

\* A rejecting step of the chain is the policy's: the chain is not acceptable.
LEMMA ChainStepPreservesVerdictInv ==
  ASSUME ChainInv, VerdictInv, [ChainNext]_chainVars
  PROVE  VerdictInv'
<1> SUFFICES ASSUME phase' = "rejected"
             PROVE  ~Policy!Acceptable'
  BY DEF VerdictInv
<1>1. UNCHANGED inputs
  BY ChainStepKeepsInputs DEF chainVars, inputs
<1>2. Policy!Acceptable' = Policy!Acceptable
  BY <1>1 DEF inputs, Policy!Acceptable
<1>3. CASE phase = "rejected"
  BY <1>2, <1>3 DEF VerdictInv
<1>4. CASE phase # "rejected"
  <2>1. [Policy!Next]_(Policy!policyVars)
    BY StepIsPolicyStep
  <2>2. Policy!Reject
    BY <2>1, <1>4 DEF Policy!Next, Policy!Accept, Policy!policyVars
  <2> QED
    BY <2>2, <1>2 DEF Policy!Reject
<1> QED
  BY <1>3, <1>4

\* A fresh call of verify satisfies its inductive invariant.
LEMMA InitEstablishesVerifierInv == Init => VerifierInv
<1> SUFFICES ASSUME Init PROVE VerifierInv
  OBVIOUS
<1>1. TypeOK
  BY EmptyIsSequence, PrefixesAssumption DEF Init, ChainStart, TypeOK, Phases, ChainErrors, ChainLen
<1>2. PhaseInv /\ DigestInv /\ WalkInv
  BY EmptyIsSequence DEF Init, ChainStart, PhaseInv, DigestInv, WalkInv
<1>3. VerdictInv /\ StageInv
  BY DEF Init, ChainStart, VerdictInv, StageInv
<1>4. VerifierTypeOK
  BY DEF Init, VerifierTypeOK, Stages, VerifierErrors, ChainErrors
<1> QED
  BY <1>1, <1>2, <1>3, <1>4 DEF VerifierInv, ChainInv

\* A step that leaves the chain alone keeps what is known of it.
LEMMA ChainUntouched ==
  ASSUME VerifierInv, UNCHANGED chainVars
  PROVE  ChainInv' /\ VerdictInv'
  BY NextPreservesChainInv, ChainStepPreservesVerdictInv DEF VerifierInv

\* An early return with an error, from any stage, keeps the invariant.
LEMMA RefusePreservesVerifierInv ==
  ASSUME VerifierInv, NEW err \in VerifierErrors \ {"none"}, stage \notin {"journal", "refused"},
         Refuse(err)
  PROVE  VerifierInv'
<1>1. ChainInv' /\ VerdictInv'
  BY ChainUntouched DEF Refuse
<1>2. VerifierTypeOK'
  BY DEF Refuse, VerifierInv, VerifierTypeOK, Stages
<1>3. StageInv'
  BY DEF Refuse, StageInv
<1> QED
  BY <1>1, <1>2, <1>3 DEF VerifierInv

\* Going on to the next stage keeps the invariant when the stage's check passed.
LEMMA AdvancePreservesVerifierInv ==
  ASSUME VerifierInv, NEW next \in {"document", "content"}, stage \notin {"journal", "refused"},
         Advance(next), StageInv'
  PROVE  VerifierInv'
<1>1. ChainInv' /\ VerdictInv'
  BY ChainUntouched DEF Advance
<1>2. VerifierTypeOK'
  BY DEF Advance, VerifierInv, VerifierTypeOK, Stages
<1> QED
  BY <1>1, <1>2 DEF VerifierInv

\* Handing the chain of a valid document to CertChain keeps the invariant.
LEMMA ValidateContentPreservesVerifierInv ==
  ASSUME VerifierInv, ValidateContent
  PROVE  VerifierInv'
<1> USE DEF ValidateContent, VerifierInv
<1>1. ChainStart /\ ChainStart' /\ report \in Reports
  BY DEF StageInv, VerifierTypeOK, ChainStart
<1>2. ders' \in Seq(DerBytes) /\ timestamp' \in Nat
  BY <1>1, ReportsAssumption DEF CertChainDer, Doc
<1>3. TypeOK'
  BY <1>1, <1>2, EmptyIsSequence DEF ChainStart, ChainInv, TypeOK, Phases, ChainErrors, ChainLen
<1>4. PhaseInv' /\ DigestInv' /\ WalkInv' /\ VerdictInv'
  BY <1>1, EmptyIsSequence DEF ChainStart, PhaseInv, DigestInv, WalkInv, VerdictInv
<1>5. VerifierTypeOK'
  BY DEF VerifierTypeOK, Stages
<1>6. StageInv'
  BY DEF StageInv, Doc
<1> QED
  BY <1>3, <1>4, <1>5, <1>6 DEF ChainInv

\* A step inside from_der or verify_chain keeps the invariant of verify.
LEMMA VerifyChainPreservesVerifierInv ==
  ASSUME VerifierInv, VerifyChain
  PROVE  VerifierInv'
<1> USE DEF VerifyChain, VerifierInv
<1>1. ChainInv' /\ VerdictInv'
  BY NextPreservesChainInv, ChainStepPreservesVerdictInv
<1>2. UNCHANGED inputs
  BY ChainStepKeepsInputs
<1>3. VerifierTypeOK'
  BY DEF VerifierTypeOK, verifierVars
<1>4. StageInv'
  BY <1>2 DEF StageInv, verifierVars, inputs, Doc
<1> QED
  BY <1>1, <1>3, <1>4

\* Building the journal keeps the invariant.
LEMMA BuildJournalPreservesVerifierInv ==
  ASSUME VerifierInv, BuildJournal
  PROVE  VerifierInv'
<1> USE DEF BuildJournal, VerifierInv
<1>1. ChainInv' /\ VerdictInv'
  BY ChainUntouched
<1>2. VerifierTypeOK'
  BY DEF VerifierTypeOK, Stages
<1>3. StageInv'
  <2>1. CoseSignatureOK' = CoseSignatureOK
    BY DEF CoseSignatureOK, LeafPublicKey, SigStructure, Cert, ChainLen, chainVars
  <2>2. JournalOf(Doc)' = JournalOf(Doc) /\ Doc' = Doc
    BY DEF JournalOf, Doc, chainVars
  <2> QED
    BY <2>1, <2>2 DEF StageInv, chainVars
<1> QED
  BY <1>1, <1>2, <1>3

\* Every step of verify keeps the inductive invariant.
LEMMA NextPreservesVerifierInv == VerifierInv /\ [Next]_vars => VerifierInv'
<1> SUFFICES ASSUME VerifierInv, [Next]_vars
             PROVE  VerifierInv'
  OBVIOUS
<1> USE DEF VerifierErrors, ChainErrors
<1>1. CASE ParseEnvelope
  <2>1. report.envelope = "sound"
    BY <1>1 DEF ParseEnvelope, EnvelopeError
  <2>2. StageInv'
    BY <1>1, <2>1 DEF ParseEnvelope, Advance, VerifierInv, StageInv, chainVars, ChainStart
  <2> QED
    BY <1>1, <2>2, AdvancePreservesVerifierInv DEF ParseEnvelope
<1>2. CASE EnvelopeFails
  BY <1>2, RefusePreservesVerifierInv DEF EnvelopeFails, EnvelopeError
<1>3. CASE ParseDocument
  <2>1. StageInv'
    BY <1>3 DEF ParseDocument, Advance, VerifierInv, StageInv, chainVars, ChainStart
  <2> QED
    BY <1>3, <2>1, AdvancePreservesVerifierInv DEF ParseDocument
<1>4. CASE DocumentFails
  BY <1>4, RefusePreservesVerifierInv DEF DocumentFails
<1>5. CASE ValidateContent
  BY <1>5, ValidateContentPreservesVerifierInv
<1>6. CASE ContentFails
  BY <1>6, RefusePreservesVerifierInv DEF ContentFails
<1>7. CASE VerifyChain
  BY <1>7, VerifyChainPreservesVerifierInv
<1>8. CASE ChainFails
  <2>1. error \in ChainErrors \ {"none"}
    BY <1>8 DEF ChainFails, VerifierInv, ChainInv, TypeOK
  <2> QED
    BY <1>8, <2>1, RefusePreservesVerifierInv DEF ChainFails
<1>9. CASE BuildJournal
  BY <1>9, BuildJournalPreservesVerifierInv
<1>10. CASE CoseSignatureFails
  BY <1>10, RefusePreservesVerifierInv DEF CoseSignatureFails
<1>11. CASE UNCHANGED vars
  <2>1. ChainInv' /\ VerdictInv'
    BY <1>11, ChainUntouched DEF vars
  <2>2. VerifierTypeOK'
    BY <1>11 DEF vars, verifierVars, VerifierInv, VerifierTypeOK
  <2>3. StageInv'
    BY <1>11 DEF vars, verifierVars, chainVars, VerifierInv, StageInv, Doc, JournalOf, ChainStart,
                 CoseSignatureOK, LeafPublicKey, SigStructure, Cert, ChainLen
  <2> QED
    BY <2>1, <2>2, <2>3 DEF VerifierInv
<1> QED
  BY <1>1, <1>2, <1>3, <1>4, <1>5, <1>6, <1>7, <1>8, <1>9, <1>10, <1>11 DEF Next

\* The chain judged is the document's, at the document's time, after its
\* content; a journal exists only with chain and signature found good.
THEOREM VerifierInvariance == Spec => []VerifierInv
  BY InitEstablishesVerifierInv, NextPreservesVerifierInv, PTL DEF Spec

-----------------------------------------------------------------------------
(* The gate.                                                               *)

\* The registers checked one by one are those of the gate.
LEMMA PcrsAgree ==
  ASSUME NEW pcrs, DOMAIN pcrs \subseteq Nat
  PROVE  PcrsOK(pcrs) <=> /\ DOMAIN pcrs \subseteq 0 .. 31
                          /\ \E index \in DOMAIN pcrs : pcrs[index] # "zero"
<1>1. \A index \in DOMAIN pcrs : index <= 31 <=> index \in 0 .. 31
  OBVIOUS
<1>2. (\A index \in DOMAIN pcrs : index <= 31) <=> DOMAIN pcrs \subseteq 0 .. 31
  BY <1>1, Zenon
<1>3. PcrsOK(pcrs)
        <=> /\ \A index \in DOMAIN pcrs : index <= 31
            /\ \E index \in DOMAIN pcrs : pcrs[index] # "zero"
  BY Zenon DEF PcrsOK
<1> QED
  BY <1>2, <1>3, Zenon

\* validate_attestation_content accepts exactly the documents of the gate.
LEMMA ContentIsProduction ==
  ASSUME NEW rep \in Reports
  PROVE  ContentOK(rep.payload.doc) <=> Gate!IsProductionDocument(rep.payload.doc)
<1> DEFINE doc == rep.payload.doc
<1>1. /\ doc.timestamp \in Nat /\ DOMAIN doc.pcrs \subseteq Nat
      /\ doc.publicKey \subseteq Nat /\ doc.userData \subseteq Nat /\ doc.nonce \subseteq Nat
  BY ReportsAssumption, Zenon DEF ReportsAssumption
<1> HIDE DEF doc
<1> DEFINE Header     == doc.moduleId # "" /\ doc.timestamp > 0 /\ doc.digest = "SHA384" /\ doc.cabundle # <<>>
           Registers  == /\ DOMAIN doc.pcrs \subseteq 0 .. 31
                         /\ \E index \in DOMAIN doc.pcrs : doc.pcrs[index] # "zero"
           KeyLength  == doc.publicKey \subseteq 1 .. 1024
           Lengths    == doc.userData \subseteq 0 .. 512 /\ doc.nonce \subseteq 0 .. 512
           EachLength == \A len \in doc.userData \cup doc.nonce : len <= 512
<1>2. PcrsOK(doc.pcrs) <=> Registers
  BY <1>1, PcrsAgree
<1>3. PublicKeyOK(doc) <=> KeyLength
  <2>1. \A len \in doc.publicKey : len > 0 /\ len <= 1024 <=> len \in 1 .. 1024
    BY <1>1
  <2> QED
    BY <2>1 DEF PublicKeyOK
<1>4. EachLength <=> Lengths
  <2>1. \A len \in doc.userData \cup doc.nonce : len <= 512 <=> len \in 0 .. 512
    BY <1>1
  <2> QED
    BY <2>1
<1>5. doc.timestamp # 0 <=> doc.timestamp > 0
  BY <1>1
<1>6. Gate!IsProductionDocument(doc) <=> Header /\ Registers /\ KeyLength /\ Lengths
  BY DEF Gate!IsProductionDocument
<1>7. ContentOK(doc) <=> /\ doc.moduleId # "" /\ doc.timestamp # 0
                         /\ doc.digest = "SHA384" /\ doc.cabundle # <<>>
                         /\ PcrsOK(doc.pcrs) /\ PublicKeyOK(doc) /\ EachLength
  BY DEF ContentOK
<1> HIDE DEF Registers, KeyLength, Lengths, EachLength
<1>8. ContentOK(doc) <=> Gate!IsProductionDocument(doc)
  BY <1>2, <1>3, <1>4, <1>5, <1>6, <1>7
<1> QED
  BY <1>8, Zenon DEF doc

\* Both specifications judge a path by the rules of ChainPolicy.
LEMMA SameRules ==
  ASSUME NEW path, NEW p, NEW t
  PROVE  /\ Gate!ChainRules!Canonical(path) <=> Policy!Canonical(path)
         /\ Gate!ChainRules!CertsOf(path) = Policy!CertsOf(path)
         /\ Gate!ChainRules!ValidChain(path, p, t) <=> Policy!ValidChain(path, p, t)
<1>1. \A c : /\ Gate!ChainRules!UsesP384(c) <=> Policy!UsesP384(c)
             /\ Gate!ChainRules!MayAttest(c) <=> Policy!MayAttest(c)
             /\ Gate!ChainRules!MayCertify(c) <=> Policy!MayCertify(c)
             /\ \A at : Gate!ChainRules!ValidAt(c, at) <=> Policy!ValidAt(c, at)
  BY DEF Gate!ChainRules!UsesP384, Policy!UsesP384, Gate!ChainRules!MayAttest, Policy!MayAttest,
         Gate!ChainRules!MayCertify, Policy!MayCertify, Gate!ChainRules!ValidAt, Policy!ValidAt
<1>2. \A j : Gate!ChainRules!PathLengthKept(path, j) <=> Policy!PathLengthKept(path, j)
  BY DEF Gate!ChainRules!PathLengthKept, Policy!PathLengthKept
<1>3. \A k : Gate!ChainRules!Vouched(path, k) <=> Policy!Vouched(path, k)
  BY <1>2 DEF Gate!ChainRules!Vouched, Policy!Vouched
<1>4. Gate!ChainRules!ValidChain(path, p, t) <=> Policy!ValidChain(path, p, t)
  BY <1>1, <1>3 DEF Gate!ChainRules!ValidChain, Policy!ValidChain
<1>5. Gate!ChainRules!Canonical(path) <=> Policy!Canonical(path)
  BY DEF Gate!ChainRules!Canonical, Policy!Canonical
<1>6. Gate!ChainRules!CertsOf(path) = Policy!CertsOf(path)
  BY DEF Gate!ChainRules!CertsOf, Policy!CertsOf
<1> QED
  BY <1>4, <1>5, <1>6

\* In stage "chain" and after, the report attests exactly if the policy
\* accepts the chain and the COSE signature is good.
LEMMA AttestedIsAcceptedAndSigned ==
  ASSUME VerifierInv, stage = "chain"
  PROVE  Gate!Attested(report, prefix) <=> Policy!Acceptable /\ CoseSignatureOK
<1>1. /\ report.envelope = "sound" /\ report.payload.decodes /\ ContentOK(Doc)
      /\ ders = CertChainDer(Doc) /\ timestamp = Doc.timestamp /\ report \in Reports
  BY DEF VerifierInv, StageInv, VerifierTypeOK
<1>2. Gate!IsProductionDocument(report.payload.doc)
  BY <1>1, ContentIsProduction DEF Doc
<1>3. Gate!Path(report.payload.doc) = ders
  BY <1>1 DEF Gate!Path, CertChainDer, Doc
<1>4. LeafPublicKey = report.payload.doc.certificate.cert.key
  BY <1>1, ReportsAssumption DEF LeafPublicKey, Cert, ChainLen, CertChainDer, Doc
<1>5. Gate!SignedBy(LeafPublicKey, report) <=> CoseSignatureOK
  BY DEF Gate!SignedBy, CoseSignatureOK, SigStructure
<1>6. /\ Gate!ChainRules!Canonical(ders) <=> Policy!Canonical(ders)
      /\ Gate!ChainRules!ValidChain(Gate!ChainRules!CertsOf(ders), prefix, timestamp)
           <=> Policy!ValidChain(Policy!CertsOf(ders), prefix, timestamp)
  BY SameRules
<1>7. Gate!Attested(report, prefix)
        <=> /\ Gate!ChainRules!Canonical(ders)
            /\ Gate!ChainRules!ValidChain(Gate!ChainRules!CertsOf(ders), prefix, timestamp)
            /\ Gate!SignedBy(LeafPublicKey, report)
  BY <1>1, <1>2, <1>3, <1>4, <1>6 DEF Gate!Attested, Doc
<1> QED
  BY <1>5, <1>6, <1>7 DEF Policy!Acceptable

\* A chain that verify_chain accepted is acceptable to the policy.
LEMMA AcceptedChainIsAcceptable ==
  ASSUME ChainInv, phase = "accepted"
  PROVE  /\ Policy!Acceptable
         /\ Policy!IsPathDigests(digests, ders)
         /\ Policy!IsExpiries(expiries, Policy!CertsOf(ders))
<1>1. Len(digests) = ChainLen /\ Len(expiries) = ChainLen /\ prefix <= ChainLen /\ Parses(ders)
  BY DEF ChainInv, PhaseInv
<1> QED
  BY <1>1, FinishedWalkIsAcceptable

\* An early return is the gate's refusal: the report does not attest.
LEMMA RefuseIsGateRefuse ==
  ASSUME NEW err, Refuse(err), stage \notin {"journal", "refused"}, ~Gate!Attested(report, prefix)
  PROVE  Gate!Refuse
  BY DEF Refuse, Gate!Refuse, chainVars

\* The journal verify builds says what the gate wants said of the report.
LEMMA JournalSpeaksForReport ==
  ASSUME VerifierInv, stage = "chain", phase = "accepted"
  PROVE  Gate!SpeaksFor(JournalOf(Doc), report, prefix)
<1> DEFINE j == JournalOf(Doc)
<1>1. ders = Gate!Path(report.payload.doc) /\ Doc = report.payload.doc
  BY DEF VerifierInv, StageInv, CertChainDer, Gate!Path, Doc
<1>2. Policy!IsPathDigests(digests, ders) /\ Policy!IsExpiries(expiries, Policy!CertsOf(ders))
  BY AcceptedChainIsAcceptable DEF VerifierInv
<1>3. Gate!ChainRules!IsPathDigests(j.certs, ders)
  BY <1>2 DEF JournalOf, Policy!IsPathDigests, Gate!ChainRules!IsPathDigests
<1>4. Gate!ChainRules!IsExpiries(j.certExpiries, Gate!ChainRules!CertsOf(ders))
  BY <1>2 DEF JournalOf, Policy!IsExpiries, Gate!ChainRules!IsExpiries,
              Policy!CertsOf, Gate!ChainRules!CertsOf
<1>5. /\ j.result = "Success" /\ j.trusted = prefix /\ j.timestamp = Doc.timestamp
      /\ j.moduleId = Doc.moduleId /\ j.pcrs = Doc.pcrs
  BY DEF JournalOf
<1>6. ASSUME NEW field \in {"publicKey", "userData", "nonce"}
      PROVE  j[field] = IF Doc[field] = {} THEN 0 ELSE CHOOSE n \in Doc[field] : TRUE
  <2>1. j[field] = OptionalBytes(Doc[field])
    BY DEF JournalOf
  <2>2. OptionalBytes(Doc[field])
          = IF Doc[field] = {} THEN 0 ELSE CHOOSE n \in Doc[field] : TRUE
    BY DEF OptionalBytes
  <2> QED
    BY <2>1, <2>2
<1> HIDE DEF j
<1> QED
  BY <1>1, <1>3, <1>4, <1>5, <1>6 DEF Gate!SpeaksFor, j

\* Every step of verify is a step of the gate, or none.
LEMMA StepIsGateStep ==
  ASSUME VerifierInv, [Next]_vars
  PROVE  [Gate!Next]_(Gate!gateVars)
<1>1. CASE ParseEnvelope \/ ParseDocument
  BY <1>1 DEF ParseEnvelope, ParseDocument, Advance, Gate!gateVars, chainVars
<1>2. CASE ValidateContent
  BY <1>2 DEF ValidateContent, Gate!gateVars
<1>3. CASE VerifyChain
  BY <1>3, ChainStepKeepsInputs DEF VerifyChain, Gate!gateVars, verifierVars, inputs
<1>4. CASE EnvelopeFails
  <2>1. ~Gate!Attested(report, prefix)
    BY <1>4 DEF EnvelopeFails, EnvelopeError, Gate!Attested
  <2> QED
    BY <1>4, <2>1, RefuseIsGateRefuse DEF EnvelopeFails, Gate!Next
<1>5. CASE DocumentFails
  <2>1. ~Gate!Attested(report, prefix)
    BY <1>5 DEF DocumentFails, Gate!Attested
  <2> QED
    BY <1>5, <2>1, RefuseIsGateRefuse DEF DocumentFails, Gate!Next
<1>6. CASE ContentFails
  <2>1. ~Gate!Attested(report, prefix)
    BY <1>6, ContentIsProduction DEF ContentFails, Gate!Attested, Doc, VerifierInv, VerifierTypeOK
  <2> QED
    BY <1>6, <2>1, RefuseIsGateRefuse DEF ContentFails, Gate!Next
<1>7. CASE ChainFails
  <2>1. ~Gate!Attested(report, prefix)
    BY <1>7, AttestedIsAcceptedAndSigned DEF ChainFails, VerifierInv, VerdictInv
  <2> QED
    BY <1>7, <2>1, RefuseIsGateRefuse DEF ChainFails, Gate!Next
<1>8. CASE CoseSignatureFails
  <2>1. ~Gate!Attested(report, prefix)
    BY <1>8, AttestedIsAcceptedAndSigned DEF CoseSignatureFails
  <2> QED
    BY <1>8, <2>1, RefuseIsGateRefuse DEF CoseSignatureFails, Gate!Next
<1>9. CASE BuildJournal
  <2>1. Gate!Attested(report, prefix)
    BY <1>9, AttestedIsAcceptedAndSigned, AcceptedChainIsAcceptable DEF BuildJournal, VerifierInv
  <2>2. Gate!SpeaksFor(JournalOf(Doc), report, prefix)
    BY <1>9, JournalSpeaksForReport DEF BuildJournal
  <2>3. \E j \in journal' : journal' = {j} /\ Gate!SpeaksFor(j, report, prefix)
    BY <1>9, <2>2 DEF BuildJournal
  <2>4. Gate!Grant
    BY <1>9, <2>1, <2>3 DEF BuildJournal, Gate!Grant, chainVars
  <2> QED
    BY <2>4 DEF Gate!Next
<1>10. CASE UNCHANGED vars
  BY <1>10 DEF vars, verifierVars, chainVars, Gate!gateVars
<1> QED
  BY <1>1, <1>2, <1>3, <1>4, <1>5, <1>6, <1>7, <1>8, <1>9, <1>10 DEF Next

\* verify yields a journal for exactly the reports that attest, and the
\* journal says what the signed document and its chain say.
THEOREM VerifierImplementsGate == Spec => ImplementsGate
<1>1. Init => Gate!Init
  BY DEF Init, Gate!Init
<1>2. VerifierInv /\ [Next]_vars => [Gate!Next]_(Gate!gateVars)
  BY StepIsGateStep
<1> QED
  BY <1>1, <1>2, VerifierInvariance, PTL DEF Spec, ImplementsGate, Gate!Spec

-----------------------------------------------------------------------------
\* optional_bytes of a valid public key is empty only if there is none: every
\* length the content checks let through is positive.
LEMMA OptionalKey ==
  ASSUME NEW rep \in Reports, PublicKeyOK(rep.payload.doc)
  PROVE  OptionalBytes(rep.payload.doc.publicKey) = 0 <=> rep.payload.doc.publicKey = {}
<1> DEFINE key == rep.payload.doc.publicKey
<1>1. key \subseteq Nat
  BY ReportsAssumption
<1>2. \A len \in key : len > 0
  BY DEF PublicKeyOK
<1>3. CASE key = {}
  BY <1>3 DEF OptionalBytes
<1>4. CASE key # {}
  <2>1. (CHOOSE len \in key : TRUE) \in key
    BY <1>4
  <2>2. OptionalBytes(key) = (CHOOSE len \in key : TRUE)
    BY <1>4 DEF OptionalBytes
  <2>3. OptionalBytes(key) \in Nat /\ OptionalBytes(key) > 0
    BY <2>1, <2>2, <1>1, <1>2
  <2> QED
    BY <1>4, <2>3
<1> QED
  BY <1>3, <1>4

\* A journal without a public key comes from a document without one, so that
\* the contract can read the one as the other.
THEOREM EmptyKeyIsNoKey == Spec => []NoKeyMeansAbsent
<1>1. VerifierInv => NoKeyMeansAbsent
  <2> SUFFICES ASSUME VerifierInv, NEW j \in journal
               PROVE  j.publicKey = 0 <=> Doc.publicKey = {}
    BY DEF NoKeyMeansAbsent
  <2>1. stage = "journal" /\ report \in Reports
    BY DEF VerifierInv, VerifierTypeOK
  <2>2. j = JournalOf(Doc) /\ PublicKeyOK(Doc)
    BY <2>1 DEF VerifierInv, StageInv, ContentOK
  <2>3. j.publicKey = OptionalBytes(Doc.publicKey)
    BY <2>2 DEF JournalOf
  <2> QED
    BY <2>1, <2>2, <2>3, OptionalKey DEF Doc
<1> QED
  BY <1>1, VerifierInvariance, PTL

-----------------------------------------------------------------------------
(* The call ends.                                                          *)

\* How many steps of verify are left at most; from_der and verify_chain take
\* 2n + 4 on a chain of n certificates.
VerifyStepsLeft ==
  LET chainSteps == 2 * Len(CertChainDer(Doc)) + 4
  IN  CASE stage = "cose"     -> chainSteps + 4
        [] stage = "document" -> chainSteps + 3
        [] stage = "content"  -> chainSteps + 2
        [] stage = "chain"    -> ChainStepsLeft + 1
        [] OTHER              -> 0

\* A step leaves fewer, and never fewer than none.
StepsRunOut ==
  VerifyStepsLeft' < VerifyStepsLeft /\ {VerifyStepsLeft, VerifyStepsLeft'} \subseteq Nat

\* No call of verify goes on for ever: on a document with n certificates it
\* makes at most 2n + 8 steps, the loops' iterations included, whatever it is
\* given, and none leads back.
THEOREM VerifyIsBounded == Spec => [][StepsRunOut]_vars
<1>1. VerifierInv /\ [Next]_vars => [StepsRunOut]_vars
  <2> SUFFICES ASSUME VerifierInv, Next
               PROVE  StepsRunOut
    OBVIOUS
  <2> DEFINE n == Len(CertChainDer(Doc))
  <2> USE DEF VerifyStepsLeft, StepsRunOut
  <2>1. n \in Nat
    BY ReportsAssumption DEF VerifierInv, VerifierTypeOK, CertChainDer, Doc
  <2>2. report' = report /\ n' = n
    BY DEF Next, ParseEnvelope, EnvelopeFails, ParseDocument, DocumentFails, ValidateContent,
           ContentFails, VerifyChain, ChainFails, BuildJournal, CoseSignatureFails, Advance,
           Refuse, verifierVars, Doc, CertChainDer
  <2> HIDE DEF n
  <2>3. ChainStepsLeft \in Nat
    <3>1. /\ ChainLen \in Nat /\ Len(digests) \in Nat /\ Len(expiries) \in Nat
          /\ Len(digests) <= ChainLen /\ Len(expiries) <= ChainLen
      BY DEF VerifierInv, ChainInv, TypeOK, ChainLen, IsSequence
    <3> QED
      BY <3>1 DEF ChainStepsLeft
  <2>4. CASE ParseEnvelope \/ ParseDocument
    BY <2>1, <2>2, <2>4 DEF ParseEnvelope, ParseDocument, Advance, n
  <2>5. CASE ValidateContent
    <3>1. phase' = "from_der" /\ ChainLen' = n
      BY <2>5 DEF ValidateContent, VerifierInv, StageInv, ChainStart, ChainLen, n
    <3>2. ChainStepsLeft' = 2 * n + 4
      BY <3>1 DEF ChainStepsLeft
    <3> QED
      BY <2>1, <2>5, <3>2 DEF ValidateContent, n
  <2>6. CASE VerifyChain
    <3>1. ChainStepsLeft' \in Nat /\ ChainStepsLeft' < ChainStepsLeft
      BY <2>6, ChainStepsRunOut DEF VerifyChain, VerifierInv
    <3> QED
      BY <2>3, <2>6, <3>1 DEF VerifyChain, verifierVars
  <2>7. CASE \/ EnvelopeFails \/ DocumentFails \/ ContentFails
             \/ ChainFails \/ CoseSignatureFails \/ BuildJournal
    BY <2>1, <2>3, <2>7 DEF EnvelopeFails, DocumentFails, ContentFails, ChainFails,
                            CoseSignatureFails, BuildJournal, Refuse, n
  <2> QED
    BY <2>4, <2>5, <2>6, <2>7 DEF Next
<1> QED
  BY <1>1, VerifierInvariance, PTL DEF Spec
=============================================================================
