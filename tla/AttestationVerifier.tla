------------------------- MODULE AttestationVerifier ------------------------
(***************************************************************************)
(* AttestationVerifier::verify (verifier/src/verify.rs) on one report: the *)
(* COSE_Sign1 envelope and its document (attestation.rs), the M-02 content *)
(* checks, the certificate chain (module CertChain, whose steps are the    *)
(* steps of stage "chain"), the COSE signature and the journal.            *)
(*                                                                         *)
(* A byte string whose content no check reads is known by its length; an   *)
(* optional one is a set with at most one length.  A signature is a record *)
(* of who made it and over what: p384 accepts it under that key and over   *)
(* those bytes only.                                                       *)
(***************************************************************************)
EXTENDS CertChain

CONSTANT Reports  \* the attestation reports the caller may pass

\* What serde makes of a payload: u64 indices and timestamp, byte strings.
ASSUME ReportsAssumption ==
  \A rep \in Reports :
    LET doc == rep.payload.doc
    IN  /\ doc.timestamp \in Nat
        /\ doc.cabundle \in Seq(DerBytes) /\ doc.certificate \in DerBytes
        /\ DOMAIN doc.pcrs \subseteq Nat
        /\ doc.publicKey \subseteq Nat /\ doc.userData \subseteq Nat /\ doc.nonce \subseteq Nat

VARIABLES
  report,       \* attestationReport of the VerifierInput
  stage,        \* where verify stands
  verifyError,  \* the VerifierError variant it returned, or "none"
  journal       \* a set with the VerifierJournal, empty until there is one

verifierVars == <<report, stage, verifyError, journal>>
vars == <<chainVars, verifierVars>>

Stages == {"cose", "document", "content", "chain", "journal", "refused"}

VerifierErrors ==
  ChainErrors \cup {"Cbor", "CoseFormat", "AttestationFormat", "ContentValidation"}

Doc == report.payload.doc

-----------------------------------------------------------------------------
Advance(next) ==
  /\ stage' = next
  /\ UNCHANGED <<chainVars, report, verifyError, journal>>

Refuse(err) ==
  /\ stage' = "refused"
  /\ verifyError' = err
  /\ UNCHANGED <<chainVars, report, journal>>

\* CoseSign1::from_bytes: CBOR, an array or one in tag 18, of four elements,
\* three of them byte strings.  The unprotected header is not read.
EnvelopeError ==
  CASE report.envelope = "sound" -> "none"
    [] report.envelope = "not_cbor" -> "Cbor"
    [] OTHER -> "CoseFormat"  \* not an array, wrong arity, not byte strings

ParseEnvelope ==
  /\ stage = "cose"
  /\ EnvelopeError = "none"
  /\ Advance("document")

EnvelopeFails ==
  /\ stage = "cose"
  /\ EnvelopeError # "none"
  /\ Refuse(EnvelopeError)

ParseDocument ==
  /\ stage = "document"
  /\ report.payload.decodes
  /\ Advance("content")

DocumentFails ==
  /\ stage = "document"
  /\ ~report.payload.decodes
  /\ Refuse("AttestationFormat")

-----------------------------------------------------------------------------
\* Mutant of PcrsOK: a single zero register is taken for debug mode, and
\* several of them are not.
PcrsCounted(pcrs) ==
  /\ DOMAIN pcrs # {} /\ \A index \in DOMAIN pcrs : index <= 31
  /\ DOMAIN pcrs = {0} => pcrs[0] # "zero"

\* At most 32 registers follows from 32 different indices.
PcrsOK(pcrs) ==
  /\ DOMAIN pcrs # {} /\ \A index \in DOMAIN pcrs : index <= 31
  /\ ~\A index \in DOMAIN pcrs : pcrs[index] = "zero"

\* Mutant of PublicKeyOK: present and empty is let through.
PublicKeyUpTo(doc) == \A len \in doc.publicKey : len <= 1024

PublicKeyOK(doc) == \A len \in doc.publicKey : len > 0 /\ len <= 1024

ContentOK(doc) ==
  /\ doc.moduleId # ""
  /\ doc.timestamp # 0
  /\ doc.digest = "SHA384"
  /\ doc.cabundle # <<>>
  /\ PcrsOK(doc.pcrs)
  /\ PublicKeyOK(doc)
  /\ \A len \in doc.userData \cup doc.nonce : len <= 512

ContentFails ==
  /\ stage = "content"
  /\ ~ContentOK(Doc)
  /\ Refuse("ContentValidation")

\* cert_chain_der: the CA bundle, then the enclave's own certificate.
CertChainDer(doc) == Append(doc.cabundle, doc.certificate)

\* The content is valid: verify hands the chain to CertChain, to be judged
\* at the time the (not yet authenticated) document states.
ValidateContent ==
  /\ stage = "content"
  /\ ContentOK(Doc)
  /\ stage' = "chain"
  /\ ders' = CertChainDer(Doc)
  /\ timestamp' = Doc.timestamp
  /\ UNCHANGED <<prefix, phase, digests, expiries, error>>
  /\ UNCHANGED <<report, verifyError, journal>>

-----------------------------------------------------------------------------
\* from_der and verify_chain, loop by loop.
VerifyChain ==
  /\ stage = "chain"
  /\ ChainNext
  /\ UNCHANGED verifierVars

ChainFails ==
  /\ stage = "chain"
  /\ phase = "rejected"
  /\ Refuse(error)

\* The bytes the COSE signature is over; external_aad is empty and the
\* context string is the same for all.
SigStructure(rep) == <<rep.protected, rep.payload>>

\* Mutant of CoseSignatureOK: the signature of any real key will do.
CoseSignatureByAnyKey ==
  /\ LeafPublicKey \in Keys
  /\ report.signature.key \in Keys
  /\ report.signature.over = SigStructure(report)

\* verify_cose_signature, under the key of the last certificate.
CoseSignatureOK ==
  /\ LeafPublicKey \in Keys
  /\ report.signature.key = LeafPublicKey
  /\ report.signature.over = SigStructure(report)

CoseSignatureFails ==
  /\ stage = "chain"
  /\ phase = "accepted"
  /\ ~CoseSignatureOK
  /\ Refuse("SignatureVerification")

\* An absent field and an empty one read the same in the journal.
OptionalBytes(opt) == IF opt = {} THEN 0 ELSE CHOOSE len \in opt : TRUE

JournalOf(doc) ==
  [result |-> "Success",
   trusted |-> prefix, timestamp |-> doc.timestamp,
   certs |-> digests, certExpiries |-> expiries,
   userData |-> OptionalBytes(doc.userData),
   nonce |-> OptionalBytes(doc.nonce),
   publicKey |-> OptionalBytes(doc.publicKey),
   pcrs |-> doc.pcrs, moduleId |-> doc.moduleId]

\* Mutant of BuildJournal: the chain's verdict is taken for the signature's.
BuildJournalUnsigned ==
  /\ stage = "chain"
  /\ phase = "accepted"
  /\ stage' = "journal"
  /\ journal' = {JournalOf(Doc)}
  /\ UNCHANGED <<chainVars, report, verifyError>>

BuildJournal ==
  /\ stage = "chain"
  /\ phase = "accepted"
  /\ CoseSignatureOK
  /\ stage' = "journal"
  /\ journal' = {JournalOf(Doc)}
  /\ UNCHANGED <<chainVars, report, verifyError>>

-----------------------------------------------------------------------------
\* A call on any report; the chain is empty until the document is read.
Init ==
  /\ report \in Reports
  /\ prefix \in Prefixes
  /\ stage = "cose" /\ verifyError = "none" /\ journal = {}
  /\ ders = <<>> /\ timestamp = 0
  /\ ChainStart

Next ==
  \/ ParseEnvelope \/ EnvelopeFails
  \/ ParseDocument \/ DocumentFails
  \/ ValidateContent \/ ContentFails
  \/ VerifyChain \/ ChainFails
  \/ BuildJournal \/ CoseSignatureFails

Spec == Init /\ [][Next]_vars

-----------------------------------------------------------------------------
(* Properties.                                                             *)

VerifierTypeOK ==
  /\ report \in Reports
  /\ stage \in Stages
  /\ verifyError \in VerifierErrors
  /\ verifyError # "none" <=> stage = "refused"
  /\ journal # {} <=> stage = "journal"

\* What each stage of verify relies on from the stages before it: the chain
\* that is judged is that of the document, at the document's time, and
\* nothing is judged before the content is found valid.
StageInv ==
  /\ stage \in {"cose", "document", "content"} => ders = <<>> /\ ChainStart
  /\ stage \in {"document", "content", "chain", "journal"} => report.envelope = "sound"
  /\ stage \in {"content", "chain", "journal"} => report.payload.decodes
  /\ stage \in {"chain", "journal"} =>
       /\ ContentOK(Doc)
       /\ ders = CertChainDer(Doc)
       /\ timestamp = Doc.timestamp
  /\ stage = "journal" =>
       /\ phase = "accepted"
       /\ CoseSignatureOK
       /\ journal = {JournalOf(Doc)}

\* The inductive invariant of verify.
VerifierInv == VerifierTypeOK /\ ChainInv /\ VerdictInv /\ StageInv

Gate ==
  INSTANCE AttestationGate WITH
    trusted <- prefix,
    verdict <- IF stage \in {"journal", "refused"} THEN stage ELSE "pending"

\* verify implements the gate: it yields a journal for exactly the reports
\* that attest, and the journal says what the signed document says and the
\* digests and expiries of the whole chain.
ImplementsGate == Gate!Spec

\* The contract reads an empty publicKey as "no key" (verify.rs, on
\* validate_attestation_content): a journal has one only if the enclave sent
\* none, and an absent field never looks like a present one.
NoKeyMeansAbsent ==
  \A j \in journal : j.publicKey = 0 <=> Doc.publicKey = {}

\* error.rs:28 says of SignatureVerification: "COSE signature verification
\* failed."; the chain's own failures are CertificateVerification's.
SignatureErrorIsCose ==
  verifyError = "SignatureVerification" => phase = "accepted"
=============================================================================
