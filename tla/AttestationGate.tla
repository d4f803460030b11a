--------------------------- MODULE AttestationGate --------------------------
(***************************************************************************)
(* What AttestationVerifier::verify promises: one step decides, a journal  *)
(* is produced for exactly the reports whose document is well formed,      *)
(* carries a certificate chain valid at the document's own time, and is    *)
(* signed, with the protected header, by the key of that chain's leaf.     *)
(* AttestationVerifier implements this specification.                      *)
(***************************************************************************)
EXTENDS X509

CONSTANT Sha256(_)

VARIABLES
  report,   \* the attestation report handed in
  trusted,  \* how many of its certificates the caller already trusts
  verdict,  \* "pending", then "journal" or "refused" for ever
  journal   \* a set: the journal once there is one

gateVars == <<report, trusted, verdict, journal>>

ChainRules ==
  INSTANCE ChainPolicy WITH ders <- <<>>, prefix <- trusted, timestamp <- 0, output <- <<>>

-----------------------------------------------------------------------------
Path(doc) == Append(doc.cabundle, doc.certificate)

\* What an enclave that is not in debug mode reports, in NitroValidator's
\* limits.
IsProductionDocument(doc) ==
  /\ doc.moduleId # ""
  /\ doc.timestamp > 0
  /\ doc.digest = "SHA384"
  /\ doc.cabundle # <<>>
  /\ DOMAIN doc.pcrs \subseteq 0 .. 31
  /\ \E index \in DOMAIN doc.pcrs : doc.pcrs[index] # "zero"
  /\ doc.publicKey \subseteq 1 .. 1024
  /\ doc.userData \subseteq 0 .. 512
  /\ doc.nonce \subseteq 0 .. 512

SignedBy(key, rep) ==
  /\ key \in Keys
  /\ rep.signature.key = key
  /\ rep.signature.over = <<rep.protected, rep.payload>>

Attested(rep, p) ==
  /\ rep.envelope = "sound"
  /\ rep.payload.decodes
  /\ LET doc  == rep.payload.doc
         path == Path(doc)
     IN  /\ IsProductionDocument(doc)
         /\ ChainRules!Canonical(path)
         /\ ChainRules!ValidChain(ChainRules!CertsOf(path), p, doc.timestamp)
         /\ SignedBy(doc.certificate.cert.key, rep)

\* The journal repeats the document, and adds what the chain yields.
SpeaksFor(j, rep, p) ==
  LET doc == rep.payload.doc
  IN  /\ j.result = "Success"
      /\ j.trusted = p
      /\ j.timestamp = doc.timestamp
      /\ j.moduleId = doc.moduleId
      /\ j.pcrs = doc.pcrs
      /\ \A field \in {"publicKey", "userData", "nonce"} :
           j[field] = IF doc[field] = {} THEN 0 ELSE CHOOSE n \in doc[field] : TRUE
      /\ ChainRules!IsPathDigests(j.certs, Path(doc))
      /\ ChainRules!IsExpiries(j.certExpiries, ChainRules!CertsOf(Path(doc)))

-----------------------------------------------------------------------------
Init == verdict = "pending" /\ journal = {}

Grant ==
  /\ verdict = "pending"
  /\ Attested(report, trusted)
  /\ verdict' = "journal"
  /\ \E j \in journal' : journal' = {j} /\ SpeaksFor(j, report, trusted)
  /\ UNCHANGED <<report, trusted>>

Refuse ==
  /\ verdict = "pending"
  /\ ~Attested(report, trusted)
  /\ verdict' = "refused"
  /\ UNCHANGED <<report, trusted, journal>>

Next == Grant \/ Refuse

Spec == Init /\ [][Next]_gateVars
=============================================================================
