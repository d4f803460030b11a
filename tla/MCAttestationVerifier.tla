----------------------- MODULE MCAttestationVerifier ------------------------
(***************************************************************************)
(* Finite instances of AttestationVerifier: a sound report, and reports    *)
(* that differ from it in the fields of the document, in the certificates, *)
(* in the envelope or in the signature.                                    *)
(***************************************************************************)
EXTENDS AttestationVerifier

CONSTANTS KeyRoot, KeyInter, KeyLeaf

MCKeys == {KeyRoot, KeyInter, KeyLeaf}
MCNames == {"root", "inter", "leaf"}
MCSha256(parts) == parts

-----------------------------------------------------------------------------
Authority(subject, key, issuer, signer) ==
  [subject |-> subject, issuer |-> issuer, key |-> key, signedBy |-> signer,
   sigAlg |-> "ecdsaSha384", keyAlg |-> "ec", curve |-> "p384",
   bc |-> [status |-> "present", ca |-> TRUE, pathLen |-> {}],
   ku |-> [status |-> "present", bits |-> {"keyCertSign"}],
   notBefore |-> 1, notAfter |-> 2]

Root == Authority("root", KeyRoot, "root", KeyRoot)
Inter == Authority("inter", KeyInter, "root", KeyRoot)
Leaf == [Authority("leaf", KeyLeaf, "inter", KeyInter) EXCEPT
           !.bc = [status |-> "absent", ca |-> FALSE, pathLen |-> {}],
           !.ku.bits = {"digitalSignature"}]

Der(c) == [cert |-> c, malformed |-> FALSE, trailing |-> FALSE]

Bundles ==
  {<<>>, <<Der(Root)>>, <<Der(Root), Der(Inter)>>, <<Der(Root), Der(Root), Der(Inter)>>,
   <<[Der(Root) EXCEPT !.trailing = TRUE], Der(Inter)>>,
   <<Der(Root), Der([Inter EXCEPT !.signedBy = NoKey])>>,
   <<Der([Root EXCEPT !.signedBy = NoKey]), Der(Inter)>>}

Certificates ==
  {Der(Leaf), Der([Leaf EXCEPT !.issuer = "root", !.signedBy = KeyRoot]),
   Der([Leaf EXCEPT !.key = NoKey]), [Der(Leaf) EXCEPT !.malformed = TRUE]}

-----------------------------------------------------------------------------
SoundDoc ==
  [moduleId |-> "enclave", timestamp |-> 1500, digest |-> "SHA384",
   pcrs |-> [index \in {0, 31} |-> IF index = 0 THEN "zero" ELSE "measured"],
   certificate |-> Der(Leaf), cabundle |-> <<Der(Root), Der(Inter)>>,
   publicKey |-> {}, userData |-> {}, nonce |-> {512}]

PcrBanks ==
  {[index \in {} |-> "zero"], [index \in {0} |-> "zero"], [index \in {0} |-> "measured"],
   [index \in {32} |-> "measured"], [index \in 0 .. 31 |-> "zero"],
   [index \in {0, 31} |-> IF index = 0 THEN "zero" ELSE "measured"],
   [index \in 0 .. 32 |-> "measured"]}

\* Optional byte strings, absent, empty, and at and over their limits.
FieldDocs ==
  {[SoundDoc EXCEPT !.pcrs = p, !.publicKey = k, !.userData = u, !.nonce = n] :
     p \in PcrBanks, k \in {{}, {0}, {1}, {1024}, {1025}},
     u \in {{}, {0}, {513}}, n \in {{}, {512}}}

\* The start and the end of the certificates' period, and beyond it.
ChainDocs ==
  {[SoundDoc EXCEPT !.moduleId = m, !.timestamp = t, !.digest = d,
                    !.cabundle = b, !.certificate = c] :
     m \in {"", "enclave"}, t \in {0, 1000, 2999, 3000}, d \in {"SHA384", "SHA256"},
     b \in Bundles, c \in Certificates}

Sealed(doc, key) ==
  LET payload == [decodes |-> TRUE, doc |-> doc]
  IN  [envelope |-> "sound", protected |-> "es384", payload |-> payload,
       signature |-> [key |-> key, over |-> <<"es384", payload>>]]

SoundReport == Sealed(SoundDoc, KeyLeaf)

EnvelopeFaults ==
  {[SoundReport EXCEPT !.envelope = e] : e \in {"not_cbor", "not_array", "wrong_arity", "not_bytes"}}
    \cup {[SoundReport EXCEPT !.payload.decodes = FALSE]}

\* The payload or the header replaced under a signature made for others.
Spliced ==
  {[SoundReport EXCEPT !.protected = "other"],
   [SoundReport EXCEPT !.payload.doc.userData = {1}],
   [SoundReport EXCEPT !.payload.doc.nonce = {}]}

MCReports ==
  {Sealed(d, k) : d \in FieldDocs \cup ChainDocs, k \in {KeyLeaf, KeyInter, NoKey}}
    \cup EnvelopeFaults \cup Spliced

MCChains == {Append(b, c) : b \in Bundles, c \in Certificates}
=============================================================================
