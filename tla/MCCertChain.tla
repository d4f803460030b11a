---------------------------- MODULE MCCertChain -----------------------------
(***************************************************************************)
(* Finite instances of CertChain.                                          *)
(*                                                                         *)
(* The hash is a free constructor: the digest of a sequence is the         *)
(* sequence, so that two digests are equal only if what was hashed is.     *)
(***************************************************************************)
EXTENDS CertChain

CONSTANTS KeyRoot, KeyInter, KeyLeaf

MCKeys == {KeyRoot, KeyInter, KeyLeaf}
MCNames == {"root", "odd", "even", "leaf"}
MCSha256(parts) == parts

-----------------------------------------------------------------------------
Constraints(ca, pathLen) == [status |-> "present", ca |-> ca, pathLen |-> pathLen]
Usage(bits) == [status |-> "present", bits |-> bits]
NoConstraints == [status |-> "absent", ca |-> FALSE, pathLen |-> {}]

\* A certificate authority, valid from the second 1 to the second 2.
Authority(subject, key, issuer, signer, pathLen) ==
  [subject |-> subject, issuer |-> issuer, key |-> key, signedBy |-> signer,
   sigAlg |-> "ecdsaSha384", keyAlg |-> "ec", curve |-> "p384",
   bc |-> Constraints(TRUE, pathLen), ku |-> Usage({"keyCertSign"}),
   notBefore |-> 1, notAfter |-> 2]

Root(pathLen) == Authority("root", KeyRoot, "root", KeyRoot, pathLen)
Inter == Authority("odd", KeyInter, "root", KeyRoot, {})

Leaf(issuer, signer) ==
  [Authority("leaf", KeyLeaf, issuer, signer, {}) EXCEPT
     !.bc = NoConstraints, !.ku = Usage({"digitalSignature"})]

Der(c) == [cert |-> c, malformed |-> FALSE, trailing |-> FALSE]

-----------------------------------------------------------------------------
(* Every chain of up to three certificates that starts at an anchor or at  *)
(* a sound certificate: each one sound or with one fault, in any order.    *)

Anchors ==
  {Der(Root({})),
   [Der(Root({})) EXCEPT !.trailing = TRUE],
   Der([Root({}) EXCEPT !.notAfter = 1]),
   Der([Root({}) EXCEPT !.notAfter = -1])}

Intermediates ==
  {Der(Inter),
   [Der(Inter) EXCEPT !.malformed = TRUE],
   Der([Inter EXCEPT !.issuer = "odd"]),         \* self-issued below the root
   Der([Inter EXCEPT !.signedBy = NoKey]),
   Der([Inter EXCEPT !.key = NoKey]),
   Der([Inter EXCEPT !.notAfter = -1]),
   Der([Inter EXCEPT !.curve = "other"]),
   Der([Inter EXCEPT !.bc.ca = FALSE]),
   Der([Inter EXCEPT !.bc.status = "error"])}

Leaves ==
  {Der(Leaf("odd", KeyInter)),
   Der([Leaf("odd", KeyInter) EXCEPT !.bc = Constraints(TRUE, {})]),
   Der([Leaf("odd", KeyInter) EXCEPT !.ku.bits = {}]),
   Der([Leaf("odd", KeyInter) EXCEPT !.issuer = "root"])}

Blobs == Anchors \cup Intermediates \cup Leaves

Firsts == Anchors \cup {Der(Inter), Der(Leaf("odd", KeyInter))}

FaultChains ==
  {<<>>} \cup {<<b>> : b \in Blobs}
         \cup {<<a, b>> : a \in Firsts, b \in Blobs}
         \cup {<<a, b, c>> : a \in Firsts, b \in Blobs, c \in Blobs}

\* Just before and just after the seconds 1 and 2, and their first and last
\* milliseconds.
FaultTimestamps == {999, 1000, 2999, 3000}

-----------------------------------------------------------------------------
(* Chains of one to MaxLength certificates, sound but for the path lengths *)
(* of their authorities, and for basicConstraints that occur twice.        *)

MaxLength == 5

PathLens == {{}, {0}, {1}, {2}}

NameAt(k) == IF k = 1 THEN "root" ELSE IF k % 2 = 0 THEN "even" ELSE "odd"
KeyAt(k) == IF k = 1 THEN KeyRoot ELSE KeyInter

ChainWith(pathLens) ==
  LET n == Len(pathLens) + 1
      authority(k) == Authority(NameAt(k), KeyAt(k), NameAt(IF k = 1 THEN 1 ELSE k - 1),
                                KeyAt(IF k = 1 THEN 1 ELSE k - 1), pathLens[k])
  IN  [k \in 1 .. n |-> Der(IF k < n THEN authority(k) ELSE Leaf(NameAt(n - 1), KeyAt(n - 1)))]

SoundPaths == {ChainWith(p) : p \in UNION {[1 .. n -> PathLens] : n \in 1 .. (MaxLength - 1)}}

\* The same with one authority whose basicConstraints occur twice.
TwiceConstrainedPaths ==
  {[ChainWith([j \in 1 .. n |-> {}]) EXCEPT ![k].cert.bc.status = "error"] :
     <<n, k>> \in {p \in (1 .. 3) \X (1 .. 3) : p[2] <= p[1]}}

LengthChains == {<<Der(Root({0}))>>} \cup SoundPaths \cup TwiceConstrainedPaths
=============================================================================
