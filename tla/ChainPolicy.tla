---------------------------- MODULE ChainPolicy -----------------------------
(***************************************************************************)
(* What x509.rs promises of a certificate chain, with no loop, no order of *)
(* checks and no cursor: one step decides, and it accepts exactly the      *)
(* chains that are valid beyond the trusted prefix.  CertChain implements  *)
(* this specification.                                                     *)
(***************************************************************************)
EXTENDS X509

CONSTANT Sha256(_)  \* the hash of a sequence of byte strings, put end to end

VARIABLES
  ders,       \* the chain, root first and leaf last
  prefix,     \* how many certificates the caller already trusts
  timestamp,  \* milliseconds since the epoch
  verdict,    \* "pending", then "accepted" or "rejected" for ever
  output      \* what an accepted chain yields: path digests and expiries

policyVars == <<ders, prefix, timestamp, verdict, output>>

NoOutput == [digests |-> <<>>, expiries |-> <<>>]

-----------------------------------------------------------------------------
\* A certificate may act as a certificate authority, or as the enclave's leaf.
MayCertify(c) == c.bc.ca /\ "keyCertSign" \in c.ku.bits
                 /\ c.bc.status = "present" /\ c.ku.status = "present"

MayAttest(c) == /\ c.bc.status = "absent" \/ (c.bc.status = "present" /\ ~c.bc.ca)
                /\ \/ c.ku.status = "absent"
                   \/ c.ku.status = "present" /\ "digitalSignature" \in c.ku.bits

\* The period covers every millisecond of its first and of its last second.
ValidAt(c, t) == 1000 * c.notBefore <= t /\ t < 1000 * (c.notAfter + 1)

\* Every intermediate m below the authority j is within j's path length.
PathLengthKept(chain, j) ==
  \A max \in chain[j].bc.pathLen :
    \A m \in (j + 1) .. (Len(chain) - 1) : m - j <= max

\* Certificate k is vouched for by its parent (the root by itself), and its
\* parent's path length constraint leaves room for it.
Vouched(chain, k) ==
  LET parent == IF k = 1 THEN chain[1] ELSE chain[k - 1]
  IN  /\ parent.key \in Keys /\ chain[k].signedBy = parent.key
      /\ k > 1 => /\ chain[k].issuer = parent.subject
                  /\ parent.bc.status # "error"
                  /\ parent.bc.status = "present" => PathLengthKept(chain, k - 1)

ValidChain(chain, trusted, t) ==
  /\ trusted <= Len(chain)
  /\ \A k \in 1 .. Len(chain) : chain[k].notAfter >= 0
  /\ \A k \in 2 .. Len(chain) : chain[k].issuer # chain[k].subject
  /\ \A k \in (trusted + 1) .. Len(chain) :
       /\ UsesP384(chain[k])
       /\ IF k = Len(chain) /\ k > 1 THEN MayAttest(chain[k]) ELSE MayCertify(chain[k])
       /\ ValidAt(chain[k], t)
       /\ Vouched(chain, k)

\* One digest per certificate, each over the digest before it.
IsPathDigests(digests, path) ==
  /\ Len(digests) = Len(path)
  /\ \A k \in 1 .. Len(path) :
       digests[k] = IF k = 1 THEN Sha256(<<path[1]>>)
                    ELSE Sha256(<<digests[k - 1], Sha256(<<path[k]>>)>>)

IsExpiries(expiries, chain) ==
  /\ Len(expiries) = Len(chain)
  /\ \A k \in 1 .. Len(chain) : expiries[k] = chain[k].notAfter

-----------------------------------------------------------------------------
\* The certificates the bytes hold, and whether they hold nothing else.
CertsOf(path) == [k \in 1 .. Len(path) |-> path[k].cert]

Canonical(path) ==
  path # <<>> /\ \A k \in 1 .. Len(path) : ~path[k].malformed /\ ~path[k].trailing

Acceptable ==
  Canonical(ders) /\ ValidChain(CertsOf(ders), prefix, timestamp)

Init ==
  verdict = "pending" /\ output = NoOutput

Accept ==
  /\ verdict = "pending"
  /\ Acceptable
  /\ verdict' = "accepted"
  /\ IsPathDigests(output'.digests, ders)
  /\ IsExpiries(output'.expiries, CertsOf(ders))
  /\ UNCHANGED <<ders, prefix, timestamp>>

Reject ==
  /\ verdict = "pending"
  /\ ~Acceptable
  /\ verdict' = "rejected"
  /\ UNCHANGED <<ders, prefix, timestamp, output>>

Next == Accept \/ Reject

Spec == Init /\ [][Next]_policyVars
=============================================================================
