----------------------------- MODULE PathCache ------------------------------
(***************************************************************************)
(* What the journal's path digests, expiries and trusted prefix length are *)
(* for: a consumer (the contract behind INitroEnclaveVerifier, not in the  *)
(* repository) caches the digests of authorities it has seen verified, and *)
(* a later call may leave the verification of such a prefix out.  Any      *)
(* number of calls of verify_chain, one after the other, with any chain    *)
(* and prefix; each accepted one gives a journal, which may reach the      *)
(* consumer late, more than once, or never.                                *)
(*                                                                         *)
(* The consumer is known from what src/ says of it: the digests match its  *)
(* own for intermediate certificate caching (x509.rs), prefix certificates *)
(* are already trusted there, expiries are for its expiry tracking, and    *)
(* VerificationResult names its reasons to refuse.                         *)
(***************************************************************************)
EXTENDS CertChain

CONSTANTS
  RootDer,  \* the root certificate the consumer was set up with
  MaxAge,   \* how old an attestation may be, milliseconds
  MaxNow    \* bound: the consumer's clock stops there

ASSUME CacheAssumption == RootDer \in DerBytes /\ MaxAge \in Nat /\ MaxNow \in Nat
ASSUME RootAssumption  == CollisionFree(Chains \cup {<<RootDer>>})

VARIABLES
  now,    \* the consumer's clock, milliseconds
  cache,  \* the digests it trusts, each with its expiry
  answer  \* its VerificationResult for the journal at hand, or "none"

cacheVars == <<now, cache, answer>>
vars == <<chainVars, cacheVars>>

\* Between two calls there is no chain.
Init ==
  /\ ders = <<>> /\ prefix = 0 /\ timestamp = 0
  /\ phase = "none" /\ digests = <<>> /\ expiries = <<>> /\ error = "none"
  /\ now = 0 /\ cache = {} /\ answer = "none"

-----------------------------------------------------------------------------
Call ==
  /\ phase = "none"
  /\ ders' \in Chains /\ prefix' \in Prefixes /\ timestamp' \in Timestamps
  /\ phase' = "from_der"
  /\ UNCHANGED <<digests, expiries, error, cacheVars>>

VerifyStep == ChainNext /\ UNCHANGED cacheVars

\* No more is heard of the call, or of its journal.
Forget ==
  /\ phase \in {"accepted", "rejected"}
  /\ ders' = <<>> /\ prefix' = 0 /\ timestamp' = 0
  /\ phase' = "none" /\ digests' = <<>> /\ expiries' = <<>> /\ error' = "none"
  /\ answer' = "none"
  /\ UNCHANGED <<now, cache>>

Tick ==
  /\ now < MaxNow
  /\ now' = now + 1000
  /\ answer' = "none"
  /\ UNCHANGED <<chainVars, cache>>

Trusted(digest) ==
  \E entry \in cache : entry.digest = digest /\ now \div 1000 <= entry.expiry

RootTrusted == digests[1] = Sha256(<<RootDer>>)
PrefixTrusted == \A k \in 2 .. prefix : Trusted(digests[k])
TimestampInRange == timestamp <= now /\ now <= timestamp + MaxAge

\* The authorities the call itself verified; the leaf is not one.
NewlyTrusted ==
  {[digest |-> digests[k], expiry |-> expiries[k]] :
     k \in {n \in 2 .. (ChainLen - 1) : n > prefix}}

\* The consumer's VerificationResult for the journal of the accepted chain.
Accept ==
  /\ phase = "accepted"
  /\ RootTrusted /\ PrefixTrusted /\ TimestampInRange
  /\ answer' = "Success"
  /\ cache' = cache \cup NewlyTrusted
  /\ UNCHANGED <<chainVars, now>>

Refuse ==
  /\ phase = "accepted"
  /\ \/ ~RootTrusted /\ answer' = "RootCertNotTrusted"
     \/ RootTrusted /\ ~PrefixTrusted /\ answer' = "IntermediateCertsNotTrusted"
     \/ RootTrusted /\ PrefixTrusted /\ ~TimestampInRange /\ answer' = "InvalidTimestamp"
  /\ UNCHANGED <<chainVars, now, cache>>

Next == Call \/ VerifyStep \/ Forget \/ Tick \/ Accept \/ Refuse

Spec == Init /\ [][Next]_vars

-----------------------------------------------------------------------------
(* Properties.                                                             *)

\* Certificates 2 to n of the path were each issued and signed by the one
\* before, from the consumer's root down, and the first m may certify.
RootedPath(path, n, m) ==
  /\ path[1] = RootDer
  /\ \A k \in 2 .. n :
       /\ path[k].cert.signedBy = path[k - 1].cert.key /\ path[k - 1].cert.key \in Keys
       /\ path[k].cert.issuer = path[k - 1].cert.subject
  /\ \A k \in 2 .. m : Policy!MayCertify(path[k].cert)

\* A digest the consumer begins to trust stands for an authority that the
\* root vouches for, directly or through others, until that authority
\* expires, whoever shows the digest again: no leaf, no certificate that only
\* was in a skipped prefix, no other path to the same certificate.
CacheSound ==
  [][\A entry \in cache' \ cache, chain \in Chains :
       \A j \in 1 .. Len(chain) :
         PathDigests(chain)[j] = entry.digest =>
           RootedPath(chain, j, j) /\ chain[j].cert.notAfter = entry.expiry]_vars

\* A journal the consumer takes is about a chain that leads from its root to
\* the leaf, although this call may have verified none of it but the last
\* certificates: what it skipped was verified by earlier calls, in the same
\* order and under the same issuers.
AcceptedIsRooted ==
  answer = "Success" => RootedPath(ders, ChainLen, ChainLen - 1)

\* No authority of that chain has expired when its digest is trusted, and
\* nothing else in it had expired when the document was made, which is at
\* most MaxAge ago.
AcceptedIsFresh ==
  answer = "Success" =>
    \A k \in 2 .. ChainLen :
      (IF k <= prefix THEN now ELSE now - MaxAge) < 1000 * (Cert(k).notAfter + 1)

-----------------------------------------------------------------------------
\* The digests of the authorities the root vouches for, with their expiries.
Vouched ==
  UNION {{[digest |-> PathDigests(chain)[j], expiry |-> chain[j].cert.notAfter] :
            j \in {i \in 2 .. Len(chain) : RootedPath(chain, i, i)}} : chain \in Chains}

\* A call in progress is one of verify_chain, on a chain the caller may pass.
CallInv ==
  IF phase = "none" THEN digests = <<>> /\ expiries = <<>> /\ error = "none"
  ELSE ChainInv /\ ders \in Chains

\* The inductive invariant: no call, however much of its chain it skips and
\* whatever the calls before it were, gets anything into the cache but what
\* the root vouches for.
PathCacheInv ==
  /\ now \in Nat
  /\ CallInv
  /\ answer # "none" => phase = "accepted"
  /\ cache \subseteq Vouched
  /\ AcceptedIsRooted
  /\ AcceptedIsFresh
=============================================================================
