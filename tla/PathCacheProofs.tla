-------------------------- MODULE PathCacheProofs ---------------------------
(***************************************************************************)
(* Proofs about PathCache, for every set of chains, of any length and in   *)
(* any number of calls, that the hash tells apart: what the cache holds is *)
(* what the consumer's root vouches for.                                   *)
(***************************************************************************)
EXTENDS PathCache, PathDigestProofs

-----------------------------------------------------------------------------
(* The call.                                                               *)

\* A step of verify_chain leaves its arguments alone, and is not taken
\* between two calls nor after the call has returned.
LEMMA CallGoesOn ==
  ASSUME ChainNext
  PROVE  /\ phase \notin {"none", "accepted", "rejected"} /\ phase' # "none"
         /\ ders' = ders /\ prefix' = prefix /\ timestamp' = timestamp
  BY DEF ChainNext, FromDer, FromDerFails, CheckPrefixLen, PrefixTooLong,
         PushDigest, DigestsDone, WalkCertificate, CertificateFails, SignatureFails,
         WalkDone, ChainReturns

\* Every step keeps the call's own invariant, or forgets the call.
LEMMA NextPreservesCallInv ==
  ASSUME CallInv, [Next]_vars
  PROVE  CallInv'
<1>1. CASE Call
  <2>1. ChainInit'
    BY <1>1 DEF Call, CallInv, ChainInit, ChainStart
  <2>2. ChainInv'
    BY <2>1, InitEstablishesChainInv, PTL
  <2> QED
    BY <1>1, <2>2 DEF Call, CallInv
<1>2. CASE VerifyStep
  <2>1. phase # "none" /\ phase' # "none" /\ ders' = ders
    BY <1>2, CallGoesOn DEF VerifyStep
  <2>2. ChainInv'
    BY <1>2, <2>1, NextPreservesChainInv DEF VerifyStep, CallInv
  <2> QED
    BY <2>1, <2>2 DEF CallInv
<1>3. CASE Forget
  BY <1>3 DEF Forget, CallInv
<1>4. CASE UNCHANGED chainVars
  <2>1. phase # "none" => ChainInv'
    BY <1>4, NextPreservesChainInv DEF CallInv
  <2> QED
    BY <1>4, <2>1 DEF CallInv, chainVars
<1> QED
  BY <1>1, <1>2, <1>3, <1>4 DEF Next, vars, Tick, Accept, Refuse

-----------------------------------------------------------------------------
(* What an accepted call and the cache say together.                       *)

\* The root's digest is that of no other certificate.
LEMMA RootDigestIsRoot ==
  ASSUME NEW chain \in Chains, Len(chain) \in Nat \ {0},
         PathDigests(chain)[1] = Sha256(<<RootDer>>)
  PROVE  chain[1] = RootDer
<1> DEFINE alone == <<RootDer>>
           paths == Chains \cup {alone}
<1>1. Len(alone) = 1 /\ alone[1] = RootDer /\ 1 \in 1 .. Len(chain)
  OBVIOUS
<1>2. PathDigests(alone)[1] = Sha256(<<RootDer>>)
  <2>1. ArePathDigests(PathDigests(alone), alone, 1)
    BY <1>1, PathDigestsOfPath
  <2> QED
    BY <1>1, <2>1 DEF ArePathDigests
<1>3. CollisionFree(paths) /\ chain \in paths /\ alone \in paths
  BY RootAssumption
<1> HIDE DEF alone, paths
<1>4. PathDigests(chain)[1] = PathDigests(alone)[1]
  BY <1>2
<1>5. \A k \in 1 .. 1 : chain[k] = alone[k]
  BY <1>1, <1>3, <1>4, SameDigestSamePath
<1> QED
  BY <1>1, <1>5

\* Two paths that are the same up to certificate n are rooted alike there.
LEMMA RootedAlike ==
  ASSUME NEW n \in Nat \ {0}, NEW path, NEW other,
         \A k \in 1 .. n : path[k] = other[k]
  PROVE  RootedPath(path, n, n) <=> RootedPath(other, n, n)
<1>1. path[1] = other[1]
  OBVIOUS
<1>2. \A k \in 2 .. n : path[k] = other[k] /\ path[k - 1] = other[k - 1]
  OBVIOUS
<1> QED
  BY <1>1, <1>2 DEF RootedPath

\* A digest in the cache vouches for every path that has it, and the entry's
\* expiry is that of the path's last certificate.
LEMMA VouchedIsRooted ==
  ASSUME NEW entry \in Vouched, NEW chain \in Chains, NEW j \in 1 .. Len(chain),
         PathDigests(chain)[j] = entry.digest
  PROVE  RootedPath(chain, j, j) /\ chain[j].cert.notAfter = entry.expiry
<1>1. PICK path \in Chains : \E i \in 2 .. Len(path) :
        /\ RootedPath(path, i, i)
        /\ entry.digest = PathDigests(path)[i] /\ entry.expiry = path[i].cert.notAfter
  BY DEF Vouched
<1>2. PICK i \in 2 .. Len(path) :
        /\ RootedPath(path, i, i)
        /\ entry.digest = PathDigests(path)[i] /\ entry.expiry = path[i].cert.notAfter
  BY <1>1
<1>3. Len(path) \in Nat /\ Len(chain) \in Nat
  BY ChainsAssumption
<1>4. i = j /\ \A k \in 1 .. j : chain[k] = path[k]
  BY <1>2, <1>3, SameDigestSamePath, HashAssumption
<1> QED
  BY <1>2, <1>3, <1>4, RootedAlike

\* What the walk has checked itself, below the trusted prefix.
LEMMA WalkedIsVouched ==
  ASSUME ChainInv, phase = "accepted", NEW k \in 2 .. ChainLen, k > prefix
  PROVE  /\ Cert(k).signedBy = Cert(k - 1).key /\ Cert(k - 1).key \in Keys
         /\ Cert(k).issuer = Cert(k - 1).subject
         /\ k < ChainLen => Policy!MayCertify(Cert(k))
         /\ Policy!ValidAt(Cert(k), timestamp)
<1>1. k \in 1 .. ChainLen /\ k # 1 /\ ChainLen \in Nat /\ prefix \in Nat
  BY DEF ChainInv, TypeOK, ChainLen
<1>2. CertificateOK(k) /\ SignatureOK(k)
  BY <1>1 DEF ChainInv, PhaseInv, WalkInv
<1>3. /\ IF k = ChainLen /\ k > 1 THEN Policy!MayAttest(Cert(k)) ELSE Policy!MayCertify(Cert(k))
      /\ Policy!ValidAt(Cert(k), timestamp)
      /\ Policy!Vouched(CertsOf(ders), k)
  BY <1>1, <1>2, ChecksAreClauses DEF ChainInv
<1>4. CertsOf(ders)[k] = Cert(k) /\ CertsOf(ders)[k - 1] = Cert(k - 1)
  BY <1>1 DEF CertsOf, Cert, ChainLen
<1> QED
  BY <1>1, <1>3, <1>4 DEF Policy!Vouched

\* What this call has skipped, earlier ones have checked: the consumer's
\* answer is about a chain that is rooted from end to end.
LEMMA AcceptedChainIsRooted ==
  ASSUME ChainInv, ders \in Chains, phase = "accepted", cache \subseteq Vouched,
         RootTrusted, PrefixTrusted
  PROVE  /\ RootedPath(ders, ChainLen, ChainLen - 1)
         /\ \A k \in 2 .. prefix : now \div 1000 <= Cert(k).notAfter
<1>1. ChainLen \in Nat \ {0} /\ ChainLen = Len(ders) /\ prefix \in Nat /\ prefix <= ChainLen
  BY DEF ChainInv, TypeOK, PhaseInv, Parses, ChainLen
<1>2. \A k \in 1 .. ChainLen : digests[k] = PathDigests(ders)[k]
  BY PushedArePathDigests DEF ChainInv, PhaseInv
<1>3. ders[1] = RootDer
  <2>1. 1 \in 1 .. ChainLen
    BY <1>1
  <2> QED
    BY <2>1, <1>1, <1>2, RootDigestIsRoot DEF RootTrusted
<1>4. ASSUME NEW k \in 2 .. prefix
      PROVE  RootedPath(ders, k, k) /\ now \div 1000 <= Cert(k).notAfter
  <2>1. PICK entry \in cache : entry.digest = digests[k] /\ now \div 1000 <= entry.expiry
    BY DEF PrefixTrusted, Trusted
  <2>2. k \in 1 .. Len(ders) /\ PathDigests(ders)[k] = entry.digest /\ entry \in Vouched
    BY <1>1, <1>2, <2>1
  <2>3. RootedPath(ders, k, k) /\ ders[k].cert.notAfter = entry.expiry
    BY <2>2, VouchedIsRooted
  <2> QED
    BY <2>1, <2>3 DEF Cert
<1>5. ASSUME NEW k \in 2 .. ChainLen
      PROVE  /\ Cert(k).signedBy = Cert(k - 1).key /\ Cert(k - 1).key \in Keys
             /\ Cert(k).issuer = Cert(k - 1).subject
             /\ k < ChainLen => Policy!MayCertify(Cert(k))
  <2>1. CASE k > prefix
    BY <2>1, WalkedIsVouched
  <2>2. CASE k <= prefix
    <3>1. k \in 2 .. prefix /\ k \in 2 .. k
      BY <2>2, <1>1
    <3>2. RootedPath(ders, k, k)
      BY <3>1, <1>4
    <3> QED
      BY <3>1, <3>2 DEF RootedPath, Cert
  <2> QED
    BY <2>1, <2>2, <1>1
<1>6. \A k \in 2 .. (ChainLen - 1) : k \in 2 .. ChainLen /\ k < ChainLen
  BY <1>1
<1> QED
  BY <1>3, <1>4, <1>5, <1>6 DEF RootedPath, Cert

\* What an accepted call adds to the cache, the root vouches for.
LEMMA NewlyTrustedIsVouched ==
  ASSUME ChainInv, ders \in Chains, phase = "accepted", cache \subseteq Vouched,
         RootTrusted, PrefixTrusted
  PROVE  NewlyTrusted \subseteq Vouched
<1> SUFFICES ASSUME NEW k \in 2 .. (ChainLen - 1)
             PROVE  [digest |-> digests[k], expiry |-> expiries[k]] \in Vouched
  BY DEF NewlyTrusted
<1>1. ChainLen \in Nat /\ k \in 1 .. ChainLen /\ k \in 2 .. Len(ders)
  BY DEF ChainInv, TypeOK, ChainLen
<1>2. digests[k] = PathDigests(ders)[k]
  BY <1>1, PushedArePathDigests DEF ChainInv, PhaseInv
<1>3. expiries[k] = ders[k].cert.notAfter
  BY <1>1 DEF ChainInv, PhaseInv, WalkInv, Cert
<1>4. RootedPath(ders, k, k)
  <2>1. RootedPath(ders, ChainLen, ChainLen - 1)
    BY AcceptedChainIsRooted
  <2>2. \A m \in 2 .. k : m \in 2 .. ChainLen /\ m \in 2 .. (ChainLen - 1)
    BY <1>1
  <2> QED
    BY <2>1, <2>2 DEF RootedPath
<1> QED
  BY <1>1, <1>2, <1>3, <1>4 DEF Vouched

-----------------------------------------------------------------------------
(* The inductive invariant.                                                *)

\* What the consumer takes is fresh: what the call has skipped has not
\* expired now, what it has checked had not when the document was made.
LEMMA AcceptedChainIsFresh ==
  ASSUME ChainInv, ders \in Chains, phase = "accepted", cache \subseteq Vouched, now \in Nat,
         RootTrusted, PrefixTrusted, TimestampInRange, NEW k \in 2 .. ChainLen
  PROVE  (IF k <= prefix THEN now ELSE now - MaxAge) < 1000 * (Cert(k).notAfter + 1)
<1>1. /\ k \in Nat /\ prefix \in Nat /\ timestamp \in Nat /\ MaxAge \in Nat
      /\ Cert(k).notAfter \in Int
  <2>1. ders[k] \in DerBytes
    BY DEF ChainInv, TypeOK, ChainLen
  <2> QED
    BY <2>1, CacheAssumption DEF ChainInv, TypeOK, ChainLen, Cert, DerBytes, Certificate
<1>2. ASSUME NEW a \in Int, NEW t \in Nat, t \div 1000 <= a
      PROVE  t < 1000 * (a + 1)
  BY <1>2
<1>3. CASE k <= prefix
  <2>1. now \div 1000 <= Cert(k).notAfter
    BY <1>1, <1>3, AcceptedChainIsRooted
  <2> QED
    BY <1>1, <1>2, <1>3, <2>1
<1>4. CASE k > prefix
  <2>1. timestamp < 1000 * (Cert(k).notAfter + 1)
    BY <1>4, WalkedIsVouched DEF Policy!ValidAt
  <2> QED
    BY <1>1, <1>4, <2>1 DEF TimestampInRange
<1> QED
  BY <1>1, <1>3, <1>4

\* Accept keeps the cache, and what the consumer has taken, sound.
LEMMA AcceptPreservesPathCacheInv ==
  ASSUME PathCacheInv, Accept
  PROVE  PathCacheInv'
<1>1. /\ ChainInv /\ ders \in Chains /\ phase = "accepted" /\ cache \subseteq Vouched
      /\ now \in Nat /\ RootTrusted /\ PrefixTrusted /\ TimestampInRange
  BY DEF PathCacheInv, CallInv, Accept
<1>2. UNCHANGED <<ders, prefix, timestamp, phase, now>>
  BY DEF Accept, chainVars
<1>3. CallInv'
  BY NextPreservesCallInv DEF PathCacheInv, Next
<1>4. cache' \subseteq Vouched
  BY <1>1, NewlyTrustedIsVouched DEF Accept
<1>5. AcceptedIsRooted'
  BY <1>1, <1>2, AcceptedChainIsRooted DEF AcceptedIsRooted, ChainLen
<1>6. AcceptedIsFresh'
  <2>1. \A k \in 2 .. ChainLen :
          (IF k <= prefix THEN now ELSE now - MaxAge) < 1000 * (Cert(k).notAfter + 1)
    BY <1>1, AcceptedChainIsFresh
  <2> QED
    BY <1>2, <2>1 DEF AcceptedIsFresh, ChainLen, Cert
<1> QED
  BY <1>1, <1>2, <1>3, <1>4, <1>5, <1>6 DEF PathCacheInv

\* The other steps add nothing to the cache, and no step is taken by the call
\* while its journal stands accepted.
LEMMA NextPreservesPathCacheInv == PathCacheInv /\ [Next]_vars => PathCacheInv'
<1> SUFFICES ASSUME PathCacheInv, [Next]_vars
             PROVE  PathCacheInv'
  OBVIOUS
<1>1. CallInv'
  BY NextPreservesCallInv DEF PathCacheInv
<1>2. CASE Accept
  BY <1>2, AcceptPreservesPathCacheInv
<1>3. CASE Call \/ VerifyStep
  <2>1. answer = "none" /\ answer' = "none" /\ now' = now /\ cache' = cache
    BY <1>3, CallGoesOn DEF Call, VerifyStep, cacheVars, PathCacheInv
  <2> QED
    BY <1>1, <2>1 DEF PathCacheInv, AcceptedIsRooted, AcceptedIsFresh
<1>4. CASE Forget \/ Tick
  <2>1. answer' = "none" /\ now' \in Nat /\ cache' = cache
    BY <1>4 DEF Forget, Tick, PathCacheInv
  <2> QED
    BY <1>1, <2>1 DEF PathCacheInv, AcceptedIsRooted, AcceptedIsFresh
<1>5. CASE Refuse
  <2>1. answer' # "Success" /\ phase' = "accepted" /\ now' = now /\ cache' = cache
    BY <1>5 DEF Refuse, chainVars
  <2> QED
    BY <1>1, <2>1 DEF PathCacheInv, AcceptedIsRooted, AcceptedIsFresh
<1>6. CASE UNCHANGED vars
  <2>1. UNCHANGED <<ders, prefix, timestamp, phase, now, cache, answer>>
    BY <1>6 DEF vars, chainVars, cacheVars
  <2>2. AcceptedIsRooted' /\ AcceptedIsFresh'
    BY <2>1 DEF PathCacheInv, AcceptedIsRooted, AcceptedIsFresh, ChainLen, Cert
  <2> QED
    BY <1>1, <2>1, <2>2 DEF PathCacheInv
<1> QED
  BY <1>2, <1>3, <1>4, <1>5, <1>6 DEF Next

\* Whatever calls are made, with whatever chains and prefixes, and whatever
\* becomes of their journals, the cache holds nothing but digests of
\* authorities that the consumer's root vouches for.
THEOREM PathCacheInvariance == Spec => []PathCacheInv
<1>1. Init => PathCacheInv
  BY DEF Init, PathCacheInv, CallInv, AcceptedIsRooted, AcceptedIsFresh
<1> QED
  BY <1>1, NextPreservesPathCacheInv, PTL DEF Spec

\* A journal the consumer takes is about a chain that leads from its root to
\* the leaf, whatever part of it verify_chain was told to skip.
THEOREM AcceptedPathsAreRooted == Spec => []AcceptedIsRooted
<1>1. PathCacheInv => AcceptedIsRooted
  BY DEF PathCacheInv
<1> QED
  BY <1>1, PathCacheInvariance, PTL

\* No certificate below the root of such a chain had expired: the skipped
\* ones when the journal is taken, the others when the document was made.
THEOREM AcceptedPathsAreFresh == Spec => []AcceptedIsFresh
<1>1. PathCacheInv => AcceptedIsFresh
  BY DEF PathCacheInv
<1> QED
  BY <1>1, PathCacheInvariance, PTL

\* A digest the consumer begins to trust vouches for every path that has it:
\* each leads from the root to an authority that expires when the entry does.
THEOREM CacheIsSound == Spec => CacheSound
<1>1. PathCacheInv' =>
        [\A entry \in cache' \ cache, chain \in Chains :
           \A j \in 1 .. Len(chain) :
             PathDigests(chain)[j] = entry.digest =>
               RootedPath(chain, j, j) /\ chain[j].cert.notAfter = entry.expiry]_vars
  BY VouchedIsRooted DEF PathCacheInv
<1> QED
  BY <1>1, PathCacheInvariance, PTL DEF CacheSound
=============================================================================
