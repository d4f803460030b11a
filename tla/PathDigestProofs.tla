-------------------------- MODULE PathDigestProofs --------------------------
(***************************************************************************)
(* What compute_path_digests computes for a path of any length, and that a *)
(* path digest names one path.  Both are by induction on the length, with  *)
(* the property as a set of numbers: the library's induction theorems take *)
(* it as an operator, the existence of a least element of a set does not.  *)
(***************************************************************************)
EXTENDS CertChainProofs, WellFoundedInduction

-----------------------------------------------------------------------------
(* Induction.                                                              *)

\* A non-empty set of natural numbers has a least element.
LEMMA LeastNumber ==
  ASSUME NEW S, S \subseteq Nat, S # {}
  PROVE  \E n \in S : \A m \in S : n <= m
<1> DEFINE R == {pair \in Nat \X Nat : pair[1] < pair[2]}
<1>1. R = OpToRel(<, Nat)
  BY DEF OpToRel
<1>2. IsWellFoundedOn(R, Nat)
  BY <1>1, NatLessThanWellFounded
<1> HIDE DEF R
<1>3. PICK n \in S : \A m \in S : ~(<<m, n>> \in R)
  BY <1>2, WFMin
<1>4. ASSUME NEW m \in S
      PROVE  n <= m
  <2>1. ~(<<m, n>> \in R)
    BY <1>3
  <2> QED
    BY <2>1 DEF R
<1> QED
  BY <1>4

\* A set that has 1, and with every n its successor, has all of 1, 2, 3...
LEMMA Induction ==
  ASSUME NEW S, 1 \in S, \A n \in Nat \ {0} : n \in S => n + 1 \in S
  PROVE  \A n \in Nat \ {0} : n \in S
<1> SUFFICES ASSUME NEW k \in Nat \ {0}, k \notin S
             PROVE  FALSE
  OBVIOUS
<1>1. PICK n \in (Nat \ {0}) \ S : \A m \in (Nat \ {0}) \ S : n <= m
  BY LeastNumber
<1>2. n - 1 \in Nat \ {0} /\ n - 1 \in S
  BY <1>1
<1> QED
  BY <1>1, <1>2

-----------------------------------------------------------------------------
(* compute_path_digests.                                                   *)

\* d has the path digests of the first n certificates of path.
ArePathDigests(d, path, n) ==
  \A k \in 1 .. n :
    d[k] = IF k = 1 THEN Sha256(<<path[1]>>)
           ELSE Sha256(<<d[k - 1], Sha256(<<path[k]>>)>>)

\* One iteration of compute_path_digests.
Iteration(soFar, path, k) ==
  IF k = 1 THEN NextDigest(<<>>, path[1]) ELSE NextDigest(<<soFar[k - 1]>>, path[k])

\* The loop has a result, for every number of iterations.
LEMMA LoopHasResult ==
  ASSUME NEW path, NEW n \in Nat
  PROVE  \E g : g = [k \in 1 .. n |-> Iteration(g, path, k)]
<1> DEFINE S == {i \in Nat : \E g : g = [k \in 1 .. i |-> Iteration(g, path, k)]}
<1>1. 1 \in S
  <2> DEFINE g == [k \in 1 .. 1 |-> NextDigest(<<>>, path[1])]
  <2>1. g = [k \in 1 .. 1 |-> Iteration(g, path, k)]
    BY DEF Iteration
  <2> QED
    BY <2>1
<1>2. ASSUME NEW i \in Nat \ {0}, i \in S
      PROVE  i + 1 \in S
  <2>1. PICK g : g = [k \in 1 .. i |-> Iteration(g, path, k)]
    BY <1>2
  <2> DEFINE h == [k \in 1 .. (i + 1) |->
                     IF k <= i THEN g[k] ELSE NextDigest(<<g[i]>>, path[i + 1])]
  <2>2. ASSUME NEW k \in 1 .. (i + 1)
        PROVE  h[k] = Iteration(h, path, k)
    <3>1. CASE k <= i
      <4>1. k \in 1 .. i /\ h[k] = g[k] /\ g[k] = Iteration(g, path, k)
        BY <2>1, <3>1
      <4>2. k # 1 => k - 1 \in 1 .. (i + 1) /\ h[k - 1] = g[k - 1]
        BY <3>1
      <4> QED
        BY <4>1, <4>2 DEF Iteration
    <3>2. CASE k = i + 1
      <4>1. h[k] = NextDigest(<<g[i]>>, path[k]) /\ h[k - 1] = g[i] /\ k # 1
        BY <3>2
      <4> QED
        BY <4>1 DEF Iteration
    <3> QED
      BY <3>1, <3>2
  <2>3. h = [k \in 1 .. (i + 1) |-> Iteration(h, path, k)]
    BY <2>2
  <2> HIDE DEF h
  <2> QED
    BY <2>3
<1>3. CASE n = 0
  <2> DEFINE g == [k \in 1 .. 0 |-> 0]
  <2>1. g = [k \in 1 .. 0 |-> Iteration(g, path, k)]
    OBVIOUS
  <2> QED
    BY <1>3, <2>1
<1>4. CASE n # 0
  <2> HIDE DEF S
  <2>1. n \in S
    BY <1>1, <1>2, <1>4, Induction
  <2> QED
    BY <2>1 DEF S
<1> QED
  BY <1>3, <1>4

\* The result of compute_path_digests: each digest is over the one before.
LEMMA PathDigestsOfPath ==
  ASSUME NEW path, Len(path) \in Nat
  PROVE  ArePathDigests(PathDigests(path), path, Len(path))
<1> DEFINE n == Len(path)
           D == PathDigests(path)
<1>1. D = CHOOSE g : g = [k \in 1 .. n |-> Iteration(g, path, k)]
  BY DEF PathDigests, Iteration
<1>2. \E g : g = [k \in 1 .. n |-> Iteration(g, path, k)]
  BY LoopHasResult
<1>3. D = [k \in 1 .. n |-> Iteration(D, path, k)]
  BY <1>1, <1>2
<1> HIDE DEF D
<1>4. ASSUME NEW k \in 1 .. n
      PROVE  D[k] = IF k = 1 THEN Sha256(<<path[1]>>)
                    ELSE Sha256(<<D[k - 1], Sha256(<<path[k]>>)>>)
  <2>1. D[k] = Iteration(D, path, k)
    BY <1>3
  <2> QED
    BY <2>1 DEF Iteration, NextDigest
<1> QED
  BY <1>4 DEF ArePathDigests, D

\* Two vectors of digests of paths that begin with the same n certificates
\* agree on all of them.
LEMMA SamePathSameDigests ==
  ASSUME NEW n \in Nat, NEW d, NEW e, NEW path, NEW other,
         ArePathDigests(d, path, n), ArePathDigests(e, other, n),
         \A k \in 1 .. n : path[k] = other[k]
  PROVE  \A k \in 1 .. n : d[k] = e[k]
<1> DEFINE S == {k \in Nat : k <= n => d[k] = e[k]}
<1>1. 1 \in S
  <2> SUFFICES ASSUME 1 <= n
               PROVE  d[1] = e[1]
    OBVIOUS
  <2>1. 1 \in 1 .. n
    OBVIOUS
  <2>2. d[1] = Sha256(<<path[1]>>) /\ e[1] = Sha256(<<other[1]>>)
    BY <2>1 DEF ArePathDigests
  <2> QED
    BY <2>1, <2>2
<1>2. ASSUME NEW k \in Nat \ {0}, k \in S
      PROVE  k + 1 \in S
  <2> SUFFICES ASSUME k + 1 <= n
               PROVE  d[k + 1] = e[k + 1]
    OBVIOUS
  <2>1. k + 1 \in 1 .. n /\ k + 1 # 1 /\ (k + 1) - 1 = k /\ d[k] = e[k]
    BY <1>2
  <2>2. /\ d[k + 1] = Sha256(<<d[k], Sha256(<<path[k + 1]>>)>>)
        /\ e[k + 1] = Sha256(<<e[k], Sha256(<<other[k + 1]>>)>>)
    BY <2>1 DEF ArePathDigests
  <2> QED
    BY <2>1, <2>2
<1> HIDE DEF S
<1>3. \A k \in Nat \ {0} : k \in S
  BY <1>1, <1>2, Induction
<1> QED
  BY <1>3 DEF S

-----------------------------------------------------------------------------
(* A digest names one path.                                                *)

\* Two paths that share a digest are one path up to there, unless the hash
\* has a collision.
LEMMA SameDigestSamePath ==
  ASSUME NEW paths, CollisionFree(paths), NEW path \in paths, NEW other \in paths,
         Len(path) \in Nat, Len(other) \in Nat,
         NEW i \in 1 .. Len(path), NEW j \in 1 .. Len(other),
         PathDigests(path)[i] = PathDigests(other)[j]
  PROVE  i = j /\ \A k \in 1 .. i : path[k] = other[k]
<1> DEFINE D == PathDigests(path)
           E == PathDigests(other)
           H == UNION {HashInputs(p) : p \in paths}
           S == {n \in Nat : \A m \in 1 .. Len(other) :
                               n <= Len(path) /\ D[n] = E[m]
                                 => n = m /\ \A k \in 1 .. n : path[k] = other[k]}
<1>1. ArePathDigests(D, path, Len(path)) /\ ArePathDigests(E, other, Len(other))
  BY PathDigestsOfPath
<1>2. /\ \A k \in 1 .. Len(path) : <<path[k]>> \in H
      /\ \A k \in 2 .. Len(path) : <<D[k - 1], Sha256(<<path[k]>>)>> \in H
      /\ \A k \in 1 .. Len(other) : <<other[k]>> \in H
      /\ \A k \in 2 .. Len(other) : <<E[k - 1], Sha256(<<other[k]>>)>> \in H
  <2>1. HashInputs(path) \subseteq H /\ HashInputs(other) \subseteq H
    OBVIOUS
  <2> HIDE DEF H
  <2>2. /\ \A k \in 1 .. Len(path) : <<path[k]>> \in HashInputs(path)
        /\ \A k \in 2 .. Len(path) : <<D[k - 1], Sha256(<<path[k]>>)>> \in HashInputs(path)
    BY DEF HashInputs
  <2>3. /\ \A k \in 1 .. Len(other) : <<other[k]>> \in HashInputs(other)
        /\ \A k \in 2 .. Len(other) : <<E[k - 1], Sha256(<<other[k]>>)>> \in HashInputs(other)
    BY DEF HashInputs
  <2> HIDE DEF D, E
  <2> QED
    BY <2>1, <2>2, <2>3
<1>3. \A x, y \in H : Sha256(x) = Sha256(y) => x = y
  BY DEF CollisionFree
<1> HIDE DEF D, E, H
<1>4. 1 \in S
  <2> SUFFICES ASSUME NEW m \in 1 .. Len(other), 1 <= Len(path), D[1] = E[m]
               PROVE  1 = m /\ \A k \in 1 .. 1 : path[k] = other[k]
    OBVIOUS
  <2>1. D[1] = Sha256(<<path[1]>>) /\ <<path[1]>> \in H
    <3>1. 1 \in 1 .. Len(path)
      OBVIOUS
    <3>2. D[1] = Sha256(<<path[1]>>)
      BY <3>1, <1>1 DEF ArePathDigests
    <3> QED
      BY <3>1, <3>2, <1>2
  <2>2. CASE m = 1
    <3>1. E[1] = Sha256(<<other[1]>>) /\ <<other[1]>> \in H
      BY <1>1, <1>2, <2>2 DEF ArePathDigests
    <3>2. <<path[1]>> = <<other[1]>>
      BY <2>1, <2>2, <3>1, <1>3
    <3> QED
      BY <2>2, <3>2
  <2>3. CASE m # 1
    <3>1. m \in 2 .. Len(other) /\ m \in 1 .. Len(other)
      BY <2>3
    <3>2. E[m] = Sha256(<<E[m - 1], Sha256(<<other[m]>>)>>)
      BY <3>1, <2>3, <1>1 DEF ArePathDigests
    <3>3. <<path[1]>> = <<E[m - 1], Sha256(<<other[m]>>)>>
      BY <2>1, <3>1, <3>2, <1>2, <1>3
    <3> QED
      BY <3>3
  <2> QED
    BY <2>2, <2>3
<1>5. ASSUME NEW n \in Nat \ {0}, n \in S
      PROVE  n + 1 \in S
  <2> SUFFICES ASSUME NEW m \in 1 .. Len(other), n + 1 <= Len(path), D[n + 1] = E[m]
               PROVE  n + 1 = m /\ \A k \in 1 .. (n + 1) : path[k] = other[k]
    OBVIOUS
  <2>1. n + 1 \in 1 .. Len(path) /\ n + 1 \in 2 .. Len(path) /\ n + 1 # 1 /\ (n + 1) - 1 = n
    OBVIOUS
  <2>2. D[n + 1] = Sha256(<<D[n], Sha256(<<path[n + 1]>>)>>)
        /\ <<D[n], Sha256(<<path[n + 1]>>)>> \in H
    <3>1. D[n + 1] = Sha256(<<D[(n + 1) - 1], Sha256(<<path[n + 1]>>)>>)
      BY <2>1, <1>1 DEF ArePathDigests
    <3>2. <<D[(n + 1) - 1], Sha256(<<path[n + 1]>>)>> \in H
      BY <2>1, <1>2
    <3> QED
      BY <3>1, <3>2, <2>1
  <2>3. CASE m = 1
    <3>1. E[1] = Sha256(<<other[1]>>) /\ <<other[1]>> \in H
      BY <1>1, <1>2, <2>3 DEF ArePathDigests
    <3>2. <<other[1]>> = <<D[n], Sha256(<<path[n + 1]>>)>>
      BY <2>2, <2>3, <3>1, <1>3
    <3> QED
      BY <3>2
  <2>4. CASE m # 1
    <3>1. m \in 2 .. Len(other) /\ m \in 1 .. Len(other) /\ m - 1 \in 1 .. Len(other)
      BY <2>4
    <3>2. E[m] = Sha256(<<E[m - 1], Sha256(<<other[m]>>)>>)
          /\ <<E[m - 1], Sha256(<<other[m]>>)>> \in H
      BY <3>1, <2>4, <1>1, <1>2 DEF ArePathDigests
    <3>3. <<D[n], Sha256(<<path[n + 1]>>)>> = <<E[m - 1], Sha256(<<other[m]>>)>>
      BY <2>2, <3>2, <1>3
    <3>4. D[n] = E[m - 1] /\ Sha256(<<path[n + 1]>>) = Sha256(<<other[m]>>)
      BY <3>3
    <3>5. n = m - 1 /\ \A k \in 1 .. n : path[k] = other[k]
      BY <3>1, <3>4, <1>5, <2>1
    <3>6. <<path[n + 1]>> = <<other[m]>>
      BY <3>1, <3>4, <2>1, <1>2, <1>3
    <3>7. path[n + 1] = other[n + 1] /\ n + 1 = m
      BY <3>1, <3>5, <3>6
    <3> QED
      BY <3>5, <3>7
  <2> QED
    BY <2>3, <2>4
<1> HIDE DEF S
<1>6. i \in S
  BY <1>4, <1>5, Induction
<1> QED
  BY <1>6 DEF S, D, E

\* The chain of a call is one the caller may pass, at every step.
LEMMA ChainStays == ChainSpec => [](ders \in Chains)
<1>1. ChainInit => ders \in Chains
  BY DEF ChainInit
<1>2. ders \in Chains /\ [ChainNext]_chainVars => (ders \in Chains)'
  BY DEF ChainNext, chainVars, FromDer, FromDerFails, CheckPrefixLen, PrefixTooLong,
         PushDigest, DigestsDone, WalkCertificate, CertificateFails, SignatureFails,
         WalkDone, ChainReturns
<1> QED
  BY <1>1, <1>2, PTL DEF ChainSpec

\* What the loop of the call has pushed are the path's digests.
LEMMA PushedArePathDigests ==
  ASSUME ChainInv
  PROVE  /\ ArePathDigests(digests, ders, Len(digests))
         /\ \A k \in 1 .. Len(digests) : digests[k] = PathDigests(ders)[k]
<1>1. Len(ders) \in Nat /\ Len(digests) \in Nat /\ Len(digests) <= Len(ders)
  BY DEF ChainInv, TypeOK, ChainLen, IsSequence
<1>2. ArePathDigests(digests, ders, Len(digests))
  BY DEF ChainInv, DigestInv, ArePathDigests
<1>3. ArePathDigests(PathDigests(ders), ders, Len(digests))
  BY <1>1, PathDigestsOfPath DEF ArePathDigests
<1> QED
  BY <1>1, <1>2, <1>3, SamePathSameDigests

\* Certificates that parse are equal if what they hold is: from_der leaves no
\* second encoding.
LEMMA ParsedIsCanonical ==
  ASSUME NEW path \in Seq(DerBytes), NEW other \in Seq(DerBytes),
         Parses(path), Parses(other),
         NEW k \in 1 .. Len(path), k \in 1 .. Len(other), path[k].cert = other[k].cert
  PROVE  path[k] = other[k]
<1>1. path[k] \in DerBytes /\ other[k] \in DerBytes
  OBVIOUS
<1>2. /\ path[k].malformed = FALSE /\ path[k].trailing = FALSE
      /\ other[k].malformed = FALSE /\ other[k].trailing = FALSE
  BY <1>1 DEF Parses, DerBytes
<1> QED
  BY <1>1, <1>2 DEF DerBytes

\* A path digest of an accepted chain stands for one path and for no other,
\* whatever chains there are, of any length.
THEOREM DigestsNameOnePath == ChainSpec => []DigestNamesOnePath
<1>1. ChainInv /\ ders \in Chains => DigestNamesOnePath
  <2> SUFFICES ASSUME ChainInv, ders \in Chains, phase = "accepted",
                      NEW chain \in Chains, NEW j \in 1 .. ChainLen, Parses(chain)
               PROVE  PathDigestOf(chain) = digests[j]
                        <=> CertsOf(chain) = CertsOf(SubSeq(ders, 1, j))
    BY DEF DigestNamesOnePath
  <2> DEFINE n == Len(chain)
             part == SubSeq(ders, 1, j)
  <2>1. /\ chain \in Seq(DerBytes) /\ ders \in Seq(DerBytes)
        /\ n \in Nat \ {0} /\ Len(ders) \in Nat /\ ChainLen = Len(ders)
    BY ChainsAssumption DEF Parses, ChainLen
  <2>2. /\ Parses(ders) /\ Len(digests) = Len(ders)
        /\ digests[j] = PathDigests(ders)[j]
    BY <2>1, PushedArePathDigests DEF ChainInv, PhaseInv
  <2>3. /\ Len(part) = j /\ Len(CertsOf(part)) = j /\ Len(CertsOf(chain)) = n
        /\ \A k \in 1 .. j : CertsOf(part)[k] = ders[k].cert
        /\ \A k \in 1 .. n : CertsOf(chain)[k] = chain[k].cert
    BY <2>1 DEF CertsOf
  <2>4. ASSUME PathDigestOf(chain) = digests[j]
        PROVE  CertsOf(chain) = CertsOf(part)
    <3>1. n = j /\ \A k \in 1 .. n : chain[k] = ders[k]
      BY <2>1, <2>2, <2>4, SameDigestSamePath, HashAssumption DEF PathDigestOf
    <3> QED
      BY <2>1, <2>3, <3>1 DEF CertsOf
  <2>5. ASSUME CertsOf(chain) = CertsOf(part)
        PROVE  PathDigestOf(chain) = digests[j]
    <3>1. n = j /\ \A k \in 1 .. n : chain[k].cert = ders[k].cert
      BY <2>3, <2>5
    <3>2. \A k \in 1 .. n : chain[k] = ders[k]
      BY <2>1, <2>2, <3>1, ParsedIsCanonical
    <3>3. ArePathDigests(PathDigests(chain), chain, n)
          /\ ArePathDigests(PathDigests(ders), ders, n)
      <4>1. ArePathDigests(PathDigests(chain), chain, n)
            /\ ArePathDigests(PathDigests(ders), ders, Len(ders))
        BY <2>1, PathDigestsOfPath
      <4>2. n <= Len(ders)
        BY <2>1, <3>1
      <4> QED
        BY <2>1, <4>1, <4>2 DEF ArePathDigests
    <3>4. PathDigests(chain)[n] = PathDigests(ders)[n]
      BY <2>1, <3>2, <3>3, SamePathSameDigests
    <3> QED
      BY <3>1, <3>4, <2>2 DEF PathDigestOf
  <2> QED
    BY <2>4, <2>5
<1> QED
  BY <1>1, ChainInvariance, ChainStays, PTL
=============================================================================
