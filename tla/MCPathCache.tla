---------------------------- MODULE MCPathCache -----------------------------
(***************************************************************************)
(* Chains from one root through one or two authorities that expire one     *)
(* after the other, and chains that claim an authority they do not come    *)
(* from: every call may skip up to a whole chain.                          *)
(***************************************************************************)
EXTENDS PathCache, MCCertChain

Until(c, second) == Der([c EXCEPT !.notAfter = second])

MCRootDer == Until(Root({}), 9)

\* Issued by the root and by the authority Upper; the latter's names and key
\* are also claimed by one that the root did not sign.
Upper   == Until(Inter, 2)
Lower   == Until(Authority("even", KeyInter, "odd", KeyInter, {}), 4)
Lowest  == Until(Authority("odd", KeyInter, "even", KeyInter, {}), 3)
Claimed == Until([Inter EXCEPT !.signedBy = NoKey], 4)

OtherRoot == Until(Authority("root", KeyLeaf, "root", KeyLeaf, {}), 9)

LeafOf(subject) == Until(Leaf(subject, KeyInter), 4)

\* A leaf that the leaf of Upper has signed.
LeafOfLeaf == Until(Leaf("leaf", KeyLeaf), 4)

\* Every path of one or two certificates between a root and a leaf.
Roots == {MCRootDer, OtherRoot}
Between == {Upper, Lower, Claimed, LeafOf("odd")}
Ends == {LeafOf("odd"), LeafOf("even"), LeafOfLeaf}

CacheChains ==
  {<<r, a, e>> : r \in Roots, a \in Between, e \in Ends}
    \cup {<<r, a, b, e>> : r \in Roots, a \in Between, b \in Between, e \in Ends}
    \cup {<<MCRootDer, Upper, Lower, Lowest, e>> : e \in Ends}

CacheTimestamps == {1500, 2500, 3500}
=============================================================================
