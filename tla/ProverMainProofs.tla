-------------------------- MODULE ProverMainProofs --------------------------
(***************************************************************************)
(* Proof that PairSurvives holds after any number of runs.                 *)
(***************************************************************************)
EXTENDS ProverMain, TLAPS

\* Before the first run there are no artifacts but those of the repository.
LEMMA InitEstablishesMainInv == Init => MainInv
  BY MainAssumption DEF Init, MainInv, TypeOK, StepInv, PairSurvives, Runs, Shipped, Steps

\* Every step of a run, its failures included, keeps the inductive invariant.
LEMMA NextPreservesMainInv == MainInv /\ [Next]_vars => MainInv'
<1> SUFFICES ASSUME MainInv, [Next]_vars
             PROVE  MainInv'
  OBVIOUS
<1> USE MainAssumption DEF MainInv, TypeOK, StepInv, PairSurvives, HoldsPairOf, Runs, Shipped, Steps
<1>1. CASE Launch
  BY <1>1 DEF Launch
<1>2. ASSUME NEW worth \in BOOLEAN, Prove(worth)
      PROVE  MainInv'
  BY <1>2 DEF Prove
<1>3. CASE CreateDir
  BY <1>3 DEF CreateDir
<1>4. CASE TruncateProof
  BY <1>4 DEF TruncateProof
<1>5. CASE WriteProof
  BY <1>5 DEF WriteProof
<1>6. CASE TruncateVkey
  BY <1>6 DEF TruncateVkey
<1>7. CASE WriteVkey
  BY <1>7 DEF WriteVkey
<1>8. CASE CheckProof
  BY <1>8 DEF CheckProof, End
<1>9. CASE Fail
  BY <1>9 DEF Fail, End
<1>10. CASE UNCHANGED vars
  BY <1>10 DEF vars
<1> QED
  BY <1>1, <1>2, <1>3, <1>4, <1>5, <1>6, <1>7, <1>8, <1>9, <1>10 DEF Next

\* The types, what each step of a run relies on, and the pair, after any
\* number of runs.
THEOREM MainInvariance == Spec => []MainInv
  BY InitEstablishesMainInv, NextPreservesMainInv, PTL DEF Spec

\* A run that ended well left its own pair, and nothing but a later run that
\* begins to save takes it away.
THEOREM PairSurvival == Spec => []PairSurvives
<1>1. MainInv => PairSurvives
  BY DEF MainInv
<1> QED
  BY <1>1, MainInvariance, PTL
=============================================================================
