------------------------- MODULE DirectProverProofs -------------------------
(***************************************************************************)
(* Proofs about DirectProver, for any calls, tokens and attestations and   *)
(* any two verifiers.                                                      *)
(***************************************************************************)
EXTENDS DirectProver, Integers, TLAPS

\* Before any call there is no job and no result.
LEMMA InitEstablishesProverInv == Init => ProverInv
  BY DEF Init, ProverInv, TypeOK, States, Jobs, Results

\* Every step of callers, calls and jobs keeps the inductive invariant.
LEMMA NextPreservesProverInv == ProverInv /\ [Next]_vars => ProverInv'
<1> SUFFICES ASSUME ProverInv, [Next]_vars
             PROVE  ProverInv'
  OBVIOUS
<1> USE DEF ProverInv, TypeOK, States, Jobs, Results
<1>1. CASE \E c \in Calls, a \in Attestations, t \in Tokens : Call(c, a, t)
  BY <1>1 DEF Call
<1>2. CASE \E t \in Tokens : Fire(t)
  BY <1>2 DEF Fire
<1>3. ASSUME NEW c \in Calls, Drop(c)
      PROVE  ProverInv'
  BY <1>3 DEF Drop
<1>4. ASSUME NEW c \in Calls, Poll(c)
      PROVE  ProverInv'
  <2>1. CASE ReturnEarly(c)
    BY <2>1 DEF ReturnEarly, ReturnWith
  <2>2. CASE Start(c)
    BY <2>2 DEF Start
  <2>3. CASE Submit(c)
    BY <2>3 DEF Submit, HostVerified
  <2>4. CASE HostRejects(c)
    BY <2>4 DEF HostRejects
  <2>5. CASE Receive(c)
    BY <2>5 DEF Receive, ReturnWith
  <2> QED
    BY <1>4, <2>1, <2>2, <2>3, <2>4, <2>5 DEF Poll
<1>5. ASSUME NEW c \in Calls, Work(c)
      PROVE  ProverInv'
  <2>1. CASE JobProves(c)
    BY <2>1 DEF JobProves, GuestVerified
  <2>2. CASE JobFails(c)
    BY <2>2 DEF JobFails
  <2> QED
    BY <1>5, <2>1, <2>2 DEF Work
<1>6. CASE UNCHANGED vars
  BY <1>6 DEF vars
<1> QED
  BY <1>1, <1>2, <1>3, <1>4, <1>5, <1>6 DEF Next

\* Nothing is proved that both verifiers do not accept, whatever calls are
\* cancelled, dropped or repeated.
THEOREM ProverInvariance == Spec => []ProverInv
  BY InitEstablishesProverInv, NextPreservesProverInv, PTL DEF Spec

-----------------------------------------------------------------------------
\* A call stopped by its token: not polled since, or ended without a job.
Stopped(c) ==
  /\ job[c] = "none"
  /\ \/ pc[c] = "unpolled" /\ token[c] \subseteq cancelled
     \/ pc[c] \in {"returned", "dropped"}

\* A call whose token fired before its first poll never gets a job.
LEMMA StoppedIsStable ==
  ASSUME NEW c \in Calls, ProverInv, [Next]_vars, Stopped(c)
  PROVE  Stopped(c)'
<1> USE DEF ProverInv, TypeOK, Stopped
<1>1. CASE \E d \in Calls, a \in Attestations, t \in Tokens : Call(d, a, t)
  BY <1>1 DEF Call
<1>2. CASE \E t \in Tokens : Fire(t)
  BY <1>2 DEF Fire
<1>3. ASSUME NEW d \in Calls, Drop(d)
      PROVE  Stopped(c)'
  BY <1>3 DEF Drop
<1>4. ASSUME NEW d \in Calls, Poll(d)
      PROVE  Stopped(c)'
  BY <1>4 DEF Poll, ReturnEarly, Start, Submit, HostRejects, Receive, ReturnWith, IsCancelled
<1>5. ASSUME NEW d \in Calls, Work(d)
      PROVE  Stopped(c)'
  BY <1>5 DEF Work, JobProves, JobFails
<1>6. CASE UNCHANGED vars
  BY <1>6 DEF vars
<1> QED
  BY <1>1, <1>2, <1>3, <1>4, <1>5, <1>6 DEF Next

\* A call whose token fires before its first poll never starts a proof.
THEOREM FiredTokenStops == Spec => FiredTokenStopsCall
<1> SUFFICES ASSUME NEW c \in Calls
             PROVE  Spec => [](pc[c] = "unpolled" /\ token[c] \subseteq cancelled
                                 => [](job[c] = "none"))
  BY DEF FiredTokenStopsCall
<1>1. ProverInv /\ pc[c] = "unpolled" /\ token[c] \subseteq cancelled => Stopped(c)
  BY DEF ProverInv, Stopped
<1>2. ProverInv /\ [Next]_vars /\ Stopped(c) => Stopped(c)'
  BY StoppedIsStable
<1>3. Stopped(c) => job[c] = "none"
  BY DEF Stopped
<1> QED
  BY <1>1, <1>2, <1>3, ProverInvariance, PTL DEF Spec

-----------------------------------------------------------------------------
\* How many steps a call and its job have left at most.
CallStepsLeft(c) ==
  (CASE pc[c] = "idle"      -> 5
     [] pc[c] = "unpolled"  -> 4
     [] pc[c] = "verifying" -> 3
     [] pc[c] = "awaiting"  -> 1
     [] OTHER               -> 0) + (IF job[c] = "running" THEN 1 ELSE 0)

\* A step of a call or of its job leaves it fewer; any other step, another
\* call's or a token's, leaves the call as it is.
CallsRunOut ==
  \A c \in Calls :
    \/ CallStepsLeft(c)' < CallStepsLeft(c)
    \/ UNCHANGED <<pc[c], job[c], result[c], att[c], token[c]>>

\* Every step brings some call or job nearer its end, or is a token's.
LEMMA NextRunsOut == ProverInv /\ Next => CallsRunOut
<1> SUFFICES ASSUME ProverInv, Next
             PROVE  CallsRunOut
  OBVIOUS
<1> USE DEF ProverInv, TypeOK, States, Jobs, Results, CallStepsLeft
<1>1. ASSUME NEW c \in Calls, NEW a \in Attestations, NEW t \in Tokens, Call(c, a, t)
      PROVE  CallsRunOut
  BY <1>1 DEF Call, CallsRunOut
<1>2. ASSUME NEW t \in Tokens, Fire(t)
      PROVE  CallsRunOut
  BY <1>2 DEF Fire, CallsRunOut
<1>3. ASSUME NEW c \in Calls, Drop(c)
      PROVE  CallsRunOut
  BY <1>3 DEF Drop, CallsRunOut
<1>4. ASSUME NEW c \in Calls, Poll(c)
      PROVE  CallsRunOut
  <2>1. CASE ReturnEarly(c)
    BY <2>1 DEF ReturnEarly, ReturnWith, CallsRunOut
  <2>2. CASE Start(c)
    BY <2>2 DEF Start, CallsRunOut
  <2>3. CASE Submit(c)
    BY <2>3 DEF Submit, CallsRunOut
  <2>4. CASE HostRejects(c)
    BY <2>4 DEF HostRejects, CallsRunOut
  <2>5. CASE Receive(c)
    BY <2>5 DEF Receive, ReturnWith, CallsRunOut
  <2> QED
    BY <1>4, <2>1, <2>2, <2>3, <2>4, <2>5 DEF Poll
<1>5. ASSUME NEW c \in Calls, Work(c)
      PROVE  CallsRunOut
  BY <1>5 DEF Work, JobProves, JobFails, CallsRunOut
<1> QED
  BY <1>1, <1>2, <1>3, <1>4, <1>5 DEF Next

\* A call takes at most five steps, its job's included, from the making of
\* the future to the end of both, and no other call, token or drop of a
\* future sets it back: what of CallsEnd needs no fairness.
THEOREM CallsAreBounded == Spec => [][CallsRunOut]_vars
<1>1. ProverInv /\ [Next]_vars => [CallsRunOut]_vars
  BY NextRunsOut
<1> QED
  BY <1>1, ProverInvariance, PTL DEF Spec
=============================================================================
