------------------------- MODULE ProverServiceProofs ------------------------
(***************************************************************************)
(* Proof that the scripts launch one run of main at a time, so that what   *)
(* is proved of ProverMain holds of the runs they launch, for any number   *)
(* of scripts, processes and runs.                                         *)
(***************************************************************************)
EXTENDS ProverService, ProverScriptsProofs

MainProofs == INSTANCE ProverMainProofs WITH pc <- step

\* The service's steps are steps of the scripts and their processes.
LEMMA ServiceStepsAreScriptSteps == [ServiceNext]_serviceVars => [Next]_vars
<1>1. CASE LaunchRun
  BY <1>1 DEF LaunchRun, Next, Step, Scripts
<1>2. CASE ScriptStep
  BY <1>2 DEF ScriptStep, Next
<1>3. CASE RunStep
  BY <1>3 DEF RunStep
<1>4. CASE RunEnds
  BY <1>4 DEF RunEnds, Next
<1>5. CASE UNCHANGED serviceVars
  BY <1>5 DEF serviceVars
<1> QED
  BY <1>1, <1>2, <1>3, <1>4, <1>5 DEF ServiceNext

\* When a start comes to launch a prover, none lives.
LEMMA NoProverAtLaunch ==
  ASSUME ServiceInv, NEW s \in Starts, pc[s] = "launch"
  PROVE  \A p \in Pids : proc[p] # "prover"
<1>1. s \in Scripts /\ FileInv(s) /\ OthersRest(s)
  BY UnderWayIsAlone DEF ServiceInv, ScriptsInv, Scripts, Resting
<1>2. pidFile = NoPid /\ \A t \in Starts : pc[t] \notin Naming
  BY <1>1 DEF FileInv, OthersRest, Scripts, Resting, Naming
<1> QED
  BY <1>2, ScriptsAssumption DEF ServiceInv, ScriptsInv, NoOrphan, NoPid, ScriptsAssumption

\* Runs and prover processes begin and end together.
LEMMA RunHasProcessKept ==
  ASSUME ServiceInv, ServiceNext
  PROVE  RunHasProcess'
<1>0. RunHasProcess /\ TypeOK
  BY DEF ServiceInv, ScriptsInv
<1>1. CASE LaunchRun
  <2>1. PICK s \in Starts, p \in Pids : Launch(s, p)
    BY <1>1 DEF LaunchRun
  <2>2. proc' = [proc EXCEPT ![p] = "prover"] /\ \A q \in Pids : proc[q] # "prover"
    BY <2>1, NoProverAtLaunch DEF Launch
  <2>3. \A q \in Pids : proc'[q] = "prover" <=> q = p
    BY <1>0, <2>2 DEF TypeOK
  <2>4. step' # "none"
    BY <1>1 DEF LaunchRun
  <2> QED
    BY <2>3, <2>4 DEF RunHasProcess
<1>2. CASE ScriptStep
  <2>1. \A p \in Pids : proc'[p] = "prover" <=> proc[p] = "prover"
    BY <1>0, <1>2 DEF ScriptStep, OtherBegins, Available, Ends, TypeOK
  <2>2. step' = step
    BY <1>2 DEF ScriptStep, mainVars
  <2> QED
    BY <1>0, <2>1, <2>2 DEF RunHasProcess
<1>3. CASE RunStep
  <2>1. proc' = proc
    BY <1>3 DEF RunStep, vars
  <2>2. step # "none" /\ step' # "none"
    BY <1>3 DEF RunStep, Main!Prove, Main!CreateDir, Main!TruncateProof, Main!WriteProof,
                Main!TruncateVkey, Main!WriteVkey
  <2> QED
    BY <1>0, <2>1, <2>2 DEF RunHasProcess
<1>4. CASE RunEnds
  <2>1. PICK p \in Pids : proc[p] = "prover" /\ proc' = [proc EXCEPT ![p] = "free"]
    BY <1>4 DEF RunEnds, Ends
  <2>2. \A q \in Pids : proc'[q] # "prover"
    BY <1>0, <2>1 DEF TypeOK, RunHasProcess
  <2>3. step' = "none"
    BY <1>4 DEF RunEnds, Main!CheckProof, Main!Fail, Main!End
  <2> QED
    BY <2>2, <2>3 DEF RunHasProcess
<1> QED
  BY <1>1, <1>2, <1>3, <1>4 DEF ServiceNext

\* While the scripts are used in order, a prover process is alive exactly
\* while a run of main is under way, and there is never a second one.
THEOREM ServiceInvariance == ServiceSpec => []ServiceInv
<1>1. ServiceInit => ServiceInv
  <2> SUFFICES ASSUME ServiceInit PROVE ServiceInv
    OBVIOUS
  <2>1. orderly /\ RunHasProcess
    BY DEF ServiceInit, Init, Main!Init, RunHasProcess
  <2> QED
    BY <2>1, InitEstablishesScriptsInv DEF ServiceInit, ServiceInv
<1>2. ServiceInv /\ [ServiceNext]_serviceVars => ServiceInv'
  <2> SUFFICES ASSUME ServiceInv, [ServiceNext]_serviceVars PROVE ServiceInv'
    OBVIOUS
  <2>1. ScriptsInv'
    BY ServiceStepsAreScriptSteps, NextPreservesScriptsInv DEF ServiceInv
  <2>2. CASE ServiceNext
    BY <2>1, <2>2, RunHasProcessKept DEF ServiceNext, ServiceInv
  <2>3. CASE UNCHANGED serviceVars
    BY <2>1, <2>3 DEF serviceVars, vars, mainVars, ServiceInv, RunHasProcess
  <2> QED
    BY <2>2, <2>3
<1> QED
  BY <1>1, <1>2, PTL DEF ServiceSpec

\* The runs that the scripts launch are runs of ProverMain, one at a time:
\* what is proved of ProverMain, and of the artifacts first of all, holds of
\* the service.
THEOREM ServiceImplementsMain == ServiceSpec => ServiceRunsMain
<1>1. ServiceInit => Main!Init
  BY DEF ServiceInit
<1>2. ServiceInv /\ [ServiceNext]_serviceVars => [Main!Next]_(Main!vars)
  <2> SUFFICES ASSUME ServiceInv, [ServiceNext]_serviceVars
               PROVE  Main!Next \/ UNCHANGED Main!vars
    OBVIOUS
  <2>1. CASE LaunchRun
    <3>1. PICK s \in Starts, p \in Pids : Launch(s, p)
      BY <2>1 DEF LaunchRun
    <3>2. step = "none"
      BY <3>1, NoProverAtLaunch DEF Launch, ServiceInv, RunHasProcess
    <3> QED
      BY <2>1, <3>2 DEF LaunchRun, Main!Next, Main!Launch
  <2>2. CASE ScriptStep
    BY <2>2 DEF ScriptStep, mainVars, Main!vars
  <2>3. CASE RunStep
    BY <2>3 DEF RunStep, Main!Next
  <2>4. CASE RunEnds
    BY <2>4 DEF RunEnds, Main!Next
  <2>5. CASE UNCHANGED serviceVars
    BY <2>5 DEF serviceVars, mainVars, Main!vars
  <2> QED
    BY <2>1, <2>2, <2>3, <2>4, <2>5 DEF ServiceNext
<1> QED
  BY <1>1, <1>2, ServiceInvariance, PTL DEF ServiceSpec, ServiceRunsMain, Main!Spec

\* What is proved of ProverMain holds of the service: through every start and
\* stop the artifacts of a run that ended well are its own, until a later run
\* begins to save; one that a stop kills while it saves leaves them torn or
\* its own, and no run's exit code 0 then speaks for them.
COROLLARY ServicePairSurvives == ServiceSpec => []Main!PairSurvives
<1>1. MainProofs!Spec => []MainProofs!PairSurvives
  BY ServiceAssumption, MainProofs!PairSurvival
<1>2. Main!Init => MainProofs!Init
  BY DEF Main!Init, MainProofs!Init, Main!Runs, MainProofs!Runs, Main!Shipped,
         MainProofs!Shipped
<1>3. [Main!Next]_(Main!vars) => [MainProofs!Next]_(MainProofs!vars)
  BY DEF Main!Next, Main!vars, Main!Launch, Main!Prove, Main!CreateDir, Main!TruncateProof,
         Main!WriteProof, Main!TruncateVkey, Main!WriteVkey, Main!CheckProof, Main!Fail,
         Main!End, MainProofs!Next, MainProofs!vars, MainProofs!Launch, MainProofs!Prove,
         MainProofs!CreateDir, MainProofs!TruncateProof, MainProofs!WriteProof,
         MainProofs!TruncateVkey, MainProofs!WriteVkey, MainProofs!CheckProof,
         MainProofs!Fail, MainProofs!End
<1>4. MainProofs!PairSurvives => Main!PairSurvives
  BY DEF Main!PairSurvives, MainProofs!PairSurvives, Main!HoldsPairOf,
         MainProofs!HoldsPairOf, Main!Runs, MainProofs!Runs
<1> QED
  BY <1>1, <1>2, <1>3, <1>4, ServiceImplementsMain, PTL
  DEF ServiceRunsMain, Main!Spec, MainProofs!Spec
=============================================================================
