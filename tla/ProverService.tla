---------------------------- MODULE ProverService ---------------------------
(***************************************************************************)
(* The scripts and the prover they start, together: start-prover.sh runs   *)
(* main in the repository's directory, the process that has its PID is the *)
(* run, and a SIGTERM of stop-prover.sh may end it between any two of its  *)
(* steps.  ProverMain assumes one run at a time; here a start launches one *)
(* whether or not another is under way, and what keeps them apart is the   *)
(* PID file alone.  Seen as long as the scripts are used in order (orderly *)
(* of ProverScripts).                                                      *)
(***************************************************************************)
EXTENDS ProverScripts

CONSTANTS Elfs, Absent, Torn, MaxRuns  \* of ProverMain

VARIABLES step, run, elf, sound, exit, proofFile, vkeyFile  \* of ProverMain; step is its pc

mainVars == <<step, run, elf, sound, exit, proofFile, vkeyFile>>
serviceVars == <<vars, mainVars>>

Main == INSTANCE ProverMain WITH pc <- step

ASSUME ServiceAssumption == Main!MainAssumption

-----------------------------------------------------------------------------
ServiceInit == Init /\ Main!Init

\* The command `cargo run` in the start script becomes a run of main.
LaunchRun ==
  /\ run < MaxRuns
  /\ \E s \in Starts, p \in Pids : Launch(s, p)
  /\ step' = "proving" /\ run' = run + 1
  /\ UNCHANGED <<elf, sound, exit, proofFile, vkeyFile>>

\* Everything else the scripts do, and processes other than the prover.
ScriptStep ==
  /\ \/ \E s \in Scripts : Step(s) /\ proc' = proc
     \/ \E p \in Pids : OtherBegins(p) \/ (proc[p] = "other" /\ Ends(p))
  /\ UNCHANGED mainVars

RunStep ==
  /\ \/ \E worth \in BOOLEAN : Main!Prove(worth)
     \/ Main!CreateDir \/ Main!TruncateProof \/ Main!WriteProof
     \/ Main!TruncateVkey \/ Main!WriteVkey
  /\ UNCHANGED vars

\* Mutant of RunEnds: the signal reaches cargo alone (no process group), and
\* the run it had started goes on.
CargoEnds ==
  /\ \E p \in Pids : proc[p] = "prover" /\ Ends(p)
  /\ Main!CheckProof \/ UNCHANGED mainVars

\* The process ends with the run: it returns, fails or is killed.
RunEnds ==
  /\ \E p \in Pids : proc[p] = "prover" /\ Ends(p)
  /\ Main!CheckProof \/ Main!Fail

ServiceNext == (LaunchRun \/ ScriptStep \/ RunStep \/ RunEnds) /\ orderly'

ServiceSpec == ServiceInit /\ [][ServiceNext]_serviceVars

-----------------------------------------------------------------------------
(* Properties.                                                             *)

\* The scripts keep to the one run at a time on which ProverMain, and so the
\* survival of the artifacts (its PairSurvives), rests: through stale PID
\* files, reused PIDs, killed scripts, and stops that time out and are tried
\* again, no start launches a run beside one that is still under way.
ServiceRunsMain == Main!Spec

\* A prover process is alive exactly while a run is under way, and there is
\* never more than one.
RunHasProcess ==
  /\ step # "none" <=> \E p \in Pids : proc[p] = "prover"
  /\ \A p, q \in Pids : proc[p] = "prover" /\ proc[q] = "prover" => p = q

\* With the scripts' own invariant, inductive.
ServiceInv == ScriptsInv /\ orderly /\ RunHasProcess
=============================================================================
