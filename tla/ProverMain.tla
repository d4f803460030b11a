----------------------------- MODULE ProverMain -----------------------------
(***************************************************************************)
(* The command line prover (src/main.rs), run again and again in one       *)
(* directory: what each run leaves in ./proof when it succeeds, fails, or  *)
(* is killed at any point (script/stop-prover.sh sends SIGTERM, which the  *)
(* program does not handle).                                               *)
(*                                                                         *)
(* fs::write truncates and then writes, so a file is Torn in between.  The *)
(* two artifacts are written one after the other, and before the proof is  *)
(* checked.  One run at a time: start-prover.sh starts no second one.      *)
(***************************************************************************)
EXTENDS Integers

CONSTANTS
  Elfs,     \* guest programs NITRO_GUEST_PROGRAM may name; each its own vkey
  Absent,   \* what a file that is not there holds
  Torn,     \* what a file being written holds
  MaxRuns   \* bound: how many runs are launched

ASSUME MainAssumption ==
  /\ MaxRuns \in Nat \ {0}
  /\ Absent # Torn /\ {Absent, Torn} \cap (0 .. MaxRuns) = {}

VARIABLES
  pc,         \* where the run under way stands, "none" between runs
  run,        \* how many runs were launched; the number of the last
  elf,        \* the guest each run read
  sound,      \* whether each run's proof verifies under its guest's vkey
  exit,       \* how each run ended: "zero" (exit code 0), "error" (any other)
  proofFile,  \* proof.json: the run whose proof it holds
  vkeyFile    \* vkey.json: the guest whose vkey it holds

vars == <<pc, run, elf, sound, exit, proofFile, vkeyFile>>

Runs == 1 .. MaxRuns

\* The number of the proof the repository ships, which no run here made.
Shipped == 0

Steps == {"none", "proving", "create", "proof", "proof_torn", "vkey", "vkey_torn", "check"}

\* ./proof is not there, or it is the repository's own, with the vkey of some
\* guest.
Init ==
  /\ pc = "none" /\ run = 0
  /\ elf \in [Runs -> Elfs]
  /\ sound = [r \in Runs |-> FALSE]
  /\ exit = [r \in Runs |-> "no"]
  /\ \/ proofFile = Absent /\ vkeyFile = Absent
     \/ proofFile = Shipped /\ vkeyFile \in Elfs

-----------------------------------------------------------------------------
Launch ==
  /\ pc = "none" /\ run < MaxRuns
  /\ pc' = "proving" /\ run' = run + 1
  /\ UNCHANGED <<elf, sound, exit, proofFile, vkeyFile>>

\* DirectProver::new and generate_proof give a proof.  What it is worth is
\* known only when Groth16Verifier has looked at it.
Prove(worth) ==
  /\ pc = "proving"
  /\ pc' = "create"
  /\ sound' = [sound EXCEPT ![run] = worth]
  /\ UNCHANGED <<run, elf, exit, proofFile, vkeyFile>>

CreateDir ==
  /\ pc = "create"
  /\ pc' = "proof"
  /\ UNCHANGED <<run, elf, sound, exit, proofFile, vkeyFile>>

TruncateProof ==
  /\ pc = "proof"
  /\ pc' = "proof_torn" /\ proofFile' = Torn
  /\ UNCHANGED <<run, elf, sound, exit, vkeyFile>>

WriteProof ==
  /\ pc = "proof_torn"
  /\ pc' = "vkey" /\ proofFile' = run
  /\ UNCHANGED <<run, elf, sound, exit, vkeyFile>>

\* Mutant of TruncateVkey: a vkey.json that is there is taken for this one.
TruncateVkeyIfAbsent ==
  /\ pc = "vkey"
  /\ IF vkeyFile = Absent THEN pc' = "vkey_torn" /\ vkeyFile' = Torn
                          ELSE pc' = "check" /\ UNCHANGED vkeyFile
  /\ UNCHANGED <<run, elf, sound, exit, proofFile>>

TruncateVkey ==
  /\ pc = "vkey"
  /\ pc' = "vkey_torn" /\ vkeyFile' = Torn
  /\ UNCHANGED <<run, elf, sound, exit, proofFile>>

WriteVkey ==
  /\ pc = "vkey_torn"
  /\ pc' = "check" /\ vkeyFile' = elf[run]
  /\ UNCHANGED <<run, elf, sound, exit, proofFile>>

End(code) ==
  /\ pc' = "none"
  /\ exit' = [exit EXCEPT ![run] = code]
  /\ UNCHANGED <<run, elf, sound, proofFile, vkeyFile>>

\* The asserts on the journal and the local Groth16 verification.
CheckProof ==
  /\ pc = "check"
  /\ End(IF sound[run] THEN "zero" ELSE "error")

\* Mutant of Fail: an error while saving is logged and the run goes on to
\* its check.
FailOnlyBeforeSaving ==
  \/ pc = "proving" /\ End("error")
  \/ /\ pc \in {"create", "proof", "proof_torn", "vkey", "vkey_torn"}
     /\ pc' = "check"
     /\ UNCHANGED <<run, elf, sound, exit, proofFile, vkeyFile>>

\* An error returned by `?`, a panic, or a signal, at any step.
Fail ==
  /\ pc # "none"
  /\ End("error")

Next ==
  \/ Launch \/ \E worth \in BOOLEAN : Prove(worth)
  \/ CreateDir \/ TruncateProof \/ WriteProof \/ TruncateVkey \/ WriteVkey
  \/ CheckProof \/ Fail

Spec == Init /\ [][Next]_vars

-----------------------------------------------------------------------------
(* Properties.                                                             *)

TypeOK ==
  /\ pc \in Steps
  /\ run \in 0 .. MaxRuns
  /\ pc # "none" => run \in Runs
  /\ elf \in [Runs -> Elfs]
  /\ sound \in [Runs -> BOOLEAN]
  /\ exit \in [Runs -> {"no", "zero", "error"}]
  /\ proofFile \in Runs \cup {Shipped, Absent, Torn}
  /\ vkeyFile \in Elfs \cup {Absent, Torn}

\* The files hold the proof of run r and the vkey it verifies under.
HoldsPairOf(r) == proofFile = r /\ vkeyFile = elf[r] /\ sound[r]

\* A run that ended with exit code 0 left its own, sound pair, and that pair
\* stays until a later run begins to save: no failure or kill before that
\* point spoils it, and no earlier run's half-saved pair shows through.
PairSurvives ==
  \A r \in Runs :
    exit[r] = "zero" =>
      \/ HoldsPairOf(r)
      \/ proofFile = Torn /\ run > r
      \/ \E later \in Runs : later > r /\ proofFile = later

\* What the next step of a run may rely on; with PairSurvives, inductive.
StepInv ==
  /\ \A r \in Runs : exit[r] # "no" => r <= run /\ (pc # "none" => r < run)
  /\ proofFile \in Runs => proofFile <= run
  /\ pc \in {"proving", "create", "proof"} => proofFile # run
  /\ pc \in {"vkey", "vkey_torn", "check"} => proofFile = run
  /\ pc = "check" => vkeyFile = elf[run]
  /\ proofFile = Torn => run > 0 /\ (pc = "none" => exit[run] = "error")

MainInv == TypeOK /\ StepInv /\ PairSurvives
=============================================================================
