---------------------------- MODULE ProverScripts ---------------------------
(***************************************************************************)
(* script/start-prover.sh and script/stop-prover.sh: the PID file through  *)
(* which they find the prover again, the system's processes, and what the  *)
(* processes do in between: a prover ends by itself (and leaves the file), *)
(* and a free PID may be given to anyone.                                  *)
(*                                                                         *)
(* Scripts run side by side, and any of them may be killed at any step.    *)
(* Each command that reads or changes the file or a process is a step; the *)
(* redirection of the PID is two, since it empties the file first.  Under  *)
(* `set -e` a read, ps or kill that fails ends the script.                 *)
(***************************************************************************)
EXTENDS Integers, FiniteSets

CONSTANTS
  Starts, Stops,  \* invocations of the two scripts
  Pids,           \* process ids, positive
  MaxPolls        \* how often stop looks whether the prover is gone: 10

Scripts == Starts \cup Stops
Resting == {"idle", "exited"}
NoPid == 0      \* there is no PID file, a script has no PID yet
NotAPid == -1   \* the PID file is there and holds no number

ASSUME ScriptsAssumption ==
  /\ Starts \cap Stops = {}
  /\ Pids \subseteq Nat \ {0}
  /\ MaxPolls \in Nat \ {0}

VARIABLES
  proc,      \* what each PID is: "free", "prover" or "other"
  pidFile,   \* the PID in prover.pid, NoPid or NotAPid
  pc,        \* where each script stands
  pid,       \* old_pid or prover_pid of each script
  polls,     \* how often stop has looked
  outcome,   \* what each script says at its end
  signalled, \* what the processes were that got a SIGTERM
  orderly    \* no script began while another was under way, and none was
             \* killed between launching a prover and naming it in the file

vars == <<proc, pidFile, pc, pid, polls, outcome, signalled, orderly>>

Alive(p) == proc[p] # "free"

\* The steps from a prover's launch until the file names it.
Naming == {"write", "printf"}

\* The system gives out a free PID, used before or not, but not within the
\* seconds in which a script acts on the process it found or made there: it
\* hands out all others first.
Available(p) ==
  /\ proc[p] = "free"
  /\ \A s \in Scripts : pc[s] \in Naming \cup {"confirm", "args", "kill", "poll"} => pid[s] # p

Init ==
  /\ proc = [p \in Pids |-> "free"]
  /\ pidFile = NoPid
  /\ pc = [s \in Scripts |-> "idle"]
  /\ pid = [s \in Scripts |-> NoPid]
  /\ polls = [s \in Scripts |-> 0]
  /\ outcome = [s \in Scripts |-> "none"]
  /\ signalled = {}
  /\ orderly = TRUE

-----------------------------------------------------------------------------
Goto(s, step) ==
  pc' = [pc EXCEPT ![s] = step] /\ UNCHANGED outcome

Exit(s, how) ==
  pc' = [pc EXCEPT ![s] = "exited"] /\ outcome' = [outcome EXCEPT ![s] = how]

\* The PID file is removed, and then the script ends with these words.
RemoveAndExit(s, how) ==
  pc' = [pc EXCEPT ![s] = "remove"] /\ outcome' = [outcome EXCEPT ![s] = how]

(* Both scripts. *)

LookForFile(s) ==
  /\ pc[s] = "idle"
  /\ orderly' = (orderly /\ \A other \in Scripts \ {s} : pc[other] \in Resting)
  /\ IF pidFile # NoPid THEN Goto(s, "read")
     ELSE IF s \in Starts THEN Goto(s, "launch") ELSE Exit(s, "not_running")
  /\ UNCHANGED <<proc, pidFile, pid, polls, signalled>>

\* The file may be gone again, or have been emptied.
ReadPid(s) ==
  /\ pc[s] = "read"
  /\ \/ pidFile = NoPid /\ Exit(s, "aborted") /\ UNCHANGED pid
     \/ /\ pidFile = NotAPid
        /\ IF s \in Starts THEN Goto(s, "remove") ELSE Exit(s, "invalid_file")
        /\ UNCHANGED pid
     \/ pidFile \in Pids /\ Goto(s, "probe") /\ pid' = [pid EXCEPT ![s] = pidFile]
  /\ UNCHANGED <<proc, pidFile, polls, signalled, orderly>>

RemoveFile(s) ==
  /\ pc[s] = "remove"
  /\ pidFile' = NoPid
  /\ pc' = [pc EXCEPT ![s] = IF outcome[s] = "none" THEN "launch" ELSE "exited"]
  /\ UNCHANGED <<proc, pid, polls, outcome, signalled, orderly>>

\* A signal ends the script; a prover it launched has a session of its own
\* and lives on.
Interrupt(s) ==
  /\ pc[s] \notin Resting
  /\ Exit(s, "interrupted")
  /\ orderly' = (orderly /\ ~(pc[s] \in Naming /\ proc[pid[s]] = "prover"))
  /\ UNCHANGED <<proc, pidFile, pid, polls, signalled>>

(* start-prover.sh *)

\* Mutant of ProbeOld: the stale file is left for the new PID to replace.
ProbeOldKeepsFile(s) ==
  /\ pc[s] = "probe" /\ s \in Starts
  /\ IF Alive(pid[s]) THEN Exit(s, "already_running") ELSE Goto(s, "launch")
  /\ UNCHANGED <<proc, pidFile, pid, polls, signalled, orderly>>

ProbeOld(s) ==
  /\ pc[s] = "probe" /\ s \in Starts
  /\ IF Alive(pid[s]) THEN Exit(s, "already_running") ELSE Goto(s, "remove")
  /\ UNCHANGED <<proc, pidFile, pid, polls, signalled, orderly>>

\* setsid and exec keep the PID the shell knows, up to the prover itself.
Launch(s, p) ==
  /\ pc[s] = "launch"
  /\ Available(p)
  /\ proc' = [proc EXCEPT ![p] = "prover"]
  /\ pid' = [pid EXCEPT ![s] = p]
  /\ Goto(s, "write")
  /\ UNCHANGED <<pidFile, polls, signalled, orderly>>

EmptyFile(s) ==
  /\ pc[s] = "write"
  /\ pidFile' = NotAPid
  /\ Goto(s, "printf")
  /\ UNCHANGED <<proc, pid, polls, signalled, orderly>>

WritePid(s) ==
  /\ pc[s] = "printf"
  /\ pidFile' = pid[s]
  /\ Goto(s, "confirm")
  /\ UNCHANGED <<proc, pid, polls, signalled, orderly>>

ProbeStarted(s) ==
  /\ pc[s] = "confirm"
  /\ IF Alive(pid[s]) THEN Exit(s, "started") ELSE RemoveAndExit(s, "failed_to_start")
  /\ UNCHANGED <<proc, pidFile, pid, polls, signalled, orderly>>

(* stop-prover.sh *)

ProbeRunning(s) ==
  /\ pc[s] = "probe" /\ s \in Stops
  /\ IF Alive(pid[s]) THEN Goto(s, "args") ELSE RemoveAndExit(s, "no_longer_running")
  /\ UNCHANGED <<proc, pidFile, pid, polls, signalled, orderly>>

\* Mutant of CheckArgs: any live process will do.
CheckArgsSkipped(s) ==
  /\ pc[s] = "args"
  /\ Goto(s, "kill")
  /\ UNCHANGED <<proc, pidFile, pid, polls, signalled, orderly>>

CheckArgs(s) ==
  /\ pc[s] = "args"
  /\ \/ proc[pid[s]] = "prover" /\ Goto(s, "kill")
     \/ proc[pid[s]] = "other" /\ Exit(s, "refused")
     \/ proc[pid[s]] = "free" /\ Exit(s, "aborted")
  /\ UNCHANGED <<proc, pidFile, pid, polls, signalled, orderly>>

Kill(s) ==
  /\ pc[s] = "kill"
  /\ IF Alive(pid[s])
     THEN Goto(s, "poll") /\ signalled' = signalled \cup {proc[pid[s]]}
     ELSE Exit(s, "aborted") /\ UNCHANGED signalled
  /\ UNCHANGED <<proc, pidFile, pid, polls, orderly>>

\* Mutant of PollGone: the prover is taken for gone once it was signalled.
PollNothing(s) ==
  /\ pc[s] = "poll"
  /\ RemoveAndExit(s, "stopped")
  /\ UNCHANGED <<proc, pidFile, pid, polls, signalled, orderly>>

\* Mutant of PollGone: after the last look the file goes as well.
PollThenGiveUp(s) ==
  /\ pc[s] = "poll"
  /\ polls' = [polls EXCEPT ![s] = @ + 1]
  /\ IF Alive(pid[s]) /\ polls[s] + 1 < MaxPolls
     THEN Goto(s, "poll")
     ELSE RemoveAndExit(s, IF Alive(pid[s]) THEN "timed_out" ELSE "stopped")
  /\ UNCHANGED <<proc, pidFile, pid, signalled, orderly>>

PollGone(s) ==
  /\ pc[s] = "poll"
  /\ IF Alive(pid[s])
     THEN /\ IF polls[s] + 1 < MaxPolls THEN Goto(s, "poll") ELSE Exit(s, "timed_out")
          /\ polls' = [polls EXCEPT ![s] = @ + 1]
     ELSE RemoveAndExit(s, "stopped") /\ UNCHANGED polls
  /\ UNCHANGED <<proc, pidFile, pid, signalled, orderly>>

Step(s) ==
  \/ LookForFile(s) \/ ReadPid(s) \/ RemoveFile(s) \/ Interrupt(s)
  \/ ProbeOld(s) \/ (\E p \in Pids : Launch(s, p)) \/ EmptyFile(s) \/ WritePid(s) \/ ProbeStarted(s)
  \/ ProbeRunning(s) \/ CheckArgs(s) \/ Kill(s) \/ PollGone(s)

(* The system. *)

\* A prover ends when its proof is done, when it fails, or on SIGTERM, and
\* nobody removes the file; any other process comes and goes.
Ends(p) ==
  /\ Alive(p)
  /\ proc' = [proc EXCEPT ![p] = "free"]
  /\ UNCHANGED <<pidFile, pc, pid, polls, outcome, signalled, orderly>>

OtherBegins(p) ==
  /\ Available(p)
  /\ proc' = [proc EXCEPT ![p] = "other"]
  /\ UNCHANGED <<pidFile, pc, pid, polls, outcome, signalled, orderly>>

Next ==
  \/ \E s \in Scripts : Step(s)
  \/ \E p \in Pids : Ends(p) \/ OtherBegins(p)

Spec == Init /\ [][Next]_vars

-----------------------------------------------------------------------------
(* Properties.                                                             *)

TypeOK ==
  /\ proc \in [Pids -> {"free", "prover", "other"}]
  /\ pidFile \in Pids \cup {NoPid, NotAPid}
  /\ pc \in [Scripts -> {"idle", "read", "probe", "remove", "launch", "write", "printf",
                         "confirm", "args", "kill", "poll", "exited"}]
  /\ pid \in [Scripts -> Pids \cup {NoPid}]
  /\ polls \in [Scripts -> 0 .. MaxPolls]
  /\ outcome \in [Scripts -> {"none", "interrupted", "aborted", "invalid_file", "already_running",
                              "started", "failed_to_start", "not_running", "no_longer_running",
                              "refused", "stopped", "timed_out"}]
  /\ signalled \subseteq {"prover", "other"}
  /\ orderly \in BOOLEAN

\* stop-prover.sh can reach every prover that lives: the PID file names it,
\* unless the start that launched it is about to write the file.  So there is
\* never more than one, whatever ends by itself, is refused, is killed, fails
\* to start or outlives the ten polls of a stop, and whoever gets its PID
\* afterwards.  Only two things can break this: scripts side by side, which
\* take no lock, and a start killed before it has named its prover.
NoOrphan ==
  orderly =>
    \A p \in Pids :
      proc[p] = "prover" =>
        pidFile = p \/ \E s \in Starts : pc[s] \in Naming /\ pid[s] = p

\* stop-prover.sh signals no process but a prover: not one that has the PID
\* of a prover that ended and left its file (stop-prover.sh, on "refusing to
\* stop it"), even with other scripts at work on the same file.
OnlyProverSignalled == signalled \subseteq {"prover"}

\* What a script under way relies on, alone or not.
StepInv(s) ==
  /\ pc[s] \in {"probe", "write", "printf", "confirm", "args", "kill", "poll"} => pid[s] \in Pids
  /\ pc[s] \in {"launch", "write", "printf", "confirm"} => s \in Starts
  /\ pc[s] = "remove" /\ outcome[s] = "none" => s \in Starts
  /\ pc[s] # "exited" => polls[s] < MaxPolls
  /\ pc[s] = "kill" => proc[pid[s]] # "other"

\* What it also relies on as long as all is orderly.
FileInv(s) ==
  /\ pc[s] \in {"probe", "confirm", "args", "kill", "poll"} => pid[s] = pidFile
  /\ pc[s] \in {"launch", "write"} => pidFile = NoPid
  /\ pc[s] = "printf" => pidFile = NotAPid
  /\ pc[s] = "remove" /\ pidFile \in Pids => proc[pidFile] # "prover"

OneAtATime ==
  \A s, t \in Scripts : s # t => pc[s] \in Resting \/ pc[t] \in Resting

ScriptsInv ==
  /\ TypeOK /\ OnlyProverSignalled /\ NoOrphan
  /\ \A s \in Scripts : StepInv(s)
  /\ orderly => OneAtATime /\ \A s \in Scripts : FileInv(s)

\* What stop-prover.sh says when it exits with code 0, "not_running", "no
\* longer running" or "stopped", is so: no prover lives, not even one that
\* another start had launched and the PID file does not name.
StopTellsTruth ==
  [][\A s \in Stops :
       (/\ orderly' /\ pc[s] # "exited" /\ pc'[s] = "exited"
        /\ outcome'[s] \in {"not_running", "no_longer_running", "stopped"})
          => \A p \in Pids : proc[p] # "prover"]_vars

\* What start-prover.sh:15 says of the process it found, "Prover is already
\* running", is so.
RunningIsProver ==
  [][\A s \in Starts :
       outcome'[s] = "already_running" /\ outcome[s] = "none"
         => proc[pid[s]] = "prover"]_vars
=============================================================================
