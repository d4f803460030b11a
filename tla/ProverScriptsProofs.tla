------------------------ MODULE ProverScriptsProofs -------------------------
(***************************************************************************)
(* Proofs that orderly scripts never lose sight of a prover, that a stop   *)
(* which reports success tells the truth, and that no script signals       *)
(* anything but a prover, for any number of scripts, processes and polls.  *)
(***************************************************************************)
EXTENDS ProverScripts, TLAPS

OthersRest(s) == \A t \in Scripts \ {s} : pc[t] \in Resting

\* A step of script s leaves the other scripts where they are, and starts
\* nothing but provers.
OnlyMoves(s) ==
  /\ \A t \in Scripts \ {s} :
       pc'[t] = pc[t] /\ pid'[t] = pid[t] /\ polls'[t] = polls[t] /\ outcome'[t] = outcome[t]
  /\ \A p \in Pids : proc'[p] = proc[p] \/ proc'[p] = "prover"

-----------------------------------------------------------------------------
\* With no prover and no PID file, no prover is lost.
LEMMA InitEstablishesScriptsInv == Init => ScriptsInv
<1> SUFFICES ASSUME Init PROVE ScriptsInv
  OBVIOUS
<1> USE ScriptsAssumption DEF Init, NoPid, NotAPid, Resting
<1>1. TypeOK
  BY DEF TypeOK, ScriptsAssumption
<1>2. OnlyProverSignalled /\ NoOrphan
  BY DEF OnlyProverSignalled, NoOrphan
<1>3. \A s \in Scripts : StepInv(s) /\ FileInv(s)
  BY DEF StepInv, FileInv, ScriptsAssumption
<1>4. OneAtATime
  BY DEF OneAtATime
<1> QED
  BY <1>1, <1>2, <1>3, <1>4 DEF ScriptsInv

\* While all is orderly, a script under way is the only one.
LEMMA UnderWayIsAlone ==
  ASSUME ScriptsInv, orderly, NEW s \in Scripts, pc[s] \notin Resting
  PROVE  OthersRest(s)
  BY DEF ScriptsInv, OneAtATime, OthersRest

\* A step of one script need only answer for that script.
LEMMA OneScriptMoves ==
  ASSUME ScriptsInv, NEW s \in Scripts, OnlyMoves(s),
         orderly' => orderly /\ OthersRest(s),
         TypeOK', OnlyProverSignalled', NoOrphan', StepInv(s)', orderly' => FileInv(s)'
  PROVE  ScriptsInv'
<1>1. ASSUME NEW t \in Scripts \ {s}
      PROVE  StepInv(t)'
  <2>1. StepInv(t) /\ pid[t] \in Pids \cup {NoPid}
    BY DEF ScriptsInv, TypeOK
  <2>2. pc'[t] = pc[t] /\ pid'[t] = pid[t] /\ polls'[t] = polls[t] /\ outcome'[t] = outcome[t]
    BY DEF OnlyMoves
  <2>3. pc[t] = "kill" => proc'[pid[t]] # "other"
    BY <2>1 DEF OnlyMoves, StepInv
  <2> QED
    BY <2>1, <2>2, <2>3 DEF StepInv
<1>2. ASSUME NEW t \in Scripts \ {s}, orderly'
      PROVE  FileInv(t)' /\ pc'[t] \in Resting
  <2>1. pc'[t] \in Resting
    BY <1>2 DEF OnlyMoves, OthersRest
  <2> QED
    BY <2>1 DEF FileInv, Resting
<1>3. orderly' => OneAtATime'
  BY <1>2 DEF OneAtATime
<1> QED
  BY <1>1, <1>2, <1>3 DEF ScriptsInv

\* A step that makes no prover and lets no script off that is about to name
\* one leaves no orphan if it keeps the file, or if the file named none.
LEMMA FileStillNames ==
  ASSUME NoOrphan, proc' = proc, orderly' => orderly,
         orderly' => \A t \in Starts : pc[t] \in Naming =>
                       \/ pc'[t] \in Naming /\ pid'[t] = pid[t]
                       \/ pidFile' = pid[t]
                       \/ proc[pid[t]] # "prover",
         orderly' => pidFile' = pidFile \/ (pidFile \in Pids => proc[pidFile] # "prover")
  PROVE  NoOrphan'
  BY DEF NoOrphan

\* A step of one script that touches neither the file nor a process.
LEMMA ScriptLooksOn ==
  ASSUME ScriptsInv, NEW s \in Scripts, UNCHANGED <<proc, pidFile>>, OnlyMoves(s),
         orderly' => orderly /\ OthersRest(s),
         orderly' /\ pc[s] \in Naming => proc[pid[s]] # "prover",
         TypeOK', OnlyProverSignalled', StepInv(s)', orderly' => FileInv(s)'
  PROVE  ScriptsInv'
<1>1. orderly' => \A t \in Starts : pc[t] \in Naming =>
                    (pc'[t] \in Naming /\ pid'[t] = pid[t]) \/ proc[pid[t]] # "prover"
  BY DEF OnlyMoves, Scripts
<1>2. NoOrphan'
  BY <1>1, FileStillNames DEF ScriptsInv
<1> QED
  BY <1>2, OneScriptMoves

-----------------------------------------------------------------------------
(* One lemma for each step of a script.                                    *)

\* The first look at the file, which alone can end the orderliness.
LEMMA LookForFilePreservesScriptsInv ==
  ASSUME ScriptsInv, NEW s \in Scripts, LookForFile(s)
  PROVE  ScriptsInv'
<1> USE ScriptsAssumption DEF LookForFile, NoPid, NotAPid, Resting, Naming, Goto, Exit, RemoveAndExit
<1>0. TypeOK /\ OnlyProverSignalled /\ StepInv(s) /\ (orderly => FileInv(s))
  BY DEF ScriptsInv
<1>1. orderly' => orderly /\ OthersRest(s)
  BY DEF OthersRest
<1>2. UNCHANGED <<proc, pidFile>> /\ OnlyMoves(s)
  BY <1>0 DEF TypeOK, OnlyMoves
<1>3. TypeOK' /\ OnlyProverSignalled'
  BY <1>0 DEF TypeOK, OnlyProverSignalled
<1>4. StepInv(s)'
  BY <1>0 DEF TypeOK, StepInv
<1>5. orderly' => FileInv(s)'
  BY <1>0 DEF TypeOK, StepInv, FileInv
<1> QED
  BY <1>1, <1>2, <1>3, <1>4, <1>5, ScriptLooksOn

\* The PID read is the one in the file.
LEMMA ReadPidPreservesScriptsInv ==
  ASSUME ScriptsInv, NEW s \in Scripts, ReadPid(s)
  PROVE  ScriptsInv'
<1> USE ScriptsAssumption DEF ReadPid, NoPid, NotAPid, Resting, Naming, Goto, Exit, RemoveAndExit
<1>0. TypeOK /\ OnlyProverSignalled /\ StepInv(s) /\ (orderly => FileInv(s))
  BY DEF ScriptsInv
<1>1. orderly' => orderly /\ OthersRest(s)
  BY UnderWayIsAlone
<1>2. UNCHANGED <<proc, pidFile>> /\ OnlyMoves(s)
  BY <1>0 DEF TypeOK, OnlyMoves
<1>3. TypeOK' /\ OnlyProverSignalled'
  BY <1>0 DEF TypeOK, OnlyProverSignalled
<1>4. StepInv(s)'
  BY <1>0 DEF TypeOK, StepInv
<1>5. orderly' => FileInv(s)'
  BY <1>0 DEF TypeOK, StepInv, FileInv
<1> QED
  BY <1>1, <1>2, <1>3, <1>4, <1>5, ScriptLooksOn

\* A start that finds no process behind the file's PID may remove the file.
LEMMA ProbeOldPreservesScriptsInv ==
  ASSUME ScriptsInv, NEW s \in Scripts, ProbeOld(s)
  PROVE  ScriptsInv'
<1> USE ScriptsAssumption DEF ProbeOld, NoPid, NotAPid, Resting, Naming, Goto, Exit, RemoveAndExit, Alive
<1>0. TypeOK /\ OnlyProverSignalled /\ StepInv(s) /\ (orderly => FileInv(s))
  BY DEF ScriptsInv
<1>1. orderly' => orderly /\ OthersRest(s)
  BY UnderWayIsAlone
<1>2. UNCHANGED <<proc, pidFile>> /\ OnlyMoves(s)
  BY <1>0 DEF TypeOK, OnlyMoves
<1>3. TypeOK' /\ OnlyProverSignalled'
  BY <1>0 DEF TypeOK, OnlyProverSignalled
<1>4. StepInv(s)'
  BY <1>0 DEF TypeOK, StepInv
<1>5. orderly' => FileInv(s)'
  BY <1>0 DEF TypeOK, StepInv, FileInv
<1> QED
  BY <1>1, <1>2, <1>3, <1>4, <1>5, ScriptLooksOn

\* So may a start whose own prover is gone.
LEMMA ProbeStartedPreservesScriptsInv ==
  ASSUME ScriptsInv, NEW s \in Scripts, ProbeStarted(s)
  PROVE  ScriptsInv'
<1> USE ScriptsAssumption DEF ProbeStarted, NoPid, NotAPid, Resting, Naming, Goto, Exit, RemoveAndExit, Alive
<1>0. TypeOK /\ OnlyProverSignalled /\ StepInv(s) /\ (orderly => FileInv(s))
  BY DEF ScriptsInv
<1>1. orderly' => orderly /\ OthersRest(s)
  BY UnderWayIsAlone
<1>2. UNCHANGED <<proc, pidFile>> /\ OnlyMoves(s)
  BY <1>0 DEF TypeOK, OnlyMoves
<1>3. TypeOK' /\ OnlyProverSignalled'
  BY <1>0 DEF TypeOK, OnlyProverSignalled
<1>4. StepInv(s)'
  BY <1>0 DEF TypeOK, StepInv
<1>5. orderly' => FileInv(s)'
  BY <1>0 DEF TypeOK, StepInv, FileInv
<1> QED
  BY <1>1, <1>2, <1>3, <1>4, <1>5, ScriptLooksOn

\* And a stop that finds no process.
LEMMA ProbeRunningPreservesScriptsInv ==
  ASSUME ScriptsInv, NEW s \in Scripts, ProbeRunning(s)
  PROVE  ScriptsInv'
<1> USE ScriptsAssumption DEF ProbeRunning, NoPid, NotAPid, Resting, Naming, Goto, Exit, RemoveAndExit, Alive
<1>0. TypeOK /\ OnlyProverSignalled /\ StepInv(s) /\ (orderly => FileInv(s))
  BY DEF ScriptsInv
<1>1. orderly' => orderly /\ OthersRest(s)
  BY UnderWayIsAlone
<1>2. UNCHANGED <<proc, pidFile>> /\ OnlyMoves(s)
  BY <1>0 DEF TypeOK, OnlyMoves
<1>3. TypeOK' /\ OnlyProverSignalled'
  BY <1>0 DEF TypeOK, OnlyProverSignalled
<1>4. StepInv(s)'
  BY <1>0 DEF TypeOK, StepInv
<1>5. orderly' => FileInv(s)'
  BY <1>0 DEF TypeOK, StepInv, FileInv
<1> QED
  BY <1>1, <1>2, <1>3, <1>4, <1>5, ScriptLooksOn

\* Only a prover gets as far as the kill.
LEMMA CheckArgsPreservesScriptsInv ==
  ASSUME ScriptsInv, NEW s \in Scripts, CheckArgs(s)
  PROVE  ScriptsInv'
<1> USE ScriptsAssumption DEF CheckArgs, NoPid, NotAPid, Resting, Naming, Goto, Exit, RemoveAndExit
<1>0. TypeOK /\ OnlyProverSignalled /\ StepInv(s) /\ (orderly => FileInv(s))
  BY DEF ScriptsInv
<1>1. orderly' => orderly /\ OthersRest(s)
  BY UnderWayIsAlone
<1>2. UNCHANGED <<proc, pidFile>> /\ OnlyMoves(s)
  BY <1>0 DEF TypeOK, OnlyMoves
<1>3. TypeOK' /\ OnlyProverSignalled'
  BY <1>0 DEF TypeOK, OnlyProverSignalled
<1>4. StepInv(s)'
  BY <1>0 DEF TypeOK, StepInv
<1>5. orderly' => FileInv(s)'
  BY <1>0 DEF TypeOK, StepInv, FileInv
<1> QED
  BY <1>1, <1>2, <1>3, <1>4, <1>5, ScriptLooksOn

\* And only a prover is signalled.
LEMMA KillPreservesScriptsInv ==
  ASSUME ScriptsInv, NEW s \in Scripts, Kill(s)
  PROVE  ScriptsInv'
<1> USE ScriptsAssumption DEF Kill, NoPid, NotAPid, Resting, Naming, Goto, Exit, RemoveAndExit, Alive
<1>0. TypeOK /\ OnlyProverSignalled /\ StepInv(s) /\ (orderly => FileInv(s))
  BY DEF ScriptsInv
<1>1. orderly' => orderly /\ OthersRest(s)
  BY UnderWayIsAlone
<1>2. UNCHANGED <<proc, pidFile>> /\ OnlyMoves(s)
  BY <1>0 DEF TypeOK, OnlyMoves
<1>3. TypeOK' /\ OnlyProverSignalled'
  <2>1. proc[pid[s]] # "free" => proc[pid[s]] = "prover"
    BY <1>0 DEF TypeOK, StepInv
  <2>2. signalled' \subseteq {"prover"}
    BY <1>0, <2>1 DEF OnlyProverSignalled
  <2>3. pc' = [pc EXCEPT ![s] = "poll"] \/ pc' = [pc EXCEPT ![s] = "exited"]
    OBVIOUS
  <2> QED
    BY <1>0, <2>2, <2>3 DEF TypeOK, OnlyProverSignalled
<1>4. StepInv(s)'
  BY <1>0 DEF TypeOK, StepInv
<1>5. orderly' => FileInv(s)'
  BY <1>0 DEF TypeOK, StepInv, FileInv
<1> QED
  BY <1>1, <1>2, <1>3, <1>4, <1>5, ScriptLooksOn

\* The file is given up only once the prover is gone.
LEMMA PollGonePreservesScriptsInv ==
  ASSUME ScriptsInv, NEW s \in Scripts, PollGone(s)
  PROVE  ScriptsInv'
<1> USE ScriptsAssumption DEF PollGone, NoPid, NotAPid, Resting, Naming, Goto, Exit, RemoveAndExit, Alive
<1>0. TypeOK /\ OnlyProverSignalled /\ StepInv(s) /\ (orderly => FileInv(s))
  BY DEF ScriptsInv
<1>1. orderly' => orderly /\ OthersRest(s)
  BY UnderWayIsAlone
<1>2. UNCHANGED <<proc, pidFile>> /\ OnlyMoves(s)
  BY <1>0 DEF TypeOK, OnlyMoves
<1>3. TypeOK' /\ OnlyProverSignalled'
  <2>1. polls[s] \in 0 .. MaxPolls /\ polls[s] < MaxPolls
    BY <1>0 DEF TypeOK, StepInv
  <2>2. polls' \in [Scripts -> 0 .. MaxPolls]
    <3>1. polls[s] + 1 \in 0 .. MaxPolls
      BY <2>1 DEF ScriptsAssumption
    <3> QED
      BY <1>0, <3>1 DEF TypeOK
  <2>3. pc' \in [Scripts -> {"poll", "remove", "exited"} \cup {pc[t] : t \in Scripts}]
    BY <1>0 DEF TypeOK
  <2> QED
    BY <1>0, <2>2, <2>3 DEF TypeOK, OnlyProverSignalled
<1>4. StepInv(s)'
  BY <1>0 DEF TypeOK, StepInv
<1>5. orderly' => FileInv(s)'
  BY <1>0 DEF TypeOK, StepInv, FileInv
<1> QED
  BY <1>1, <1>2, <1>3, <1>4, <1>5, ScriptLooksOn

\* A script that is killed was not about to name a prover, or is disorderly.
LEMMA InterruptPreservesScriptsInv ==
  ASSUME ScriptsInv, NEW s \in Scripts, Interrupt(s)
  PROVE  ScriptsInv'
<1> USE ScriptsAssumption DEF Interrupt, NoPid, NotAPid, Resting, Naming, Goto, Exit, RemoveAndExit
<1>0. TypeOK /\ OnlyProverSignalled /\ StepInv(s) /\ (orderly => FileInv(s))
  BY DEF ScriptsInv
<1>1. orderly' => orderly /\ OthersRest(s)
  BY UnderWayIsAlone
<1>2. UNCHANGED <<proc, pidFile>> /\ OnlyMoves(s)
  BY <1>0 DEF TypeOK, OnlyMoves
<1>3. TypeOK' /\ OnlyProverSignalled'
  BY <1>0 DEF TypeOK, OnlyProverSignalled
<1>4. StepInv(s)'
  BY <1>0 DEF TypeOK, StepInv
<1>5. orderly' => FileInv(s)'
  BY <1>0 DEF TypeOK, StepInv, FileInv
<1> QED
  BY <1>1, <1>2, <1>3, <1>4, <1>5, ScriptLooksOn

\* The file removed named no live prover.
LEMMA RemoveFilePreservesScriptsInv ==
  ASSUME ScriptsInv, NEW s \in Scripts, RemoveFile(s)
  PROVE  ScriptsInv'
<1> USE ScriptsAssumption DEF RemoveFile, NoPid, NotAPid, Resting, Naming, Goto
<1>0. TypeOK /\ OnlyProverSignalled /\ StepInv(s) /\ (orderly => FileInv(s)) /\ NoOrphan
  BY DEF ScriptsInv
<1>1. orderly' => orderly /\ OthersRest(s)
  BY UnderWayIsAlone
<1>2. OnlyMoves(s)
  BY <1>0 DEF TypeOK, OnlyMoves
<1>3. TypeOK' /\ OnlyProverSignalled'
  BY <1>0 DEF TypeOK, OnlyProverSignalled, StepInv, ScriptsAssumption
<1>4. StepInv(s)'
  BY <1>0 DEF TypeOK, StepInv
<1>5. orderly' => FileInv(s)'
  BY <1>0 DEF TypeOK, StepInv, FileInv
<1>6. NoOrphan'
  <2>1. orderly => \A t \in Starts : pc[t] \in Naming => t = s
    BY <1>1 DEF OthersRest, Scripts
  <2> QED
    BY <1>0, <2>1 DEF TypeOK, NoOrphan, FileInv, StepInv
<1> QED
  BY <1>1, <1>2, <1>3, <1>4, <1>5, <1>6, OneScriptMoves

\* A prover is launched when there is no other, and its start is about to name
\* it.
LEMMA LaunchPreservesScriptsInv ==
  ASSUME ScriptsInv, NEW s \in Scripts, NEW p \in Pids, Launch(s, p)
  PROVE  ScriptsInv'
<1> USE ScriptsAssumption DEF Launch, Available, NoPid, NotAPid, Resting, Naming, Goto
<1>0. TypeOK /\ OnlyProverSignalled /\ StepInv(s) /\ (orderly => FileInv(s)) /\ NoOrphan
  BY DEF ScriptsInv
<1>1. orderly' => orderly /\ OthersRest(s)
  BY UnderWayIsAlone
<1>2. OnlyMoves(s)
  BY <1>0 DEF TypeOK, OnlyMoves
<1>3. TypeOK' /\ OnlyProverSignalled'
  BY <1>0 DEF TypeOK, OnlyProverSignalled, StepInv, ScriptsAssumption
<1>4. StepInv(s)'
  BY <1>0 DEF TypeOK, StepInv
<1>5. orderly' => FileInv(s)'
  BY <1>0 DEF TypeOK, StepInv, FileInv
<1>6. NoOrphan'
  <2>1. orderly => \A t \in Starts : pc[t] \in Naming => t = s
    BY <1>1 DEF OthersRest, Scripts
  <2> QED
    BY <1>0, <2>1 DEF TypeOK, NoOrphan, FileInv, StepInv
<1> QED
  BY <1>1, <1>2, <1>3, <1>4, <1>5, <1>6, OneScriptMoves

\* The emptied file named no prover before either.
LEMMA EmptyFilePreservesScriptsInv ==
  ASSUME ScriptsInv, NEW s \in Scripts, EmptyFile(s)
  PROVE  ScriptsInv'
<1> USE ScriptsAssumption DEF EmptyFile, NoPid, NotAPid, Resting, Naming, Goto
<1>0. TypeOK /\ OnlyProverSignalled /\ StepInv(s) /\ (orderly => FileInv(s)) /\ NoOrphan
  BY DEF ScriptsInv
<1>1. orderly' => orderly /\ OthersRest(s)
  BY UnderWayIsAlone
<1>2. OnlyMoves(s)
  BY <1>0 DEF TypeOK, OnlyMoves
<1>3. TypeOK' /\ OnlyProverSignalled'
  BY <1>0 DEF TypeOK, OnlyProverSignalled, StepInv, ScriptsAssumption
<1>4. StepInv(s)'
  BY <1>0 DEF TypeOK, StepInv
<1>5. orderly' => FileInv(s)'
  BY <1>0 DEF TypeOK, StepInv, FileInv
<1>6. NoOrphan'
  <2>1. orderly => \A t \in Starts : pc[t] \in Naming => t = s
    BY <1>1 DEF OthersRest, Scripts
  <2> QED
    BY <1>0, <2>1 DEF TypeOK, NoOrphan, FileInv, StepInv
<1> QED
  BY <1>1, <1>2, <1>3, <1>4, <1>5, <1>6, OneScriptMoves

\* The file names the only prover there is.
LEMMA WritePidPreservesScriptsInv ==
  ASSUME ScriptsInv, NEW s \in Scripts, WritePid(s)
  PROVE  ScriptsInv'
<1> USE ScriptsAssumption DEF WritePid, NoPid, NotAPid, Resting, Naming, Goto
<1>0. TypeOK /\ OnlyProverSignalled /\ StepInv(s) /\ (orderly => FileInv(s)) /\ NoOrphan
  BY DEF ScriptsInv
<1>1. orderly' => orderly /\ OthersRest(s)
  BY UnderWayIsAlone
<1>2. OnlyMoves(s)
  BY <1>0 DEF TypeOK, OnlyMoves
<1>3. TypeOK' /\ OnlyProverSignalled'
  BY <1>0 DEF TypeOK, OnlyProverSignalled, StepInv, ScriptsAssumption
<1>4. StepInv(s)'
  BY <1>0 DEF TypeOK, StepInv
<1>5. orderly' => FileInv(s)'
  BY <1>0 DEF TypeOK, StepInv, FileInv
<1>6. NoOrphan'
  <2>1. orderly => \A t \in Starts : pc[t] \in Naming => t = s
    BY <1>1 DEF OthersRest, Scripts
  <2> QED
    BY <1>0, <2>1 DEF TypeOK, NoOrphan, FileInv, StepInv
<1> QED
  BY <1>1, <1>2, <1>3, <1>4, <1>5, <1>6, OneScriptMoves

-----------------------------------------------------------------------------
\* The system's own processes come and go without harm.
LEMMA SystemPreservesScriptsInv ==
  ASSUME ScriptsInv, NEW p \in Pids, Ends(p) \/ OtherBegins(p)
  PROVE  ScriptsInv'
<1> USE DEF Ends, OtherBegins, Alive
<1>0. TypeOK /\ OnlyProverSignalled /\ NoOrphan
  BY DEF ScriptsInv
<1>1. TypeOK' /\ OnlyProverSignalled'
  BY <1>0 DEF TypeOK, OnlyProverSignalled
<1>2. proc' \in [Pids -> {"free", "prover", "other"}]
      /\ \A q \in Pids : proc'[q] = "prover" => proc[q] = "prover"
  BY <1>0 DEF TypeOK
<1>3. NoOrphan'
  BY <1>0, <1>2 DEF NoOrphan
<1>4. ASSUME NEW s \in Scripts
      PROVE  StepInv(s)' /\ (orderly' => FileInv(s)')
  <2>1. StepInv(s) /\ (orderly => FileInv(s)) /\ pid[s] \in Pids \cup {NoPid}
    BY DEF ScriptsInv, TypeOK
  <2>2. pc[s] = "kill" => proc'[pid[s]] # "other"
    BY <1>0, <2>1 DEF TypeOK, StepInv, Available
  <2>3. StepInv(s)'
    BY <2>1, <2>2 DEF StepInv
  <2>4. orderly' => FileInv(s)'
    BY <1>2, <2>1 DEF FileInv
  <2> QED
    BY <2>3, <2>4
<1>5. orderly' => OneAtATime'
  BY DEF ScriptsInv, OneAtATime
<1> QED
  BY <1>1, <1>3, <1>4, <1>5 DEF ScriptsInv

\* Every step of a script and of the system keeps the inductive invariant.
LEMMA NextPreservesScriptsInv == ScriptsInv /\ [Next]_vars => ScriptsInv'
<1> SUFFICES ASSUME ScriptsInv, [Next]_vars
             PROVE  ScriptsInv'
  OBVIOUS
<1>1. ASSUME NEW s \in Scripts, Step(s)
      PROVE  ScriptsInv'
  BY <1>1, LookForFilePreservesScriptsInv, ReadPidPreservesScriptsInv, RemoveFilePreservesScriptsInv,
     InterruptPreservesScriptsInv, ProbeOldPreservesScriptsInv, LaunchPreservesScriptsInv,
     EmptyFilePreservesScriptsInv, WritePidPreservesScriptsInv, ProbeStartedPreservesScriptsInv,
     ProbeRunningPreservesScriptsInv, CheckArgsPreservesScriptsInv, KillPreservesScriptsInv,
     PollGonePreservesScriptsInv DEF Step
<1>2. ASSUME NEW p \in Pids, Ends(p) \/ OtherBegins(p)
      PROVE  ScriptsInv'
  BY <1>2, SystemPreservesScriptsInv
<1>3. CASE UNCHANGED vars
  <2>1. TypeOK' /\ OnlyProverSignalled' /\ NoOrphan'
    BY <1>3 DEF vars, ScriptsInv, TypeOK, OnlyProverSignalled, NoOrphan
  <2>2. \A s \in Scripts : StepInv(s)'
    BY <1>3 DEF vars, ScriptsInv, StepInv
  <2>3. orderly' => OneAtATime' /\ \A s \in Scripts : FileInv(s)'
    BY <1>3 DEF vars, ScriptsInv, OneAtATime, FileInv
  <2> QED
    BY <2>1, <2>2, <2>3 DEF ScriptsInv
<1> QED
  BY <1>1, <1>2, <1>3 DEF Next

\* The steps of both scripts, of killed scripts, of provers and of anyone's
\* processes keep what each script relies on.
THEOREM ScriptsInvariance == Spec => []ScriptsInv
  BY InitEstablishesScriptsInv, NextPreservesScriptsInv, PTL DEF Spec

\* As long as scripts are not run side by side and no start is killed before
\* it has named its prover, stop-prover.sh can reach every prover that lives,
\* and so there is never a second one.
THEOREM NoProverIsOrphaned == Spec => []NoOrphan
<1>1. ScriptsInv => NoOrphan
  BY DEF ScriptsInv
<1> QED
  BY <1>1, ScriptsInvariance, PTL

\* stop-prover.sh sends its signal to provers only, whatever the order in
\* which scripts, provers and other processes take their steps.
THEOREM OnlyProversAreSignalled == Spec => []OnlyProverSignalled
<1>1. ScriptsInv => OnlyProverSignalled
  BY DEF ScriptsInv
<1> QED
  BY <1>1, ScriptsInvariance, PTL

-----------------------------------------------------------------------------
\* With all others resting and no prover in the file, there is none.
LEMMA NoProverLives ==
  ASSUME ScriptsInv, orderly, NEW s \in Stops, OthersRest(s), pc[s] \notin Naming,
         pidFile \in Pids => proc[pidFile] # "prover"
  PROVE  \A p \in Pids : proc[p] # "prover"
<1>1. \A t \in Starts : pc[t] \notin Naming
  BY ScriptsAssumption DEF ScriptsAssumption, OthersRest, Scripts, Resting, Naming
<1> QED
  BY <1>1 DEF ScriptsInv, NoOrphan

\* stop-prover.sh exits with code 0 only when no prover lives.
THEOREM StopIsTruthful == Spec => StopTellsTruth
<1> DEFINE Says(s) == /\ orderly' /\ pc[s] # "exited" /\ pc'[s] = "exited"
                      /\ outcome'[s] \in {"not_running", "no_longer_running", "stopped"}
           Truth == \A s \in Stops : Says(s) => \A p \in Pids : proc[p] # "prover"
<1>1. ScriptsInv /\ [Next]_vars => [Truth]_vars
  <2> SUFFICES ASSUME ScriptsInv, Next, NEW s \in Stops, Says(s)
               PROVE  \A p \in Pids : proc[p] # "prover"
    OBVIOUS
  <2> USE DEF NoPid, NotAPid, Resting, Naming, Goto, Exit, RemoveAndExit
  <2>0. s \in Scripts /\ TypeOK
    BY DEF Scripts, ScriptsInv
  <2>1. PICK t \in Scripts : Step(t)
    BY DEF Next, Ends, OtherBegins
  <2>2. CASE LookForFile(s)
    <3>1. orderly /\ OthersRest(s) /\ pidFile = NoPid
      BY <2>0, <2>2 DEF LookForFile, OthersRest, TypeOK
    <3> QED
      BY <2>2, <3>1, NoProverLives, ScriptsAssumption DEF LookForFile, ScriptsAssumption
  <2>3. CASE RemoveFile(s)
    <3>1. orderly /\ OthersRest(s) /\ FileInv(s)
      BY <2>0, <2>3, UnderWayIsAlone DEF RemoveFile, ScriptsInv
    <3> QED
      BY <2>3, <3>1, NoProverLives DEF RemoveFile, FileInv
  <2>4. t = s
    BY <2>0, <2>1 DEF TypeOK, Step, LookForFile, ReadPid, RemoveFile, Interrupt, ProbeOld, Launch,
       EmptyFile, WritePid, ProbeStarted, ProbeRunning, CheckArgs, Kill, PollGone
  <2>5. LookForFile(s) \/ RemoveFile(s)
    <3>1. ~ReadPid(s) /\ ~Interrupt(s)
      BY <2>0 DEF TypeOK, ReadPid, Interrupt
    <3>2. ~ProbeOld(s) /\ ~ProbeStarted(s) /\ ~ProbeRunning(s)
      BY <2>0, ScriptsAssumption DEF TypeOK, ProbeOld, ProbeStarted, ProbeRunning, ScriptsAssumption
    <3>3. (\A p \in Pids : ~Launch(s, p)) /\ ~EmptyFile(s) /\ ~WritePid(s)
      BY <2>0 DEF TypeOK, Launch, EmptyFile, WritePid
    <3>4. ~CheckArgs(s) /\ ~Kill(s) /\ ~PollGone(s)
      BY <2>0 DEF TypeOK, CheckArgs, Kill, PollGone
    <3> QED
      BY <2>1, <2>4, <3>1, <3>2, <3>3, <3>4 DEF Step
  <2> QED
    BY <2>2, <2>3, <2>5
<1> QED
  BY <1>1, ScriptsInvariance, PTL DEF Spec, StopTellsTruth
=============================================================================
