-------------------------- MODULE MCProverService ---------------------------
(***************************************************************************)
(* Two starts and two stops on a system with two PIDs, so that a stop that *)
(* timed out is tried again and the second run has the first one's PID or  *)
(* another.                                                                *)
(***************************************************************************)
EXTENDS ProverService, TLC

CONSTANTS start1, start2, stop1, stop2, guest

MCPids == 1 .. 2
MCStarts == {start1, start2}
MCStops == {stop1, stop2}
MCElfs == {guest}

ScriptSymmetry == Permutations(MCStarts) \cup Permutations(MCStops)
=============================================================================
