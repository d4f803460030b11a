-------------------------- MODULE MCProverScripts ---------------------------
(***************************************************************************)
(* Starts and stops of a prover on a system with few PIDs, so that they    *)
(* are given out again and again.                                          *)
(***************************************************************************)
EXTENDS ProverScripts, TLC

CONSTANTS start1, start2, stop1, stop2

MCPids == 1 .. 3
MCStarts == {start1, start2}
MCStops == {stop1, stop2}

ScriptSymmetry == Permutations(MCStarts) \cup Permutations(MCStops)
=============================================================================
