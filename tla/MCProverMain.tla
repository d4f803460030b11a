---------------------------- MODULE MCProverMain ----------------------------
(***************************************************************************)
(* Up to four runs, of two guest programs: a run can be interrupted after  *)
(* another succeeded, and be followed by one that fails and one that does  *)
(* not.                                                                    *)
(***************************************************************************)
EXTENDS ProverMain

CONSTANTS oldGuest, newGuest

MCElfs == {oldGuest, newGuest}
=============================================================================
