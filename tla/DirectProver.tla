---------------------------- MODULE DirectProver ----------------------------
(***************************************************************************)
(* DirectProver::generate_proof (src/direct.rs) under the cancellation     *)
(* contract of AttestationProofProvider (src/types.rs): several calls on   *)
(* one shared prover, the tokens that cancel them, callers that drop a     *)
(* call's future, the jobs of SP1's worker pool, and the guest program     *)
(* (verifier/src/bin/nitro-verifier-guest.rs) each job runs.               *)
(*                                                                         *)
(* The future is lazy: nothing runs before the first poll, and the first   *)
(* poll runs up to the await on the proof, so a call can be dropped before *)
(* its first poll or while it awaits, never in between.  A token may fire  *)
(* at any time, from another thread.                                       *)
(*                                                                         *)
(* The host verifies with the verifier it is linked with; the job runs the *)
(* one in the ELF the prover was given.  They may differ: each is known by *)
(* the attestations it accepts (AttestationVerifier says which those are). *)
(***************************************************************************)
EXTENDS FiniteSets

CONSTANTS
  Calls,          \* calls of generate_proof
  Attestations,   \* attestation documents
  Tokens,         \* cancellation tokens; calls may share one
  HostAccepts,    \* attestations the linked verifier accepts
  GuestAccepts    \* attestations the guest ELF accepts

ASSUME HostAssumption  == HostAccepts \subseteq Attestations
ASSUME GuestAssumption == GuestAccepts \subseteq Attestations

VARIABLES
  att, token,   \* each call's arguments, sets with at most one element
  pc,           \* where each call stands
  cancelled,    \* the tokens fired
  job,          \* the SP1 job of each call
  result        \* what each call returned, "none" before

vars == <<att, token, pc, cancelled, job, result>>

States == {"idle", "unpolled", "verifying", "awaiting", "returned", "panicked", "dropped"}
Ended == {"returned", "panicked", "dropped"}
Jobs == {"none", "running", "proved", "failed"}
Results == {"none", "ok", "Sp1", "Verifier"}

Init ==
  /\ att = [c \in Calls |-> {}]
  /\ token = [c \in Calls |-> {}]
  /\ pc = [c \in Calls |-> "idle"]
  /\ cancelled = {}
  /\ job = [c \in Calls |-> "none"]
  /\ result = [c \in Calls |-> "none"]

-----------------------------------------------------------------------------
(* The caller.                                                             *)

\* The caller makes the future, of generate_proof itself or of
\* generate_proof_for_signer, which ignores the signer and delegates.
Call(c, a, t) ==
  /\ pc[c] = "idle"
  /\ att' = [att EXCEPT ![c] = {a}]
  /\ token' = [token EXCEPT ![c] = {t}]
  /\ pc' = [pc EXCEPT ![c] = "unpolled"]
  /\ UNCHANGED <<cancelled, job, result>>

Fire(t) ==
  /\ cancelled' = cancelled \cup {t}
  /\ UNCHANGED <<att, token, pc, job, result>>

\* Dropping the future abandons the await; the job, if any, goes on.
Drop(c) ==
  /\ pc[c] \in {"unpolled", "awaiting"}
  /\ pc' = [pc EXCEPT ![c] = "dropped"]
  /\ UNCHANGED <<att, token, cancelled, job, result>>

-----------------------------------------------------------------------------
(* generate_proof.                                                         *)

ReturnWith(c, r) ==
  /\ pc' = [pc EXCEPT ![c] = "returned"]
  /\ result' = [result EXCEPT ![c] = r]
  /\ UNCHANGED <<att, token, cancelled, job>>

\* Mutant of IsCancelled: the token is never polled.
NeverCancelled(c) == FALSE

IsCancelled(c) == token[c] \subseteq cancelled

ReturnEarly(c) ==
  /\ pc[c] = "unpolled"
  /\ IsCancelled(c)
  /\ ReturnWith(c, "Sp1")

Start(c) ==
  /\ pc[c] = "unpolled"
  /\ ~IsCancelled(c)
  /\ pc' = [pc EXCEPT ![c] = "verifying"]
  /\ UNCHANGED <<att, token, cancelled, job, result>>

\* Mutant of HostVerified: the host's verdict is not looked at.
HostUnchecked(c) == TRUE

HostVerified(c) == att[c] \subseteq HostAccepts

\* The token is not polled again between the verdict and the job.
Submit(c) ==
  /\ pc[c] = "verifying"
  /\ HostVerified(c)
  /\ pc' = [pc EXCEPT ![c] = "awaiting"]
  /\ job' = [job EXCEPT ![c] = "running"]
  /\ UNCHANGED <<att, token, cancelled, result>>

\* The verdict is unwrapped with expect.
HostRejects(c) ==
  /\ pc[c] = "verifying"
  /\ ~HostVerified(c)
  /\ pc' = [pc EXCEPT ![c] = "panicked"]
  /\ UNCHANGED <<att, token, cancelled, job, result>>

\* Mutant of Receive: a failed job is never handed back.
ReceiveProofOnly(c) ==
  /\ pc[c] = "awaiting"
  /\ job[c] = "proved"
  /\ ReturnWith(c, "ok")

Receive(c) ==
  /\ pc[c] = "awaiting"
  /\ job[c] \in {"proved", "failed"}
  /\ ReturnWith(c, IF job[c] = "proved" THEN "ok" ELSE "Sp1")

-----------------------------------------------------------------------------
(* SP1's worker pool, running the guest on the call's VerifierInput.       *)

GuestVerified(c) == att[c] \subseteq GuestAccepts

\* The guest commits its journal only if its verifier accepts.
JobProves(c) ==
  /\ job[c] = "running"
  /\ GuestVerified(c)
  /\ job' = [job EXCEPT ![c] = "proved"]
  /\ UNCHANGED <<att, token, pc, cancelled, result>>

\* The guest panics, or the prover fails for reasons of its own.
JobFails(c) ==
  /\ job[c] = "running"
  /\ job' = [job EXCEPT ![c] = "failed"]
  /\ UNCHANGED <<att, token, pc, cancelled, result>>

-----------------------------------------------------------------------------
Poll(c) == ReturnEarly(c) \/ Start(c) \/ Submit(c) \/ HostRejects(c) \/ Receive(c)
Work(c) == JobProves(c) \/ JobFails(c)

Next ==
  \/ \E c \in Calls, a \in Attestations, t \in Tokens : Call(c, a, t)
  \/ \E t \in Tokens : Fire(t)
  \/ \E c \in Calls : Drop(c) \/ Poll(c) \/ Work(c)

\* The runtime polls a task that is ready, and the worker pool finishes its
\* jobs.  No caller has to call, cancel or drop.
Spec ==
  Init /\ [][Next]_vars /\ \A c \in Calls : WF_vars(Poll(c)) /\ WF_vars(Work(c))

-----------------------------------------------------------------------------
(* Properties.                                                             *)

TypeOK ==
  /\ att \in [Calls -> SUBSET Attestations]
  /\ token \in [Calls -> SUBSET Tokens]
  /\ pc \in [Calls -> States]
  /\ cancelled \subseteq Tokens
  /\ job \in [Calls -> Jobs]
  /\ result \in [Calls -> Results]

\* A job exists only for an attestation the host accepts, and a proof only
\* for one that the guest accepts too: whatever is cancelled, dropped or
\* retried, nothing is submitted that the host has not verified first, and
\* what is returned is what the guest verified.
ProverInv ==
  /\ TypeOK
  /\ \A c \in Calls :
       /\ job[c] # "none" => att[c] \subseteq HostAccepts
       /\ job[c] = "proved" => att[c] \subseteq GuestAccepts
       /\ pc[c] = "awaiting" => job[c] # "none"
       /\ pc[c] \in {"idle", "unpolled", "verifying", "panicked"} => job[c] = "none"
       /\ result[c] = "ok" => job[c] = "proved"
       /\ result[c] # "none" <=> pc[c] = "returned"

\* A token that fires before a call is first polled keeps that call from ever
\* starting a proof, however the other calls and the worker pool go on
\* (direct.rs, on cancellation).
FiredTokenStopsCall ==
  \A c \in Calls :
    [](pc[c] = "unpolled" /\ token[c] \subseteq cancelled => [](job[c] = "none"))

\* A call that is polled ends, whether its job succeeds or fails: no call
\* waits on another, or on a token (direct.rs, the await on the proof).
CallsEnd == \A c \in Calls : pc[c] = "unpolled" ~> pc[c] \in Ended

\* error.rs:8 says of ProverError::Verifier: "The underlying attestation
\* verifier rejected the input."  That is what a call on such an attestation
\* ends with, unless it was cancelled or dropped.
RejectionIsReported ==
  \A c \in Calls :
    pc[c] \in {"returned", "panicked"} /\ ~HostVerified(c) /\ ~IsCancelled(c)
      => result[c] = "Verifier"
=============================================================================
