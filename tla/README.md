# Specifications of the Nitro attestation prover

TLA+ models of this repository, their model-checking configurations and proofs.
The program takes an AWS Nitro attestation document, verifies it on the host,
has SP1 prove that a guest program verified it too, and writes the proof for an
on-chain contract to check.

## 1. The system

| component | source | state | operations |
|---|---|---|---|
| certificate checks | `verifier/src/x509.rs` | none | `validate_cert_content`, `check_validity`, `verify_signature` |
| certificate chain | `verifier/src/x509.rs` | cursor of two loops, `digests`, `expiries` | `from_der`, `compute_path_digests`, `verify_chain`, `leaf_public_key` |
| envelope and document | `verifier/src/attestation.rs` | the parsed report | `CoseSign1::from_bytes`, `sig_structure`, `AttestationReport::parse`, `cert_chain_der` |
| attestation verifier | `verifier/src/verify.rs`, `error.rs` | stage of the call | `verify` and its five stages |
| guest program | `verifier/src/bin/nitro-verifier-guest.rs` | an SP1 job | decode, `verify`, commit |
| direct prover | `src/direct.rs`, `src/types.rs`, `src/error.rs` | calls under way, tokens, jobs | `generate_proof`, `generate_proof_for_signer`, cancel, drop |
| command line prover | `src/main.rs` | `proof/proof.json`, `proof/vkey.json` | one run: prove, save, check |
| scripts | `script/start-prover.sh`, `script/stop-prover.sh` | `.run/prover.pid`, processes | start, stop |
| ABI types | `verifier/src/types.rs` | none | plain data; `VerifierInput`, `VerifierJournal` and `VerificationResult` are modelled where they are used |
| consumer of the journal | a contract outside the repository | cache of path digests and expiries | take a journal or refuse it |
| build and container files, guest ELF, test data | | | not modelled (section 7) |

How they interact. A script starts the command line prover. It reads the guest
ELF and the document and calls `DirectProver::generate_proof`, which verifies
the document with the linked verifier and submits a job; the job runs the guest,
that is, whatever verifier the ELF holds. `verify` parses the envelope, checks
the document, hands its chain to `CertChain` and checks the COSE signature under
the leaf's key. The journal's path digests and expiries are consumed by a
contract outside the repository, which caches them and lets later calls trust a
prefix of the chain (`trustedCertsPrefixLen`).

What is hard here, and what makes each component correct:

* **Chain.** Checks are spread over a loop with early returns and a `continue`
  for the trusted prefix, so which check covers which certificate depends on
  their order. Correct means: accepted exactly if valid beyond the prefix, with
  complete and unambiguous digests and expiries.
* **Verifier.** The chain is judged at a time, and with certificates, taken from
  a document that is not yet authenticated. Correct means: a journal for exactly
  the documents that pass the content checks, carry a chain valid at their own
  time and are signed by its leaf.
* **Direct prover.** Tokens fire at any time, futures are dropped, jobs outlive
  their callers, and host and guest may disagree. Correct means: nothing is
  proved that the host did not accept, nothing is returned that the guest did
  not accept, a token fired in time stops the call, and every call ends.
* **Command line prover.** Two files, each truncated and then written, before
  the proof is checked; a run can be killed at any point. Correct means: the
  artifacts of a successful run stay a matching pair until a later run saves.
* **Scripts.** A PID file that outlives its process, PIDs given out again, a
  stop that times out, scripts side by side or killed between two commands.
  Correct means: a live prover can always be found again, nothing else is
  signalled, and a stop that reports success tells the truth.
* **Scripts and runs.** `main` takes no lock on its artifacts; only the PID file
  keeps a second run away. Correct means: there never is one.
* **Calls after calls.** A call skips a prefix because the consumer of earlier
  journals trusts it. Correct means: what one call skips was verified by others,
  under the same path, and has not expired.

`PROJECT.json` lists every hazard at its line with the properties that cover it.

## 2. The modules

```
X509 <-- ChainPolicy         abstract: a chain is valid, or it is not
  ^          ^
  |          | refines (Policy)
  +------ CertChain <-- MCCertChain, CertChainProofs <-- PathDigestProofs
             ^
             | EXTENDS: its steps are the steps of stage "chain"
        AttestationVerifier <-- MCAttestationVerifier, AttestationVerifierProofs
             |
             | refines (Gate)
             v
        AttestationGate      abstract: a report attests, or it does not

CertChain <-- EXTENDS -- PathCache <-- MCPathCache, PathCacheProofs   calls and their cache

DirectProver  <-- MCDirectProver, DirectProverProofs

ProverScripts <-- MCProverScripts, ProverScriptsProofs
  ^
  | EXTENDS
ProverService <-- MCProverService, ProverServiceProofs
  |
  | refines (Main)
  v
ProverMain    <-- MCProverMain, ProverMainProofs
```

**X509** has one operator per check of a certificate. A certificate is the
record of the facts the checks read; an extension occurs twice (which is what
x509-parser answers with an error), is absent (or unreadable, which it does not tell
from absent) or present; a P-384 signature verifies exactly under the key that made it.

**CertChain** is one call of `from_der` and `verify_chain`. `phase` stands where
the code stands; `digests` and `expiries` are the two vectors, whose lengths are
the loops' cursors (the code pushes an expiry first and drops the vector when a
later check of the same iteration fails; the model pushes it when the iteration
succeeds, which nobody can tell apart). One action is one iteration, one early
return or the end of a loop. The hash is a constant `Sha256`; `PathDigests` is
what the first loop computes, as a function of a chain, so that properties can
speak of the digests of other chains than the one of the call.

**ChainPolicy** says what `verify_chain` promises without loops, cursors or an
order of checks: one step, `Accept` or `Reject`, decided by `ValidChain`. It is
written differently on purpose: the validity period is stated in milliseconds,
a path length constraint bounds every intermediate below its authority, roles are
what a certificate may do.

**AttestationVerifier** is `verify`. `stage` is where it stands; stage "chain"
takes the steps of CertChain one by one. Byte strings whose content nobody reads
are known by their lengths; a signature by its key and by what it is over.
**AttestationGate** is what `verify` promises, in one step.

**DirectProver** is any number of calls on one prover. The first poll of a
future runs up to the await, so a call can be dropped before its first poll or
while it awaits; a token can fire between any two steps. The verdicts of the two
verifiers are the constants `HostAccepts` and `GuestAccepts`. A job is the
guest program run by SP1; it may also fail for SP1's own reasons.

**ProverMain** is runs of `main`, one at a time, that may end in an error, a
panic or a kill at any step. A file being written is `Torn`; otherwise
`proof.json` holds the number of a run and `vkey.json` a guest. Before the first run
there are no artifacts, or those that the repository ships (`Shipped`).

**ProverScripts** is the two scripts, command by command: each command that
reads or changes the PID file or a process is a step, and the redirection of the
PID is two, since it empties the file first. Scripts run side by side and any of
them may be killed at any step (`Interrupt`); a prover that was launched has a
session of its own and lives on. The file holds a PID, no number (`NotAPid`) or
does not exist (`NoPid`). Under `set -e` a failing read, `ps` or `kill` ends the
script (`aborted`). Provers end by themselves; a free PID may be given to anyone,
but not within the seconds in which a script acts on the process it has just
found or made under that PID (`Available`): the kernel hands out its other PIDs
first. `orderly` is a history variable. It turns false for good when a script
begins while another is under way, or is killed between the launch of a prover
that lives and the write of its PID. The scripts take no lock and promise nothing
for those cases, so `NoOrphan` and `StopTellsTruth` are stated under it;
`OnlyProverSignalled` is not.

**ProverService** composes the scripts with the runs they launch: `Launch` is also
the launch of a run of `main`, a run's steps interleave with the scripts', and the
process ends with the run. `ProverMain` *assumes* one run at a time (its `Launch`
needs `pc = "none"`); the service's launch has no such guard, so that
`ServiceRunsMain`, which says that the composition implements `ProverMain!Spec`,
shows that the PID file enforces it. It is restricted to orderly use.

**PathCache** is any number of calls of `verify_chain` (all of CertChain's steps)
and the consumer of their journals. It caches the digest and the expiry of each
authority a taken journal newly verified; a later journal is taken if its root
is the consumer's, every digest of its trusted prefix is cached and unexpired, and
its time is in range. A journal may be used late, repeatedly or never. The
consumer is not in the repository. It is modelled from what the source says of
it: `x509.rs` on path digests ("used for intermediate certificate caching"), on the
trusted prefix ("already trusted on-chain") and on expiries ("on-chain expiry
tracking"), and the reasons `VerificationResult` gives for a refusal. That it
rejects a journal with any of these faults is an assumption about it; what is
checked is that the journals' content suffices for it.

## 3. The runs

| run | module | what it shows |
|---|---|---|
| `chain_faults` | MCCertChain | `ImplementsPolicy`, `ChainInv`, `DigestNamesOnePath` on chains of up to three certificates, sound or faulty in every position |
| `chain_lengths` | MCCertChain | `ImplementsPolicy` on chains of up to five certificates with every mix of path length constraints |
| `verifier` | MCAttestationVerifier | `ImplementsGate`, `VerifierInv`, `NoKeyMeansAbsent` |
| `verifier_signature_error` | MCAttestationVerifier | violated: see section 6 |
| `prover_safety` | MCDirectProver | `ProverInv` with three calls, two tokens |
| `prover_liveness` | MCDirectProver | `FiredTokenStopsCall`, `CallsEnd` with two calls |
| `prover_rejection` | MCDirectProver | violated: see section 6 |
| `main_artifacts` | MCProverMain | `PairSurvives`, `MainInv` over four runs and two guests |
| `scripts` | MCProverScripts | `ScriptsInv`, `NoOrphan`, `OnlyProverSignalled`, `StopTellsTruth`, scripts in turn and side by side, killed at any step |
| `scripts_stale_pid` | MCProverScripts | violated: see section 6 |
| `path_cache` | MCPathCache | `PathCacheInv`, `CacheSound`, `AcceptedIsRooted`, `AcceptedIsFresh` over sequences of calls |
| `prover_service` | MCProverService | `ServiceRunsMain`, `ServiceInv` with the scripts and runs together |

Bounds, and why they are enough:

* *Chains.* Every check is about one certificate or about a certificate and its
  parent, so a root, an intermediate and a leaf in every combination of one fault
  each reach every branch, with every trusted prefix from none to one too many
  (`Prefixes` 0 to 4). `Timestamps` are the milliseconds around both ends of the
  period. Path lengths relate distant certificates, hence chains of five there.
  The hash is free of collisions: the digest of what was hashed is that itself,
  and every run evaluates `HashAssumption` (and `RootAssumption`) for its chains.
* *Reports.* Optional fields are absent, empty, and at and just over their limits;
  register banks are empty, out of range, zero, partly zero and full; envelopes,
  signatures and payloads are replaced one at a time. `Prefixes` has 4, one more
  than the usual chain's length.
* *Prover.* Three calls are enough for two to share a token and one not to. The
  attestations are of all four kinds: accepted by both verifiers, one, none.
  Symmetry is used for safety only.
* *Artifacts.* `MaxRuns` is 4: a success, a run that breaks off, a run that
  overwrites, and one more. They begin without artifacts and with shipped ones.
* *Scripts.* Two starts, two stops and three PIDs: two provers side by side
  and another process, every PID reused. The stop script looks `MaxPolls` = 2
  times where the script looks ten times, which is a stop that sees the prover go
  and one that does not. Scripts of one kind are interchangeable, so symmetry
  over them is sound; the properties are invariants and action properties.
* *Service.* The same scripts with two PIDs, two runs (`MaxRuns`), one guest: a
  second run can begin beside the first, or after it was killed half way.
* *Path cache.* Chains of three to five certificates from two roots, with
  authorities that expire one after the other, one whose name and key are also
  claimed by a certificate that the root did not sign, a leaf in the place of an
  authority and a leaf signed by a leaf; prefixes from 0 to 5; three times of the
  document, and a consumer's clock in steps of a second up to `MaxNow` = 5000, when
  all authorities below the root have expired. The number of calls is not bounded.

`CHECK_DEADLOCK FALSE` is set for calls and runs that really end (`verify`,
`main` after the last run). In the other runs some action is always enabled (a token
can be fired, a process can begin or end, a call can be made), so that the
deadlock check says nothing there; that no call of the prover waits for ever is
`CallsEnd`.

Fairness. `DirectProver!Spec` has weak fairness of `Poll(c)`, since the runtime
polls a task that is ready, and of `Work(c)`, since SP1's worker pool finishes or
fails its jobs; that a job ends is therefore an assumption, and what `CallsEnd`
shows is that a call then ends too, whichever way its job does. Nobody is assumed
to call, cancel or drop. The other specifications have no fairness and no liveness
property: `verify`, say, is one thread's straight-line code with bounded loops.

## 4. What is proved

The proofs are checked by TLAPS for all values of the constants; the named
assumptions of the modules are all they use.

* `CertChainProofs!ChainInvariance`: `ChainInv`, which is inductive. It says of
  every step what was pushed so far (`DigestInv`, `WalkInv`) and what each phase
  may rely on (`PhaseInv`); `ImplementsPolicy` alone is not inductive, since it
  says nothing before the verdict.
* `CertChainProofs!Implementation`: every step of CertChain is a step of
  ChainPolicy or a stutter. The core is `WalkIsValidChain`: all iterations
  succeed exactly if `ValidChain` holds, for chains of any length.
  `ValidityIsInterval` relates seconds to milliseconds, `RemainingIsPathLength`
  shows that the one bound the code checks is the largest of all it stands for,
  `SecondsFitI64` that the cast in `check_validity` cannot wrap.
* `AttestationVerifierProofs!VerifierInvariance` and `!VerifierImplementsGate`:
  the same for `verify`. The invariant carries, from stage to stage, that the
  chain judged is the chain of this document at this document's time, and reuses
  `ChainInv`; a refused report is shown not to attest, whatever the error.
* `DirectProverProofs!ProverInvariance` and `!FiredTokenStops`: by an inductive
  invariant, for any number of calls, tokens and attestations. The
  second rests on a condition no step can leave: the call has no job, and is
  either unpolled with its token fired or has ended.
* `AttestationVerifierProofs!EmptyKeyIsNoKey`: `NoKeyMeansAbsent` follows from
  that invariant, since every length of a key the content checks pass is positive.
* `ProverMainProofs!MainInvariance` and `!PairSurvival`: `PairSurvives` strengthened
  with `StepInv`, what the next step relies on (whose proof is in the file, which
  files are torn).
* `ProverScriptsProofs!ScriptsInvariance`, `!NoProverIsOrphaned`,
  `!OnlyProversAreSignalled`, `!StopIsTruthful`: for any number of scripts and
  PIDs. `ScriptsInv` adds to the two invariants what a script under way relies on
  whatever the others do (`StepInv`: above all, that the process it is about to
  signal has not become another) and, while all is orderly, on the file
  (`FileInv`: the PID a script holds is the one in the file, and a file about to be
  removed names no prover). `StopTellsTruth` follows for each of the three exits.
* `ProverServiceProofs!ServiceInvariance` and `!ServiceImplementsMain`: with
  `RunHasProcess` (a prover lives exactly while a run is under way) the scripts'
  invariant shows that no run is under way when a start launches one: every
  other step is a step of `ProverMain` or a stutter.
  `ServicePairSurvives` is a corollary of it and of `PairSurvival`: what is proved
  of `ProverMain` carries over to the composition.
* `PathDigestProofs!DigestsNameOnePath`: two paths the parser lets through share a
  digest exactly when they hold the same certificates, whatever their lengths. The
  signature bytes are part of a certificate there: the same contents signed again,
  or with the signature (r, -s) for (r, s), are another certificate with another digest.
  `PathDigestsOfPath` shows that the recursive definition has the value the loop
  computes, `SameDigestSamePath` goes from equal digests up both paths at once
  (a digest of one certificate is never one of a digest and a certificate),
  `ParsedIsCanonical` is where the trailing bytes `from_der` refuses are needed.
* `PathCacheProofs!PathCacheInvariance`, `!CacheIsSound`, `!AcceptedPathsAreRooted`
  and `!AcceptedPathsAreFresh`: for any number of calls. The three properties are
  not inductive: nothing in them says why a skipped prefix may be believed.
  `PathCacheInv` adds that the cache is within `Vouched`, the digests of
  authorities that the root vouches for. An accepted chain is then rooted from end
  to end (`AcceptedChainIsRooted`): beyond the prefix by ChainInv, in it because
  a cached digest is that of one path only (`VouchedIsRooted`), at the top because
  the root's digest is the root's (`RootDigestIsRoot`); so what is added to the
  cache is in `Vouched` again.
* `AttestationVerifierProofs!VerifyIsBounded`: each step of `verify`, the loops'
  iterations included, lowers `VerifyStepsLeft`, which begins at 2n + 8 for a
  document with n certificates: no call goes on for ever.
* `DirectProverProofs!CallsAreBounded`: the part of `CallsEnd` that needs no
  fairness. A call and its job take at most five steps between them, and nothing that other
  calls, tokens or dropped futures do sets one back.

Induction. The library's induction theorems have an operator as a parameter, which
the installed provers cannot instantiate. `PathDigestProofs!Induction` states
induction for a *set* of numbers instead, from the existence of a least element
(`LeastNumber`), and the property is a set comprehension where it is used.

Assumptions. That the constants have their types, that `NoKey` is no key, that
the sets of starts and stops are disjoint, and that the markers of absent and
torn files are not contents. The theorems about digests and caches need a
hash that tells apart what is hashed, and assume no more of it than that:
`CollisionFree(paths)` speaks only of the inputs that the digests of these paths
lead to (`HashInputs`), not of every byte string, for which no hash could have it.
It includes that no blob of a chain is two digests put end to end; 64 bytes are too
few for a certificate. `ChainInvariance`, `Implementation` and the
theorems about `verify` do not use it.

Only model-checked: the liveness property `CallsEnd`, which needs fairness and
`ENABLED`.

The width of integers: the trusted prefix is a `u8` widened to `usize`; the
count `remaining as u32` would wrap only for 2^32 certificates, which no
document holds; the timestamp is a `u64`, and `SecondsFitI64` covers its cast.

## 5. How to run

`tlc -config <run>.cfg <module>` for a run of section 3; `tlapm <module>Proofs.tla`
for the proofs.

## 6. Where the code and its documentation disagree

* `verifier_signature_error`: a bad signature *in the chain* is reported with the
  variant documented as "COSE signature verification failed." (`error.rs:28`).
* `prover_rejection`: a document the verifier rejects never becomes
  `ProverError::Verifier`; `generate_proof` panics (`direct.rs:91`).
* `scripts_stale_pid`: "Prover is already running" (`start-prover.sh:15`) is said
  of any live process with the PID of a prover that ended and left its file.

Limits the models show, and nothing in the repository denies: a token that fires
during the host verification does not stop the job (`direct.rs:95`); two
starts side by side launch two provers, and a start killed before its `printf`
leaves one that no script finds; `main` overwrites an earlier pair before
it has checked the new proof; the path length constraint of an authority inside
a skipped prefix is not read, the last one's excepted (`x509.rs:157`), which is why
PathCache states no property of path lengths.

## 7. Not modelled

The bytes of CBOR, DER and the ABI: a report decodes or not, a certificate
parses, does not, or has bytes after it. The ABI codec of `types.rs` is generated by
`sol!` and has no state; `BatchVerifierJournal` and `ZkCoProcessorConfig` are declared
for the contract and used by nothing in the repository. Wording of errors and
logs. Docker and Cargo files, the guest ELF and the test data are no behaviour.

The contract itself, which only PathCache stands in for. `BoundlessProver` and the
registrar, which doc comments mention, are not in the repository, and so neither
is the recovery of a proof after a drop; what the trait asks of an implementor
without recovery (tolerate a drop, let a retry be safe) is `ProverInv` and `CallsEnd`,
and no separate abstract specification would say more.

In the scripts: processes of other users (for which `kill -0` fails although they
live), a process whose arguments hold the prover's name without being one, and a
`RUN_DIR` that two invocations set differently. In the model the write of a PID makes
the file again if another script has removed it since it was emptied, where the shell
would write to the removed file; only scripts side by side get there. Cargo and the
prover it builds and runs are one process, as they are one process group (a signal
that reached cargo alone is the mutant `CargoEnds`).

## 8. Plan

Everything planned is modelled: chain, verifier, prover, artifacts, scripts, and
the two compositions, PathCache and ProverService. Every invariant and action
property of the passing runs is also a theorem. What is left:

* **Path lengths across calls**: what could be stated of them; the journal
  carries no constraint today.
