# Formal models of OMPU Bus 2.0

TLA+ models of the portability candidate in `src/` and of its network canary,
TLC runs that check them on small instances and TLAPS proofs about the core.
Line numbers refer to the repository at the commit these modules sit beside;
the file `PROJECT.json` maps every definition to the lines it stands for.

## The system

The repository has two halves that share no state.

**The synthetic commons** (`src/src`). A class, `SyntheticCommons`, that is a
bus in memory: residents connect, publish events on their own subject, read
what comes after a position and acknowledge it with a compare-and-set of their
cursor; a resident may be revoked. All calls are synchronous. What is hard is
not inside a call but between calls: stale cursors, retried publishes, conflicting
contents under one id, calls of a resident that was revoked in the meantime.

**The network canary** (`src/network-canary`). A script that builds a disposable
NATS server with a local CA and short-lived credentials, runs client processes
against it, lets one credential expire and revokes another, judges from client
statuses and the server's log whether both were denied, tears everything down
and writes `proof/latest.json`. What is hard here is everything around the happy
path: ports given back before they are bound, processes that die or do not,
markers and results passed through files, deadlines, transport failures that
look like denials, throws out of the catch and finally blocks, and the evidence
of an earlier run.

| Component | State | Operations | Correct when |
| --- | --- | --- | --- |
| `SyntheticCommons`, event validation | residents, revoked, messages, id map, cursors | connect, revoke, publish, read, acknowledge, cursor | log and map agree; receipts stay true; acknowledgements tile the log; revocation is final |
| sessions of `runSimulation` | what each has read, the cursor it believes in | join, read, acknowledge, resume | nothing skipped, nothing settled twice, everybody catches up |
| orchestrator (`run-network-canary.mjs`) | try block, proofs, exit code | one step per stage, catch, finally | PASS is earned from its own server; exit code and file agree; no success leaves credentials behind |
| runtime (`runtime.mjs`) | ports, children, server, root | reserve, spawn, wait, stop, remove | what the teardown reports is true; every wait ends, but the one for a process that outlives SIGKILL |
| lifecycle client (`lifecycle-client.mjs`) | connection, statuses | await-close, expect-rejected, expect-connected | reports what happened |
| lifecycle evidence (`lifecycle-evidence.mjs`) | none | two assessors | a failing transport is not a denial; an honest denial is accepted |
| identity (`identity.mjs`) | operator, account JWT, credentials, the resolver's copies | set up trust; revoke: write, push, compare digests | the server starts with what its clients need; a revocation is called bound only when the server has it |
| toolchain, certificates | archives, tools, keys | select, download, extract, look at versions; four openssl commands | no program runs but from a pinned archive |
| WSS client (`wss-client.mjs`, `contracts.mjs`) | four connections, stream, two durable consumers, result file | publish, next, ack, resume, write, close | a pass is a commons of sequences 1, 2, 3 read by both; a defective server never passes |
| safety (`safety.mjs`) | none | run a command, redact, bound what is written | commands: above; text: not modelled |
| JWT evidence, platform plans, fixtures, command line, verifiers | none | pure | not modelled, see below |

The orchestrator calls the runtime, the toolchain, the certificates and the
identity functions; it talks to its child processes through an environment
variable at the start, and through files (ready marker, result) and exit codes
after that; child processes talk to the server over WSS; the orchestrator reads
the server's log. Nothing else is shared.

## Modules

| Module | Models | Used by |
| --- | --- | --- |
| `CommonsContract` | what a commons promises: an append-only log of unique ids, positions that only advance, members barred for good | refinement target |
| `SyntheticCommons` | the class, under callers that may call anything in any order | below |
| `SyntheticCommonsProofs` | theorems about it | |
| `CommonsSessions` | concurrent polling sessions over the class | extends `SyntheticCommons` |
| `CommonsSessionsProofs` | theorems about them | |
| `CanaryRun` | the orchestrator with its processes, port, runtime directory, teardown and proof file, over several runs | |
| `CanaryRunProofs` | theorems about it | |
| `LifecycleEvidence` | the two assessors as operators | |
| `Lifecycle` | the gate for one credential: server, transport, clock, await-close fixture, orchestrator | extends `LifecycleEvidence` |
| `LifecycleProofs` | theorems about it | |
| `NetworkCommons` | the WSS client, call after call, with JetStream behind the network | |
| `NetworkCommonsProofs` | theorems about it | |
| `Provisioning` | toolchain, certificates and trust setup as a sequence of commands, up to the start of the server | |
| `RevocationContract` | what revoking a credential on a live server promises its caller | refinement target |
| `LiveRevocation` | `revokeSyntheticUser` on the server that `Provisioning` started | extends `Provisioning` |
| `LiveRevocationProofs` | theorems about both | |
| `MCCommons`, `MCCommonsSessions` | values for TLC | |

### SyntheticCommons

The variables are the private fields of the class, plus two histories: the
replies of `publish` and those replies of `acknowledge` that moved a cursor. Each
method is an action; a call that throws does so before its first assignment and
is a stuttering step, its tests being the conjuncts of the guard. `publish` is
two actions, one for a new id and one for a stored one. `read` changes nothing
and is the operator `ReadReply`. Labels and bodies are model values; an event
keeps id, sender, recipients (in order) and body; the shapes `validateEvent`
and `containsCredentialShape` refuse are the sets `Malformed` and
`CredentialShaped`; SHA-256 is taken as injective, so a digest is the tuple of
what is hashed.

`CommonsSessions` adds clients that follow `runSimulation`: connect, read after
the cursor of the commons or after the one they remember, acknowledge any prefix
of what they read with the cursor they believe to be current, learn of a lost
race through `CURSOR_CONFLICT` and start again from `cursor()`. A session may be
lost at any point; what it had read is gone.

### CanaryRun

`pc` walks through the statements of the try block (`Script`), then the four
parts of `cleanupRuntime`, then the writing of the proof. Each statement returns
or throws; a throw is recorded, the catch block may throw itself (it reads the
server's log), and the teardown follows. Meanwhile the world moves: the server
binds its port or finds it taken, another program takes it or leaves it again, the
server or a fixture dies, a fixture writes its marker, meets its denial, exits. The
orchestrator may be killed anywhere. A second run starts afresh except for the
proof file. Writing it may succeed, or throw before the file is opened, halfway
(the file is then `torn`) or after it. A check may fail for reasons of its own at any time, and passes only
if the listener on the port is one that can answer it: any, for the negative TLS
control, and the canary's own server for the others.

A throw that nothing catches ends the process at once. Otherwise the script only
sets `process.exitCode`, and nothing unrefs its children: after the proof it is in
the stage `linger`, in which Node waits for the processes that survived their
SIGKILL, and only then exits (`Exit`). The removal of the runtime may succeed,
throw, or return with the directory still or again there, in which case the run goes
on to write a proof that says so.

### Lifecycle

The orchestrator starts the await-close fixture, waits for its marker, revokes
(if `kind` is revocation), waits for the fixture to be thrown out, tries a fresh
connection, runs the healthy control and evaluates the proof. The server denies
with an error and a log line; the transport drops the connection or is down; the
fixture's reconnection loop makes at most `MaxAttempts` attempts, each of which is
admitted, refused or not transported, and every one of them leaves the statuses
the client iterates over. `LifecycleEvidence` judges. A text is the set of the
regular expressions it matches. With `Lenient` the server may let a denied
session back in, the defect the canary exists to find. `kind` and `faults` are
chosen in the initial state, so that one run checks both gates, with everything
that may go wrong and without.

The NATS server and client are not in the repository. They are modelled from
what the scripts and the tests of the assessors rely on: which errors come with
a denial, the order of statuses, one close at the end, the loss of the last
error, reconnection at the clock's edge. The server's log line is taken to be
on disk when its client sees the denial.

### NetworkCommons

`Script` is `main` of `wss-client.mjs`, one entry per call: verb, connection,
object and the sequence `proof.pass` demands. A call is a request on the wire, which the
server serves when it gets to it, and an answer or a deadline; the client gives
up a call that is late, and the request may be served all the same. Connections
break, a close throws and skips the closes after it (they are sequential in the
finally block), the runner kills the client after its timeout, the result file
may be half written (what the orchestrator makes of such a file is a throw of
`Require` in `CanaryRun`). `userPermissions` is the table of `contracts.mjs`. JetStream
is outside the repository. Besides a sound server there are the three defects
the client is there to find: no sender permissions, and durable consumers that
lose their place, or are gone, with their connection.

### Provisioning and LiveRevocation

`Prep` is the sequence of what the canary does before its server runs: who acts,
what it makes, what it reads, and what the code looks for right after it. One
action stands for each kind of step: a child process (`runCommand`), a download
compared with the manifest, a copy or a written file, the start of the server.
Of a command the code sees the exit status: it may do its work and fail, or
report success and do nothing. Files are artifacts; the account JWT is
the artifacts of the group `account`, so that a copy is a snapshot of its claims.

`LiveRevocation` adds `revokeSyntheticUser`, statement by statement, on the
server so prepared: the revocation with its time is written into the JWT, the JWT is checked, pushed,
and the server's copy on disk compared with what was checked (`digested`, the JWT whose
digest the code holds). The server takes a push when it
gets to it, before `nsc` gives up or long after, saves it and then applies it;
it may die in between. The clock may be set back. `RevocationContract` says what
the caller may rely on: told "bound", the server holds, for good, a revocation that covers
the credential; told otherwise, nothing. `Lifecycle` takes the steps of that contract: the
server takes the revocation while the call is still under way
(`RevocationArrives`), so that the fixture may be thrown out before the
orchestrator goes on; the call returns only when the server has it, and may throw
with or without it (`Revoke`).

## Runs

| Run | Shows | Bounds |
| --- | --- | --- |
| `commons` | log and map agree, entries are admissible, receipts stay true; acknowledgements tile the log, revocation freezes, refinement of `CommonsContract` | two residents and a stranger, three ids, conflicting bodies, senders and recipient orders, malformed, credential-shaped and misaddressed events, positions from -1 to one past the end |
| `sessions` | nothing skipped, nothing settled twice, catching up | two sessions of one resident and one of another, two messages, two lost sessions |
| `canary_run` | PASS is earned, teardown, removal and exit code tell the truth | two runs |
| `canary_ends` | every run ends, or waits for a survivor of its SIGKILL | one run: none waits for another |
| `lifecycle` | a pass stands on a denial by the server, for expiry and revocation, with and without faults, under a server that may be lenient | three attempts as in the code, one drop or outage, one reconnection, one foreign log line |
| `lifecycle_live` | the gates end, and an honest denial passes | two clock-edge reconnections, no foreign log line |
| `network_commons` | a pass is a sound commons fully read, a defective server never passes, the client ends, an honest server passes | none needed: the script is fixed; four servers, with and without faults, any call late, lost or served after it was given up |
| `live_revocation` | the server starts complete, nothing unverified runs, refinement of `RevocationContract`, what was bound is enforced, an honest setup succeeds | a clock of two seconds (`MaxNow`), which may go back |
| `canary_stale_proof`, `canary_control`, `lifecycle_loop`, `lifecycle_readmitted` | findings, below | |

Why the bounds are enough. The commons compares ids, contents and positions and
counts nothing else, so two residents and three ids, with ids used for several contents,
show every branch; the theorems cover the rest. The sessions interact only through the
cursor of one resident; two that race and a third on another resident show every
outcome of the compare-and-set. A run of the canary has a fixed script; what a
second run adds is the proof file of the first. The lifecycle judgement looks at
the last reconnection, the errors after it and one excerpt per attempt; one
reconnection, and one failure placed anywhere, give every combination of the
three. The WSS client has no loop: its run is exhaustive. The revocation compares
two times, that of the credential and its own; two seconds in either
order give every outcome of the comparison, and the proofs hold for any clock.
No run uses symmetry: the two that could, over residents and sessions, also check
temporal properties. No run switches deadlock checking off: in the commons some call is
always possible, and the others say themselves where they stop (`Done`, `Rest`, `Over`).

### Fairness

- `SessionSpec`: a session that can take its next step does. It is the assumption
  that clients poll; the class runs nothing by itself.
- `CanaryRun!FairSpec`: the orchestrator is not starved and each call returns or
  throws. Its waits have deadlines in the code. Two kinds of call have none:
  `runCommand` (`safety.mjs:61` passes no timeout to `spawnSync`) and the `fetch` of a
  download (`toolchain.mjs:105` passes no signal). A tool or a host that
  hangs for good is outside the assumption. Nothing is assumed of the children: one
  that outlives its SIGKILL for good keeps its run from ending, and `RunsEnd` says so.
- `Lifecycle!FairSpec`: time passes, an outage ends, the fixture and the
  orchestrator run. The fixture's own timeout and the orchestrator's deadline are
  possible whenever they are pending; none is assumed to be taken first.
- `NetworkCommons!Spec`: Node runs what it can, the server serves what reaches it,
  and the runner's timeout of 120 s (`run-network-canary.mjs:437`) comes, which is
  what ends a client that a failed close leaves with open sockets.
- `LiveRevocation!Spec`: the runner is not starved and commands return, as in
  `CanaryRun`; a server that lives gets to what it was sent. Nothing says when: the
  push may have been given up by then.

## Findings

1. `canary_stale_proof`. The teardown and the writing of the proof come after the
   catch block. If `rmSync` throws, or the proof is refused, the process exits
   with 1 and writes nothing, and `proof/latest.json` still says the PASS of an
   earlier run. `VERIFICATION.md:6-8` describes the file as the result of the
   run that exits nonzero unless it is PASS.
2. `canary_control`. `waitForPort` takes whoever listens for the server, and the
   negative TLS control, the first client, accepts any certificate the system does not
   trust. A program that takes the port that was given back (`runtime.mjs:44-47`) with a
   certificate of its own and leaves before a slow `nats-server` binds it answers the
   control in the server's place. The run may still pass, with that answer as
   `tls.negative_control` in its proof. `VERIFICATION.md:42-43` has such a run prove that "a client
   without the generated CA failed specifically at certificate validation": here it
   would have failed with the CA too. The other checks are not affected (`PassIsEarned`).
3. `lifecycle_loop`. `assessReconnectSequence` wants one authentication error after
   the last reconnection, and as many errors of any kind as attempts. A session
   thrown out just before an outage passes on the error that closed it, although
   all its attempts failed for want of a transport. (That an unreachable attempt shows
   as an error among the statuses is the model's reading of the NATS client; nothing in the
   repository shows it.) `VERIFICATION.md:48-51` calls
   the loop a terminal authentication loop. The gate as a whole remains sound:
   the fresh connection has to be refused by the server (`PassIsDenial`).
4. `lifecycle_readmitted`. Reconnections are counted after the last one, where
   there are none: `afterLastSuccess.reconnect === 0` cannot fail. A revoked
   session that was let back in and thrown out again passes. The test at
   `lifecycle-evidence.test.mjs:70` ("post-lifecycle reconnect success fails
   closed") does fail closed, but for want of a terminal authentication error and
   a close. For expiry the leniency is intended (the clock's edge), for revocation
   `VERIFICATION.md:52-54` says "without reconnecting".

## Proofs

### SyntheticCommons

For any sets of labels, ids, bodies and events that
satisfy `LabelAssumption` and `EventAssumption` (synthetic labels are labels,
events have the four fields).

| Theorem | States | Along |
| --- | --- | --- |
| `TypeCorrect` | `Spec => []TypeOK` | inductive as it stands |
| `LogIsSound` | `Spec => []LogIntegrity` | inductive with `TypeOK`; the two directions of `IdsIndexLog` are needed together, the map to show a new id is not in the log, the log to show an old one is |
| `ReceiptsAreHonoured` | `Spec => []ReceiptsHonoured` | needs `LogIntegrity`: a duplicate is answered from the map, and its digest determines the event |
| `AcksAlwaysPartition` | `Spec => []AcksPartition` | inductive with `TypeOK`: the new interval starts where the cursor stood |
| `RevokedStayFrozen` | `Spec => RevokedFrozen` | from `TypeOK`: the revoked are residents, so `Connect` cannot reset them |
| `CommonsImplementsContract` | `Spec => ImplementsContract` | `LogView` of an appended message is the view with the content appended; that the id is fresh comes from `IdsIndexLog` |

### CanaryRun

For any number of runs, of which the runs check two (`MaxRunsAssumption`: it is a
positive number). The script, the processes and the checks are those of the code.

| Theorem | States |
| --- | --- |
| `CanaryTypeCorrect` | `Spec => []TypeOK` |
| `PassesAreEarned` | `Spec => []PassIsEarned` |
| `TeardownIsTrue` | `Spec => []TeardownTellsTruth` |
| `RemovalIsTrue` | `Spec => []RemovalTellsTruth` |
| `ExitIsTrue` | `Spec => []ExitTellsTruth` |

All five follow from one inductive invariant, `Inv` (theorem `Safety`). But for
`TypeOK`, none is inductive alone, because they speak of a written proof and the reasons lie
in the steps before it. What `Inv` adds, and why:

- `NothingYet`: until its proof is written the file is not the run's own and there is
  no exit code. Everything said of a proof is therefore vacuous before `Prove`. After it
  only the world moves, and processes only die.
- `AllTracked`: a live process is in the list the cleanup goes through.
- `TeardownSoFar`: what the cleanup has found holds at every stage of it; the
  children's verdict survives the server's, and the verdict on the root holds at `Prove`.
- `InOrder`: nothing has passed before the negative TLS control, and the client
  comes after it. This is where the order of the script enters (`Proceeds`): `proof.status`
  does not look at the control, and a `PASS` has it only because the client comes later.
- `Answers`: only the negative control can pass without the canary's own server, and
  whoever passed the client has passed the control.

The proof goes by kind of step: what the world, the try block and the teardown may
do is first summed up (`WorldEffect`, `TryEffect`, `TeardownEffect`, one case per
action), then shown to keep `Inv`; `Prove` is the only step that has to establish
what is said of a proof, and `Exit` and the world keep it.

### CommonsSessions

For any sessions of any residents, and any number of lost sessions
(`SessionAssumption`: a session acts for a synthetic resident).

| Theorem | States |
| --- | --- |
| `SessionsTypeCorrect` | `SafeSpec => []SessionTypeOK` |
| `NothingIsSkipped` | `SafeSpec => []NothingSkipped` |
| `EverySettledOnce` | `SafeSpec => []SettledOnce` |

What a session learnt may be stale, so none of the three is inductive. `SessionInv`
adds `Believes`: the cursor a session expects is never ahead of the resident's, and
the batch it holds is an interval of the log that begins between the two. If its
acknowledgement is accepted, the compare-and-set has shown the two to be equal, so
the batch begins right after the cursor: it joins what is settled without a gap
(`NothingSkipped`) and without an overlap (`SettledOnce`). Every step of a session is a step of the class
(`CallsAreCalls`), which carries over `TypeOK` and `LogIntegrity`.

### Lifecycle

For any number of attempts, seconds, failures, reconnections and log lines, any
expiry, any truncation of the excerpt, and a server that may be lenient
(`LifecycleAssumption`).

| Theorem | States |
| --- | --- |
| `GateTypeCorrect` | `Spec => []TypeOK` |
| `PassesAreDenials` | `Spec => []PassIsDenial` |

A pass is the last link of a chain, and `Inv` holds the chain: an error that names
authentication is among the statuses only if the server turned the session or its
reconnection away (`StatusesTrue`); hence a result that passes is evidence of it
(`ResultTrue`, through `PassNamesAuthentication`: what `assessReconnectSequence`
looks at are errors of the stream); hence the verdicts are (`VerdictsTrue`,
`FreshTrue`). The fixture is over before the fresh connection is tried and
cannot overwrite its result (`Ended`). A revocation is under control only when the
server holds it (`Uncontrolled`, `ControlTrue`).

### Provisioning and LiveRevocation

For a clock with any number of ticks (`MaxNowAssumption`).

| Theorem | States | Along |
| --- | --- | --- |
| `StartIsComplete` | `Spec => []StartsComplete` | `Prepared`: what was looked for after a step is there, and the resolver has its copies once their steps are done |
| `RevocationTypeCorrect` | `Spec => []TypeOK` | `Contents`: a JWT, its copies included, has only claims that were made; `Times`: a result is told exactly when the call is over |
| `OnlyPinnedToolsRun` | `Spec => []NothingUnverifiedRuns` | `Untouched`: the preparation goes on only while nothing is altered, and what a refused download leaves behind is an archive |
| `RevocationIsImplemented` | `Spec => ImplementsRevocation` | `Standing`: from the check on, what is or will be pushed covers the credential; before it, the server has no revocation at all, so a copy that matches covers it too |

`StartsComplete` speaks of the server's start, and what makes it true lies up to 33
steps earlier. `Prepared` carries it there: for every step done, what `Looked` demands
after it is in `made`. Nothing is ever taken from `made`, so that a step need
not be looked at again. A copy is a snapshot, and for it the order of the
script matters: the account JWT is copied in step 31, and step 18 has looked for
the signing key in it. The script is the constant `Prep`; three lemmas
(`Script`, `ScriptLooks`, `ScriptCopies`) look up the entries the proof needs.

### NetworkCommons

The module has no constants. Its theorems are about the four servers, with and
without faults, and about any interleaving of late, lost and orphaned requests.

| Theorem | States |
| --- | --- |
| `ClientTypeCorrect` | `Spec => []TypeOK` |
| `DefectsNeverPass` | `Spec => []DefectNeverPasses` |
| `PassesAreCommons` | `Spec => []PassIsCommons` |

All three follow from one inductive invariant, `Inv == Shape /\ Track`.

`Shape` holds always. A request on the wire is the waiting call's or was given up;
it was given up only by a client that has failed since, or it is the forbidden
publish (`WireShape`). Hence a publish is stored at most once, however late it is served, and
the stream has at most four messages (`Stored`). A link is opened by its own step,
and a process that ended has none (`LinkShape`). What is in hand was delivered
(`InHand`).

`Track` says what is known while the client is on track: it has not failed, the
forbidden publish was or is being answered by a denial, and no connection is lost that
still has a call to come. `PassIsCommons` and `DefectNeverPasses` speak only of the end of
`main`, and neither is inductive: the answer the client compares at the end came from
a state of the server many steps before. On track the server has done what was asked
and nothing else, so its state is a function of the number of calls done (`At`):

- `StreamOnTrack`: the stream is what was published so far, by whom. No orphan can
  be served in between: what was given up on track is the forbidden publish, and a
  client that knows it was denied has left nothing of it on the wire.
- `SoundOnTrack`: a sound server's cursors and confirmations are `Delivered` and
  `Confirmed` of `At`, and the message in hand is the one just delivered.
- `ForgetfulOnTrack`: resident a's first connection is lost by step 23, closed by the
  client or before that by the network, and its place with it. No request over that
  connection can be served afterwards and move the cursor again. So the resumed
  resident reads message 1, and step 29 records 1 where `proof.pass` demands 3.
- `OpenDeniesNothing`: a server without permissions never answers the forbidden publish
  with a denial, so `explicit` stays false.
- `Passed`: beyond the write step a client that has not failed has passed.

At exit code 0 the client is on track with all calls done, and the theorems read the values
off (`PassedOnTrack`). That `explicit` and an unserved forbidden publish exclude each other
is what makes the wire empty, so the commons is final.

The proof goes as for `CanaryRun`. The script is looked up once (`ScriptVerbs`,
`ScriptCalls`, `ScriptLinks`, `ScriptObjects`); the kinds of step are summed up (`ClientEffect`,
`ServeEffect`, `DisconnectEffect`, together `NextIsStep`); each part of `Inv` has a
lemma with one case per kind. `ClientOnTrack` and `ServedOnTrack` show that who is on track
after a step was so before it, which the four parts of `Track` share.

### Only model-checked

Liveness (`CatchesUp`, `RunsEnd`, `GateDecides`, `HonestDenialPasses`, `ClientEnds`,
`HonestPasses`, `EnforcedInTheEnd`, `HonestSetupSucceeds`), which the prover cannot
do. Every type invariant, safety invariant, action property and refinement that a
passing run checks is a theorem.

## Not modelled

- Text: the patterns of ids, secrets and credentials, redaction, JSON layout, the
  configuration of the server.
- `jwt-evidence.mjs`, `platform.mjs`, runners, `project-root.mjs`, fixtures, command
  line: pure functions of one input, without state. The functions of
  `jwt-evidence.mjs` have no caller in the repository but their test.
- The summary `runSimulation` returns: a fixed sequence of calls and what they
  replied. Its calls are actions of `CommonsSessions`.
- Static verifiers: comparisons of file lists.
- Cryptography: a certificate, a signature or a digest is what it stands for.
- JetStream's duplicate window and its redelivery: the client sends nothing twice,
  and ends when it misses the confirmation of an acknowledgement.
- A command or a download that hangs: `runCommand` sets no timeout and `fetch` is given
  no signal (see Fairness).
- An archive that changes between its comparison and its extraction: the directory
  belongs to the run alone (mode 0700).
- The client port (the NATS listener): it is reserved, bound and polled as the
  WSS port is, and only the revocation push uses it.

## Plan

All of it is done, in this order.

1. The commons: `CommonsContract`, `SyntheticCommons`, its proofs, sessions and theirs.
2. The run of the canary: `CanaryRun`, its proofs.
3. The lifecycle gate: `LifecycleEvidence`, `Lifecycle`, the proof of `PassIsDenial`.
4. The commons over the network: `NetworkCommons`.
5. Preparation and revocation: `Provisioning`, `LiveRevocation`, the refinement of
   `RevocationContract` and its proof.
6. The safety of the WSS client, and that the server starts complete, as theorems.

What could follow: a composition in which the revocation of `Lifecycle` is
`LiveRevocation` itself and the server's copy decides whom it admits; now the
contract stands between the two.
