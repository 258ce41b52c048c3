------------------------------ MODULE CanaryRun ------------------------------
(***************************************************************************)
(* One execution after another of network-canary/scripts/                  *)
(* run-network-canary.mjs: the orchestrator, the processes it spawns, the  *)
(* WSS port, the disposable runtime directory and the proof file that      *)
(* outlives the run (network-canary/src/runtime.mjs does the waiting and   *)
(* the teardown).                                                          *)
(*                                                                         *)
(* Between two steps of the orchestrator the server and the fixture        *)
(* processes move on their own, another program may take the port that     *)
(* reserveLoopbackPort gave back and leave it again, every wait may reach  *)
(* its deadline, every call may throw, and the orchestrator itself may be  *)
(* killed.  When its statements are over Node waits for the processes it   *)
(* spawned that still live.                                                *)
(*                                                                         *)
(* Left to other modules: what a fixture sees on its connection and how    *)
(* its evidence is judged (LifecycleEvidence, Lifecycle).  Here a check    *)
(* that reaches the canary's own server may pass or fail, and one that     *)
(* does not reach it fails: the clients trust only the CA of this run.     *)
(***************************************************************************)
EXTENDS Naturals, Sequences

CONSTANT MaxRuns     \* bound: how many runs are made one after another

ASSUME MaxRunsAssumption == MaxRuns \in Nat \ {0}

VARIABLES
  run,        \* number of the current run
  pc,         \* what the orchestrator does next
  process,    \* [Process -> "absent", "up", "gone" (exit 0), "failed"]
  tracked,    \* runtime.server and runtime.children
  listener,   \* who listens on wssPort: "unreserved" (no such port yet),
              \* "none", "own", "foreign"
  root,       \* does runtime.root, credentials and all, exist
  marker,     \* the fixtures whose ready marker is on disk
  result,     \* the fixtures that have a denial of the server to report
  passed,     \* the checks recorded as passed
  errorProof, \* did the try block throw
  fatal,      \* is an exception under way that nothing catches
  teardown,   \* what cleanupRuntime found so far
  latest,     \* proof/latest.json: the run that wrote it, and what it says
  exitCode,   \* process.exitCode after the proof, or what the process ended with
  answered    \* history: the checks that the canary's own server answered

world == <<process, listener, marker, result>>
outcome == <<passed, errorProof, fatal, teardown, answered>>
vars == <<run, pc, world, tracked, root, outcome, latest, exitCode>>

Fixture == {"expiry", "revocation"}
Process == Fixture \cup {"server"}
Step == {"close", "fresh", "control"}
Check == {<<"negative">>, <<"client">>} \cup (Fixture \X Step)

(* The try block, line after line.                                         *)
Script == <<
  <<"tools">>, <<"tls">>, <<"trust">>, <<"ports">>, <<"config">>, <<"serve">>, <<"listen">>,
  <<"negative">>, <<"client">>,
  <<"expiry", "start">>, <<"expiry", "ready">>, <<"expiry", "close">>,
  <<"expiry", "fresh">>, <<"expiry", "control">>,
  <<"revocation", "start">>, <<"revocation", "ready">>, <<"revoke">>,
  <<"revocation", "close">>, <<"revocation", "fresh">>, <<"revocation", "control">>,
  <<"gate">>>>

Cleanup == {<<"children">>, <<"server">>, <<"listeners">>, <<"remove">>}
Over == {<<"exit">>, <<"killed">>}
Final == {<<"prove">>, <<"linger">>} \cup Over
Stages == {Script[i] : i \in DOMAIN Script} \cup Cleanup \cup Final

Up == {p \in Process : process[p] = "up"}
Running == pc \notin Over

(* The statement after the one at pc.                                      *)
Proceed == pc' = Script[1 + CHOOSE i \in DOMAIN Script : Script[i] = pc]

(* A throw in the try block: caught, recorded, and cleaned up after.  The  *)
(* catch block reads the server's log, if there is one, which may throw in *)
(* its turn.                                                               *)
Throw ==
  /\ errorProof' = TRUE
  /\ fatal' \in IF process["server"] = "absent" THEN {FALSE} ELSE {FALSE, TRUE}
  /\ pc' = <<"children">>

NoTeardown == [exited |-> FALSE, closed |-> FALSE, removed |-> FALSE]

Init ==
  /\ run = 1
  /\ pc = Script[1]
  /\ process = [p \in Process |-> "absent"]
  /\ tracked = {} /\ marker = {} /\ result = {} /\ passed = {} /\ answered = {}
  /\ listener = "unreserved"
  /\ root = TRUE
  /\ errorProof = FALSE /\ fatal = FALSE
  /\ teardown = NoTeardown
  /\ exitCode = "none"
  /\ latest = [run |-> 0, status |-> "none", teardown |-> NoTeardown]

----------------------------------------------------------------------------
(* The world outside the orchestrator.                                     *)

(* nats-server binds its port, or finds it taken and exits.                *)
ServerBinds ==
  /\ process["server"] = "up" /\ listener # "own"
  /\ IF listener = "none"
     THEN listener' = "own" /\ UNCHANGED process
     ELSE process' = [process EXCEPT !["server"] = "failed"] /\ UNCHANGED listener
  /\ UNCHANGED <<marker, result>>

ServerDies ==
  /\ process["server"] = "up"
  /\ process' = [process EXCEPT !["server"] = "failed"]
  /\ listener' = IF listener = "own" THEN "none" ELSE listener
  /\ UNCHANGED <<marker, result>>

(* reserveLoopbackPort closed the port it found: anyone may bind it.       *)
ForeignBinds ==
  /\ listener = "none"
  /\ listener' = "foreign"
  /\ UNCHANGED <<process, marker, result>>

ForeignLeaves ==
  /\ listener = "foreign"
  /\ listener' = "none"
  /\ UNCHANGED <<process, marker, result>>

(* A fixture connects, flushes and writes its marker.                      *)
FixtureReady(f) ==
  /\ process[f] = "up" /\ f \notin marker /\ listener = "own" /\ root
  /\ marker' = marker \cup {f}
  /\ UNCHANGED <<process, listener, result>>

(* Mutant: a fixture reports a denial it met before it was ready.          *)
FixtureDenied_Early(f) ==
  /\ process[f] = "up" /\ listener = "own"
  /\ result' = result \cup {f}
  /\ UNCHANGED <<process, listener, marker>>

(* The server closes its connection with an authentication error.          *)
FixtureDenied(f) ==
  /\ process[f] = "up" /\ f \in marker /\ listener = "own"
  /\ result' = result \cup {f}
  /\ UNCHANGED <<process, listener, marker>>

(* Its reconnection attempts are used up, or its time is: it writes its    *)
(* result, that of a pass only after a denial, and exits with 0.           *)
FixtureClosed(f) ==
  /\ process[f] = "up" /\ f \in marker /\ root
  /\ result' \in {result, result \ {f}}
  /\ process' = [process EXCEPT ![f] = "gone"]
  /\ UNCHANGED <<listener, marker>>

FixtureFails(f) ==
  /\ process[f] = "up"
  /\ process' = [process EXCEPT ![f] = "failed"]
  /\ UNCHANGED <<listener, marker, result>>

World ==
  /\ Running
  /\ \/ ServerBinds \/ ServerDies \/ ForeignBinds \/ ForeignLeaves
     \/ \E f \in Fixture : FixtureReady(f) \/ FixtureDenied(f) \/ FixtureClosed(f) \/ FixtureFails(f)
  /\ UNCHANGED <<run, pc, tracked, root, outcome, latest, exitCode>>

----------------------------------------------------------------------------
(* The try block.                                                          *)

(* Installing tools, TLS, trust and configuration, the live revocation:    *)
(* calls that return or throw and touch no process here.                   *)
Prepare ==
  /\ pc \in {<<"tools">>, <<"tls">>, <<"trust">>, <<"config">>, <<"revoke">>}
  /\ \/ Proceed /\ UNCHANGED <<errorProof, fatal>>
     \/ Throw
  /\ UNCHANGED <<world, tracked, passed, teardown, answered>>

(* Two ports are found free and given back (clientPort goes the way of     *)
(* wssPort and is not modelled); from here on cleanup polls them.          *)
ReservePorts ==
  /\ pc = <<"ports">>
  /\ \/ Proceed /\ listener' = "none" /\ UNCHANGED <<errorProof, fatal>>
     \/ Throw /\ UNCHANGED listener
  /\ UNCHANGED <<process, marker, result, tracked, passed, teardown, answered>>

(* Mutant: a fixture is tracked only once it has been seen ready.          *)
Spawn_Untracked(p) ==
  /\ process' = [process EXCEPT ![p] = "up"]
  /\ tracked' = tracked \cup ({p} \ Fixture)
  /\ Proceed
  /\ UNCHANGED <<listener, marker, result, outcome>>

(* spawn and runtime.server = ... or runtime.children.push(...): nothing   *)
(* can come between the two.                                               *)
Spawn(p) ==
  /\ process' = [process EXCEPT ![p] = "up"]
  /\ tracked' = tracked \cup {p}
  /\ Proceed
  /\ UNCHANGED <<listener, marker, result, outcome>>

StartProcess ==
  \/ pc = <<"serve">> /\ Spawn("server")
  \/ \E f \in Fixture : pc = <<f, "start">> /\ Spawn(f)
  \/ /\ pc \in {<<"serve">>, <<"expiry", "start">>, <<"revocation", "start">>}
     /\ Throw
     /\ UNCHANGED <<world, tracked, passed, teardown, answered>>

(* waitForPort: the child's exit is looked at first, then the port, then   *)
(* the deadline.  An open port is taken for the server's.                  *)
WaitForPort ==
  /\ pc = <<"listen">>
  /\ \/ /\ process["server"] = "up"
        /\ listener \in {"own", "foreign"}
        /\ Proceed
        /\ UNCHANGED <<errorProof, fatal>>
     \/ Throw
  /\ UNCHANGED <<world, tracked, passed, teardown, answered>>

(* A check that must not throw nor fail to go on: the negative TLS control *)
(* accepts any listener whose certificate is refused, the client needs the *)
(* server whose CA it trusts.                                              *)
Require(check) ==
  /\ pc = check
  /\ \/ /\ listener \in {"own"} \cup (IF check = <<"negative">> THEN {"foreign"} ELSE {})
        /\ passed' = passed \cup {check}
        /\ answered' = IF listener = "own" THEN answered \cup {check} ELSE answered
        /\ Proceed
        /\ UNCHANGED <<errorProof, fatal>>
     \/ Throw /\ UNCHANGED <<passed, answered>>
  /\ UNCHANGED <<world, tracked, teardown>>

(* waitForFile and the reading of the marker: present (its writer may be   *)
(* dead by now, the file may be half written), absent with a dead writer,  *)
(* or absent until the deadline.                                           *)
WaitForMarker(f) ==
  /\ pc = <<f, "ready">>
  /\ \/ f \in marker /\ Proceed /\ UNCHANGED <<errorProof, fatal>>
     \/ Throw
  /\ UNCHANGED <<world, tracked, passed, teardown, answered>>

(* Mutant: no deadline on the exit of a fixture.                           *)
FinishFixture_Forever(f) ==
  /\ pc = <<f, "close">>
  /\ f \notin Up
  /\ Throw
  /\ UNCHANGED <<world, tracked, passed, teardown, answered>>

(* finishAwaitCloseFixture: the exit within the deadline, the exit code,   *)
(* and the client's and the assessor's verdicts, which are only recorded.  *)
FinishFixture(f) ==
  /\ pc = <<f, "close">>
  /\ \/ /\ process[f] = "gone"
        /\ \E verdict \in SUBSET ({f} \cap result) :
             /\ passed' = passed \cup (verdict \X {"close"})
             /\ answered' = answered \cup (verdict \X {"close"})
        /\ Proceed
        /\ UNCHANGED <<errorProof, fatal>>
     \/ Throw /\ UNCHANGED <<passed, answered>>
  /\ UNCHANGED <<world, tracked, teardown>>

(* runRejectedFixture and runHealthyControl: a process that is waited for; *)
(* that it fails is recorded and judged at the gate.                       *)
RunFixture(f, step) ==
  /\ pc = <<f, step>>
  /\ \/ /\ \E verdict \in {{}, {<<f, step>>}} :
             /\ verdict # {} => listener = "own"
             /\ passed' = passed \cup verdict
             /\ answered' = answered \cup verdict
        /\ Proceed
        /\ UNCHANGED <<errorProof, fatal>>
     \/ Throw /\ UNCHANGED <<passed, answered>>
  /\ UNCHANGED <<world, tracked, teardown>>

(* Mutant: the healthy controls are run and not looked at.                 *)
LifecyclePass_NoControl == Fixture \X {"close", "fresh"} \subseteq passed

LifecyclePass == Fixture \X Step \subseteq passed

(* It throws unless the gates passed; it also does when the proof of them  *)
(* holds a secret.                                                         *)
Gate ==
  /\ pc = <<"gate">>
  /\ \/ LifecyclePass /\ pc' = <<"children">> /\ UNCHANGED <<errorProof, fatal>>
     \/ Throw
  /\ UNCHANGED <<world, tracked, passed, teardown, answered>>

Try ==
  /\ \/ Prepare \/ ReservePorts \/ StartProcess \/ WaitForPort \/ Gate
     \/ \E check \in {<<"negative">>, <<"client">>} : Require(check)
     \/ \E f \in Fixture : WaitForMarker(f) \/ FinishFixture(f)
     \/ \E f \in Fixture, step \in {"fresh", "control"} : RunFixture(f, step)
  /\ UNCHANGED <<run, root, latest, exitCode>>

----------------------------------------------------------------------------
(* cleanupRuntime.  stopTrackedProcess sends SIGTERM, then SIGKILL, and    *)
(* reports a process it has not seen exit six seconds later.               *)
StopTracked(group) ==
  \E survivors \in SUBSET (group \cap tracked \cap Up) :
    LET stopped == (group \cap tracked \cap Up) \ survivors
    IN  /\ process' = [p \in Process |-> IF p \in stopped THEN "failed" ELSE process[p]]
        /\ listener' = IF "server" \in stopped /\ listener = "own" THEN "none" ELSE listener
        /\ teardown' = [teardown EXCEPT !.exited =
                          survivors = {} /\ (pc = <<"server">> => @)]

StopChildren == pc = <<"children">> /\ StopTracked(Fixture) /\ pc' = <<"server">>
StopServer == pc = <<"server">> /\ StopTracked({"server"}) /\ pc' = <<"listeners">>

(* A port in use is polled for three seconds.                              *)
PollListeners ==
  /\ pc = <<"listeners">>
  /\ teardown' = [teardown EXCEPT !.closed = listener \notin {"own", "foreign"}]
  /\ pc' = <<"remove">>

(* Mutant: it is not looked whether the tree is still, or again, there.    *)
RemoveRuntime_Unchecked ==
  /\ pc = <<"remove">>
  /\ root' \in BOOLEAN
  /\ teardown' = [teardown EXCEPT !.removed = TRUE]
  /\ pc' = IF fatal THEN <<"exit">> ELSE <<"prove">>
  /\ exitCode' = IF fatal THEN "1" ELSE exitCode
  /\ UNCHANGED fatal

(* rmSync removes the tree, leaves it or has a survivor make it anew, or   *)
(* throws, out of the finally block; a throw of the catch block goes on    *)
(* after it.  A throw ends the process there and then.                     *)
RemoveRuntime ==
  /\ pc = <<"remove">>
  /\ \/ root' \in BOOLEAN /\ UNCHANGED fatal
     \/ root' = TRUE /\ fatal' = TRUE
  /\ teardown' = [teardown EXCEPT !.removed = ~root']
  /\ pc' = IF fatal' THEN <<"exit">> ELSE <<"prove">>
  /\ exitCode' = IF fatal' THEN "1" ELSE exitCode

Teardown ==
  /\ \/ (StopChildren \/ StopServer) /\ UNCHANGED <<root, fatal, exitCode>>
     \/ PollListeners /\ UNCHANGED <<process, listener, root, fatal, exitCode>>
     \/ RemoveRuntime /\ UNCHANGED <<process, listener>>
  /\ UNCHANGED <<run, tracked, marker, result, passed, errorProof, answered, latest>>

(* Mutant: what the teardown found is reported and not judged.             *)
Status_AnyTeardown ==
  IF <<"client">> \in passed /\ LifecyclePass /\ ~errorProof THEN "PASS" ELSE "FAIL"

Status ==
  IF /\ <<"client">> \in passed
     /\ LifecyclePass
     /\ teardown.exited /\ teardown.closed /\ teardown.removed
     /\ ~errorProof
  THEN "PASS" ELSE "FAIL"

(* Mutant: the exit code is that of the try block.                         *)
ExitCode_OfTry == IF errorProof THEN "1" ELSE "0"

ExitCode == IF Status = "PASS" THEN "0" ELSE "1"

(* The proof is written and the exit code follows it, unless a call throws *)
(* before the file is opened (the proof holds a secret or is too large),   *)
(* while it is written, or after that (chmodSync, the copy to stdout).     *)
Prove ==
  /\ pc = <<"prove">>
  /\ LET proof == [run |-> run, status |-> Status, teardown |-> teardown]
         torn == [run |-> run, status |-> "torn", teardown |-> NoTeardown]
     IN  \/ latest' = proof /\ exitCode' = ExitCode /\ pc' = <<"linger">>
         \/ latest' \in {latest, torn, proof} /\ exitCode' = "1" /\ pc' = <<"exit">>
  /\ UNCHANGED <<run, world, tracked, root, outcome>>

(* Nothing calls process.exit and no child is unref'ed: Node ends, with    *)
(* process.exitCode, once each process it spawned has, however long one    *)
(* survives its SIGKILL.                                                   *)
Exit ==
  /\ pc = <<"linger">>
  /\ Up = {}
  /\ pc' = <<"exit">>
  /\ UNCHANGED <<run, world, tracked, root, outcome, latest, exitCode>>

(* A signal, or an error event of a spawn that nobody listens to: the      *)
(* process ends where it is.                                               *)
Killed ==
  /\ Running
  /\ pc' = <<"killed">>
  /\ exitCode' = "1"
  /\ UNCHANGED <<run, world, tracked, root, outcome, latest>>

(* The next run has its own runtime, ports and processes; only the proof   *)
(* file is the same.                                                       *)
NextRun ==
  /\ ~Running
  /\ run < MaxRuns
  /\ run' = run + 1
  /\ pc' = Script[1]
  /\ process' = [p \in Process |-> "absent"]
  /\ tracked' = {} /\ marker' = {} /\ result' = {} /\ passed' = {} /\ answered' = {}
  /\ listener' = "unreserved"
  /\ root' = TRUE
  /\ errorProof' = FALSE /\ fatal' = FALSE
  /\ teardown' = NoTeardown
  /\ exitCode' = "none"
  /\ UNCHANGED latest

(* Nothing happens after the last run: the only place to stop.             *)
Done == ~Running /\ run = MaxRuns /\ UNCHANGED vars

Orchestrate == Try \/ Teardown \/ Prove \/ Exit

Next == World \/ Orchestrate \/ Killed \/ NextRun \/ Done

Spec == Init /\ [][Next]_vars

(* The orchestrator is not starved: every call it makes returns or throws, *)
(* and its waits have deadlines, but for the last, for the survivors.      *)
(* Nothing is assumed of the other processes.                              *)
FairSpec == Spec /\ WF_vars(Orchestrate)

----------------------------------------------------------------------------
TypeOK ==
  /\ run \in 1 .. MaxRuns
  /\ pc \in Stages
  /\ process \in [Process -> {"absent", "up", "gone", "failed"}]
  /\ tracked \subseteq Process
  /\ listener \in {"unreserved", "none", "own", "foreign"}
  /\ marker \subseteq Fixture /\ result \subseteq marker
  /\ passed \subseteq Check /\ answered \subseteq passed
  /\ {root, errorProof, fatal} \subseteq BOOLEAN
  /\ teardown \in [exited : BOOLEAN, closed : BOOLEAN, removed : BOOLEAN]
  /\ latest \in [run : 0 .. MaxRuns, status : {"none", "PASS", "FAIL", "torn"},
                 teardown : [exited : BOOLEAN, closed : BOOLEAN, removed : BOOLEAN]]
  /\ exitCode \in {"none", "0", "1"}

ThisRunProved == latest.run = run

(* A PASS is earned: every check passed, the negative TLS control          *)
(* included, and all but that one were answered by the canary's own        *)
(* server, whoever else held its port in the meantime.                     *)
PassIsEarned ==
  ThisRunProved /\ latest.status = "PASS" =>
    passed = Check /\ passed \ answered \subseteq {<<"negative">>}

(* Whatever went wrong before, a written proof that says the processes     *)
(* exited leaves none behind, and one that says PASS says so.              *)
TeardownTellsTruth ==
  ThisRunProved =>
    /\ latest.teardown.exited => Up = {}
    /\ latest.status = "PASS" => latest.teardown.exited

(* A proof that says that the runtime, with its credentials, was removed   *)
(* is right, and a run that leaves them behind, on whatever path, does not *)
(* exit with 0.                                                            *)
RemovalTellsTruth ==
  /\ ThisRunProved /\ latest.teardown.removed => ~root
  /\ exitCode = "0" => ~root

(* A run exits with 0 only if the proof on disk is its own and says PASS:  *)
(* not a stale one, nor one that was judged before the teardown.           *)
ExitTellsTruth == exitCode = "0" => ThisRunProved /\ latest.status = "PASS"

(* Every run ends: none of its waits is without a deadline, but for the    *)
(* last one, which is for good only if a process survives for good.        *)
Lingers == pc = <<"linger">> /\ Up # {}
RunsEnd == \A n \in 1 .. MaxRuns : run = n ~> (run = n /\ ~Running) \/ []Lingers

(* What VERIFICATION.md:6-8 says of a run, that it writes its result to    *)
(* proof/latest.json and exits nonzero unless that result is PASS: when a  *)
(* run has ended, a PASS in the file is not that of an earlier one.        *)
NoStalePass == pc = <<"exit">> /\ latest.status = "PASS" => ThisRunProved

(* What VERIFICATION.md:42-43 says of the negative TLS control, that the   *)
(* client failed for want of the generated CA, before the trusted client   *)
(* connected: the certificate that was refused is that of the canary's own *)
(* server.  The code asks any listener on the port.                        *)
ControlIsOwn == ThisRunProved /\ latest.status = "PASS" => <<"negative">> \in answered
=============================================================================
