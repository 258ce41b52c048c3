------------------------------ MODULE Lifecycle ------------------------------
(***************************************************************************)
(* The lifecycle gate of the canary for one credential that becomes        *)
(* invalid: by expiry (its time comes) or by revocation (the orchestrator  *)
(* pushes it).  A fixture process connects while it is valid and waits to  *)
(* be thrown out (await-close of scripts/lifecycle-client.mjs), a second   *)
(* one must not get in (expect-rejected), a third, healthy one must        *)
(* (expect-connected); the orchestrator collects what they report and what *)
(* the server logged, and LifecycleEvidence judges it.                     *)
(*                                                                         *)
(* The server and the reconnect loop of the NATS client are outside the    *)
(* repository; they are modelled by what the canary and its tests rely on: *)
(* authentication at connect, a connection closed when its credential      *)
(* becomes invalid, at most three reconnection attempts, a stream of       *)
(* statuses.  A credential is refused strictly after its expiry second but *)
(* its connection is closed from that second on, so that a reconnection at *)
(* the clock's edge succeeds (VERIFICATION.md:48-51).  The transport may   *)
(* drop a connection or be out for a while at any point.                   *)
(***************************************************************************)
EXTENDS LifecycleEvidence

CONSTANTS
  Exp,            \* the second the credential expires
  MaxAttempts,    \* MAX_RECONNECT_ATTEMPTS
  Kept,           \* how many lines of an excerpt survive its truncation to 800
                  \* characters (there are never the 25 that would lose the first)
  Lenient,        \* whether the server may let a denied session back in, the
                  \* defect that the canary is there to find
  MaxTime,        \* bound: the clock
  MaxTrouble,     \* bound: dropped connections and outages
  MaxReconnects,  \* bound: successful reconnections
  MaxNoise        \* bound: log lines about other actors

ASSUME LifecycleAssumption ==
  /\ Lenient \in BOOLEAN
  /\ {Exp, MaxAttempts, Kept, MaxTime, MaxTrouble, MaxReconnects, MaxNoise} \subseteq Nat
  /\ MaxAttempts > 0

VARIABLES
  kind,         \* which of the two gates this is; fixed
  faults,       \* whether anything goes wrong besides the denial; fixed
  now,          \* seconds
  reachable,    \* does the transport carry anything
  revoked,      \* does the server hold the revocation
  log,          \* the lines of the server log that name authentication
  session,      \* the await-close process: "absent", "starting",
                \* "connected", "retrying", "done" (exit 0), "failed"
  statuses,     \* what its status iterator has yielded
  attempts,     \* reconnection attempts since it was last connected
  readyAt,      \* ready_at of its marker; 0 while there is none
  pc,           \* the orchestrator
  offset,       \* logOffset of the fixture under way
  controlBound, \* is the time or the revocation under the canary's control
  report,       \* the result of the last fixture
  verdicts,     \* the verdicts reached: subset of {"close", "fresh", "control"}
  seen,         \* history: whom the server turned away ("session", "retry", "fresh"),
                \* and whether it let the session back in after that ("readmitted")
  trouble, reconnects, noise   \* bounded counters

vars == <<kind, faults, now, reachable, revoked, log, session, statuses, attempts, readyAt, pc, offset,
          controlBound, report, verdicts, seen, trouble, reconnects, noise>>

Reason == expectedPattern(kind)
Denial == {{"auth"}, {"auth", Reason}}

Line(actor, text) == [actor |-> actor, text |-> text]
Excerpt ==
  {log[i] : i \in {j \in DOMAIN log : offset < j /\ j <= offset + Kept}}

Event(type) == [type |-> type, error |-> {}]
Error(text) == [type |-> "error", error |-> text]

NoReport == [pass |-> FALSE, outcome |-> "missing", bound |-> FALSE, error |-> {}]
Report(pass, outcome, error) ==
  [pass |-> pass, outcome |-> outcome, bound |-> TRUE, error |-> error]

Init ==
  /\ kind \in Kinds /\ faults \in BOOLEAN
  /\ now = 0 /\ reachable = TRUE /\ revoked = FALSE /\ log = <<>>
  /\ session = "absent" /\ statuses = <<>> /\ attempts = 0 /\ readyAt = 0
  /\ pc = "start" /\ offset = 0 /\ controlBound = FALSE
  /\ report = NoReport /\ verdicts = {} /\ seen = {}
  /\ trouble = 0 /\ reconnects = 0 /\ noise = 0

----------------------------------------------------------------------------
(* The server, the clock and the transport.                                *)

Due == revoked \/ (kind = "expiry" /\ now >= Exp)
Admits == ~revoked /\ ~(kind = "expiry" /\ now > Exp)

orchestrator == <<pc, offset, controlBound, verdicts>>

(* Without faults the clock waits for the fixture to be ready, as the      *)
(* canary hopes it will: the credential was issued for one minute.         *)
Tick ==
  /\ now < MaxTime
  /\ faults \/ readyAt > 0
  /\ now' = now + 1
  /\ UNCHANGED <<reachable, revoked, log, session, statuses, attempts, readyAt, orchestrator,
                 report, seen, trouble, reconnects, noise>>

Outage ==
  /\ faults /\ trouble < MaxTrouble
  /\ reachable' = ~reachable
  /\ trouble' = IF reachable THEN trouble + 1 ELSE trouble
  /\ UNCHANGED <<now, revoked, log, session, statuses, attempts, readyAt, orchestrator,
                 report, seen, reconnects, noise>>

Recovery ==
  /\ ~reachable
  /\ reachable' = TRUE
  /\ UNCHANGED <<now, revoked, log, session, statuses, attempts, readyAt, orchestrator,
                 report, seen, trouble, reconnects, noise>>

OtherActorDenied ==
  /\ faults /\ noise < MaxNoise
  /\ noise' = noise + 1
  /\ \E text \in {{"auth"}, {"auth", "transport"}} : log' = Append(log, Line("other", text))
  /\ UNCHANGED <<now, reachable, revoked, session, statuses, attempts, readyAt, orchestrator,
                 report, seen, trouble, reconnects>>

----------------------------------------------------------------------------
(* The await-close fixture: awaitServerClose.                              *)

FixtureConnects ==
  /\ session = "starting" /\ reachable /\ Admits
  /\ session' = "connected"
  /\ UNCHANGED <<now, reachable, revoked, log, statuses, attempts, readyAt, orchestrator,
                 report, seen, trouble, reconnects, noise>>

(* Its first flush has returned: it writes its marker, with the time.      *)
FixtureReady ==
  /\ session = "connected" /\ reachable /\ readyAt = 0
  /\ readyAt' = now + 1
  /\ UNCHANGED <<now, reachable, revoked, log, session, statuses, attempts, orchestrator,
                 report, seen, trouble, reconnects, noise>>

(* The server closes its connection, with an error that may or may not     *)
(* name the reason.                                                        *)
FixtureThrownOut ==
  /\ session = "connected" /\ reachable /\ Due
  /\ session' = "retrying"
  /\ attempts' = 0
  /\ log' = Append(log, Line("fixture", {"auth"}))
  /\ \E text \in Denial : statuses' = statuses \o <<Error(text), Event("disconnect")>>
  /\ seen' = seen \cup {"session"}
  /\ UNCHANGED <<now, reachable, revoked, readyAt, orchestrator, report, trouble,
                 reconnects, noise>>

(* The transport drops its connection.                                     *)
FixtureDropped ==
  /\ faults /\ session = "connected" /\ trouble < MaxTrouble
  /\ trouble' = trouble + 1
  /\ session' = "retrying"
  /\ attempts' = 0
  /\ \/ statuses' = statuses \o <<Event("disconnect")>>
     \/ statuses' = statuses \o <<Error({"transport"}), Event("disconnect")>>
  /\ UNCHANGED <<now, reachable, revoked, log, readyAt, orchestrator, report, seen,
                 reconnects, noise>>

(* Mutant: the attempts are not counted.                                   *)
Retrying_Forever == session = "retrying"

Retrying == session = "retrying" /\ attempts < MaxAttempts

RetryAdmitted ==
  /\ Retrying /\ reachable /\ (Admits \/ Lenient)
  /\ reconnects < MaxReconnects
  /\ reconnects' = reconnects + 1
  /\ session' = "connected"
  /\ statuses' = statuses \o <<Event("reconnecting"), Event("reconnect")>>
  /\ seen' = IF "session" \in seen THEN seen \cup {"readmitted"} ELSE seen
  /\ UNCHANGED <<now, reachable, revoked, log, attempts, readyAt, orchestrator, report,
                 trouble, noise>>

(* What a failed attempt yields; of the last one the error may be lost.    *)
Yields(text) ==
  \/ statuses' = statuses \o <<Event("reconnecting"), Error(text)>>
  \/ /\ attempts + 1 = MaxAttempts
     /\ statuses' = Append(statuses, Event("reconnecting"))

RetryDenied ==
  /\ Retrying /\ reachable /\ ~Admits
  /\ attempts' = attempts + 1
  /\ Yields({"auth"})
  /\ log' = Append(log, Line("fixture", {"auth"}))
  /\ seen' = seen \cup {"retry"}
  /\ UNCHANGED <<now, reachable, revoked, session, readyAt, orchestrator, report, trouble,
                 reconnects, noise>>

RetryUnreachable ==
  /\ Retrying /\ ~reachable
  /\ attempts' = attempts + 1
  /\ Yields({"transport"})
  /\ UNCHANGED <<now, reachable, revoked, log, session, readyAt, orchestrator, report,
                 seen, trouble, reconnects, noise>>

(* The attempts are used up: the connection closes, with its last error    *)
(* unless something went wrong, and the fixture writes the verdict on its  *)
(* statuses and exits; its memory goes with it.                            *)
LastError ==
  LET errors == {i \in DOMAIN statuses : statuses[i].type = "error"}
  IN  IF errors = {} THEN {} ELSE statuses[CHOOSE i \in errors : \A j \in errors : j <= i].error

Gone == statuses' = <<>> /\ attempts' = 0

FixtureCloses ==
  /\ session = "retrying" /\ attempts = MaxAttempts /\ readyAt > 0
  /\ session' = "done"
  /\ Gone
  /\ LET named == LifecycleError(statuses, kind)
     IN  \E closing \in {LastError} \cup (IF faults THEN {{}, {"transport"}} ELSE {}) :
           report' = Report(assessReconnectSequence(Append(statuses, Event("close")), MaxAttempts),
                            "connected-then-server-closed",
                            IF named # {} THEN named ELSE closing)
  /\ UNCHANGED <<now, reachable, revoked, log, readyAt, orchestrator, seen,
                 trouble, reconnects, noise>>

(* Its own 80 seconds are over.                                            *)
FixtureTimesOut ==
  /\ faults /\ session \in {"connected", "retrying"} /\ readyAt > 0
  /\ session' = "done"
  /\ report' = Report(FALSE, "timeout", {})
  /\ Gone
  /\ UNCHANGED <<now, reachable, revoked, log, readyAt, orchestrator,
                 seen, trouble, reconnects, noise>>

(* Connect, flush or the writing of a file throws: exit code 1.            *)
FixtureThrows ==
  /\ session \in {"starting", "connected", "retrying"}
  /\ \/ faults
     \/ session = "starting" /\ ~Admits
     \/ attempts = MaxAttempts /\ readyAt = 0
  /\ session' = "failed"
  /\ Gone
  /\ UNCHANGED <<now, reachable, revoked, log, readyAt, orchestrator,
                 report, seen, trouble, reconnects, noise>>

----------------------------------------------------------------------------
(* The orchestrator.                                                       *)

(* startAwaitCloseFixture.                                                 *)
StartFixture ==
  /\ pc = "start"
  /\ offset' = Len(log)
  /\ session' = "starting"
  /\ pc' = "ready"
  /\ UNCHANGED <<controlBound, verdicts, report, log, seen, revoked>>

AfterReady == IF kind = "revocation" THEN "revoke" ELSE "close"

(* Mutant: only the marker is looked for.                                  *)
WaitReady_Marker ==
  /\ pc = "ready"
  /\ readyAt > 0 /\ pc' = AfterReady
  /\ UNCHANGED <<offset, session, controlBound, verdicts, report, log, seen, revoked>>

(* waitForFile and the reading of the marker: it is there, the fixture has *)
(* exited without it, the deadline is over, or it is read half written.    *)
WaitReady ==
  /\ pc = "ready"
  /\ \/ readyAt > 0 /\ pc' = AfterReady
     \/ /\ faults \/ (session = "failed" /\ readyAt = 0)
        /\ pc' = "thrown"
  /\ UNCHANGED <<offset, session, controlBound, verdicts, report, log, seen, revoked>>

(* The server takes the revocation that revokeSyntheticUser pushed, before *)
(* the call returns: the fixture may be thrown out while it still runs.    *)
RevocationArrives ==
  /\ pc = "revoke" /\ ~revoked
  /\ revoked' = TRUE
  /\ UNCHANGED <<pc, offset, session, controlBound, verdicts, report, log, seen>>

(* revokeSyntheticUser returns with everything under control (when the     *)
(* server has it, as LiveRevocation shows) or throws (it may have it).     *)
Revoke ==
  /\ pc = "revoke"
  /\ \/ revoked /\ controlBound' = TRUE /\ pc' = "close"
     \/ faults /\ pc' = "thrown" /\ UNCHANGED controlBound
  /\ UNCHANGED <<offset, session, verdicts, report, log, seen, revoked>>

(* timeControlBound, of whole seconds.                                     *)
TimeControl == kind = "expiry" /\ readyAt - 1 < Exp /\ now >= Exp

Add(verdict, holds) ==
  verdicts' = IF holds THEN verdicts \cup {verdict} ELSE verdicts

(* finishAwaitCloseFixture; expiryControlBound is what it leaves behind.   *)
FinishFixture ==
  /\ pc = "close"
  /\ \/ /\ session = "done"
        /\ LET close == assessLifecycleRejection(kind, "active-close", "fixture",
                          kind = "revocation", controlBound \/ TimeControl, report, Excerpt)
           IN  /\ Add("close", close)
               /\ controlBound' = IF kind = "expiry" THEN close /\ now >= Exp ELSE controlBound
        /\ pc' = "fresh"
     \/ faults /\ pc' = "thrown" /\ UNCHANGED <<controlBound, verdicts>>
     \/ session = "failed" /\ pc' = "thrown" /\ UNCHANGED <<controlBound, verdicts>>
  /\ UNCHANGED <<offset, session, report, log, seen, revoked>>

(* A process that is waited for is stopped after twelve seconds, or leaves *)
(* no result: the orchestrator throws.                                     *)
Interrupted == IF faults THEN {"thrown"} ELSE {}

(* runRejectedFixture, the connection attempt: refused by the server, let  *)
(* in (and perhaps cut off before its flush returns), or not transported.  *)
TryFresh ==
  /\ pc = "fresh"
  /\ offset' = Len(log)
  /\ \/ /\ reachable /\ ~Admits
        /\ \E text \in Denial : report' = Report(TRUE, "connect-threw", text)
        /\ log' = Append(log, Line("fixture", {"auth"}))
        /\ seen' = seen \cup {"fresh"}
     \/ /\ reachable /\ Admits
        /\ report' \in {Report(FALSE, "unexpected-connect", {})} \cup
             {Report(TRUE, "connect-threw", text) : text \in {{}, {"transport"}}}
        /\ UNCHANGED <<log, seen>>
     \/ /\ ~reachable
        /\ report' = Report(TRUE, "connect-threw", {"transport"})
        /\ UNCHANGED <<log, seen>>
  /\ pc' \in {"judge"} \cup Interrupted
  /\ UNCHANGED <<session, controlBound, verdicts, revoked>>

JudgeFresh ==
  /\ pc = "judge"
  /\ Add("fresh", assessLifecycleRejection(kind, "fresh-connect", "fixture",
                    kind = "revocation", controlBound, report, Excerpt))
  /\ pc' = "control"
  /\ UNCHANGED <<offset, session, controlBound, report, log, seen, revoked>>

(* runHealthyControl: a valid credential gets in if anything does.         *)
HealthyControl ==
  /\ pc = "control"
  /\ Add("control", reachable)
  /\ pc' \in {"proof"} \cup Interrupted
  /\ UNCHANGED <<offset, session, controlBound, report, log, seen, revoked>>

(* expiryProof.pass, revocationProof.pass.                                 *)
Proof ==
  /\ pc = "proof"
  /\ LET pass == /\ verdicts = {"close", "fresh", "control"}
                 /\ controlBound
                 /\ kind = "expiry" => TimeControl
     IN  pc' = IF pass THEN "passed" ELSE "refused"
  /\ UNCHANGED <<offset, session, controlBound, verdicts, report, log, seen, revoked>>

Over == pc \in {"passed", "refused", "thrown"}
Rest == Over /\ UNCHANGED vars

Fixture ==
  \/ FixtureConnects \/ FixtureReady \/ FixtureThrownOut \/ FixtureDropped \/ RetryAdmitted \/ RetryDenied
  \/ RetryUnreachable \/ FixtureCloses \/ FixtureTimesOut \/ FixtureThrows

Orchestrate ==
  /\ StartFixture \/ WaitReady \/ RevocationArrives \/ Revoke \/ FinishFixture \/ TryFresh
     \/ JudgeFresh \/ HealthyControl \/ Proof
  /\ UNCHANGED <<now, reachable, statuses, attempts, readyAt, trouble, reconnects, noise>>

Environment == Tick \/ Outage \/ Recovery \/ OtherActorDenied

Step(A) == ~Over /\ A /\ UNCHANGED <<kind, faults>>

Next ==
  \/ Step(Fixture) \/ Step(Orchestrate) \/ Step(Environment)
  \/ Rest

Spec == Init /\ [][Next]_vars

(* Time passes, an outage ends, the fixture and the orchestrator run, and  *)
(* the server closes what is due.                                          *)
FairSpec ==
  /\ Spec
  /\ WF_vars(Step(Tick)) /\ WF_vars(Step(Recovery))
  /\ WF_vars(Step(Fixture)) /\ WF_vars(Step(Orchestrate))

----------------------------------------------------------------------------
TypeOK ==
  /\ kind \in Kinds /\ faults \in BOOLEAN
  /\ now \in 0 .. MaxTime /\ readyAt \in 0 .. MaxTime + 1
  /\ {reachable, revoked, controlBound} \subseteq BOOLEAN
  /\ log \in Seq([actor : {"fixture", "other"}, text : SUBSET Mark])
  /\ session \in {"absent", "starting", "connected", "retrying", "done", "failed"}
  /\ statuses \in Seq(Status)
  /\ attempts \in 0 .. MaxAttempts
  /\ offset \in 0 .. Len(log)
  /\ report \in [pass : BOOLEAN, bound : BOOLEAN, error : SUBSET Mark,
                 outcome : {"missing", "timeout", "connected-then-server-closed",
                            "connect-threw", "unexpected-connect"}]
  /\ verdicts \subseteq {"close", "fresh", "control"}
  /\ seen \subseteq {"session", "retry", "fresh", "readmitted"}

(* The gate is not passed by a failing transport, by another actor's       *)
(* denial or by a credential that was never valid: behind a pass stands a  *)
(* session admitted in time that the server turned out (at the latest when *)
(* it came back), a fresh connection it refused, and a server that served  *)
(* others afterwards.                                                      *)
PassIsDenial ==
  pc = "passed" =>
    /\ "fresh" \in seen
    /\ seen \cap {"session", "retry"} # {}
    /\ session = "done"
    /\ IF kind = "expiry" THEN readyAt - 1 < Exp /\ now >= Exp ELSE revoked

(* The gate always comes to an end.                                        *)
GateDecides == <>Over

(* If nothing goes wrong besides the denial the gate is passed: the judge  *)
(* is not stricter than an honest server and client.                       *)
HonestDenialPasses == ~faults ~> pc = "passed"

(* VERIFICATION.md:48-51 and 52-54: the closed session entered a terminal  *)
(* authentication loop, that is, its reconnection attempts were refused.   *)
LoopIsAuthentication == pc = "passed" => "retry" \in seen

(* VERIFICATION.md:52-54 and test/lifecycle-evidence.test.mjs:70 ("post-   *)
(* lifecycle reconnect success fails closed"): a revoked session that was  *)
(* let back in does not pass.                                              *)
ReadmissionFailsClosed ==
  pc = "passed" /\ kind = "revocation" => "readmitted" \notin seen
=============================================================================
