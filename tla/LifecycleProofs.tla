--------------------------- MODULE LifecycleProofs ---------------------------
(***************************************************************************)
(* The lifecycle gate for any number of reconnection attempts, failures,   *)
(* log lines and seconds: a pass stands on a denial by the server.         *)
(***************************************************************************)
EXTENDS Lifecycle, WellFoundedInduction, TLAPS

(* A set of positions has a first and, as it is bounded, a last one.       *)
LEMMA FirstExists ==
  ASSUME NEW S \in SUBSET Nat, S # {}
  PROVE  \E i \in S : \A j \in S : i <= j
<1>1. PICK i \in S : \A j \in S : ~(<<j, i>> \in OpToRel(<, Nat))
  BY NatLessThanWellFounded, WFMin
<1>2. \A j \in S : ~(j < i)
  BY <1>1 DEF OpToRel
<1>3. QED BY <1>2

LEMMA LastExists ==
  ASSUME NEW n \in Nat, NEW S \in SUBSET (1 .. n), S # {}
  PROVE  \E i \in S : \A j \in S : j <= i
<1> DEFINE T == {n - i : i \in S}
<1>1. T \in SUBSET Nat /\ T # {}
  <2>1. \A i \in S : n - i \in Nat
    OBVIOUS
  <2>2. T \subseteq Nat
    BY <2>1
  <2>3. QED BY <2>2
<1>2. PICK t \in T : \A u \in T : t <= u
  BY <1>1, FirstExists
<1>3. PICK i \in S : t = n - i
  BY <1>2
<1>4. \A j \in S : n - i <= n - j
  BY <1>2, <1>3
<1>5. QED BY <1>4

-----------------------------------------------------------------------------
(* The judgement of a status stream.                                       *)
LEMMA TerminalIsSuffix ==
  ASSUME NEW seq \in Seq(Status)
  PROVE  /\ Terminal(seq) \in Seq(Status)
         /\ \A i \in DOMAIN Terminal(seq) :
              \E j \in DOMAIN seq : Terminal(seq)[i] = seq[j]
<1> DEFINE n == Len(seq)
           again == {i \in DOMAIN seq : seq[i].type = "reconnect"}
           last == IF again = {} THEN 0
                   ELSE CHOOSE i \in again : \A j \in again : j <= i
<1>1. n \in Nat /\ DOMAIN seq = 1 .. n
  OBVIOUS
<1>2. last \in 0 .. n
  <2>1. CASE again = {}
    BY <1>1, <2>1
  <2>2. CASE again # {}
    <3>1. again \in SUBSET (1 .. n)
      BY <1>1
    <3>2. \E i \in again : \A j \in again : j <= i
      BY <1>1, <2>2, <3>1, LastExists
    <3>3. last \in again
      BY <2>2, <3>2
    <3>4. QED BY <3>1, <3>3
  <2>3. QED BY <2>1, <2>2
<1>3. Terminal(seq) = SubSeq(seq, last + 1, n)
  BY DEF Terminal
<1> HIDE DEF last
<1>4. /\ \A i \in last + 1 .. n : seq[i] \in Status
      /\ last + 1 \in Nat \ {0}
  BY <1>1, <1>2
<1>5. /\ SubSeq(seq, last + 1, n) \in Seq(Status)
      /\ DOMAIN SubSeq(seq, last + 1, n) = 1 .. n - last
      /\ \A i \in 1 .. n - last :
           SubSeq(seq, last + 1, n)[i] = seq[last + i]
  BY <1>1, <1>2, <1>4
<1>6. QED BY <1>1, <1>2, <1>3, <1>5

LEMMA LifecycleErrorIsText ==
  ASSUME NEW seq \in Seq(Status), NEW k
  PROVE  LifecycleError(seq, k) \in SUBSET Mark
<1> DEFINE terminal == Terminal(seq)
           named == {i \in DOMAIN terminal : terminal[i].type = "error" /\
                                             ExpectedLifecycle(k, terminal[i].error)}
<1>1. terminal \in Seq(Status)
  BY TerminalIsSuffix
<1> HIDE DEF terminal
<1>2. CASE named = {}
  BY <1>2 DEF LifecycleError, terminal
<1>3. CASE named # {}
  <2>1. named \in SUBSET Nat
    BY <1>1
  <2>2. \E i \in named : \A j \in named : i <= j
    BY <1>3, <2>1, FirstExists
  <2> DEFINE first == CHOOSE i \in named : \A j \in named : i <= j
  <2>3. first \in named
    BY <2>2
  <2>4. LifecycleError(seq, k) = terminal[first].error
    BY <1>3 DEF LifecycleError, terminal
  <2> HIDE DEF first
  <2>5. terminal[first] \in Status
    BY <1>1, <2>3
  <2>6. QED BY <2>4, <2>5 DEF Status
<1>4. QED BY <1>2, <1>3

LEMMA LastErrorIsText ==
  ASSUME statuses \in Seq(Status)
  PROVE  LastError \in SUBSET Mark
<1> DEFINE errors == {i \in DOMAIN statuses : statuses[i].type = "error"}
<1>1. CASE errors = {}
  BY <1>1 DEF LastError
<1>2. CASE errors # {}
  <2>1. errors \in SUBSET (1 .. Len(statuses)) /\ Len(statuses) \in Nat
    OBVIOUS
  <2>2. \E i \in errors : \A j \in errors : j <= i
    BY <1>2, <2>1, LastExists
  <2> DEFINE last == CHOOSE i \in errors : \A j \in errors : j <= i
  <2>3. last \in errors
    BY <2>2
  <2>4. LastError = statuses[last].error
    BY <1>2 DEF LastError
  <2> HIDE DEF last
  <2>5. statuses[last] \in Status
    BY <2>3
  <2>6. QED BY <2>4, <2>5 DEF Status
<1>3. QED BY <1>1, <1>2

(* A stream that passes holds an error that names authentication.          *)
LEMMA PassNamesAuthentication ==
  ASSUME NEW seq \in Seq(Status), NEW n,
         assessReconnectSequence(Append(seq, Event("close")), n)
  PROVE  \E i \in DOMAIN seq : seq[i].type = "error" /\ ExplicitAuth(seq[i].error)
<1> DEFINE all == Append(seq, Event("close"))
<1>1. Event("close") \in Status
  BY DEF Event, Status, StatusType
<1>2. all \in Seq(Status)
  BY <1>1
<1>3. PICK i \in DOMAIN Terminal(all) :
        Terminal(all)[i].type = "error" /\ ExplicitAuth(Terminal(all)[i].error)
  BY DEF assessReconnectSequence, ErrorTexts
<1>4. PICK j \in DOMAIN all : all[j].type = "error" /\ ExplicitAuth(all[j].error)
  <2>1. PICK j \in DOMAIN all : Terminal(all)[i] = all[j]
    BY <1>2, TerminalIsSuffix
  <2>2. QED BY <1>3, <2>1
<1>5. j # Len(seq) + 1
  BY <1>4 DEF Event
<1>6. j \in DOMAIN seq /\ all[j] = seq[j]
  BY <1>5
<1>7. QED BY <1>4, <1>6
-----------------------------------------------------------------------------
(* What is logged, yielded and reported has the types of TypeOK.           *)
LogLine == [actor : {"fixture", "other"}, text : SUBSET Mark]
Outcome == {"missing", "timeout", "connected-then-server-closed", "connect-threw",
            "unexpected-connect"}
Result == [pass : BOOLEAN, bound : BOOLEAN, error : SUBSET Mark, outcome : Outcome]

LEMMA Texts ==
  /\ {{}, {"auth"}, {"transport"}, {"auth", "transport"}} \subseteq SUBSET Mark
  /\ Denial \subseteq SUBSET Mark
  /\ \A text \in Denial : ExplicitAuth(text)
  /\ \A text \in {{}, {"transport"}} : ~ExplicitAuth(text)
BY DEF Mark, Denial, Reason, expectedPattern, ExplicitAuth

LEMMA EventIsStatus == \A type \in StatusType : Event(type) \in Status
BY DEF Event, Status

LEMMA ErrorIsStatus == \A text \in SUBSET Mark : Error(text) \in Status
BY DEF Error, Status, StatusType

LEMMA LineIsLine ==
  \A actor \in {"fixture", "other"}, text \in SUBSET Mark : Line(actor, text) \in LogLine
BY DEF Line, LogLine

LEMMA ReportIsResult ==
  \A pass \in BOOLEAN, outcome \in Outcome, text \in SUBSET Mark :
    Report(pass, outcome, text) \in Result
BY DEF Report, Result

LEMMA StatusTypes ==
  /\ Event("disconnect") \in Status /\ Event("reconnecting") \in Status
  /\ Event("reconnect") \in Status
BY EventIsStatus DEF StatusType

LEMMA LogGrows ==
  ASSUME TypeOK, NEW line \in LogLine
  PROVE  /\ Append(log, line) \in Seq(LogLine) /\ log \in Seq(LogLine)
         /\ Len(log) \in Nat /\ Len(Append(log, line)) = Len(log) + 1
<1>1. log \in Seq(LogLine)
  BY DEF TypeOK, LogLine
<1> HIDE DEF LogLine
<1>2. QED BY <1>1

LEMMA Bounds == {Exp, MaxAttempts, Kept, MaxTime} \subseteq Nat
BY LifecycleAssumption

LEMMA TypeInit == Init => TypeOK
<1> SUFFICES ASSUME Init PROVE TypeOK
  OBVIOUS
<1>1. NoReport \in Result
  BY DEF NoReport, Result, Outcome
<1>2. 0 \in 0 .. MaxTime /\ 0 \in 0 .. MaxTime + 1 /\ 0 \in 0 .. MaxAttempts
  BY Bounds
<1>3. log \in Seq(LogLine) /\ statuses \in Seq(Status) /\ offset \in 0 .. Len(log)
  BY DEF Init
<1>4. QED BY <1>1, <1>2, <1>3 DEF Init, TypeOK, Result, Outcome, LogLine

LEMMA FixtureTypes ==
  ASSUME TypeOK, Fixture, UNCHANGED <<kind, faults>>
  PROVE  TypeOK'
<1>1. CASE FixtureConnects
  BY <1>1 DEF FixtureConnects, orchestrator, TypeOK
<1>2. CASE FixtureReady
  <2>1. readyAt' \in 0 .. MaxTime + 1
    BY <1>2, LifecycleAssumption DEF FixtureReady, TypeOK
  <2>2. QED BY <1>2, <2>1 DEF FixtureReady, orchestrator, TypeOK
<1>3. CASE FixtureThrownOut
  <2>1. statuses' \in Seq(Status)
    <3>1. PICK text \in Denial : statuses' = statuses \o <<Error(text), Event("disconnect")>>
      BY <1>3 DEF FixtureThrownOut
    <3>2. <<Error(text), Event("disconnect")>> \in Seq(Status)
      BY <3>1, Texts, ErrorIsStatus, StatusTypes
    <3>3. QED BY <3>1, <3>2 DEF TypeOK
  <2>2. log' \in Seq(LogLine) /\ Len(log') = Len(log) + 1
    BY <1>3, Texts, LineIsLine DEF FixtureThrownOut, TypeOK, LogLine
  <2>3. attempts' \in 0 .. MaxAttempts
    BY <1>3, LifecycleAssumption DEF FixtureThrownOut
  <2>4. offset' \in 0 .. Len(log')
    BY <1>3, <2>2 DEF FixtureThrownOut, orchestrator, TypeOK
  <2>5. QED BY <1>3, <2>1, <2>2, <2>3, <2>4 DEF FixtureThrownOut, orchestrator, TypeOK, LogLine
<1>4. CASE FixtureDropped
  <2>1. statuses' \in Seq(Status)
    <3>1. Error({"transport"}) \in Status
      BY Texts, ErrorIsStatus
    <3>2. /\ <<Event("disconnect")>> \in Seq(Status)
          /\ <<Error({"transport"}), Event("disconnect")>> \in Seq(Status)
      BY <3>1, StatusTypes
    <3>3. \E yield \in Seq(Status) : statuses' = statuses \o yield
      BY <1>4, <3>2, Zenon DEF FixtureDropped
    <3>4. QED BY <3>3 DEF TypeOK
  <2>2. attempts' \in 0 .. MaxAttempts
    BY <1>4, LifecycleAssumption DEF FixtureDropped
  <2>3. QED BY <1>4, <2>1, <2>2 DEF FixtureDropped, orchestrator, TypeOK
<1>5. CASE RetryAdmitted
  <2>1. statuses' \in Seq(Status)
    BY <1>5, StatusTypes DEF RetryAdmitted, TypeOK
  <2>2. QED BY <1>5, <2>1 DEF RetryAdmitted, orchestrator, TypeOK
<1>6. ASSUME NEW text \in SUBSET Mark, Retrying, Yields(text), attempts' = attempts + 1
      PROVE  statuses' \in Seq(Status) /\ attempts' \in 0 .. MaxAttempts
  <2>1. Error(text) \in Status
    BY ErrorIsStatus
  <2>2. statuses' \in Seq(Status)
    <3>1. \/ statuses' = statuses \o <<Event("reconnecting"), Error(text)>>
          \/ statuses' = Append(statuses, Event("reconnecting"))
      BY <1>6 DEF Yields
    <3>2. <<Event("reconnecting"), Error(text)>> \in Seq(Status)
      BY <2>1, StatusTypes
    <3>3. statuses \in Seq(Status)
      BY DEF TypeOK
    <3>4. QED BY <3>1, <3>2, <3>3, StatusTypes
  <2>3. QED BY <1>6, <2>2, LifecycleAssumption DEF Retrying, TypeOK
<1>7. CASE RetryDenied
  <2>1. statuses' \in Seq(Status) /\ attempts' \in 0 .. MaxAttempts
    BY <1>6, <1>7, Texts DEF RetryDenied
  <2>2. log' \in Seq(LogLine) /\ Len(log') = Len(log) + 1
    BY <1>7, Texts, LineIsLine DEF RetryDenied, TypeOK, LogLine
  <2>3. offset' \in 0 .. Len(log')
    BY <1>7, <2>2 DEF RetryDenied, orchestrator, TypeOK
  <2>4. QED BY <1>7, <2>1, <2>2, <2>3 DEF RetryDenied, orchestrator, TypeOK, LogLine
<1>8. CASE RetryUnreachable
  <2>1. statuses' \in Seq(Status) /\ attempts' \in 0 .. MaxAttempts
    BY <1>6, <1>8, Texts DEF RetryUnreachable
  <2>2. QED BY <1>8, <2>1 DEF RetryUnreachable, orchestrator, TypeOK
<1>9. ASSUME Gone PROVE statuses' \in Seq(Status) /\ attempts' \in 0 .. MaxAttempts
  BY <1>9, LifecycleAssumption DEF Gone
<1>10. CASE FixtureCloses
  <2>1. report' \in Result
    <3> DEFINE named == LifecycleError(statuses, kind)
               passes == assessReconnectSequence(Append(statuses, Event("close")), MaxAttempts)
    <3>1. named \in SUBSET Mark /\ LastError \in SUBSET Mark
      BY LifecycleErrorIsText, LastErrorIsText DEF TypeOK
    <3>2. passes \in BOOLEAN
      BY DEF assessReconnectSequence
    <3>3. \E closing \in {LastError} \cup (IF faults THEN {{}, {"transport"}} ELSE {}) :
            report' = Report(passes, "connected-then-server-closed",
                             IF named # {} THEN named ELSE closing)
      BY <1>10 DEF FixtureCloses
    <3> HIDE DEF named, passes
    <3>4. PICK error \in SUBSET Mark :
            report' = Report(passes, "connected-then-server-closed", error)
      BY <3>1, <3>3, Texts
    <3>5. QED BY <3>2, <3>4, ReportIsResult DEF Outcome
  <2>2. QED BY <1>9, <1>10, <2>1 DEF FixtureCloses, orchestrator, TypeOK, Result, Outcome
<1>11. CASE FixtureTimesOut
  <2>1. report' \in Result
    BY <1>11, Texts, ReportIsResult DEF FixtureTimesOut, Outcome
  <2>2. QED BY <1>9, <1>11, <2>1 DEF FixtureTimesOut, orchestrator, TypeOK, Result, Outcome
<1>12. CASE FixtureThrows
  BY <1>9, <1>12 DEF FixtureThrows, orchestrator, TypeOK
<1>13. QED
  BY <1>1, <1>2, <1>3, <1>4, <1>5, <1>7, <1>8, <1>10, <1>11, <1>12 DEF Fixture

LEMMA AddTypes ==
  ASSUME TypeOK, NEW verdict \in {"close", "fresh", "control"}, NEW holds, Add(verdict, holds)
  PROVE  verdicts' \subseteq {"close", "fresh", "control"}
BY DEF Add, TypeOK

(* What a fresh connection may report.                                     *)
LEMMA FreshReports ==
  ASSUME TryFresh
  PROVE  /\ report' \in Result /\ report'.outcome # "connected-then-server-closed"
         /\ ExplicitAuth(report'.error) => "fresh" \in seen'
<1>1. CASE \E text \in Denial : report' = Report(TRUE, "connect-threw", text)
                                /\ seen' = seen \cup {"fresh"}
  BY <1>1, Texts DEF Report, Result, Outcome
<1>2. CASE report' \in {Report(FALSE, "unexpected-connect", {})} \cup
             {Report(TRUE, "connect-threw", text) : text \in {{}, {"transport"}}}
  <2>1. PICK pass \in BOOLEAN, outcome \in {"unexpected-connect", "connect-threw"},
             text \in {{}, {"transport"}} : report' = Report(pass, outcome, text)
    BY <1>2
  <2>2. QED BY <2>1, Texts DEF Report, Result, Outcome
<1>3. QED BY <1>1, <1>2 DEF TryFresh

LEMMA OrchestrateTypes ==
  ASSUME TypeOK, Orchestrate, UNCHANGED <<kind, faults>>
  PROVE  TypeOK'
<1>1. Len(log) \in Nat /\ Len(log) \in 0 .. Len(log)
  BY DEF TypeOK
<1>2. CASE StartFixture
  BY <1>1, <1>2 DEF Orchestrate, StartFixture, TypeOK
<1>3. CASE WaitReady
  BY <1>3 DEF Orchestrate, WaitReady, TypeOK
<1>4. CASE RevocationArrives \/ Revoke
  <2>1. revoked' \in BOOLEAN /\ controlBound' \in BOOLEAN
    BY <1>4 DEF RevocationArrives, Revoke, TypeOK
  <2>2. QED BY <1>4, <2>1 DEF Orchestrate, RevocationArrives, Revoke, TypeOK
<1>5. CASE FinishFixture
  <2>1. verdicts' \subseteq {"close", "fresh", "control"} /\ controlBound' \in BOOLEAN
    <3>1. CASE UNCHANGED <<controlBound, verdicts>>
      BY <3>1 DEF TypeOK
    <3>2. ASSUME NEW close, Add("close", close), close \in BOOLEAN,
                 controlBound' = IF kind = "expiry" THEN close /\ now >= Exp ELSE controlBound
          PROVE  verdicts' \subseteq {"close", "fresh", "control"} /\ controlBound' \in BOOLEAN
      BY <3>2, AddTypes DEF TypeOK
    <3>3. assessLifecycleRejection(kind, "active-close", "fixture", kind = "revocation",
            controlBound \/ TimeControl, report, Excerpt) \in BOOLEAN
      BY DEF assessLifecycleRejection
    <3>4. QED BY <1>5, <3>1, <3>2, <3>3 DEF FinishFixture
  <2>2. QED BY <1>5, <2>1 DEF Orchestrate, FinishFixture, TypeOK
<1>6. CASE TryFresh
  <2>1. report' \in Result
    BY <1>6, FreshReports
  <2>2. log' \in Seq(LogLine) /\ Len(log') >= Len(log) /\ Len(log') \in Nat
    <3>1. Line("fixture", {"auth"}) \in LogLine
      BY Texts, LineIsLine
    <3>2. log' = log \/ log' = Append(log, Line("fixture", {"auth"}))
      BY <1>6 DEF TryFresh
    <3>3. CASE log' = log
      BY <3>1, <3>3, LogGrows
    <3>4. CASE log' = Append(log, Line("fixture", {"auth"}))
      BY <3>1, <3>4, LogGrows
    <3>5. QED BY <3>2, <3>3, <3>4
  <2>3. seen' \subseteq {"session", "retry", "fresh", "readmitted"}
    BY <1>6 DEF TryFresh, TypeOK
  <2>4. offset' \in 0 .. Len(log')
    BY <1>1, <1>6, <2>2 DEF TryFresh
  <2>5. QED
    BY <1>6, <2>1, <2>2, <2>3, <2>4 DEF Orchestrate, TryFresh, TypeOK, Result, Outcome, LogLine
<1>7. CASE JudgeFresh
  <2>1. verdicts' \subseteq {"close", "fresh", "control"}
    BY <1>7, AddTypes DEF JudgeFresh
  <2>2. QED BY <1>7, <2>1 DEF Orchestrate, JudgeFresh, TypeOK
<1>8. CASE HealthyControl
  <2>1. verdicts' \subseteq {"close", "fresh", "control"}
    BY <1>8, AddTypes DEF HealthyControl
  <2>2. QED BY <1>8, <2>1 DEF Orchestrate, HealthyControl, TypeOK
<1>9. CASE Proof
  BY <1>9 DEF Orchestrate, Proof, TypeOK
<1>10. QED
  BY <1>2, <1>3, <1>4, <1>5, <1>6, <1>7, <1>8, <1>9 DEF Orchestrate

LEMMA EnvironmentTypes ==
  ASSUME TypeOK, Environment, UNCHANGED <<kind, faults>>
  PROVE  TypeOK'
<1>1. CASE Tick
  <2>1. now' \in 0 .. MaxTime
    BY <1>1, Bounds DEF Tick, TypeOK
  <2>2. QED BY <1>1, <2>1 DEF Tick, orchestrator, TypeOK
<1>2. CASE Outage
  <2>1. reachable' \in BOOLEAN
    BY <1>2 DEF Outage, TypeOK
  <2>2. QED BY <1>2, <2>1 DEF Outage, orchestrator, TypeOK
<1>3. CASE Recovery
  BY <1>3 DEF Recovery, orchestrator, TypeOK
<1>4. CASE OtherActorDenied
  <2>1. log' \in Seq(LogLine) /\ Len(log') = Len(log) + 1 /\ Len(log) \in Nat
    <3>1. PICK text \in {{"auth"}, {"auth", "transport"}} :
            log' = Append(log, Line("other", text))
      BY <1>4 DEF OtherActorDenied
    <3>2. Line("other", text) \in LogLine
      BY Texts, LineIsLine
    <3>3. QED BY <3>1, <3>2, LogGrows
  <2>2. offset' \in 0 .. Len(log')
    BY <1>4, <2>1 DEF OtherActorDenied, orchestrator, TypeOK
  <2>3. QED BY <1>4, <2>1, <2>2 DEF OtherActorDenied, orchestrator, TypeOK, LogLine
<1>5. QED BY <1>1, <1>2, <1>3, <1>4 DEF Environment

LEMMA TypeStep == TypeOK /\ [Next]_vars => TypeOK'
<1> SUFFICES ASSUME TypeOK, [Next]_vars PROVE TypeOK'
  OBVIOUS
<1>1. CASE UNCHANGED vars
  BY <1>1 DEF TypeOK, vars
<1>2. CASE Step(Fixture)
  BY <1>2, FixtureTypes DEF Step
<1>3. CASE Step(Orchestrate)
  BY <1>3, OrchestrateTypes DEF Step
<1>4. CASE Step(Environment)
  BY <1>4, EnvironmentTypes DEF Step
<1>5. QED BY <1>1, <1>2, <1>3, <1>4 DEF Next, Rest

(* The gate keeps its shape: the client never makes more attempts than     *)
(* MAX_RECONNECT_ATTEMPTS, the offset it keeps lies within the log of the  *)
(* server, and every result carries a text and an outcome it knows.        *)
THEOREM GateTypeCorrect == Spec => []TypeOK
BY TypeInit, TypeStep, PTL DEF Spec

-----------------------------------------------------------------------------
(* Why a pass is a denial.  An error that names authentication comes only  *)
(* from a server that turned the session or its reconnection away          *)
(* (TurnedOut), so a stream that passes, the result written from it and    *)
(* the verdict given on that result are each evidence of it; the result of *)
(* the fresh connection likewise; the fixture has come to its end before   *)
(* that connection is made, and cannot overwrite its result; and a         *)
(* revocation is under control only once the server holds it.              *)
TurnedOut == seen \cap {"session", "retry"} # {}

NamesAuthentication(status) == status.type = "error" /\ ExplicitAuth(status.error)

StatusesTrue == \A i \in DOMAIN statuses : NamesAuthentication(statuses[i]) => TurnedOut
ResultTrue == report.pass /\ report.outcome = "connected-then-server-closed" => TurnedOut
FreshTrue == pc = "judge" /\ ExplicitAuth(report.error) => "fresh" \in seen
VerdictsTrue ==
  /\ "close" \in verdicts => TurnedOut
  /\ "fresh" \in verdicts => "fresh" \in seen
Ended ==
  pc \in {"fresh", "judge", "control", "proof", "passed", "refused"} => session = "done"
Uncontrolled == pc \in {"start", "ready", "revoke"} => ~controlBound
ControlTrue == kind = "revocation" /\ controlBound => revoked

Inv ==
  /\ TypeOK /\ StatusesTrue /\ ResultTrue /\ FreshTrue /\ VerdictsTrue
  /\ Ended /\ Uncontrolled /\ ControlTrue /\ PassIsDenial

LEMMA InvInit == Init => Inv
<1> SUFFICES ASSUME Init PROVE Inv
  OBVIOUS
<1>1. TypeOK
  BY TypeInit
<1>2. DOMAIN statuses = {} /\ ~report.pass /\ pc = "start" /\ verdicts = {} /\ ~controlBound
  BY DEF Init, NoReport
<1>3. QED
  BY <1>1, <1>2
  DEF Inv, StatusesTrue, ResultTrue, FreshTrue, VerdictsTrue, Ended, Uncontrolled,
      ControlTrue, PassIsDenial

(* Statuses are added at the end.                                          *)
LEMMA StatusesGrow ==
  ASSUME StatusesTrue, TypeOK, NEW yield \in Seq(Status), statuses' = statuses \o yield,
         TurnedOut => TurnedOut',
         \A i \in DOMAIN yield : NamesAuthentication(yield[i]) => TurnedOut'
  PROVE  StatusesTrue'
<1> SUFFICES ASSUME NEW i \in DOMAIN statuses', NamesAuthentication(statuses'[i])
             PROVE  TurnedOut'
  BY DEF StatusesTrue, NamesAuthentication
<1>1. statuses \in Seq(Status) /\ Len(statuses) \in Nat /\ Len(yield) \in Nat
  BY DEF TypeOK
<1>2. CASE i \in DOMAIN statuses
  <2>1. statuses'[i] = statuses[i]
    BY <1>1, <1>2
  <2>2. QED BY <1>2, <2>1 DEF StatusesTrue
<1>3. CASE i \notin DOMAIN statuses
  <2>1. i - Len(statuses) \in DOMAIN yield /\ statuses'[i] = yield[i - Len(statuses)]
    BY <1>1, <1>3
  <2>2. QED BY <2>1
<1>4. QED BY <1>2, <1>3

LEMMA StatusesGrowByTwo ==
  ASSUME StatusesTrue, TypeOK, TurnedOut => TurnedOut',
         NEW a \in Status, NEW b \in Status, statuses' = statuses \o <<a, b>>,
         NamesAuthentication(a) \/ NamesAuthentication(b) => TurnedOut'
  PROVE  StatusesTrue'
<1>1. <<a, b>> \in Seq(Status) /\ DOMAIN <<a, b>> = {1, 2}
  OBVIOUS
<1>2. NamesAuthentication(<<a, b>>[1]) => TurnedOut'
  OBVIOUS
<1>3. NamesAuthentication(<<a, b>>[2]) => TurnedOut'
  OBVIOUS
<1>4. \A i \in DOMAIN <<a, b>> : NamesAuthentication(<<a, b>>[i]) => TurnedOut'
  BY <1>1, <1>2, <1>3
<1>5. QED BY <1>1, <1>4, StatusesGrow

LEMMA StatusesGrowByOne ==
  ASSUME StatusesTrue, TypeOK, TurnedOut => TurnedOut',
         NEW a \in Status, statuses' = statuses \o <<a>>,
         NamesAuthentication(a) => TurnedOut'
  PROVE  StatusesTrue'
<1>1. <<a>> \in Seq(Status) /\ DOMAIN <<a>> = {1} /\ <<a>>[1] = a
  OBVIOUS
<1>2. \A i \in DOMAIN <<a>> : NamesAuthentication(<<a>>[i]) => TurnedOut'
  BY <1>1
<1>3. QED BY <1>1, <1>2, StatusesGrow

(* What the fixture does keeps statuses and result true.                   *)
LEMMA FixtureTells ==
  ASSUME Inv, Fixture
  PROVE  /\ TurnedOut => TurnedOut'
         /\ "fresh" \in seen => "fresh" \in seen'
         /\ StatusesTrue' /\ ResultTrue'
         /\ session # "done" /\ UNCHANGED <<pc, verdicts, revoked, controlBound>>
<1>1. /\ TypeOK /\ StatusesTrue /\ ResultTrue
  BY DEF Inv
<1>2. statuses \in Seq(Status)
  BY <1>1 DEF TypeOK
<1>3. /\ seen \subseteq seen' /\ session # "done"
      /\ UNCHANGED <<pc, verdicts, revoked, controlBound>>
  BY DEF Fixture, FixtureConnects, FixtureReady, FixtureThrownOut, FixtureDropped, Retrying,
         RetryAdmitted, RetryDenied, RetryUnreachable, FixtureCloses, FixtureTimesOut,
         FixtureThrows, orchestrator
<1>4. (TurnedOut => TurnedOut') /\ ("fresh" \in seen => "fresh" \in seen')
  BY <1>3 DEF TurnedOut
<1>5. ASSUME UNCHANGED report PROVE ResultTrue'
  BY <1>1, <1>4, <1>5 DEF ResultTrue
<1>6. ASSUME UNCHANGED statuses PROVE StatusesTrue'
  BY <1>1, <1>4, <1>6 DEF StatusesTrue
<1>7. ASSUME Gone PROVE StatusesTrue'
  BY <1>7 DEF Gone, StatusesTrue
<1>8. ASSUME NEW type \in StatusType
      PROVE  type # "error" => ~NamesAuthentication(Event(type))
  BY DEF NamesAuthentication, Event
<1>9. CASE FixtureConnects \/ FixtureReady
  BY <1>3, <1>4, <1>5, <1>6, <1>9 DEF FixtureConnects, FixtureReady
<1>10. CASE FixtureThrownOut
  <2>1. TurnedOut'
    BY <1>10 DEF FixtureThrownOut, TurnedOut
  <2>2. PICK text \in Denial : statuses' = statuses \o <<Error(text), Event("disconnect")>>
    BY <1>10 DEF FixtureThrownOut
  <2>3. <<Error(text), Event("disconnect")>> \in Seq(Status)
    BY <2>2, Texts, ErrorIsStatus, StatusTypes
  <2>4. StatusesTrue'
    BY <1>1, <2>1, <2>2, <2>3, StatusesGrow
  <2>5. QED BY <1>3, <1>4, <1>5, <1>10, <2>4 DEF FixtureThrownOut
<1>11. CASE FixtureDropped
  <2>1. Error({"transport"}) \in Status /\ ~NamesAuthentication(Error({"transport"}))
    BY Texts, ErrorIsStatus DEF NamesAuthentication, Error
  <2>2. ~NamesAuthentication(Event("disconnect"))
    BY DEF NamesAuthentication, Event
  <2>3. ASSUME statuses' = statuses \o <<Event("disconnect")>>
        PROVE  StatusesTrue'
    BY <1>1, <1>4, <2>2, <2>3, StatusTypes, StatusesGrowByOne
  <2>4. ASSUME statuses' = statuses \o <<Error({"transport"}), Event("disconnect")>>
        PROVE  StatusesTrue'
    BY <1>1, <1>4, <2>1, <2>2, <2>4, StatusTypes, StatusesGrowByTwo
  <2>5. QED BY <1>3, <1>4, <1>5, <1>11, <2>3, <2>4 DEF FixtureDropped
<1>12. CASE RetryAdmitted
  <2>1. /\ ~NamesAuthentication(Event("reconnecting"))
        /\ ~NamesAuthentication(Event("reconnect"))
    BY DEF NamesAuthentication, Event
  <2>2. StatusesTrue'
    BY <1>1, <1>4, <1>12, <2>1, StatusTypes, StatusesGrowByTwo DEF RetryAdmitted
  <2>3. QED BY <1>3, <1>4, <1>5, <1>12, <2>2 DEF RetryAdmitted
<1>13. ASSUME NEW text \in SUBSET Mark, Yields(text), ExplicitAuth(text) => TurnedOut'
       PROVE  StatusesTrue'
  <2>1. /\ Error(text) \in Status /\ (NamesAuthentication(Error(text)) => TurnedOut')
        /\ ~NamesAuthentication(Event("reconnecting"))
    BY <1>13, ErrorIsStatus DEF NamesAuthentication, Error, Event
  <2>2. CASE statuses' = statuses \o <<Event("reconnecting"), Error(text)>>
    BY <1>1, <1>4, <2>1, <2>2, StatusTypes, StatusesGrowByTwo
  <2>3. CASE statuses' = Append(statuses, Event("reconnecting"))
    <3>1. statuses' = statuses \o <<Event("reconnecting")>>
      BY <1>2, <2>3, StatusTypes
    <3>2. QED BY <1>1, <1>4, <2>1, <3>1, StatusTypes, StatusesGrowByOne
  <2>4. QED BY <1>13, <2>2, <2>3 DEF Yields
<1>14. CASE RetryDenied
  <2>1. TurnedOut'
    BY <1>14 DEF RetryDenied, TurnedOut
  <2>2. StatusesTrue'
    BY <1>13, <1>14, <2>1, Texts DEF RetryDenied
  <2>3. QED BY <1>3, <1>4, <1>5, <1>14, <2>2 DEF RetryDenied
<1>15. CASE RetryUnreachable
  <2>1. StatusesTrue'
    BY <1>13, <1>15, Texts DEF RetryUnreachable
  <2>2. QED BY <1>3, <1>4, <1>5, <1>15, <2>1 DEF RetryUnreachable
<1>16. CASE FixtureCloses
  <2> DEFINE passes == assessReconnectSequence(Append(statuses, Event("close")), MaxAttempts)
  <2>1. report'.pass = passes
    BY <1>16 DEF FixtureCloses, Report
  <2>2. passes => TurnedOut
    <3>1. ASSUME passes
          PROVE  \E i \in DOMAIN statuses : NamesAuthentication(statuses[i])
      BY <1>2, <3>1, PassNamesAuthentication DEF NamesAuthentication
    <3>2. QED BY <1>1, <3>1 DEF StatusesTrue
  <2>3. ResultTrue'
    BY <1>4, <2>1, <2>2 DEF ResultTrue
  <2>4. QED BY <1>3, <1>4, <1>7, <1>16, <2>3 DEF FixtureCloses
<1>17. CASE FixtureTimesOut
  <2>1. ~report'.pass
    BY <1>17 DEF FixtureTimesOut, Report
  <2>2. QED BY <1>3, <1>4, <1>7, <1>17, <2>1 DEF FixtureTimesOut, ResultTrue
<1>18. CASE FixtureThrows
  BY <1>3, <1>4, <1>5, <1>7, <1>18 DEF FixtureThrows
<1>19. QED
  BY <1>9, <1>10, <1>11, <1>12, <1>14, <1>15, <1>16, <1>17, <1>18 DEF Fixture

(* The judgement of the close stands on the fixture's result, that of the  *)
(* fresh connection on what its attempt met, and a pass on both.           *)
LEMMA OrchestrateTells ==
  ASSUME Inv, Orchestrate, UNCHANGED kind
  PROVE  /\ StatusesTrue' /\ ResultTrue' /\ FreshTrue' /\ VerdictsTrue'
         /\ Ended' /\ Uncontrolled' /\ ControlTrue' /\ PassIsDenial'
<1> USE DEF TurnedOut
<1>1. /\ TypeOK /\ StatusesTrue /\ ResultTrue /\ FreshTrue /\ VerdictsTrue
      /\ Ended /\ Uncontrolled /\ ControlTrue
  BY DEF Inv
<1>2. UNCHANGED statuses /\ seen \subseteq seen'
  BY DEF Orchestrate, StartFixture, WaitReady, RevocationArrives, Revoke, FinishFixture,
         TryFresh, JudgeFresh, HealthyControl, Proof
<1>3. StatusesTrue'
  BY <1>1, <1>2 DEF StatusesTrue
<1>4. CASE StartFixture \/ WaitReady
  <2>1. /\ UNCHANGED <<controlBound, verdicts, report, seen, revoked>>
        /\ pc \in {"start", "ready"} /\ pc' \in {"ready", "revoke", "close", "thrown"}
    BY <1>4 DEF StartFixture, WaitReady, AfterReady
  <2>2. ResultTrue' /\ VerdictsTrue' /\ ControlTrue'
    BY <1>1, <2>1 DEF ResultTrue, VerdictsTrue, ControlTrue
  <2>3. FreshTrue' /\ Ended' /\ Uncontrolled' /\ PassIsDenial'
    BY <1>1, <2>1 DEF FreshTrue, Ended, Uncontrolled, PassIsDenial
  <2>4. QED BY <1>3, <2>2, <2>3
<1>5. CASE RevocationArrives \/ Revoke
  <2>1. /\ UNCHANGED <<verdicts, report, seen>> /\ ~controlBound
        /\ pc' \in {"revoke", "close", "thrown"}
    BY <1>1, <1>5 DEF RevocationArrives, Revoke, Uncontrolled
  <2>2. (controlBound' => revoked') /\ (pc' = "revoke" => ~controlBound')
    BY <1>5, <2>1 DEF RevocationArrives, Revoke
  <2>3. ResultTrue' /\ VerdictsTrue' /\ ControlTrue'
    BY <1>1, <2>1, <2>2 DEF ResultTrue, VerdictsTrue, ControlTrue
  <2>4. FreshTrue' /\ Ended' /\ Uncontrolled' /\ PassIsDenial'
    BY <2>1, <2>2 DEF FreshTrue, Ended, Uncontrolled, PassIsDenial
  <2>5. QED BY <1>3, <2>3, <2>4
<1>6. CASE FinishFixture
  <2>1. UNCHANGED <<session, report, seen, revoked>> /\ pc' \in {"fresh", "thrown"}
    BY <1>6 DEF FinishFixture
  <2>2. pc' = "fresh" => session' = "done"
    BY <1>6 DEF FinishFixture
  <2>3. VerdictsTrue' /\ ControlTrue'
    <3> DEFINE close == assessLifecycleRejection(kind, "active-close", "fixture",
                          kind = "revocation", controlBound \/ TimeControl, report, Excerpt)
    <3>1. close => TurnedOut
      BY <1>1 DEF assessLifecycleRejection, ExpectedOutcome, ResultTrue
    <3>2. \/ UNCHANGED <<controlBound, verdicts>>
          \/ /\ verdicts' = IF close THEN verdicts \cup {"close"} ELSE verdicts
             /\ controlBound' = IF kind = "expiry" THEN close /\ now >= Exp ELSE controlBound
      BY <1>6 DEF FinishFixture, Add
    <3> HIDE DEF close
    <3>3. VerdictsTrue'
      BY <1>1, <2>1, <3>1, <3>2 DEF VerdictsTrue
    <3>4. ControlTrue'
      BY <1>1, <2>1, <3>2 DEF ControlTrue
    <3>5. QED BY <3>3, <3>4
  <2>4. ResultTrue' /\ FreshTrue' /\ Ended' /\ Uncontrolled' /\ PassIsDenial'
    BY <1>1, <2>1, <2>2 DEF ResultTrue, FreshTrue, Ended, Uncontrolled, PassIsDenial
  <2>5. QED BY <1>3, <2>3, <2>4
<1>7. CASE TryFresh
  <2>1. /\ UNCHANGED <<session, controlBound, verdicts, revoked>>
        /\ pc = "fresh" /\ pc' \in {"judge", "thrown"}
    BY <1>7 DEF TryFresh, Interrupted
  <2>2. /\ report'.outcome # "connected-then-server-closed"
        /\ ExplicitAuth(report'.error) => "fresh" \in seen'
    BY <1>7, FreshReports
  <2>3. ResultTrue' /\ FreshTrue'
    BY <2>2 DEF ResultTrue, FreshTrue
  <2>4. VerdictsTrue' /\ ControlTrue'
    BY <1>1, <1>2, <2>1 DEF VerdictsTrue, ControlTrue
  <2>5. Ended' /\ Uncontrolled' /\ PassIsDenial'
    BY <1>1, <2>1 DEF Ended, Uncontrolled, PassIsDenial
  <2>6. QED BY <1>3, <2>3, <2>4, <2>5
<1>8. CASE JudgeFresh
  <2> DEFINE fresh == assessLifecycleRejection(kind, "fresh-connect", "fixture",
                        kind = "revocation", controlBound, report, Excerpt)
  <2>1. /\ UNCHANGED <<session, controlBound, report, seen, revoked>>
        /\ pc = "judge" /\ pc' = "control"
        /\ verdicts' = IF fresh THEN verdicts \cup {"fresh"} ELSE verdicts
    BY <1>8 DEF JudgeFresh, Add
  <2>2. fresh => "fresh" \in seen
    BY <1>1, <2>1 DEF assessLifecycleRejection, FreshTrue
  <2> HIDE DEF fresh
  <2>3. VerdictsTrue' /\ ControlTrue' /\ ResultTrue'
    BY <1>1, <2>1, <2>2 DEF VerdictsTrue, ControlTrue, ResultTrue
  <2>4. FreshTrue' /\ Ended' /\ Uncontrolled' /\ PassIsDenial'
    BY <1>1, <2>1 DEF FreshTrue, Ended, Uncontrolled, PassIsDenial
  <2>5. QED BY <1>3, <2>3, <2>4
<1>9. CASE HealthyControl
  <2>1. /\ UNCHANGED <<session, controlBound, report, seen, revoked>>
        /\ pc = "control" /\ pc' \in {"proof", "thrown"}
        /\ verdicts' \subseteq verdicts \cup {"control"}
    BY <1>9 DEF HealthyControl, Add, Interrupted
  <2>2. VerdictsTrue' /\ ControlTrue' /\ ResultTrue'
    BY <1>1, <2>1 DEF VerdictsTrue, ControlTrue, ResultTrue
  <2>3. FreshTrue' /\ Ended' /\ Uncontrolled' /\ PassIsDenial'
    BY <1>1, <2>1 DEF FreshTrue, Ended, Uncontrolled, PassIsDenial
  <2>4. QED BY <1>3, <2>2, <2>3
<1>10. CASE Proof
  <2>1. /\ UNCHANGED <<session, controlBound, verdicts, report, seen, revoked, now, readyAt>>
        /\ pc = "proof" /\ pc' \in {"passed", "refused"}
    BY <1>10 DEF Orchestrate, Proof
  <2>2. VerdictsTrue' /\ ControlTrue' /\ ResultTrue'
    BY <1>1, <2>1 DEF VerdictsTrue, ControlTrue, ResultTrue
  <2>3. FreshTrue' /\ Ended' /\ Uncontrolled'
    BY <1>1, <2>1 DEF FreshTrue, Ended, Uncontrolled
  <2>4. PassIsDenial'
    <3>1. SUFFICES ASSUME pc' = "passed" PROVE PassIsDenial'
      BY DEF PassIsDenial
    <3>2. verdicts = {"close", "fresh", "control"} /\ controlBound
          /\ (kind = "expiry" => TimeControl)
      BY <1>10, <3>1 DEF Proof
    <3>3. "fresh" \in seen' /\ TurnedOut'
      BY <1>1, <2>1, <3>2 DEF VerdictsTrue
    <3>4. session' = "done"
      BY <1>1, <2>1 DEF Ended
    <3>5. IF kind' = "expiry" THEN readyAt' - 1 < Exp /\ now' >= Exp ELSE revoked'
      <4>1. CASE kind = "expiry"
        BY <2>1, <3>2, <4>1 DEF TimeControl
      <4>2. CASE kind = "revocation"
        BY <1>1, <2>1, <3>2, <4>2 DEF ControlTrue
      <4>3. QED BY <1>1, <4>1, <4>2 DEF TypeOK, Kinds
    <3>6. QED BY <3>3, <3>4, <3>5 DEF PassIsDenial
  <2>5. QED BY <1>3, <2>2, <2>3, <2>4
<1>11. QED
  BY <1>4, <1>5, <1>6, <1>7, <1>8, <1>9, <1>10 DEF Orchestrate

LEMMA InvStep == Inv /\ [Next]_vars => Inv'
<1> SUFFICES ASSUME Inv, [Next]_vars PROVE Inv'
  OBVIOUS
<1>1. TypeOK'
  BY TypeStep DEF Inv
<1> USE DEF TurnedOut
<1>2. CASE UNCHANGED vars
  BY <1>1, <1>2
  DEF Inv, vars, StatusesTrue, ResultTrue, FreshTrue, VerdictsTrue, Ended, Uncontrolled,
      ControlTrue, PassIsDenial
<1>3. CASE Step(Orchestrate)
  <2>1. Orchestrate /\ UNCHANGED kind
    BY <1>3 DEF Step
  <2>2. QED BY <1>1, <2>1, OrchestrateTells DEF Inv
<1>4. CASE Step(Environment)
  <2>1. /\ UNCHANGED <<kind, revoked, statuses, session, pc, controlBound, verdicts,
                       report, seen>>
        /\ pc # "passed"
    BY <1>4 DEF Step, Over, Environment, Tick, Outage, Recovery, OtherActorDenied, orchestrator
  <2>2. StatusesTrue' /\ ResultTrue' /\ FreshTrue' /\ VerdictsTrue'
    BY <2>1 DEF Inv, StatusesTrue, ResultTrue, FreshTrue, VerdictsTrue
  <2>3. Ended' /\ Uncontrolled' /\ ControlTrue' /\ PassIsDenial'
    BY <2>1 DEF Inv, Ended, Uncontrolled, ControlTrue, PassIsDenial
  <2>4. QED BY <1>1, <2>2, <2>3 DEF Inv
<1>5. CASE Step(Fixture)
  <2>1. /\ Fixture /\ UNCHANGED kind /\ pc # "passed"
    BY <1>5 DEF Step, Over
  <2>2. /\ TurnedOut => TurnedOut'
        /\ "fresh" \in seen => "fresh" \in seen'
        /\ StatusesTrue' /\ ResultTrue'
        /\ session # "done" /\ UNCHANGED <<pc, verdicts, revoked, controlBound>>
    BY <2>1, FixtureTells
  <2>3. pc \notin {"fresh", "judge", "control", "proof", "passed", "refused"}
    BY <2>2 DEF Inv, Ended
  <2>4. FreshTrue' /\ VerdictsTrue'
    BY <2>2, <2>3 DEF Inv, FreshTrue, VerdictsTrue
  <2>5. Ended' /\ Uncontrolled' /\ ControlTrue' /\ PassIsDenial'
    BY <2>1, <2>2, <2>3 DEF Inv, Ended, Uncontrolled, ControlTrue, PassIsDenial
  <2>6. QED BY <1>1, <2>2, <2>4, <2>5 DEF Inv
<1>6. QED BY <1>2, <1>3, <1>4, <1>5 DEF Next, Rest

(* The gate is not passed by a failing transport, by another actor's       *)
(* denial or by a credential that was never valid (assessReconnectSequence *)
(* and assessLifecycleRejection under the orchestrator): however many      *)
(* attempts, outages, dropped connections, reconnections and log lines     *)
(* there are, and even if the server lets a denied session back in.        *)
THEOREM PassesAreDenials == Spec => []PassIsDenial
<1>1. Inv => PassIsDenial
  BY DEF Inv
<1>2. QED BY <1>1, InvInit, InvStep, PTL DEF Spec
=============================================================================
