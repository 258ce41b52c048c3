--------------------------- MODULE CanaryRunProofs ---------------------------
(***************************************************************************)
(* What CanaryRun guarantees for any number of runs.                       *)
(*                                                                         *)
(* The inductive invariant is Inv: the type invariant, and what holds on   *)
(* the way to a proof: no proof and no exit code of this run before it is  *)
(* written, every live process tracked, the teardown true so far, and the  *)
(* answers of the canary's own server behind the checks that passed.       *)
(***************************************************************************)
EXTENDS CanaryRun, TLAPS

(* The file is this run's, and there is an exit code, only once the        *)
(* statements of the run are over.                                         *)
Busy == Running /\ pc # <<"linger">>
NothingYet ==
  /\ latest.run <= run
  /\ Busy => latest.run < run /\ exitCode = "none"

AllTracked == Up \subseteq tracked

(* What the teardown has found is true at every stage of it.               *)
TeardownSoFar ==
  /\ pc = <<"server">> /\ teardown.exited => Up \cap Fixture = {}
  /\ pc \in {<<"listeners">>, <<"remove">>, <<"prove">>} /\ teardown.exited => Up = {}
  /\ pc = <<"prove">> /\ teardown.removed => ~root

(* Nothing has passed before the negative control; the client comes after  *)
(* it.                                                                     *)
Early ==
  {<<"tools">>, <<"tls">>, <<"trust">>, <<"ports">>, <<"config">>, <<"serve">>, <<"listen">>,
   <<"negative">>}
InOrder ==
  /\ pc \in Early => passed = {}
  /\ pc = <<"client">> => <<"negative">> \in passed

(* A check that passed was answered by the canary's own server, but        *)
(* perhaps for the negative control, and the client passed after it.       *)
Answers ==
  /\ passed \ answered \subseteq {<<"negative">>}
  /\ <<"client">> \in passed => <<"negative">> \in passed

Inv ==
  /\ TypeOK /\ NothingYet /\ AllTracked /\ TeardownSoFar /\ InOrder /\ Answers
  /\ TeardownTellsTruth /\ RemovalTellsTruth /\ ExitTellsTruth /\ PassIsEarned

----------------------------------------------------------------------------
(* The order of the script.                                                *)
Scripted == {Script[i] : i \in DOMAIN Script}

LEMMA ScriptOrder ==
  ASSUME NEW i \in 1 .. 20, pc = Script[i], Proceed
  PROVE  pc' = Script[i + 1]
<1>1. \A j \in DOMAIN Script : Script[j] = pc => j = i
  BY DEF Script
<1>2. i \in DOMAIN Script
  BY DEF Script
<1> QED BY <1>1, <1>2 DEF Proceed

LEMMA Proceeds ==
  ASSUME pc \in Scripted \ {<<"gate">>}, Proceed
  PROVE  /\ pc' \in Scripted
         /\ pc' \in Early => pc \in Early \ {<<"negative">>}
         /\ pc' = <<"client">> => pc = <<"negative">>
<1>1. PICK i \in 1 .. 20 : pc = Script[i]
  BY DEF Scripted, Script
<1>2. pc' = Script[i + 1]
  BY <1>1, ScriptOrder
<1>3. \A n \in 1 .. 20 : Script[n + 1] \in Early => n \in 1 .. 7
  BY DEF Script, Early
<1>4. \A n \in 1 .. 7 : Script[n] \in Early \ {<<"negative">>}
  BY DEF Script, Early
<1>5. \A n \in 1 .. 20 : Script[n + 1] = <<"client">> => Script[n] = <<"negative">>
  BY DEF Script
<1>6. i + 1 \in DOMAIN Script
  BY DEF Script
<1> QED BY <1>1, <1>2, <1>3, <1>4, <1>5, <1>6 DEF Scripted

(* Scripted stages are none of the later ones.                             *)
LEMMA ScriptedStages ==
  /\ Scripted \subseteq Stages
  /\ Scripted \cap (Cleanup \cup Final) = {}
  /\ Early \subseteq Scripted
  /\ <<"children">> \in Stages \ (Early \cup Final)
  /\ \A stage \in Cleanup \cup Final : stage \in Stages \ Early /\ stage # <<"client">>
  /\ (Cleanup \cup {<<"prove">>}) \cap (Over \cup {<<"linger">>}) = {}
  /\ Over \subseteq Final /\ {<<"prove">>, <<"linger">>} \subseteq Final
BY DEF Scripted, Stages, Script, Cleanup, Final, Over, Early

LEMMA TryStages ==
  /\ {<<"tools">>, <<"tls">>, <<"trust">>, <<"ports">>, <<"config">>, <<"serve">>, <<"listen">>,
      <<"negative">>, <<"client">>, <<"revoke">>} \subseteq Scripted \ {<<"gate">>}
  /\ <<"gate">> \in Scripted
  /\ \A f \in Fixture, step \in Step \cup {"start", "ready"} :
       <<f, step>> \in Scripted \ {<<"gate">>}
<1>1. \A i \in 1 .. 21 : Script[i] \in Scripted
  BY DEF Scripted, Script
<1>2. /\ Script[1] = <<"tools">> /\ Script[2] = <<"tls">> /\ Script[3] = <<"trust">>
      /\ Script[4] = <<"ports">> /\ Script[5] = <<"config">> /\ Script[6] = <<"serve">>
      /\ Script[7] = <<"listen">> /\ Script[8] = <<"negative">> /\ Script[9] = <<"client">>
      /\ Script[17] = <<"revoke">> /\ Script[21] = <<"gate">>
  BY DEF Script
<1>3. /\ Script[10] = <<"expiry", "start">> /\ Script[11] = <<"expiry", "ready">>
      /\ Script[12] = <<"expiry", "close">> /\ Script[13] = <<"expiry", "fresh">>
      /\ Script[14] = <<"expiry", "control">> /\ Script[15] = <<"revocation", "start">>
      /\ Script[16] = <<"revocation", "ready">> /\ Script[18] = <<"revocation", "close">>
      /\ Script[19] = <<"revocation", "fresh">> /\ Script[20] = <<"revocation", "control">>
  BY DEF Script
<1>4. \A f, step : <<f, step>> # <<"gate">>
  OBVIOUS
<1>5. {<<"tools">>, <<"tls">>, <<"trust">>, <<"ports">>, <<"config">>, <<"serve">>, <<"listen">>,
       <<"negative">>, <<"client">>, <<"revoke">>, <<"gate">>} \subseteq Scripted
  BY <1>1, <1>2
<1>7. <<"gate">> \notin {<<"tools">>, <<"tls">>, <<"trust">>, <<"ports">>, <<"config">>,
                       <<"serve">>, <<"listen">>, <<"negative">>, <<"client">>, <<"revoke">>}
  OBVIOUS
<1>6. ASSUME NEW step \in {"start", "ready", "close", "fresh", "control"}
      PROVE  <<"expiry", step>> \in Scripted /\ <<"revocation", step>> \in Scripted
  BY <1>1, <1>3
<1> QED BY <1>4, <1>5, <1>6, <1>7 DEF Fixture, Step

(* A step of the try block goes on or throws.                              *)
LEMMA TryMoves ==
  ASSUME Try
  PROVE  /\ pc \in Scripted
         /\ \/ pc # <<"gate">> /\ Proceed
            \/ pc' = <<"children">>
<1> DEFINE Goal == pc \in Scripted /\ ((pc # <<"gate">> /\ Proceed) \/ pc' = <<"children">>)
<1>1. CASE Prepare
  BY <1>1, TryStages DEF Prepare, Throw, Proceed
<1>2. CASE ReservePorts
  BY <1>2, TryStages DEF ReservePorts, Throw
<1>3. CASE StartProcess
  <2>1. ASSUME NEW p, Spawn(p) PROVE Proceed
    BY <2>1 DEF Spawn, Proceed
  <2>2. CASE pc = <<"serve">> /\ Spawn("server")
    BY <2>1, <2>2, TryStages
  <2>3. CASE \E f \in Fixture : pc = <<f, "start">> /\ Spawn(f)
    BY <2>1, <2>3, TryStages
  <2>4. <<"expiry", "start">> \in Scripted /\ <<"revocation", "start">> \in Scripted
    BY TryStages DEF Fixture
  <2> QED BY <1>3, <2>2, <2>3, <2>4, TryStages DEF StartProcess, Throw
<1>4. CASE WaitForPort
  BY <1>4, TryStages DEF WaitForPort, Throw
<1>5. CASE Gate
  BY <1>5, TryStages DEF Gate, Throw
<1>6. ASSUME NEW check \in {<<"negative">>, <<"client">>}, Require(check) PROVE Goal
  BY <1>6, TryStages DEF Require, Throw
<1>7. ASSUME NEW f \in Fixture, WaitForMarker(f) PROVE Goal
  BY <1>7, TryStages DEF WaitForMarker, Throw
<1>8. ASSUME NEW f \in Fixture, FinishFixture(f) PROVE Goal
  BY <1>8, TryStages DEF FinishFixture, Throw, Step
<1>9. ASSUME NEW f \in Fixture, NEW step \in {"fresh", "control"}, RunFixture(f, step)
      PROVE  Goal
  BY <1>9, TryStages DEF RunFixture, Throw, Step
<1> QED BY <1>1, <1>2, <1>3, <1>4, <1>5, <1>6, <1>7, <1>8, <1>9 DEF Try

----------------------------------------------------------------------------
(* What the three kinds of steps do, as far as the invariant is concerned. *)
Life == {"absent", "up", "gone", "failed"}
Listener == {"unreserved", "none", "own", "foreign"}

TryEffect ==
  /\ UNCHANGED <<run, root, latest, exitCode, teardown, marker, result>>
  /\ process' \in [Process -> Life] /\ tracked' \subseteq Process
  /\ AllTracked => AllTracked'
  /\ listener' \in Listener
  /\ errorProof' \in BOOLEAN /\ fatal' \in BOOLEAN
  /\ passed' \subseteq Check /\ answered' \subseteq passed'
  /\ passed \subseteq passed' /\ answered \subseteq answered'
  /\ passed' \ answered' \subseteq (passed \ answered) \cup {<<"negative">>}
  /\ <<"client">> \in passed' \ passed => pc = <<"client">>
  /\ pc \in Early \ {<<"negative">>} => passed' = passed
  /\ pc = <<"negative">> /\ pc' # <<"children">> => <<"negative">> \in passed'

(* The frame of every action of the try block but the checks.              *)
LEMMA TryFrame ==
  ASSUME TypeOK, Try, UNCHANGED <<passed, answered, marker, result>>,
         process' \in [Process -> Life], tracked' \subseteq Process,
         AllTracked => AllTracked',
         listener' \in Listener,
         errorProof' \in BOOLEAN, fatal' \in BOOLEAN, teardown' = teardown,
         pc # <<"negative">>
  PROVE  TryEffect
BY DEF TryEffect, TypeOK, Try

LEMMA TryDoes == ASSUME TypeOK, Try PROVE TryEffect
<1> USE DEF TypeOK, Listener, Life
<1>0. errorProof' \in BOOLEAN /\ fatal' \in BOOLEAN
  BY DEF Try, Prepare, ReservePorts, StartProcess, Spawn, WaitForPort, Require, WaitForMarker,
         FinishFixture, RunFixture, Gate, Throw, outcome
<1>1. CASE Prepare
  BY <1>0, <1>1, TryFrame DEF Prepare, world, AllTracked, Up
<1>2. CASE ReservePorts
  BY <1>0, <1>2, TryFrame DEF ReservePorts, AllTracked, Up
<1>3. CASE StartProcess
  <2>1. ASSUME NEW p \in Process, Spawn(p), pc # <<"negative">> PROVE TryEffect
    <3>1. process' = [process EXCEPT ![p] = "up"] /\ tracked' = tracked \cup {p}
      BY <2>1 DEF Spawn
    <3>2. AllTracked => AllTracked'
      BY <3>1 DEF AllTracked, Up
    <3>3. UNCHANGED <<passed, answered, marker, result, listener, teardown>>
      BY <2>1 DEF Spawn, outcome
    <3> QED BY <1>0, <2>1, <3>1, <3>2, <3>3, TryFrame
  <2>2. CASE pc = <<"serve">> /\ Spawn("server")
    BY <2>1, <2>2 DEF Process
  <2>3. ASSUME NEW f \in Fixture, pc = <<f, "start">>, Spawn(f) PROVE TryEffect
    BY <2>1, <2>3 DEF Process
  <2>4. CASE UNCHANGED <<world, tracked, passed, teardown, answered>>
             /\ pc \in {<<"serve">>, <<"expiry", "start">>, <<"revocation", "start">>}
    BY <1>0, <2>4, TryFrame DEF world, AllTracked, Up
  <2> QED BY <1>3, <2>2, <2>3, <2>4 DEF StartProcess
<1>4. CASE WaitForPort
  BY <1>0, <1>4, TryFrame DEF WaitForPort, world, AllTracked, Up
<1>5. CASE Gate
  BY <1>0, <1>5, TryFrame DEF Gate, world, AllTracked, Up
<1>7. ASSUME NEW f \in Fixture, WaitForMarker(f) PROVE TryEffect
  BY <1>0, <1>7, TryFrame DEF WaitForMarker, world, AllTracked, Up
<1> DEFINE Frame == /\ UNCHANGED <<run, root, latest, exitCode, teardown, marker, result>>
                    /\ UNCHANGED <<process, tracked, listener>>
<1>a. Frame /\ (AllTracked => AllTracked') => 
        /\ process' \in [Process -> Life] /\ tracked' \subseteq Process
        /\ listener' \in Listener
  OBVIOUS
<1>6. ASSUME NEW check \in {<<"negative">>, <<"client">>}, Require(check) PROVE TryEffect
  <2>1. Frame /\ (AllTracked => AllTracked')
    BY <1>6 DEF Require, Try, world, AllTracked, Up
  <2>2. check \in Check /\ <<"client">> \notin Early /\ <<"client">> # <<"negative">>
    BY DEF Check, Early
  <2>3. CASE passed' = passed /\ answered' = answered /\ pc' = <<"children">>
    BY <1>0, <1>a, <1>6, <2>1, <2>2, <2>3 DEF TryEffect, Require
  <2>4. CASE /\ listener = "own" \/ (listener = "foreign" /\ check = <<"negative">>)
             /\ passed' = passed \cup {check}
             /\ answered' = IF listener = "own" THEN answered \cup {check} ELSE answered
    BY <1>0, <1>a, <1>6, <2>1, <2>2, <2>4 DEF TryEffect, Require
  <2> QED BY <1>6, <2>3, <2>4 DEF Require, Throw
<1>8. ASSUME NEW f \in Fixture, NEW step \in Step, pc = <<f, step>>, Frame,
             AllTracked => AllTracked',
             NEW verdict \in SUBSET {<<f, step>>},
             passed' = passed \cup verdict, answered' = answered \cup verdict
      PROVE  TryEffect
  <2>1. <<f, step>> \in Check /\ <<f, step>> \notin Early
        /\ <<f, step>> # <<"client">> /\ <<f, step>> # <<"negative">>
    BY DEF Check, Early
  <2> QED BY <1>0, <1>a, <1>8, <2>1 DEF TryEffect
<1> DEFINE Recorded(check) ==
             \E verdict \in SUBSET {check} :
               passed' = passed \cup verdict /\ answered' = answered \cup verdict
<1>b. ASSUME UNCHANGED <<passed, answered>>, NEW check PROVE Recorded(check)
  <2> WITNESS {} \in SUBSET {check}
  <2> QED BY <1>b
<1>9. ASSUME NEW f \in Fixture, FinishFixture(f) PROVE TryEffect
  <2>1. Frame /\ (AllTracked => AllTracked') /\ pc = <<f, "close">>
    BY <1>9 DEF FinishFixture, Try, world, AllTracked, Up
  <2>2. Recorded(<<f, "close">>)
    <3>2. ASSUME NEW verdict \in SUBSET ({f} \cap result),
                 passed' = passed \cup (verdict \X {"close"}),
                 answered' = answered \cup (verdict \X {"close"})
          PROVE  Recorded(<<f, "close">>)
      <4>1. verdict \X {"close"} \in SUBSET {<<f, "close">>}
        OBVIOUS
      <4> QED BY <3>2, <4>1
    <3> QED BY <1>9, <3>2, <1>b DEF FinishFixture
  <2> QED BY <1>8, <2>1, <2>2 DEF Step
<1>10. ASSUME NEW f \in Fixture, NEW step \in {"fresh", "control"}, RunFixture(f, step)
       PROVE  TryEffect
  <2>1. Frame /\ (AllTracked => AllTracked') /\ pc = <<f, step>>
    BY <1>10 DEF RunFixture, Try, world, AllTracked, Up
  <2>2. Recorded(<<f, step>>)
    <3>1. ASSUME NEW verdict \in {{}, {<<f, step>>}},
                 passed' = passed \cup verdict, answered' = answered \cup verdict
          PROVE  Recorded(<<f, step>>)
      <4>1. verdict \in SUBSET {<<f, step>>}
        OBVIOUS
      <4> QED BY <3>1, <4>1
    <3> QED BY <1>10, <3>1, <1>b DEF RunFixture
  <2> QED BY <1>8, <2>1, <2>2 DEF Step
<1> QED BY <1>1, <1>2, <1>3, <1>4, <1>5, <1>6, <1>7, <1>9, <1>10 DEF Try

WorldEffect ==
  /\ Running
  /\ UNCHANGED <<run, pc, tracked, root, passed, errorProof, fatal, teardown, answered, latest,
                 exitCode>>
  /\ process' \in [Process -> Life] /\ Up' \subseteq Up
  /\ listener' \in Listener
  /\ marker' \subseteq Fixture /\ result' \subseteq marker'

LEMMA WorldDoes == ASSUME TypeOK, World PROVE WorldEffect
<1> USE DEF TypeOK, Listener, Life
<1>0. /\ Running
      /\ UNCHANGED <<run, pc, tracked, root, passed, errorProof, fatal, teardown, answered,
                     latest, exitCode>>
  BY DEF World, outcome
<1>1. CASE ServerBinds
  BY <1>0, <1>1 DEF ServerBinds, WorldEffect, Up
<1>2. CASE ServerDies
  BY <1>0, <1>2 DEF ServerDies, WorldEffect, Up
<1>3. CASE ForeignBinds
  BY <1>0, <1>3 DEF ForeignBinds, WorldEffect, Up
<1>8. CASE ForeignLeaves
  BY <1>0, <1>8 DEF ForeignLeaves, WorldEffect, Up
<1>4. ASSUME NEW f \in Fixture, FixtureReady(f) PROVE WorldEffect
  BY <1>0, <1>4 DEF FixtureReady, WorldEffect, Up
<1>5. ASSUME NEW f \in Fixture, FixtureDenied(f) PROVE WorldEffect
  BY <1>0, <1>5 DEF FixtureDenied, WorldEffect, Up
<1>6. ASSUME NEW f \in Fixture, FixtureClosed(f) PROVE WorldEffect
  BY <1>0, <1>6 DEF FixtureClosed, WorldEffect, Up
<1>7. ASSUME NEW f \in Fixture, FixtureFails(f) PROVE WorldEffect
  BY <1>0, <1>7 DEF FixtureFails, WorldEffect, Up
<1> QED BY <1>1, <1>2, <1>3, <1>4, <1>5, <1>6, <1>7, <1>8 DEF World

Report == [exited : BOOLEAN, closed : BOOLEAN, removed : BOOLEAN]

TeardownEffect ==
  /\ UNCHANGED <<run, tracked, marker, result, passed, errorProof, answered, latest>>
  /\ pc \in Cleanup
  /\ pc' \in Cleanup \cup {<<"prove">>, <<"exit">>}
  /\ process' \in [Process -> Life] /\ Up' \subseteq Up
  /\ listener' \in Listener
  /\ root' \in BOOLEAN /\ fatal' \in BOOLEAN /\ teardown' \in Report
  /\ exitCode' \in {exitCode, "1"}
  /\ pc' # <<"exit">> => exitCode' = exitCode
  /\ AllTracked /\ TeardownSoFar => TeardownSoFar'

(* What stopping a group of processes leaves alive.                        *)
LEMMA StopTrackedDoes ==
  ASSUME TypeOK, NEW group \in SUBSET Process, StopTracked(group)
  PROVE  /\ process' \in [Process -> Life] /\ Up' \subseteq Up
         /\ listener' \in Listener
         /\ teardown' \in Report
         /\ teardown'.exited /\ pc = <<"server">> => teardown.exited
         /\ AllTracked /\ teardown'.exited => Up' \cap group = {}
<1> USE DEF TypeOK, Listener, Life, Report
<1>1. PICK survivors \in SUBSET (group \cap tracked \cap Up) :
        LET stopped == (group \cap tracked \cap Up) \ survivors
        IN  /\ process' = [p \in Process |-> IF p \in stopped THEN "failed" ELSE process[p]]
            /\ listener' = IF "server" \in stopped /\ listener = "own" THEN "none" ELSE listener
            /\ teardown' = [teardown EXCEPT !.exited =
                              survivors = {} /\ (pc = <<"server">> => @)]
  BY DEF StopTracked
<1>2. process' \in [Process -> Life] /\ Up' \subseteq Up
  BY <1>1 DEF Up
<1>3. listener' \in Listener
  BY <1>1
<1>4. teardown' = [teardown EXCEPT !.exited =
                     survivors = {} /\ (pc = <<"server">> => teardown.exited)]
  BY <1>1
<1>5. survivors \in SUBSET Process
  BY <1>1
<1>6. (survivors = {} /\ (pc = <<"server">> => teardown.exited)) \in BOOLEAN
  OBVIOUS
<1>7. teardown'.exited = (survivors = {} /\ (pc = <<"server">> => teardown.exited))
  BY <1>4
<1>8. teardown' \in Report
  BY <1>4, <1>6
<1>9. ASSUME AllTracked, teardown'.exited PROVE Up' \cap group = {}
  <2>1. survivors = {}
    BY <1>7, <1>9
  <2>2. \A p \in group : p \in Up => process'[p] = "failed"
    BY <1>1, <1>9, <2>1 DEF AllTracked, Up
  <2> QED BY <1>2, <2>2 DEF Up
<1> QED BY <1>2, <1>3, <1>7, <1>8, <1>9

LEMMA TeardownDoes == ASSUME TypeOK, Teardown PROVE TeardownEffect
<1> USE DEF TypeOK, Listener, Life, Report
<1>0. UNCHANGED <<run, tracked, marker, result, passed, errorProof, answered, latest>>
  BY DEF Teardown
<1>1. CASE StopChildren /\ UNCHANGED <<root, fatal, exitCode>>
  <2>1. Fixture \in SUBSET Process /\ StopTracked(Fixture) /\ pc = <<"children">> /\ pc' = <<"server">>
    BY <1>1 DEF StopChildren, Process
  <2>2. AllTracked /\ TeardownSoFar => TeardownSoFar'
    BY <2>1, StopTrackedDoes DEF TeardownSoFar
  <2> QED BY <1>0, <1>1, <2>1, <2>2, StopTrackedDoes DEF TeardownEffect, Cleanup
<1>2. CASE StopServer /\ UNCHANGED <<root, fatal, exitCode>>
  <2>1. {"server"} \in SUBSET Process /\ StopTracked({"server"})
        /\ pc = <<"server">> /\ pc' = <<"listeners">>
    BY <1>2 DEF StopServer, Process
  <2>2. ASSUME AllTracked, TeardownSoFar, teardown'.exited PROVE Up' = {}
    <3>1. Up \cap Fixture = {} /\ Up' \subseteq Up /\ Up' \cap {"server"} = {}
      BY <2>1, <2>2, StopTrackedDoes DEF TeardownSoFar
    <3>2. Up' \subseteq Process
      BY DEF Up
    <3> QED BY <3>1, <3>2 DEF Process
  <2> QED BY <1>0, <1>2, <2>1, <2>2, StopTrackedDoes DEF TeardownEffect, TeardownSoFar, Cleanup
<1>3. CASE PollListeners /\ UNCHANGED <<process, listener, root, fatal, exitCode>>
  <2>1. /\ teardown' = [teardown EXCEPT !.closed = listener \notin {"own", "foreign"}]
        /\ pc = <<"listeners">> /\ pc' = <<"remove">>
    BY <1>3 DEF PollListeners
  <2>2. teardown' \in Report /\ teardown'.exited = teardown.exited
    BY <2>1
  <2>3. Up' = Up
    BY <1>3 DEF Up
  <2> QED BY <1>0, <1>3, <2>1, <2>2, <2>3 DEF TeardownEffect, TeardownSoFar, Cleanup
<1>4. CASE RemoveRuntime /\ UNCHANGED <<process, listener>>
  <2>1. /\ teardown' = [teardown EXCEPT !.removed = ~root']
        /\ pc = <<"remove">> /\ pc' = IF fatal' THEN <<"exit">> ELSE <<"prove">>
        /\ exitCode' = IF fatal' THEN "1" ELSE exitCode
        /\ (root' \in BOOLEAN /\ fatal' = fatal) \/ (root' = TRUE /\ fatal' = TRUE)
    BY <1>4 DEF RemoveRuntime
  <2>2. root' \in BOOLEAN /\ fatal' \in BOOLEAN
    BY <2>1
  <2>3. teardown' \in Report /\ teardown'.exited = teardown.exited
    BY <2>1, <2>2
  <2>4. Up' = Up
    BY <1>4 DEF Up
  <2>5. teardown'.removed => ~root'
    BY <2>1, <2>2
  <2>6. AllTracked /\ TeardownSoFar => TeardownSoFar'
    BY <2>1, <2>3, <2>4, <2>5 DEF TeardownSoFar
  <2> QED BY <1>0, <1>4, <2>1, <2>2, <2>3, <2>4, <2>6 DEF TeardownEffect, Cleanup
<1> QED BY <1>1, <1>2, <1>3, <1>4 DEF Teardown

----------------------------------------------------------------------------
(* The invariant holds at first and is kept by every step.                 *)
LEMMA InvInit == ASSUME Init PROVE Inv
<1>1. Script[1] = <<"tools">> /\ <<"tools">> \in Stages /\ <<"tools">> \notin Cleanup
  BY DEF Script, Stages, Cleanup
<1>2. TypeOK
  <2>1. run \in 1 .. MaxRuns /\ pc \in Stages
    BY <1>1, MaxRunsAssumption DEF Init
  <2>2. process \in [Process -> {"absent", "up", "gone", "failed"}]
    BY DEF Init
  <2>3. /\ latest \in [run : 0 .. MaxRuns, status : {"none", "PASS", "FAIL", "torn"},
                       teardown : [exited : BOOLEAN, closed : BOOLEAN, removed : BOOLEAN]]
        /\ teardown \in [exited : BOOLEAN, closed : BOOLEAN, removed : BOOLEAN]
    BY MaxRunsAssumption DEF Init, NoTeardown
  <2> QED BY <2>1, <2>2, <2>3 DEF Init, TypeOK
<1>3. Up = {} /\ tracked = {} /\ passed = {} /\ answered = {}
  BY DEF Init, Up
<1>4. pc = <<"tools">> /\ latest.run = 0 /\ run = 1 /\ exitCode = "none"
  BY <1>1 DEF Init
<1>5. NothingYet /\ AllTracked /\ InOrder /\ Answers /\ TeardownSoFar
  BY <1>3, <1>4 DEF NothingYet, AllTracked, InOrder, Answers, TeardownSoFar
<1> QED
  BY <1>2, <1>4, <1>5
     DEF Inv, TeardownTellsTruth, RemovalTellsTruth, ExitTellsTruth, PassIsEarned, ThisRunProved

LEMMA WorldKeeps == ASSUME Inv, WorldEffect PROVE Inv'
<1> USE DEF Inv
<1>1. TypeOK'
  BY DEF WorldEffect, TypeOK, Life, Listener
<1>2. NothingYet' /\ AllTracked' /\ TeardownSoFar' /\ InOrder' /\ Answers'
  BY DEF WorldEffect, NothingYet, AllTracked, TeardownSoFar, InOrder, Answers, Busy, Running
<1>3. TeardownTellsTruth'
  BY DEF WorldEffect, TeardownTellsTruth, ThisRunProved
<1>4. (RemovalTellsTruth /\ ExitTellsTruth /\ PassIsEarned)'
  BY DEF WorldEffect, RemovalTellsTruth, ExitTellsTruth, PassIsEarned, ThisRunProved
<1> QED BY <1>1, <1>2, <1>3, <1>4

LEMMA TryKeeps == ASSUME Inv, Try PROVE Inv'
<1> USE DEF Inv
<1>0. TryEffect
  BY TryDoes
<1>1. pc \in Scripted /\ ((pc # <<"gate">> /\ Proceed) \/ pc' = <<"children">>)
  BY TryMoves
<1>2. pc' \in Scripted \cup {<<"children">>}
  BY <1>1, Proceeds
<1>3. pc' \in Stages /\ Busy /\ Busy'
  BY <1>1, <1>2, ScriptedStages DEF Busy, Running
<1>4. TypeOK'
  BY <1>0, <1>3 DEF TryEffect, TypeOK, Life, Listener
<1>5. NothingYet' /\ AllTracked'
  BY <1>0, <1>3 DEF TryEffect, NothingYet
<1>6. TeardownSoFar'
  BY <1>2, ScriptedStages DEF TeardownSoFar, Cleanup
<1>7. InOrder'
  <2>1. CASE pc' = <<"children">>
    BY <2>1, ScriptedStages DEF InOrder
  <2>2. CASE pc' # <<"children">>
    <3>1. /\ pc' \in Early => pc \in Early \ {<<"negative">>}
          /\ pc' = <<"client">> => pc = <<"negative">>
      BY <1>1, <2>2, Proceeds
    <3> QED BY <1>0, <2>2, <3>1 DEF InOrder, TryEffect
  <2> QED BY <2>1, <2>2
<1>8. Answers'
  <2>1. passed' \ answered' \subseteq {<<"negative">>}
    BY <1>0 DEF TryEffect, Answers
  <2>2. ASSUME <<"client">> \in passed' PROVE <<"negative">> \in passed'
    <3>1. <<"negative">> \in passed
      BY <1>0, <2>2 DEF TryEffect, Answers, InOrder
    <3> QED BY <1>0, <3>1 DEF TryEffect
  <2> QED BY <2>1, <2>2 DEF Answers
<1>9. (run \in Nat /\ latest.run \in Nat)' /\ (latest.run < run)' /\ (exitCode # "0")'
  BY <1>3, <1>4, <1>5 DEF TypeOK, NothingYet
<1>10. (TeardownTellsTruth /\ RemovalTellsTruth /\ ExitTellsTruth /\ PassIsEarned)'
  BY <1>9 DEF TeardownTellsTruth, RemovalTellsTruth, ExitTellsTruth, PassIsEarned, ThisRunProved
<1> QED BY <1>4, <1>5, <1>6, <1>7, <1>8, <1>10

LEMMA TeardownKeeps == ASSUME Inv, Teardown PROVE Inv'
<1> USE DEF Inv
<1>0. TeardownEffect
  BY TeardownDoes
<1>1. /\ Busy /\ pc' \in Stages \ Early /\ pc' # <<"client">>
      /\ pc' # <<"exit">> \/ ~Busy'
  BY <1>0, ScriptedStages DEF TeardownEffect, Busy, Running, Over
<1>2. TypeOK'
  BY <1>0, <1>1 DEF TeardownEffect, TypeOK, Life, Listener, Report
<1>3. AllTracked' /\ TeardownSoFar' /\ InOrder' /\ Answers'
  BY <1>0, <1>1 DEF TeardownEffect, AllTracked, InOrder, Answers
<1>4. NothingYet' /\ (latest.run < run)' /\ (exitCode # "0")'
  BY <1>0, <1>1 DEF TeardownEffect, NothingYet
<1>5. (run \in Nat /\ latest.run \in Nat)'
  BY <1>2 DEF TypeOK
<1>6. (TeardownTellsTruth /\ RemovalTellsTruth /\ ExitTellsTruth /\ PassIsEarned)'
  BY <1>4, <1>5
     DEF TeardownTellsTruth, RemovalTellsTruth, ExitTellsTruth, PassIsEarned, ThisRunProved
<1> QED BY <1>2, <1>3, <1>4, <1>6

(* The only step that writes a proof.                                      *)
LEMMA ProveKeeps == ASSUME Inv, Prove PROVE Inv'
<1> USE DEF Inv
<1>0. /\ pc = <<"prove">> /\ pc' \in {<<"linger">>, <<"exit">>}
      /\ UNCHANGED <<run, process, listener, marker, result, tracked, root, passed, errorProof,
                     fatal, teardown, answered>>
  BY DEF Prove, world, outcome
<1>1. latest.run < run /\ pc' \in Stages \ Early /\ pc' # <<"client">> /\ ~Busy'
  BY <1>0, ScriptedStages DEF NothingYet, Busy, Running, Over
<1>2. Status \in {"PASS", "FAIL"} /\ ExitCode \in {"0", "1"}
      /\ (ExitCode = "0" => Status = "PASS")
  BY DEF Status, ExitCode
<1>3. \/ latest' = [run |-> run, status |-> Status, teardown |-> teardown]
         /\ exitCode' \in {ExitCode, "1"}
      \/ latest' \in {latest, [run |-> run, status |-> "torn", teardown |-> NoTeardown]}
         /\ exitCode' = "1"
  BY DEF Prove
<1>4. TypeOK'
  <2>1. NoTeardown \in Report /\ teardown \in Report /\ run \in 0 .. MaxRuns
    BY MaxRunsAssumption DEF NoTeardown, Report, TypeOK
  <2>2. latest' \in [run : 0 .. MaxRuns, status : {"none", "PASS", "FAIL", "torn"},
                     teardown : Report]
    BY <1>2, <1>3, <2>1 DEF TypeOK, Report
  <2>3. exitCode' \in {"none", "0", "1"}
    BY <1>2, <1>3
  <2>4. /\ run' \in 1 .. MaxRuns /\ pc' \in Stages
        /\ process' \in [Process -> {"absent", "up", "gone", "failed"}]
        /\ tracked' \subseteq Process
        /\ listener' \in {"unreserved", "none", "own", "foreign"}
    BY <1>0, <1>1 DEF TypeOK
  <2>5. /\ marker' \subseteq Fixture /\ result' \subseteq marker'
        /\ passed' \subseteq Check /\ answered' \subseteq passed'
        /\ {root, errorProof, fatal}' \subseteq BOOLEAN
        /\ teardown' \in Report
    BY <1>0, <2>1 DEF TypeOK
  <2> QED BY <2>2, <2>3, <2>4, <2>5 DEF TypeOK, Report
<1>5. AllTracked' /\ TeardownSoFar' /\ InOrder' /\ Answers'
  BY <1>0, <1>1 DEF AllTracked, TeardownSoFar, InOrder, Answers, Up
<1>6. Up' = Up /\ root' = root /\ (teardown.exited => Up = {}) /\ (teardown.removed => ~root)
  BY <1>0 DEF Up, TeardownSoFar
<1>7. ASSUME Status = "PASS"
      PROVE  teardown.exited /\ teardown.removed /\ passed = Check
  <2>1. <<"client">> \in passed /\ LifecyclePass /\ teardown.exited /\ teardown.removed
    BY <1>7 DEF Status
  <2>2. Check \subseteq passed
    BY <2>1 DEF Answers, LifecyclePass, Check
  <2> QED BY <2>1, <2>2 DEF TypeOK
<1>b. passed' = passed /\ answered' = answered /\ passed \ answered \subseteq {<<"negative">>}
  BY <1>0 DEF Answers
<1>8. CASE /\ latest' = [run |-> run, status |-> Status, teardown |-> teardown]
           /\ exitCode' \in {ExitCode, "1"}
  <2>1. latest'.run = run /\ latest'.status = Status /\ latest'.teardown = teardown
    BY <1>8
  <2>2. NothingYet' /\ ThisRunProved'
    BY <1>0, <1>1, <1>4, <2>1 DEF NothingYet, ThisRunProved, TypeOK
  <2>3. (TeardownTellsTruth /\ RemovalTellsTruth /\ ExitTellsTruth /\ PassIsEarned)'
    BY <1>0, <1>2, <1>6, <1>7, <1>8, <1>b, <2>1, <2>2
       DEF TeardownTellsTruth, RemovalTellsTruth, ExitTellsTruth, PassIsEarned
  <2> QED BY <1>4, <1>5, <2>2, <2>3
<1>9. CASE /\ latest' = [run |-> run, status |-> "torn", teardown |-> NoTeardown]
           /\ exitCode' = "1"
  <2>1. /\ latest'.run = run /\ latest'.status = "torn"
        /\ ~latest'.teardown.exited /\ ~latest'.teardown.removed
    BY <1>9 DEF NoTeardown
  <2>2. NothingYet'
    BY <1>0, <1>1, <1>4, <2>1 DEF NothingYet, TypeOK
  <2>3. (TeardownTellsTruth /\ RemovalTellsTruth /\ ExitTellsTruth /\ PassIsEarned)'
    BY <1>6, <1>9, <2>1
       DEF TeardownTellsTruth, RemovalTellsTruth, ExitTellsTruth, PassIsEarned
  <2> QED BY <1>4, <1>5, <2>2, <2>3
<1>10. CASE latest' = latest /\ exitCode' = "1"
  <2>1. NothingYet' /\ (latest.run < run)' /\ (exitCode # "0")'
    BY <1>0, <1>1, <1>10 DEF NothingYet
  <2>2. (run \in Nat /\ latest.run \in Nat)'
    BY <1>4 DEF TypeOK
  <2>3. (TeardownTellsTruth /\ RemovalTellsTruth /\ ExitTellsTruth /\ PassIsEarned)'
    BY <2>1, <2>2
       DEF TeardownTellsTruth, RemovalTellsTruth, ExitTellsTruth, PassIsEarned, ThisRunProved
  <2> QED BY <1>4, <1>5, <2>1, <2>3
<1> QED BY <1>3, <1>8, <1>9, <1>10

LEMMA ExitKeeps == ASSUME Inv, Exit PROVE Inv'
<1> USE DEF Inv
<1>0. /\ pc = <<"linger">> /\ pc' = <<"exit">>
      /\ UNCHANGED <<run, process, listener, marker, result, tracked, root, passed, errorProof,
                     fatal, teardown, answered, latest, exitCode>>
  BY DEF Exit, world, outcome
<1>1. pc' \in Stages \ Early /\ pc' # <<"client">> /\ ~Busy'
  BY <1>0, ScriptedStages DEF Busy, Running, Over
<1>2. TypeOK'
  BY <1>0, <1>1 DEF TypeOK
<1>3. NothingYet' /\ AllTracked' /\ TeardownSoFar' /\ InOrder' /\ Answers'
  BY <1>0, <1>1 DEF NothingYet, AllTracked, TeardownSoFar, InOrder, Answers, Up
<1>4. (TeardownTellsTruth /\ RemovalTellsTruth /\ ExitTellsTruth /\ PassIsEarned)'
  BY <1>0
     DEF TeardownTellsTruth, RemovalTellsTruth, ExitTellsTruth, PassIsEarned, ThisRunProved, Up
<1> QED BY <1>2, <1>3, <1>4

LEMMA KilledKeeps == ASSUME Inv, Killed PROVE Inv'
<1> USE DEF Inv
<1>0. /\ pc' = <<"killed">> /\ exitCode' = "1"
      /\ UNCHANGED <<run, process, listener, marker, result, tracked, root, passed, errorProof,
                     fatal, teardown, answered, latest>>
  BY DEF Killed, world, outcome
<1>1. pc' \in Stages \ Early /\ pc' # <<"client">> /\ ~Busy'
  BY <1>0, ScriptedStages DEF Busy, Running, Over
<1>2. TypeOK'
  BY <1>0, <1>1 DEF TypeOK
<1>3. NothingYet' /\ AllTracked' /\ TeardownSoFar' /\ InOrder' /\ Answers'
  BY <1>0, <1>1 DEF NothingYet, AllTracked, TeardownSoFar, InOrder, Answers, Up
<1>4. (TeardownTellsTruth /\ RemovalTellsTruth /\ ExitTellsTruth /\ PassIsEarned)'
  BY <1>0
     DEF TeardownTellsTruth, RemovalTellsTruth, ExitTellsTruth, PassIsEarned, ThisRunProved, Up
<1> QED BY <1>2, <1>3, <1>4

LEMMA NextRunKeeps == ASSUME Inv, NextRun PROVE Inv'
<1> USE DEF Inv
<1>0. Script[1] = <<"tools">> /\ <<"tools">> \in Stages
  BY DEF Script, Stages
<1>1. TypeOK'
  <2>1. run' \in 1 .. MaxRuns /\ pc' \in Stages
    BY <1>0, MaxRunsAssumption DEF NextRun, TypeOK
  <2>2. process' \in [Process -> {"absent", "up", "gone", "failed"}]
    BY DEF NextRun
  <2>3. teardown' \in [exited : BOOLEAN, closed : BOOLEAN, removed : BOOLEAN]
    BY DEF NextRun, NoTeardown
  <2>4. latest' \in [run : 0 .. MaxRuns, status : {"none", "PASS", "FAIL", "torn"},
                     teardown : [exited : BOOLEAN, closed : BOOLEAN, removed : BOOLEAN]]
    BY DEF NextRun, TypeOK
  <2> QED BY <2>1, <2>2, <2>3, <2>4 DEF NextRun, TypeOK
<1>2. pc' = <<"tools">> /\ Up' = {} /\ exitCode' = "none" /\ (latest.run < run)'
  BY <1>0, MaxRunsAssumption DEF NextRun, NothingYet, TypeOK, Up
<1>3. NothingYet' /\ AllTracked' /\ TeardownSoFar' /\ InOrder' /\ Answers'
  BY <1>1, <1>2
     DEF NextRun, NothingYet, AllTracked, TeardownSoFar, InOrder, Answers, TypeOK
<1>4. (run \in Nat /\ latest.run \in Nat)'
  BY <1>1 DEF TypeOK
<1>5. (TeardownTellsTruth /\ RemovalTellsTruth /\ ExitTellsTruth /\ PassIsEarned)'
  BY <1>2, <1>4
     DEF TeardownTellsTruth, RemovalTellsTruth, ExitTellsTruth, PassIsEarned, ThisRunProved
<1> QED BY <1>1, <1>3, <1>5

LEMMA StutterKeeps == ASSUME Inv, UNCHANGED vars PROVE Inv'
<1>1. UNCHANGED <<run, pc, process, listener, marker, result, tracked, root, passed, errorProof,
                  fatal, teardown, answered, latest, exitCode>>
  BY DEF vars, world, outcome
<1> QED
  BY <1>1 DEF Inv, TypeOK, NothingYet, AllTracked, TeardownSoFar, InOrder, Answers, Up, Busy, Running,
              TeardownTellsTruth, RemovalTellsTruth, ExitTellsTruth, PassIsEarned, ThisRunProved

(* Every reachable state satisfies the inductive invariant.                *)
THEOREM Safety == Spec => []Inv
<1>1. Init => Inv
  BY InvInit
<1>2. Inv /\ [Next]_vars => Inv'
  <2> SUFFICES ASSUME Inv, [Next]_vars PROVE Inv'
    OBVIOUS
  <2>1. CASE World
    <3>1. TypeOK
      BY DEF Inv
    <3> QED BY <2>1, <3>1, WorldDoes, WorldKeeps
  <2>2. CASE Try
    BY <2>2, TryKeeps
  <2>3. CASE Teardown
    BY <2>3, TeardownKeeps
  <2>4. CASE Prove
    BY <2>4, ProveKeeps
  <2>5. CASE Killed
    BY <2>5, KilledKeeps
  <2>8. CASE Exit
    BY <2>8, ExitKeeps
  <2>6. CASE NextRun
    BY <2>6, NextRunKeeps
  <2>7. CASE Done \/ UNCHANGED vars
    BY <2>7, StutterKeeps DEF Done
  <2> QED BY <2>1, <2>2, <2>3, <2>4, <2>5, <2>6, <2>7, <2>8 DEF Next, Orchestrate
<1> QED BY <1>1, <1>2, PTL DEF Spec

----------------------------------------------------------------------------
(* Every variable of a canary run keeps its type, over any number of runs. *)
THEOREM CanaryTypeCorrect == Spec => []TypeOK
<1>1. Inv => TypeOK
  BY DEF Inv
<1> QED BY <1>1, Safety, PTL

(* A PASS in the proof of the present run was earned: every check passed,  *)
(* and each but the negative TLS control was answered by the canary's own  *)
(* server, whoever else took the port that reserveLoopbackPort gave back,  *)
(* and however long he kept it.                                            *)
THEOREM PassesAreEarned == Spec => []PassIsEarned
<1>1. Inv => PassIsEarned
  BY DEF Inv
<1> QED BY <1>1, Safety, PTL

(* A proof that says the processes have exited (cleanupRuntime) is right   *)
(* about every process of the run, on whatever path it was reached.        *)
THEOREM TeardownIsTrue == Spec => []TeardownTellsTruth
<1>1. Inv => TeardownTellsTruth
  BY DEF Inv
<1> QED BY <1>1, Safety, PTL

(* A proof that says the runtime directory was removed is right, and with  *)
(* exit code 0 neither it nor the credentials in it are left.              *)
THEOREM RemovalIsTrue == Spec => []RemovalTellsTruth
<1>1. Inv => RemovalTellsTruth
  BY DEF Inv
<1> QED BY <1>1, Safety, PTL

(* Exit code 0 means a proof file written by this very run that says PASS. *)
THEOREM ExitIsTrue == Spec => []ExitTellsTruth
<1>1. Inv => ExitTellsTruth
  BY DEF Inv
<1> QED BY <1>1, Safety, PTL

=============================================================================
