------------------------- MODULE NetworkCommonsProofs -------------------------
(***************************************************************************)
(* Theorems about NetworkCommons: the types, and that a client that exits  *)
(* with 0 has left the commons its proof describes and was not talking to  *)
(* a server with one of the defects.                                       *)
(*                                                                         *)
(* The inductive invariant says what main knows while it is on track, that *)
(* is, while every call so far was answered as it should be, the forbidden *)
(* one by a denial, and every connection it still needs can be used.  Then *)
(* the server has done what was asked and nothing else, and its state is   *)
(* a function of the step main is at.                                      *)
(***************************************************************************)
EXTENDS NetworkCommons, FiniteSetTheorems, SequenceTheorems, TLAPS

(* The script by kind of call.                                             *)
CallSteps == (2 .. 5) \cup (9 .. 21) \cup (23 .. 25) \cup (27 .. 31)
Publishes == {11, 12, 21, 23}
Nexts == {13, 15, 17, 19, 24, 28}
Acks == {14, 16, 18, 20, 25, 29}

(* The step that opens a link, and the last call on it.                    *)
Opens(l) == IF l = "bootstrap" THEN 1 ELSE IF l = "a" THEN 7 ELSE IF l = "b" THEN 8 ELSE 26
LastCall(l) == IF l = "bootstrap" THEN 5 ELSE IF l = "a" THEN 21 ELSE IF l = "b" THEN 25 ELSE 31

Before(i, n) == IF i < n THEN 1 ELSE 0
Published(n) == Before(11, n) + Before(12, n) + Before(23, n)
Delivered(r, n) == IF r = "a" THEN Before(13, n) + Before(15, n) + Before(28, n)
                              ELSE Before(17, n) + Before(19, n) + Before(24, n)
Confirmed(r, n) == IF r = "a" THEN Before(14, n) + Before(16, n) + Before(29, n)
                              ELSE Before(18, n) + Before(20, n) + Before(25, n)
Message(s) == LET r == IF s = 1 THEN "a" ELSE "b" IN [subject |-> r, sender |-> r]
-----------------------------------------------------------------------------
(* The inductive invariant.  The client: at most one call waits, what is   *)
(* on the wire was sent, and is the waiting call or was given up; an       *)
(* answer is to the waiting call, whose request is then not on the wire.   *)
Record == [subject : Resident, sender : Resident]
Reply == [error : {"none", "permission", "not-found"}, value : Nat]

ClientShape ==
  /\ server \in {"sound", "open", "forgetful", "ephemeral"} /\ faults \in BOOLEAN
  /\ pc \in 1 .. 37 /\ failed \in BOOLEAN /\ (failed => pc >= 33)
  /\ waiting \in BOOLEAN /\ (waiting => pc \in CallSteps)
  /\ explicit \in BOOLEAN /\ (explicit => pc > 21 /\ 21 \notin wire)
  /\ file \in {"absent", "torn", "pass", "fail"} /\ exit \in {"running", "0", "1", "killed"}

WireShape ==
  /\ wire \subseteq CallSteps
  /\ \A i \in wire : \/ i = pc /\ waiting
                     \/ i < pc /\ (failed \/ i = 21)
  /\ reply = {} \/ (waiting /\ pc \notin wire /\ \E r \in Reply : reply = {r})

(* A link is opened by its step; those of a process that ended are gone.   *)
LinkShape ==
  /\ link \in [Link -> {"none", "open", "closed"}]
  /\ ~failed => \A l \in Link : link[l] = "none" <=> pc <= Opens(l)
  /\ exit # "running" => \A l \in Link : link[l] # "open"

(* The server: each publish is stored at most once, whenever it is served; *)
(* what is delivered and confirmed is in the stream.                       *)
Stored(i) == IF (i < pc \/ (i = pc /\ waiting)) /\ i \notin wire THEN 1 ELSE 0

ServerShape ==
  /\ exists \subseteq Resident \cup {"commons"}
  /\ stream \in Seq(Record)
  /\ Len(stream) <= Stored(11) + Stored(12) + Stored(21) + Stored(23)
  /\ cursor \in [Resident -> 0 .. Len(stream)]
  /\ acked \in [Resident -> SUBSET (1 .. Len(stream))]

(* The message in hand is one that was delivered.                          *)
InHand ==
  /\ got \in 0 .. Len(stream) /\ results \in [Steps -> Nat]
  /\ (pc \in Acks \/ wire \cap Acks # {}) => got > 0
  /\ pc \in Nexts => \A r \in reply : r.error = "none" => r.value \in 1 .. Len(stream)

(* On track: how many calls are done, and whether all went as they should. *)
At == IF reply = {} THEN pc ELSE pc + 1

OnTrack ==
  /\ ~failed /\ (pc > 21 => explicit)
  /\ \A r \in reply : r.error = (IF pc = 21 THEN "permission" ELSE "none")
  /\ \A l \in Link : At <= LastCall(l) => link[l] # "closed"

(* Then the stream is what was published so far, ...                       *)
StreamOnTrack ==
  OnTrack => /\ Len(stream) = Published(At)
             /\ \A s \in 1 .. Len(stream) : stream[s] = Message(s)

(* ... a sound server has delivered and counted what it was asked, ...     *)
SoundOnTrack ==
  OnTrack /\ server = "sound" =>
    /\ \A r \in Resident : /\ cursor[r] = Delivered(r, At)
                           /\ acked[r] = 1 .. Confirmed(r, At)
    /\ pc \in Nexts => \A x \in reply : x.value = cursor[Object(pc)]
    /\ pc \in Acks => got = cursor[Object(pc)]

(* ... and one that forgets has lost resident a's place with its first     *)
(* connection, so that the resumed one reads the first message again.      *)
ForgetfulOnTrack ==
  OnTrack /\ server \in {"forgetful", "ephemeral"} =>
    /\ pc > 22 => link["a"] = "closed"
    /\ link["a"] = "closed" /\ At <= 28 => cursor["a"] = 0
    /\ pc = 28 => \A x \in reply : x.value = 1
    /\ pc = 29 => got = 1
    /\ pc > 29 => results[29] = 1

(* A server without permissions denies nothing.                            *)
OpenDeniesNothing ==
  server = "open" => ~explicit /\ (pc = 21 => \A r \in reply : r.error # "permission")

(* Past the writing of the result a client that has not failed has passed. *)
Passed ==
  /\ ~failed /\ pc > 32 => file = "pass" /\ explicit /\ results[29] = 3
  /\ exit = "0" => ~failed /\ pc = 37

Shape == ClientShape /\ WireShape /\ LinkShape /\ ServerShape /\ InHand
Track == StreamOnTrack /\ SoundOnTrack /\ ForgetfulOnTrack /\ OpenDeniesNothing /\ Passed
Inv == Shape /\ Track
-----------------------------------------------------------------------------
(* The script, looked up.                                                  *)
LEMMA ScriptVerbs ==
  /\ Steps = 1 .. 36 /\ End = 37
  /\ \A i \in 1 .. 36 : /\ Verb(i) \in Calls <=> i \in CallSteps
                        /\ Verb(i) = "connect" <=> i \in {1, 7, 8, 26}
                        /\ Verb(i) = "close" <=> i \in {6, 22} \cup (33 .. 36)
                        /\ Verb(i) = "write" <=> i = 32
BY DEF Steps, End, Verb, Script, Calls, CallSteps

LEMMA ScriptCalls ==
  \A i \in CallSteps : /\ Verb(i) = "publish" <=> i \in Publishes
                       /\ Verb(i) = "next" <=> i \in Nexts
                       /\ Verb(i) = "ack" <=> i \in Acks
                       /\ Object(i) \in Resident \cup {"commons"}
                       /\ Verb(i) \in {"publish", "next", "ack"} => Object(i) \in Resident
BY DEF Verb, Object, Script, CallSteps, Publishes, Nexts, Acks, Resident

LEMMA ScriptLinks ==
  /\ \A i \in 1 .. 36 : LinkOf(i) \in Link
  /\ \A i \in CallSteps : Opens(LinkOf(i)) < i /\ i <= LastCall(LinkOf(i))
  /\ \A i \in {1, 7, 8, 26} : Opens(LinkOf(i)) = i
  /\ \A l \in Link : Opens(l) \in {1, 7, 8, 26} /\ LastCall(l) \in 5 .. 31 /\ Opens(l) <= LastCall(l)
  /\ \A l, k \in Link : Opens(l) = Opens(k) => l = k
<1>1. \A i \in 1 .. 36 : LinkOf(i) \in Link
  BY DEF LinkOf, Script, Link, Resident
<1>2. \A i \in CallSteps : Opens(LinkOf(i)) < i /\ i <= LastCall(LinkOf(i))
  <2>1. \A i \in CallSteps : /\ i \in 2 .. 5 => LinkOf(i) = "bootstrap"
                             /\ LinkOf(i) = "a" => i \in 9 .. 21
                             /\ LinkOf(i) = "b" => i \in 9 .. 25
                             /\ LinkOf(i) = "bootstrap" => i \in 2 .. 5
                             /\ LinkOf(i) = "resumed" => i \in 27 .. 31
    BY DEF LinkOf, Script, CallSteps
  <2>2. \A i \in CallSteps : LinkOf(i) \in Link
    BY <1>1 DEF CallSteps
  <2>3. QED BY <2>1, <2>2 DEF Opens, LastCall, Link, Resident, CallSteps
<1>3. \A i \in {1, 7, 8, 26} : Opens(LinkOf(i)) = i
  BY DEF LinkOf, Script, Opens
<1>4. \A l \in Link : Opens(l) \in {1, 7, 8, 26} /\ LastCall(l) \in 5 .. 31 /\ Opens(l) <= LastCall(l)
  BY DEF Link, Resident, Opens, LastCall
<1>5. \A l, k \in Link : Opens(l) = Opens(k) => l = k
  BY DEF Link, Resident, Opens
<1>6. QED BY <1>1, <1>2, <1>3, <1>4, <1>5

LEMMA ScriptObjects ==
  /\ \A i \in {11, 13, 14, 15, 16, 28, 29} : Object(i) = "a"
  /\ \A i \in {12, 17, 18, 19, 20, 23, 24, 25} : Object(i) = "b"
  /\ KindOf(LinkOf(11)) = "a" /\ KindOf(LinkOf(12)) = "b" /\ KindOf(LinkOf(23)) = "b"
  /\ \A i \in CallSteps : KindOf(LinkOf(i)) \in Resident \cup {"bootstrap"}
  /\ \A i \in Publishes : KindOf(LinkOf(i)) \in Resident
  /\ LinkOf(21) = "a" /\ LinkOf(22) = "a"
BY DEF Object, LinkOf, Script, KindOf, CallSteps, Publishes, Resident

LEMMA ForbiddenIs21 == Forbidden = 21
<1>1. \A i \in 1 .. 36 : Verb(i) = "publish" <=> i \in Publishes
  BY DEF Verb, Script, Publishes
<1>2. \A i \in Publishes : Object(i) # LinkOf(i) <=> i = 21
  BY DEF Object, LinkOf, Script, Publishes
<1>3. QED BY <1>1, <1>2, ScriptVerbs DEF Forbidden, Publishes

LEMMA FinallyIs33 == Finally = 33
<1>1. \A i \in 1 .. 36 : Object(i) = "finally" <=> i \in 33 .. 36
  BY DEF Object, Script
<1>2. \A i \in 2 .. 36 : Object(i) = "finally" /\ Object(i - 1) # "finally" <=> i = 33
  BY <1>1
<1>3. Object(1) # "finally"
  BY <1>1
<1>4. QED BY <1>2, <1>3, ScriptVerbs DEF Finally

LEMMA OpenServes21 == server = "open" => Permitted(21)
BY DEF Permitted, Verb, Script

LEMMA DemandedAt29 == Script[29][4] = 3
BY DEF Script
-----------------------------------------------------------------------------
(* What the steps of the client come to, with the script looked up.        *)
Quits ==
  /\ exit = "running" /\ pc \in 1 .. 36 /\ pc' \in 33 .. 37 /\ pc < pc'
  /\ failed' = TRUE /\ waiting' = FALSE /\ reply' = {}
  /\ file' \in {file, "absent", "torn", "fail"}
  /\ UNCHANGED <<server, faults, link, wire, jetstream, got, results, explicit, exit>>

Connects ==
  /\ exit = "running" /\ pc \in {1, 7, 8, 26} /\ ~waiting /\ pc' = pc + 1
  /\ link' = [link EXCEPT ![LinkOf(pc)] = "open"]
  /\ UNCHANGED <<server, faults, waiting, wire, reply, jetstream, client, exit>>

Sends ==
  /\ exit = "running" /\ pc \in CallSteps /\ ~waiting
  /\ waiting' = TRUE /\ wire' = wire \cup {pc} /\ reply' = {}
  /\ UNCHANGED <<server, faults, pc, link, jetstream, client, exit>>

Answers ==
  /\ exit = "running" /\ pc \in CallSteps /\ waiting /\ pc' = pc + 1
  /\ \E r \in reply :
       /\ r.error = "none"
       /\ got' = IF pc \in Nexts THEN r.value ELSE got
       /\ \E v \in {r.value, got, 0} : results' = [results EXCEPT ![pc] = v]
       /\ pc = 29 => results' = [results EXCEPT ![pc] = got]
  /\ waiting' = FALSE /\ reply' = {}
  /\ UNCHANGED <<server, faults, link, wire, jetstream, explicit, failed, file, exit>>

IsDenied ==
  /\ exit = "running" /\ pc = 21 /\ pc' = 22
  /\ explicit' \in BOOLEAN /\ (explicit' => \E r \in reply : r.error = "permission")
  /\ waiting' = FALSE /\ reply' = {}
  /\ UNCHANGED <<server, faults, link, wire, jetstream, got, results, failed, file, exit>>

Closes ==
  /\ exit = "running" /\ pc \in {6, 22} \cup (33 .. 36) /\ ~waiting /\ pc' = pc + 1
  /\ Disconnect({LinkOf(pc)} \cap {l \in Link : link[l] = "open"})
  /\ UNCHANGED <<server, faults, waiting, wire, reply, client, exit>>

Writes ==
  /\ exit = "running" /\ pc = 32 /\ ~waiting /\ pc' = 33
  /\ file' = "pass" /\ explicit /\ results[29] = 3
  /\ UNCHANGED <<server, faults, waiting, link, wire, reply, jetstream, got, results, explicit, failed, exit>>

LEMMA ThrowQuits == ASSUME pc \in 1 .. 36, Throw PROVE pc' \in 33 .. 37 /\ pc < pc' /\ failed' = TRUE
BY FinallyIs33, ScriptVerbs DEF Throw

LEMMA FailureEffect ==
  ASSUME NEW error, exit = "running", pc \in CallSteps, CallFails(error),
         error = "permission" => \E r \in reply : r.error = "permission"
  PROVE  Quits \/ IsDenied
<1>0. pc \in 1 .. 36
  BY DEF CallSteps
<1>1. CASE pc = 21
  <2>1. explicit' = (error = "permission") /\ pc' = 22
    BY <1>1, ForbiddenIs21 DEF CallFails, Explicit
  <2>2. explicit' \in BOOLEAN /\ (explicit' => \E r \in reply : r.error = "permission")
    BY <2>1
  <2>3. QED BY <1>1, <2>1, <2>2, ForbiddenIs21 DEF CallFails, IsDenied
<1>2. CASE pc # 21
  BY <1>0, <1>2, ForbiddenIs21, ThrowQuits DEF CallFails, Throw, Quits
<1>3. QED BY <1>1, <1>2

LEMMA AnswerEffect ==
  ASSUME NEW r \in reply, r.error = "none", exit = "running", pc \in CallSteps, waiting, Answered(r.value)
  PROVE  Answers
<1>1. Verb(pc) = "next" <=> pc \in Nexts
  BY ScriptCalls
<1>2. pc = 29 => Verb(pc) = "ack"
  BY ScriptCalls DEF Acks
<1>3. QED BY <1>1, <1>2 DEF Answered, Answers, Proceed

LEMMA ClientEffect ==
  ASSUME ClientShape, WireShape, Client
  PROVE  Quits \/ Connects \/ Sends \/ Answers \/ IsDenied \/ Closes \/ Writes \/ Exit
<1>0. /\ waiting => pc \in CallSteps
      /\ ~waiting => waiting = FALSE /\ reply = {}
      /\ Running => exit = "running" /\ pc \in 1 .. 36
      /\ CallSteps \cap ({1, 7, 8, 26, 6, 22, 32} \cup (33 .. 36)) = {}
  BY ScriptVerbs DEF ClientShape, WireShape, Running, CallSteps
<1>1. CASE Connect
  <2>1. Running /\ pc \in {1, 7, 8, 26} /\ ~waiting
    BY <1>0, <1>1, ScriptVerbs DEF Connect
  <2>2. CASE Throw /\ UNCHANGED link
    BY <1>0, <1>1, <2>1, <2>2, ThrowQuits DEF Connect, Throw, Quits
  <2>3. CASE Proceed /\ link' = [link EXCEPT ![LinkOf(pc)] = "open"]
    BY <1>0, <1>1, <2>1, <2>3 DEF Connect, Proceed, Connects, client
  <2>4. QED BY <1>1, <2>2, <2>3 DEF Connect
<1>2. CASE Send
  BY <1>0, <1>2, ScriptVerbs DEF Send, Sends
<1>3. CASE Return
  BY <1>0, <1>3, FailureEffect, AnswerEffect DEF Return
<1>4. CASE GiveUp
  <2>1. Running /\ pc \in CallSteps /\ (CallFails("deadline") \/ CallFails("broken"))
    BY <1>0, <1>4, ScriptVerbs DEF GiveUp
  <2>2. QED BY <1>0, <2>1, FailureEffect
<1>5. CASE Close
  BY <1>0, <1>5, ScriptVerbs DEF Close, Closes, Proceed, client
<1>6. CASE CloseFails
  <2>1. Running /\ ~waiting
    BY <1>0, <1>6, ScriptVerbs DEF CloseFails
  <2>2. QED BY <1>0, <1>6, <2>1, ThrowQuits DEF CloseFails, Quits, Throw
<1>7. CASE Write
  <2>1. Running /\ pc = 32 /\ ~waiting
    BY <1>0, <1>7, ScriptVerbs DEF Write
  <2>2. Pass => explicit /\ results[29] = 3
    BY DemandedAt29, ScriptVerbs DEF Pass
  <2>3. CASE Throw /\ file' \in {"absent", "torn", "fail"}
    BY <1>0, <1>7, <2>1, <2>3, ThrowQuits DEF Write, Throw, Quits
  <2>4. CASE file' = "pass" /\ Pass /\ Proceed
    BY <1>0, <1>7, <2>1, <2>2, <2>4 DEF Write, Proceed, Writes
  <2>5. QED BY <1>7, <2>3, <2>4 DEF Write
<1>8. QED
  BY <1>1, <1>2, <1>3, <1>4, <1>5, <1>6, <1>7 DEF Client
-----------------------------------------------------------------------------
(* What becomes of the server's consumers when links go.                   *)
LEMMA DisconnectEffect ==
  ASSUME ServerShape, NEW links \in SUBSET Link, Disconnect(links)
  PROVE  /\ link' = [l \in Link |-> IF l \in links THEN "closed" ELSE link[l]]
         /\ stream' = stream /\ exists' \subseteq exists
         /\ cursor' \in [Resident -> 0 .. Len(stream)]
         /\ acked' \in [Resident -> SUBSET (1 .. Len(stream))]
         /\ server = "sound" => cursor' = cursor /\ acked' = acked
         /\ cursor["a"] = 0 => cursor'["a"] = 0
         /\ server \in {"forgetful", "ephemeral"} /\ "a" \in links => cursor'["a"] = 0
<1> DEFINE lost == IF server \in {"forgetful", "ephemeral"} THEN {KindOf(l) : l \in links} ELSE {}
<1>1. /\ cursor' = [r \in Resident |-> IF r \in lost THEN 0 ELSE cursor[r]]
      /\ acked' = [r \in Resident |-> IF r \in lost THEN {} ELSE acked[r]]
      /\ exists' = IF server = "ephemeral" THEN exists \ lost ELSE exists
      /\ stream' = stream
      /\ link' = [l \in Link |-> IF l \in links THEN "closed" ELSE link[l]]
  BY DEF Disconnect
<1>2. Len(stream) \in Nat
  BY LenProperties DEF ServerShape
<1>3. cursor' \in [Resident -> 0 .. Len(stream)] /\ acked' \in [Resident -> SUBSET (1 .. Len(stream))]
  <2> HIDE DEF lost
  <2> QED BY <1>1, <1>2 DEF ServerShape
<1>4. server = "sound" => cursor' = cursor /\ acked' = acked
  <2> SUFFICES ASSUME server = "sound" PROVE cursor' = cursor /\ acked' = acked
    OBVIOUS
  <2>1. lost = {}
    OBVIOUS
  <2>2. cursor' = [r \in Resident |-> cursor[r]] /\ acked' = [r \in Resident |-> acked[r]]
    BY <1>1, <2>1
  <2>3. QED BY <2>2 DEF ServerShape
<1>5. cursor["a"] = 0 => cursor'["a"] = 0
  <2> HIDE DEF lost
  <2> QED BY <1>1 DEF Resident
<1>6. server \in {"forgetful", "ephemeral"} /\ "a" \in links => cursor'["a"] = 0
  <2> SUFFICES ASSUME server \in {"forgetful", "ephemeral"}, "a" \in links PROVE cursor'["a"] = 0
    OBVIOUS
  <2>1. KindOf("a") = "a"
    BY DEF KindOf
  <2>2. "a" \in lost
    BY <2>1
  <2> HIDE DEF lost
  <2>3. QED BY <1>1, <2>2 DEF Resident
<1>7. exists' \subseteq exists
  BY <1>1
<1>8. QED BY <1>1, <1>3, <1>4, <1>5, <1>6, <1>7

(* What the steps of the server come to.                                   *)
Waits(i) == exit = "running" /\ waiting /\ pc = i /\ link[LinkOf(i)] = "open"
Tells(i, errors, values) ==
  IF Waits(i) THEN \E e \in errors, v \in values : reply' = {[error |-> e, value |-> v]}
              ELSE reply' = reply

Refuses(i) ==
  /\ \/ Tells(i, {"permission"}, {0}) /\ ~Permitted(i)
     \/ Tells(i, {"not-found"}, {0})
  /\ UNCHANGED jetstream

Informs(i) ==
  /\ i \notin Publishes \cup Nexts \cup Acks
  /\ Tells(i, {"none"}, Nat)
  /\ exists' \subseteq Resident \cup {"commons"} /\ UNCHANGED <<stream, cursor, acked>>

Stores(i) ==
  /\ i \in Publishes /\ Permitted(i)
  /\ stream' = Append(stream, [subject |-> Object(i), sender |-> KindOf(LinkOf(i))])
  /\ Tells(i, {"none"}, {Len(stream')})
  /\ UNCHANGED <<exists, cursor, acked>>

Delivers(i) ==
  /\ i \in Nexts /\ cursor[Object(i)] < Len(stream)
  /\ cursor' = [cursor EXCEPT ![Object(i)] = cursor[Object(i)] + 1]
  /\ Tells(i, {"none"}, {cursor[Object(i)] + 1})
  /\ UNCHANGED <<exists, stream, acked>>

Confirms(i) ==
  /\ i \in Acks
  /\ acked' = [acked EXCEPT ![Object(i)] = acked[Object(i)] \cup {got}]
  /\ Tells(i, {"none"}, {0})
  /\ UNCHANGED <<exists, stream, cursor>>

Serves(i) ==
  /\ wire' = wire \ {i}
  /\ Refuses(i) \/ Informs(i) \/ Stores(i) \/ Delivers(i) \/ Confirms(i)
  /\ UNCHANGED <<server, faults, pc, waiting, link, client, exit>>

LEMMA TellTells ==
  ASSUME NEW i, NEW e, NEW v, NEW E, NEW V, e \in E, v \in V, Tell(i, e, v)
  PROVE  Tells(i, E, V)
BY DEF Tell, Tells, Waits

LEMMA ServeEffect ==
  ASSUME Shape, NEW i \in wire, Serve(i)
  PROVE  Serves(i)
<1>0. i \in CallSteps /\ Len(stream) \in Nat
  BY LenProperties DEF Shape, WireShape, ServerShape
<1>1. Refuse(i) => Refuses(i)
  BY TellTells DEF Refuse, Refuses
<1>2. Create(i) => Informs(i)
  <2> SUFFICES ASSUME Create(i) PROVE Informs(i)
    OBVIOUS
  <2>1. i \notin Publishes \cup Nexts \cup Acks
    BY <1>0, ScriptCalls DEF Create
  <2>2. exists' \subseteq Resident \cup {"commons"}
    BY <1>0, ScriptCalls DEF Create, Shape, ServerShape
  <2>3. QED BY <2>1, <2>2, TellTells DEF Create, Informs
<1>3. Inform(i) => Informs(i)
  <2> SUFFICES ASSUME Inform(i) PROVE Informs(i)
    OBVIOUS
  <2>1. i \notin Publishes \cup Nexts \cup Acks
    BY <1>0, ScriptCalls DEF Inform
  <2>2. Tells(i, {"none"}, Nat)
    BY <1>0, TellTells DEF Inform
  <2>3. QED BY <2>1, <2>2 DEF Inform, Informs, jetstream, Shape, ServerShape
<1>4. Permitted(i) /\ Publish(i) => Stores(i)
  BY <1>0, ScriptCalls, TellTells DEF Publish, Stores
<1>5. Deliver(i) => Delivers(i)
  <2> SUFFICES ASSUME Deliver(i) PROVE Delivers(i)
    OBVIOUS
  <2>1. i \in Nexts /\ Object(i) \in Resident
    BY <1>0, ScriptCalls DEF Deliver
  <2>2. cursor'[Object(i)] = cursor[Object(i)] + 1
    BY <2>1 DEF Deliver, Shape, ServerShape
  <2>3. Tells(i, {"none"}, {cursor[Object(i)] + 1})
    BY <2>2, TellTells DEF Deliver
  <2>4. QED BY <2>1, <2>3 DEF Deliver, Delivers
<1>6. Acknowledge(i) => Confirms(i)
  BY <1>0, ScriptCalls, TellTells DEF Acknowledge, Confirms
<1>7. QED BY <1>1, <1>2, <1>3, <1>4, <1>5, <1>6 DEF Serve, Serves
-----------------------------------------------------------------------------
(* Every step, by what it comes to.                                        *)
Drops == \E l \in Link : Drop(l)
Served == \E i \in wire : Serves(i)
Step == \/ Quits \/ Connects \/ Sends \/ Answers \/ IsDenied \/ Closes \/ Writes
        \/ Exit \/ Kill \/ Served \/ Drops \/ UNCHANGED vars

LEMMA NextIsStep == ASSUME Shape, [Next]_vars PROVE Step
<1>1. CASE Client
  BY <1>1, ClientEffect DEF Shape, Step
<1>2. CASE \E i \in wire : Serve(i)
  BY <1>2, ServeEffect DEF Step, Served
<1>3. QED BY <1>1, <1>2 DEF Next, Rest, Step, Drops

LEMMA CallRange == CallSteps \subseteq 2 .. 31 /\ {6, 7, 8, 22, 26} \cap CallSteps = {}
BY DEF CallSteps

LEMMA ClientShapeStep == ASSUME Shape, Step PROVE ClientShape'
<1> USE DEF ClientShape
<1>1. ClientShape /\ WireShape
  BY DEF Shape
<1>2. CASE Quits
  <2>1. pc' \in 1 .. 37 /\ pc' >= 33 /\ failed' \in BOOLEAN
    BY <1>2 DEF Quits
  <2>2. waiting' \in BOOLEAN /\ ~waiting'
    BY <1>2 DEF Quits
  <2>3. explicit' \in BOOLEAN /\ (explicit' => pc' > 21 /\ 21 \notin wire')
    BY <1>1, <1>2, <2>1 DEF Quits
  <2>4. UNCHANGED <<server, faults, exit>> /\ file' \in {"absent", "torn", "pass", "fail"}
    BY <1>1, <1>2 DEF Quits
  <2>5. QED BY <1>1, <2>1, <2>2, <2>3, <2>4
<1>3. CASE Connects
  BY <1>1, <1>3 DEF Connects, client
<1>4. CASE Sends
  BY <1>1, <1>4 DEF Sends, client
<1>5. CASE Answers
  <2>1. pc \in 2 .. 31
    BY <1>5, CallRange DEF Answers
  <2>2. pc' \in 1 .. 37 /\ ~failed
    BY <1>1, <1>5, <2>1 DEF Answers
  <2>3. waiting' \in BOOLEAN /\ ~waiting'
    BY <1>5 DEF Answers
  <2>4. UNCHANGED <<server, faults, wire, explicit, failed, file, exit>> /\ pc' > pc
    BY <1>5, <2>1 DEF Answers
  <2>5. QED BY <1>1, <2>1, <2>2, <2>3, <2>4
<1>6. CASE IsDenied
  <2>1. explicit' => 21 \notin wire
    BY <1>1, <1>6 DEF IsDenied, WireShape
  <2>2. pc' = 22 /\ explicit' \in BOOLEAN /\ waiting' \in BOOLEAN /\ ~waiting'
    BY <1>6 DEF IsDenied
  <2>3. UNCHANGED <<server, faults, wire, failed, file, exit>> /\ pc = 21
    BY <1>6 DEF IsDenied
  <2>4. QED BY <1>1, <2>1, <2>2, <2>3
<1>7. CASE Closes
  BY <1>1, <1>7 DEF Closes, client
<1>8. CASE Writes
  BY <1>1, <1>8 DEF Writes
<1>9. CASE Exit
  BY <1>1, <1>9 DEF Exit, client
<1>10. CASE Kill
  BY <1>1, <1>10 DEF Kill, client
<1>11. CASE Served
  BY <1>1, <1>11 DEF Served, Serves, client
<1>12. CASE Drops
  BY <1>1, <1>12 DEF Drops, Drop, client
<1>13. CASE UNCHANGED vars
  BY <1>1, <1>13 DEF vars, client
<1>14. QED
  BY <1>2, <1>3, <1>4, <1>5, <1>6, <1>7, <1>8, <1>9, <1>10, <1>11, <1>12, <1>13 DEF Step

(* An answer is one of three, with a number.                               *)
LEMMA ServesTells ==
  ASSUME ServerShape, NEW i \in CallSteps, Serves(i)
  PROVE  Tells(i, {"permission"}, {0}) \/ Tells(i, {"not-found"}, {0}) \/ Tells(i, {"none"}, Nat)
<1>0. Len(stream) \in Nat
  BY LenProperties DEF ServerShape
<1>1. CASE Refuses(i) \/ Informs(i)
  BY <1>1 DEF Refuses, Informs
<1>2. CASE Stores(i)
  <2>1. stream' \in Seq(Record)
    <3>1. [subject |-> Object(i), sender |-> KindOf(LinkOf(i))] \in Record
      BY <1>2, ScriptCalls, ScriptObjects DEF Stores, Record
    <3>2. QED BY <1>2, <3>1, AppendProperties DEF Stores, ServerShape
  <2>2. QED BY <1>2, <2>1, LenProperties DEF Stores, Tells
<1>3. CASE Delivers(i)
  <2>1. cursor[Object(i)] + 1 \in Nat
    BY <1>0, <1>3, ScriptCalls DEF Delivers, ServerShape
  <2>2. QED BY <1>3, <2>1 DEF Delivers, Tells
<1>4. CASE Confirms(i)
  BY <1>4 DEF Confirms, Tells
<1>5. QED BY <1>1, <1>2, <1>3, <1>4 DEF Serves

LEMMA WireShapeStep == ASSUME Shape, Step PROVE WireShape'
<1> USE DEF WireShape
<1>1. ClientShape /\ WireShape /\ wire \subseteq 2 .. 31
  BY CallRange DEF Shape
<1>2. CASE Quits
  BY <1>1, <1>2 DEF Quits, jetstream
<1>3. CASE Connects \/ Closes
  <2>1. ~waiting /\ pc' = pc + 1 /\ UNCHANGED <<waiting, failed, wire, reply>>
    BY <1>3 DEF Connects, Closes, client
  <2>2. QED BY <1>1, <2>1 DEF ClientShape
<1>4. CASE Sends
  BY <1>1, <1>4 DEF Sends, ClientShape, client
<1>5. CASE Answers
  BY <1>1, <1>5 DEF Answers, ClientShape
<1>6. CASE IsDenied
  BY <1>1, <1>6 DEF IsDenied, ClientShape
<1>7. CASE Writes
  BY <1>1, <1>7 DEF Writes, ClientShape
<1>8. CASE UNCHANGED <<pc, waiting, failed, wire, reply>>
  BY <1>1, <1>8
<1>9. CASE Served
  <2>1. PICK i \in wire : Serves(i)
    BY <1>9 DEF Served
  <2>2. /\ wire' = wire \ {i} /\ UNCHANGED <<pc, waiting, failed>>
        /\ reply' = reply \/ (i = pc /\ waiting /\ \E r \in Reply : reply' = {r})
    <3>1. Tells(i, {"permission"}, {0}) \/ Tells(i, {"not-found"}, {0}) \/ Tells(i, {"none"}, Nat)
      BY <1>1, <2>1, ServesTells DEF Shape
    <3>2. reply' = reply \/ (Waits(i) /\ \E e \in {"permission", "not-found", "none"}, v \in Nat :
                                             reply' = {[error |-> e, value |-> v]})
      BY <3>1 DEF Tells
    <3>3. \A e \in {"permission", "not-found", "none"}, v \in Nat : [error |-> e, value |-> v] \in Reply
      BY DEF Reply
    <3>4. reply' = reply \/ (i = pc /\ waiting /\ \E r \in Reply : reply' = {r})
      BY <3>2, <3>3 DEF Waits
    <3>5. QED BY <2>1, <3>4 DEF Serves, client
  <2>3. QED BY <1>1, <2>2
<1>10. QED
  BY <1>2, <1>3, <1>4, <1>5, <1>6, <1>7, <1>8, <1>9 DEF Step, Exit, Kill, Drops, Drop, vars, client

(* Links that go were open.                                                *)
Loses == \E links \in SUBSET {l \in Link : link[l] = "open"} : Disconnect(links)

LEMMA LossEffect ==
  /\ Closes => Loses
  /\ Kill => Loses
  /\ Drops => Loses
<1>1. {LinkOf(pc)} \cap {l \in Link : link[l] = "open"} \in SUBSET {l \in Link : link[l] = "open"}
  OBVIOUS
<1>2. Closes => Loses
  BY <1>1 DEF Closes, Loses
<1>3. Kill => Loses
  BY DEF Kill, Loses
<1>4. ASSUME NEW l \in Link, Drop(l) PROVE Loses
  <2>1. {l} \in SUBSET {k \in Link : link[k] = "open"} /\ Disconnect({l})
    BY <1>4 DEF Drop
  <2>2. QED BY <2>1 DEF Loses
<1>5. QED BY <1>2, <1>3, <1>4 DEF Drops

LEMMA LossOnLinks ==
  ASSUME ServerShape, LinkShape, Loses
  PROVE  /\ link' \in [Link -> {"none", "open", "closed"}]
         /\ \A l \in Link : /\ link'[l] = "none" <=> link[l] = "none"
                            /\ link[l] = "closed" => link'[l] = "closed"
<1>1. PICK links \in SUBSET {l \in Link : link[l] = "open"} : Disconnect(links)
  BY DEF Loses
<1>2. link' = [l \in Link |-> IF l \in links THEN "closed" ELSE link[l]]
  BY <1>1 DEF Disconnect
<1>3. \A l \in links : l \in Link /\ link[l] = "open"
  BY <1>1
<1>4. QED BY <1>2, <1>3 DEF LinkShape

LEMMA LinkShapeStep == ASSUME Shape, Step PROVE LinkShape'
<1> USE DEF LinkShape
<1>1. LinkShape /\ ServerShape /\ pc \in 1 .. 37 /\ \A l \in Link : Opens(l) \in {1, 7, 8, 26}
  BY ScriptLinks DEF Shape, ClientShape
<1>2. CASE Quits
  BY <1>1, <1>2 DEF Quits
<1>3. CASE Connects
  <2>1. LinkOf(pc) \in Link /\ Opens(LinkOf(pc)) = pc
    BY <1>3, ScriptLinks DEF Connects
  <2>2. ASSUME NEW l \in Link, ~failed' PROVE link'[l] = "none" <=> pc' <= Opens(l)
    <3>1. CASE l = LinkOf(pc)
      BY <1>1, <1>3, <2>1, <3>1 DEF Connects
    <3>2. CASE l # LinkOf(pc)
      <4>1. Opens(l) # pc
        BY <2>1, <3>2, ScriptLinks
      <4>2. QED BY <1>1, <1>3, <2>2, <3>2, <4>1 DEF Connects, client
    <3>3. QED BY <3>1, <3>2
  <2>3. link' \in [Link -> {"none", "open", "closed"}] /\ exit' = "running"
    BY <1>1, <1>3 DEF Connects
  <2>4. QED BY <2>2, <2>3
<1>4. CASE Sends \/ Served
  BY <1>1, <1>4 DEF Sends, Served, Serves, client
<1>5. CASE Answers \/ IsDenied \/ Writes
  <2>1. pc \notin {1, 7, 8, 26} /\ pc' = pc + 1 /\ UNCHANGED <<failed, link, exit>>
    BY <1>5 DEF Answers, IsDenied, Writes, CallSteps
  <2>2. QED BY <1>1, <2>1
<1>6. CASE Closes
  <2>1. pc \notin {1, 7, 8, 26} /\ pc' = pc + 1 /\ exit' = "running" /\ UNCHANGED failed
    BY <1>6 DEF Closes, client
  <2>2. QED BY <1>1, <1>6, <2>1, LossEffect, LossOnLinks
<1>7. CASE Drops
  <2>1. exit' = "running" /\ UNCHANGED <<pc, failed>>
    BY <1>7 DEF Drops, Drop, client
  <2>2. QED BY <1>1, <1>7, <2>1, LossEffect, LossOnLinks
<1>8. CASE Kill
  <2>1. \A l \in Link : link'[l] # "open"
    BY <1>1, <1>8 DEF Kill, Disconnect
  <2>2. UNCHANGED <<pc, failed>>
    BY <1>8 DEF Kill
  <2>3. QED BY <1>1, <1>8, <2>1, <2>2, LossEffect, LossOnLinks
<1>9. CASE Exit
  BY <1>1, <1>9 DEF Exit, client
<1>10. CASE UNCHANGED vars
  BY <1>1, <1>10 DEF vars, client
<1>11. QED
  BY <1>2, <1>3, <1>4, <1>5, <1>6, <1>7, <1>8, <1>9, <1>10 DEF Step

(* What the client does takes nothing out of the stream and sends nothing  *)
(* twice.                                                                  *)
ClientMoves ==
  /\ pc' \in 1 .. 37 /\ pc <= pc' /\ stream' = stream
  /\ \/ wire' = wire /\ (waiting' = waiting \/ pc < pc')
     \/ wire' = wire \cup {pc} /\ ~waiting /\ pc' = pc

LEMMA ClientMovesOn ==
  ASSUME Shape, Step, ~Served
  PROVE  ClientMoves
<1>0. pc \in 1 .. 37
  BY DEF Shape, ClientShape
<1>1. CASE Quits \/ Connects \/ Answers \/ IsDenied \/ Writes
  BY <1>0, <1>1, CallRange DEF Quits, Connects, Answers, IsDenied, Writes, ClientMoves, jetstream
<1>2. CASE Sends
  <2>1. wire' = wire \cup {pc} /\ ~waiting /\ pc' = pc /\ stream' = stream
    BY <1>2 DEF Sends, jetstream
  <2>2. QED BY <1>0, <2>1 DEF ClientMoves
<1>3. CASE Closes
  BY <1>0, <1>3 DEF Closes, Disconnect, ClientMoves
<1>4. CASE Kill \/ Drops
  BY <1>0, <1>4 DEF Kill, Drops, Drop, Disconnect, ClientMoves
<1>5. CASE Exit \/ UNCHANGED vars
  BY <1>0, <1>5 DEF Exit, vars, ClientMoves, jetstream
<1>6. QED BY <1>1, <1>2, <1>3, <1>4, <1>5 DEF Step

LEMMA StoredByClient ==
  ASSUME Shape, ClientMoves, NEW i \in Publishes
  PROVE  Stored(i) \in 0 .. 1 /\ Stored(i)' \in 0 .. 1 /\ Stored(i) <= Stored(i)'
<1>1. pc \in 1 .. 37 /\ i \in Nat
  BY DEF Shape, ClientShape, Publishes
<1>2. QED BY <1>1 DEF ClientMoves, Stored

LEMMA ServerShapeStep == ASSUME Shape, Step PROVE ServerShape'
<1>0. ServerShape /\ Len(stream) \in Nat /\ ClientShape /\ WireShape
  BY LenProperties DEF Shape, ServerShape
<1>1. CASE ~Served
  <2>1. Len(stream') <= (Stored(11) + Stored(12) + Stored(21) + Stored(23))'
    <3>1. ClientMoves
      BY <1>1, ClientMovesOn
    <3>2. \A i \in {11, 12, 21, 23} : Stored(i) \in 0 .. 1 /\ Stored(i)' \in 0 .. 1 /\ Stored(i) <= Stored(i)'
      BY <3>1, StoredByClient DEF Publishes
    <3>3. QED BY <1>0, <3>1, <3>2 DEF ServerShape, ClientMoves
  <2>2. CASE Loses
    <3>1. PICK links \in SUBSET {l \in Link : link[l] = "open"} : Disconnect(links)
      BY <2>2 DEF Loses
    <3>2. links \in SUBSET Link
      BY <3>1
    <3>3. QED BY <1>0, <2>1, <3>1, <3>2, DisconnectEffect DEF ServerShape
  <2>3. CASE UNCHANGED jetstream
    BY <1>0, <2>1, <2>3 DEF ServerShape, jetstream
  <2>4. QED
    BY <1>1, <2>2, <2>3, LossEffect
    DEF Step, Quits, Connects, Sends, Answers, IsDenied, Writes, Exit, vars
<1>2. CASE Served
  <2>1. PICK i \in wire : Serves(i)
    BY <1>2 DEF Served
  <2>2. /\ i \in CallSteps /\ i \in Nat /\ pc \in 1 .. 37
        /\ wire' = wire \ {i} /\ UNCHANGED <<pc, waiting, got>>
    BY <1>0, <2>1, CallRange DEF Serves, client, WireShape, ClientShape
  <2>3. \A j \in {11, 12, 21, 23} : Stored(j)' \in 0 .. 1 /\ Stored(j) \in 0 .. 1
    BY DEF Stored
  <2>4. \A j \in {11, 12, 21, 23} : Stored(j) <= Stored(j)' /\ (j = i => Stored(j)' = 1 /\ Stored(j) = 0)
    BY <1>0, <2>1, <2>2 DEF Stored, WireShape
  <2>5. CASE Stores(i)
    <3>1. [subject |-> Object(i), sender |-> KindOf(LinkOf(i))] \in Record
      BY <2>2, <2>5, ScriptCalls, ScriptObjects DEF Stores, Record
    <3>2. stream' \in Seq(Record) /\ Len(stream') = Len(stream) + 1
      BY <1>0, <2>5, <3>1, AppendProperties DEF Stores, ServerShape
    <3>3. Len(stream') <= (Stored(11) + Stored(12) + Stored(21) + Stored(23))'
      BY <1>0, <2>3, <2>4, <2>5, <3>2 DEF Stores, Publishes, ServerShape
    <3>4. cursor' \in [Resident -> 0 .. Len(stream')] /\ acked' \in [Resident -> SUBSET (1 .. Len(stream'))]
      BY <1>0, <2>5, <3>2 DEF Stores, ServerShape
    <3>5. QED BY <1>0, <2>5, <3>2, <3>3, <3>4 DEF Stores, ServerShape
  <2>6. CASE ~Stores(i)
    <3>1. stream' = stream /\ exists' \subseteq Resident \cup {"commons"}
      BY <1>0, <2>1, <2>6 DEF Serves, Refuses, Informs, Delivers, Confirms, jetstream, ServerShape
    <3>2. cursor' \in [Resident -> 0 .. Len(stream)]
      <4>1. CASE Delivers(i)
        BY <1>0, <2>2, <4>1, ScriptCalls DEF Delivers, ServerShape
      <4>2. QED BY <1>0, <2>1, <2>6, <4>1 DEF Serves, Refuses, Informs, Confirms, jetstream, ServerShape
    <3>3. acked' \in [Resident -> SUBSET (1 .. Len(stream))]
      <4>1. CASE Confirms(i)
        <5>1. got \in 1 .. Len(stream)
          BY <1>0, <2>1, <4>1 DEF Confirms, Shape, InHand
        <5>2. Object(i) \in Resident
          BY <2>2, <4>1, ScriptCalls DEF Confirms
        <5>3. QED BY <1>0, <4>1, <5>1, <5>2 DEF Confirms, ServerShape
      <4>2. QED BY <1>0, <2>1, <2>6, <4>1 DEF Serves, Refuses, Informs, Delivers, jetstream, ServerShape
    <3>4. Len(stream) <= (Stored(11) + Stored(12) + Stored(21) + Stored(23))'
      BY <1>0, <2>3, <2>4 DEF ServerShape
    <3>5. QED BY <1>0, <3>1, <3>2, <3>3, <3>4 DEF ServerShape
  <2>7. QED BY <2>5, <2>6
<1>3. QED BY <1>1, <1>2

LEMMA InHandStep == ASSUME Shape, Step PROVE InHand'
<1>0. /\ InHand /\ ServerShape /\ ClientShape /\ WireShape
      /\ Len(stream) \in Nat /\ CallSteps \subseteq 2 .. 31
  BY LenProperties, CallRange DEF Shape, ServerShape
<1>1. CASE Quits
  <2>1. pc' \notin Acks \cup Nexts /\ UNCHANGED <<got, results, stream, wire>>
    BY <1>1 DEF Quits, Acks, Nexts, jetstream
  <2>2. QED BY <1>0, <2>1 DEF InHand
<1>2. CASE Connects \/ Closes \/ Writes
  <2>1. pc' \notin Acks /\ stream' = stream /\ ~waiting
    BY <1>2 DEF Connects, Closes, Writes, Disconnect, Acks, jetstream
  <2>2. UNCHANGED <<got, results, wire, reply>> /\ reply = {}
    BY <1>0, <1>2 DEF Connects, Closes, Writes, client, WireShape
  <2>3. QED BY <1>0, <2>1, <2>2 DEF InHand
<1>3. CASE Sends
  <2>1. pc' = pc /\ reply' = {} /\ wire' = wire \cup {pc} /\ UNCHANGED <<got, results, stream>>
    BY <1>3 DEF Sends, client, jetstream
  <2>2. QED BY <1>0, <2>1 DEF InHand
<1>4. CASE Answers
  <2>1. PICK r \in reply : /\ r.error = "none"
                           /\ got' = IF pc \in Nexts THEN r.value ELSE got
                           /\ \E v \in {r.value, got, 0} : results' = [results EXCEPT ![pc] = v]
    BY <1>4 DEF Answers
  <2>2. /\ pc \in CallSteps /\ pc' = pc + 1 /\ reply' = {}
        /\ UNCHANGED <<stream, wire>> /\ pc \notin wire /\ r.value \in Nat
    BY <1>0, <1>4, <2>1 DEF Answers, jetstream, WireShape, Reply
  <2>3. got' \in 0 .. Len(stream) /\ results' \in [Steps -> Nat]
    <3>1. got \in 0 .. Len(stream) /\ results \in [Steps -> Nat]
      BY <1>0 DEF InHand
    <3>2. pc \in Nexts => r.value \in 1 .. Len(stream)
      BY <1>0, <2>1 DEF InHand
    <3>3. got' \in 0 .. Len(stream)
      BY <1>0, <2>1, <3>1, <3>2
    <3>4. \A v \in {r.value, got, 0} : v \in Nat
      BY <1>0, <2>2, <3>1
    <3>5. QED BY <2>1, <3>1, <3>3, <3>4
  <2>4. ~failed
    BY <1>0, <2>2 DEF ClientShape
  <2>5. wire' \cap Acks = {}
    BY <1>0, <2>2, <2>4 DEF WireShape, Acks
  <2>6. pc' \in Acks => pc \in Nexts
    BY <1>0, <2>2 DEF Acks, Nexts
  <2>7. pc \in Nexts => got' > 0
    BY <1>0, <2>1 DEF InHand
  <2>8. QED BY <2>2, <2>3, <2>5, <2>6, <2>7 DEF InHand
<1>5. CASE IsDenied
  <2>1. pc' = 22 /\ reply' = {} /\ UNCHANGED <<got, results, stream, wire>>
    BY <1>5 DEF IsDenied, jetstream
  <2>2. QED BY <1>0, <2>1 DEF InHand, Acks, Nexts
<1>6. CASE Exit \/ Kill \/ Drops \/ UNCHANGED vars
  <2>1. UNCHANGED <<pc, wire, reply, got, results, stream>>
    BY <1>6 DEF Exit, Kill, Drops, Drop, Disconnect, vars, client, jetstream
  <2>2. QED BY <1>0, <2>1 DEF InHand
<1>7. CASE Served
  <2>1. PICK i \in wire : Serves(i)
    BY <1>7 DEF Served
  <2>2. i \in CallSteps /\ wire' = wire \ {i} /\ UNCHANGED <<pc, waiting, got, results>>
    BY <1>0, <2>1 DEF Serves, client, WireShape
  <2>3. Len(stream') \in Nat /\ Len(stream) <= Len(stream')
    <3>1. CASE Stores(i)
      <4>1. [subject |-> Object(i), sender |-> KindOf(LinkOf(i))] \in Record
        BY <2>2, <3>1, ScriptCalls, ScriptObjects DEF Stores, Record
      <4>2. QED BY <1>0, <3>1, <4>1, AppendProperties DEF Stores, ServerShape
    <3>2. QED BY <1>0, <2>1, <3>1 DEF Serves, Refuses, Informs, Delivers, Confirms, jetstream
  <2>4. ASSUME pc \in Nexts PROVE \A r \in reply' : r.error = "none" => r.value \in 1 .. Len(stream')
    <3>1. CASE reply' = reply
      BY <1>0, <2>3, <2>4, <3>1 DEF InHand
    <3>2. CASE reply' # reply
      <4>1. i \in Nexts /\ i \notin Publishes \cup Acks
        <5>1. i = pc
          BY <2>1, <3>2 DEF Serves, Refuses, Informs, Stores, Delivers, Confirms, Tells, Waits
        <5>2. QED BY <2>4, <5>1 DEF Nexts, Publishes, Acks
      <4>2. CASE Refuses(i)
        BY <3>2, <4>2 DEF Refuses, Tells
      <4>3. CASE Delivers(i)
        <5>1. reply' = {[error |-> "none", value |-> cursor[Object(i)] + 1]}
          BY <3>2, <4>3 DEF Delivers, Tells
        <5>2. cursor[Object(i)] + 1 \in 1 .. Len(stream) /\ stream' = stream
          BY <1>0, <2>2, <4>3, ScriptCalls DEF Delivers, ServerShape
        <5>3. QED BY <5>1, <5>2
      <4>4. QED BY <2>1, <4>1, <4>2, <4>3 DEF Serves, Informs, Stores, Confirms
    <3>3. QED BY <3>1, <3>2
  <2>5. QED BY <1>0, <2>2, <2>3, <2>4 DEF InHand
<1>8. QED
  BY <1>1, <1>2, <1>3, <1>4, <1>5, <1>6, <1>7 DEF Step

LEMMA ShapeInit == Init => Shape
<1> SUFFICES ASSUME Init PROVE Shape
  OBVIOUS
<1>1. ClientShape /\ WireShape /\ LinkShape
  <2>1. \A l \in Link : Opens(l) \in {1, 7, 8, 26}
    BY ScriptLinks
  <2>2. /\ pc = 1 /\ ~waiting /\ waiting \in BOOLEAN /\ ~failed /\ failed \in BOOLEAN
        /\ ~explicit /\ explicit \in BOOLEAN
    BY DEF Init
  <2>3. ClientShape
    BY <2>2 DEF Init, ClientShape
  <2>4. WireShape
    BY DEF Init, WireShape
  <2>5. LinkShape
    BY <2>1 DEF Init, LinkShape
  <2>6. QED BY <2>3, <2>4, <2>5
<1>2. ServerShape
  BY EmptySeq DEF Init, ServerShape, Stored
<1>3. InHand
  BY EmptySeq, ScriptVerbs DEF Init, InHand, Acks, Nexts
<1>4. QED BY <1>1, <1>2, <1>3 DEF Shape

LEMMA ShapeStep == Shape /\ [Next]_vars => Shape'
BY NextIsStep, ClientShapeStep, WireShapeStep, LinkShapeStep, ServerShapeStep, InHandStep DEF Shape

(* The types, and the bounds: a publish is stored at most once, however    *)
(* late it is served, and what is delivered, confirmed or in hand is in    *)
(* the stream (main of wss-client.mjs and the server it talks to).         *)
THEOREM ClientTypeCorrect == Spec => []TypeOK
<1>1. Shape => TypeOK
  <2> SUFFICES ASSUME Shape PROVE TypeOK
    OBVIOUS
  <2>1. Finally = 33 /\ End = 37 /\ Steps = 1 .. 36
    BY FinallyIs33, ScriptVerbs
  <2>2. Len(stream) \in Nat /\ Len(stream) <= 4
    BY LenProperties DEF Shape, ServerShape, Stored
  <2>3. Cardinality(reply) <= 1
    <3>1. Cardinality({}) = 0 /\ \A r \in Reply : Cardinality({r}) = 1
      BY FS_EmptySet, FS_Singleton
    <3>2. reply = {} \/ \E r \in Reply : reply = {r}
      BY DEF Shape, WireShape
    <3>3. QED BY <3>1, <3>2
  <2>4. \A r \in Resident : cursor[r] <= Len(stream) /\ acked[r] \subseteq 1 .. Len(stream)
    BY <2>2 DEF Shape, ServerShape
  <2>5. got <= 4 /\ wire \subseteq Steps
    <3>1. got \in 0 .. Len(stream)
      BY DEF Shape, InHand
    <3>2. wire \subseteq CallSteps
      BY DEF Shape, WireShape
    <3>3. QED BY <2>1, <2>2, <3>1, <3>2, CallRange
  <2>6. QED
    BY <2>1, <2>2, <2>3, <2>4, <2>5 DEF TypeOK, Shape, ClientShape, WireShape, LinkShape, ServerShape
<1>2. QED
  BY <1>1, ShapeInit, ShapeStep, PTL DEF Spec
-----------------------------------------------------------------------------
(* On track.  Who is on track after a step was so before it, and the step  *)
(* does a call, or something that is not a call, or leaves main where it   *)
(* is.                                                                     *)
LEMMA LastCallIsOn == \A i \in CallSteps, l \in Link : i = LastCall(l) => LinkOf(i) = l
BY DEF CallSteps, LastCall, Link, Resident, LinkOf, Script

LEMMA ClientOnTrack ==
  ASSUME Shape, Step, ~Served, OnTrack'
  PROVE  /\ OnTrack
         /\ \/ At' = At
            \/ At = pc /\ At' = pc + 1 /\ pc \in (1 .. 36) \ CallSteps
<1>0. /\ ClientShape /\ WireShape /\ LinkShape /\ ServerShape /\ pc \in 1 .. 37
      /\ \A l \in Link : LastCall(l) \in CallSteps /\ LastCall(l) \in Nat
      /\ CallSteps \subseteq 2 .. 31
  BY CallRange DEF Shape, ClientShape, LastCall, CallSteps
<1>1. ~failed'
  BY DEF OnTrack
<1>2. CASE Quits
  BY <1>1, <1>2 DEF Quits
<1>3. CASE Connects
  <2>1. /\ reply = {} /\ reply' = {} /\ pc' = pc + 1 /\ pc \in {1, 7, 8, 26} /\ pc \notin CallSteps
        /\ UNCHANGED <<failed, explicit>>
    BY <1>0, <1>3, CallRange DEF Connects, client, WireShape, CallSteps
  <2>2. ASSUME NEW l \in Link, At <= LastCall(l) PROVE link[l] # "closed"
    <3>1. At' <= LastCall(l)
      BY <1>0, <2>1, <2>2 DEF At
    <3>2. link'[l] # "closed"
      BY <3>1 DEF OnTrack
    <3>3. CASE l = LinkOf(pc)
      <4>1. Opens(l) = pc
        BY <2>1, <3>3, ScriptLinks
      <4>2. QED BY <1>0, <1>1, <2>1, <4>1 DEF LinkShape
    <3>4. CASE l # LinkOf(pc)
      BY <1>0, <1>3, <3>2, <3>4 DEF Connects, LinkShape
    <3>5. QED BY <3>3, <3>4
  <2>3. QED BY <1>0, <2>1, <2>2 DEF OnTrack, At
<1>4. CASE Sends
  BY <1>0, <1>4 DEF Sends, OnTrack, At, WireShape, client
<1>5. CASE Answers
  <2>1. PICK r \in reply : r.error = "none"
    BY <1>5 DEF Answers
  <2>2. /\ pc \in CallSteps /\ pc' = pc + 1 /\ reply' = {} /\ UNCHANGED <<failed, explicit, link>>
        /\ \A x \in reply : x = r
    BY <1>0, <1>5, <2>1 DEF Answers, WireShape
  <2>3. pc # 21 /\ (pc > 21 => explicit)
    BY <1>0, <2>2 DEF OnTrack, ClientShape
  <2>4. At = pc + 1 /\ At' = pc + 1
    BY <2>1, <2>2 DEF At
  <2>5. QED BY <2>1, <2>2, <2>3, <2>4 DEF OnTrack
<1>6. CASE IsDenied
  <2>1. pc = 21 /\ pc' = 22 /\ reply' = {} /\ UNCHANGED <<failed, link>>
    BY <1>6 DEF IsDenied
  <2>2. PICK r \in reply : r.error = "permission"
    BY <1>6, <2>1 DEF IsDenied, OnTrack
  <2>3. \A x \in reply : x = r
    BY <1>0, <2>2 DEF WireShape
  <2>4. At = 22 /\ At' = 22
    BY <2>1, <2>2 DEF At
  <2>5. QED BY <2>1, <2>2, <2>3, <2>4 DEF OnTrack
<1>7. CASE Closes
  <2>1. /\ reply = {} /\ reply' = {} /\ pc' = pc + 1 /\ pc \in 1 .. 36 /\ pc \notin CallSteps
        /\ UNCHANGED <<failed, explicit>>
    BY <1>0, <1>7, CallRange DEF Closes, client, WireShape, CallSteps
  <2>2. \A l \in Link : At <= LastCall(l) => At' <= LastCall(l)
    BY <1>0, <2>1 DEF At
  <2>3. \A l \in Link : link'[l] # "closed" => link[l] # "closed"
    BY <1>0, <1>7, LossEffect, LossOnLinks
  <2>4. pc > 21 => explicit
    BY <2>1 DEF OnTrack
  <2>5. QED BY <1>0, <1>1, <2>1, <2>2, <2>3, <2>4 DEF OnTrack, At
<1>8. CASE Writes
  <2>1. /\ reply = {} /\ reply' = {} /\ pc = 32 /\ pc' = 33 /\ pc \notin CallSteps
        /\ explicit /\ UNCHANGED <<failed, explicit, link>>
    BY <1>0, <1>8, CallRange DEF Writes, WireShape
  <2>2. QED BY <1>0, <1>1, <2>1 DEF OnTrack, At
<1>9. CASE Kill \/ Drops
  <2>1. UNCHANGED <<pc, reply, failed, explicit>>
    BY <1>9 DEF Kill, Drops, Drop, client
  <2>2. \A l \in Link : link'[l] # "closed" => link[l] # "closed"
    BY <1>0, <1>9, LossEffect, LossOnLinks
  <2>3. QED BY <2>1, <2>2 DEF OnTrack, At
<1>10. CASE Exit \/ UNCHANGED vars
  BY <1>10 DEF Exit, OnTrack, At, vars, client
<1>11. QED
  BY <1>2, <1>3, <1>4, <1>5, <1>6, <1>7, <1>8, <1>9, <1>10 DEF Step

LEMMA ServedOnTrack ==
  ASSUME Shape, NEW i \in wire, Serves(i), OnTrack'
  PROVE  /\ OnTrack /\ At = pc /\ At' = pc + 1
         /\ i = pc /\ pc \in CallSteps /\ Waits(i)
         /\ Refuses(i) <=> pc = 21
         /\ pc = 21 => ~Permitted(21)
<1>0. /\ ClientShape /\ WireShape /\ LinkShape /\ ServerShape /\ pc \in 1 .. 37
      /\ CallSteps \subseteq 2 .. 31 /\ i \in CallSteps
      /\ UNCHANGED <<pc, link, waiting, failed, explicit, exit>>
  BY CallRange DEF Shape, ClientShape, WireShape, Serves, client
<1>1. i = pc /\ waiting
  BY <1>0 DEF OnTrack, WireShape, ClientShape
<1>2. reply = {} /\ At = pc
  BY <1>0, <1>1 DEF WireShape, At
<1>3. Waits(i)
  <2> SUFFICES ASSUME ~Waits(i) PROVE FALSE
    OBVIOUS
  <2>1. reply' = {}
    BY <1>2 DEF Serves, Refuses, Informs, Stores, Delivers, Confirms, Tells
  <2>2. LinkOf(i) \in Link /\ Opens(LinkOf(i)) < pc /\ pc <= LastCall(LinkOf(i)) /\ Opens(LinkOf(i)) \in Nat
    BY <1>0, <1>1, ScriptLinks
  <2>3. link[LinkOf(i)] # "closed"
    BY <1>0, <2>1, <2>2 DEF OnTrack, At
  <2>4. link[LinkOf(i)] # "none"
    BY <1>0, <2>2 DEF OnTrack, LinkShape
  <2>5. link[LinkOf(i)] = "open"
    BY <1>0, <2>2, <2>3, <2>4 DEF LinkShape
  <2>6. QED BY <1>0, <1>1, <2>2, <2>5 DEF Waits, LinkShape
<1>4. (Refuses(i) <=> pc = 21) /\ (pc = 21 => ~Permitted(21)) /\ reply' # {}
  <2>1. CASE Refuses(i)
    <3>1. PICK e \in {"permission", "not-found"} : /\ reply' = {[error |-> e, value |-> 0]}
                                                   /\ e = "permission" => ~Permitted(i)
      BY <1>3, <2>1 DEF Refuses, Tells
    <3>2. [error |-> e, value |-> 0] \in reply' /\ pc' = pc
      BY <1>0, <3>1
    <3>3. [error |-> e, value |-> 0].error = IF pc = 21 THEN "permission" ELSE "none"
      BY <3>2 DEF OnTrack
    <3>4. e = "permission" /\ pc = 21
      BY <3>1, <3>3
    <3>5. QED BY <1>1, <2>1, <3>1, <3>2, <3>4
  <2>2. CASE ~Refuses(i)
    <3>1. \E v : reply' = {[error |-> "none", value |-> v]}
      BY <1>3, <2>2 DEF Serves, Informs, Stores, Delivers, Confirms, Tells
    <3>2. "none" = IF pc = 21 THEN "permission" ELSE "none"
      BY <1>0, <3>1 DEF OnTrack
    <3>3. QED BY <2>2, <3>1, <3>2
  <2>3. QED BY <2>1, <2>2
<1>5. At' = pc + 1
  BY <1>0, <1>4 DEF At
<1>6. OnTrack
  <2>1. ASSUME NEW l \in Link, pc <= LastCall(l) PROVE link[l] # "closed"
    <3>1. CASE pc = LastCall(l)
      BY <1>0, <1>1, <1>3, <3>1, LastCallIsOn DEF Waits
    <3>2. CASE pc # LastCall(l)
      <4>1. LastCall(l) \in Nat
        BY ScriptLinks
      <4>2. At' <= LastCall(l)
        BY <1>0, <1>5, <2>1, <3>2, <4>1
      <4>3. QED BY <1>0, <4>2 DEF OnTrack
    <3>3. QED BY <3>1, <3>2
  <2>2. QED BY <1>0, <1>2, <2>1 DEF OnTrack
<1>7. QED BY <1>0, <1>1, <1>2, <1>3, <1>4, <1>5, <1>6

LEMMA StreamOnTrackStep == ASSUME Shape, StreamOnTrack, Step PROVE StreamOnTrack'
<1> SUFFICES ASSUME OnTrack'
             PROVE  /\ Len(stream') = Published(At)'
                    /\ \A s \in 1 .. Len(stream') : stream'[s] = Message(s)
  BY DEF StreamOnTrack
<1>0. ServerShape /\ WireShape /\ Len(stream) \in Nat /\ pc \in 1 .. 37
  BY LenProperties DEF Shape, ServerShape, ClientShape
<1>1. CASE ~Served
  <2>1. OnTrack /\ stream' = stream
    BY <1>1, ClientOnTrack, ClientMovesOn DEF ClientMoves
  <2>2. Published(At)' = Published(At)
    <3>1. CASE At' = At
      BY <3>1 DEF Published, Before
    <3>2. CASE At = pc /\ At' = pc + 1 /\ pc \in (1 .. 36) \ CallSteps
      <4>1. pc \notin {11, 12, 23}
        BY <3>2 DEF CallSteps
      <4>2. QED BY <3>2, <4>1 DEF Published, Before
    <3>3. QED BY <1>1, <3>1, <3>2, ClientOnTrack
  <2>3. QED BY <2>1, <2>2 DEF StreamOnTrack
<1>2. CASE Served
  <2>1. PICK i \in wire : Serves(i)
    BY <1>2 DEF Served
  <2>2. /\ OnTrack /\ At = pc /\ At' = pc + 1 /\ i = pc /\ pc \in CallSteps
        /\ (Refuses(i) <=> pc = 21)
    BY <2>1, ServedOnTrack
  <2>3. Len(stream) = Published(pc) /\ \A s \in 1 .. Len(stream) : stream[s] = Message(s)
    BY <2>2 DEF StreamOnTrack
  <2>4. CASE Stores(i) /\ pc # 21
    <3>1. pc \in {11, 12, 23}
      BY <2>2, <2>4 DEF Stores, Publishes
    <3>2. Published(pc + 1) = Published(pc) + 1
      BY <3>1 DEF Published, Before
    <3>3. [subject |-> Object(pc), sender |-> KindOf(LinkOf(pc))] = Message(Published(pc) + 1)
      <4>1. CASE pc = 11
        BY <4>1, ScriptObjects DEF Published, Before, Message
      <4>2. CASE pc = 12
        BY <4>2, ScriptObjects DEF Published, Before, Message
      <4>3. CASE pc = 23
        BY <4>3, ScriptObjects DEF Published, Before, Message
      <4>4. QED BY <3>1, <4>1, <4>2, <4>3
    <3>4. [subject |-> Object(pc), sender |-> KindOf(LinkOf(pc))] \in Record
      BY <2>2, <3>1, ScriptCalls, ScriptObjects DEF Record, Publishes
    <3>5. /\ Len(stream') = Len(stream) + 1
          /\ \A s \in 1 .. Len(stream) : stream'[s] = stream[s]
          /\ stream'[Len(stream) + 1] = Message(Len(stream) + 1)
      BY <1>0, <2>2, <2>3, <2>4, <3>3, <3>4, AppendProperties DEF Stores, ServerShape
    <3>6. \A s \in 1 .. Len(stream') : s \in 1 .. Len(stream) \/ s = Len(stream) + 1
      BY <1>0, <3>5
    <3>7. QED BY <2>2, <2>3, <3>2, <3>5, <3>6
  <2>5. CASE ~Stores(i)
    <3>1. stream' = stream
      BY <2>1, <2>5 DEF Serves, Refuses, Informs, Delivers, Confirms, jetstream
    <3>2. pc \notin {11, 12, 23}
      <4>1. pc \in Publishes => pc = 21
        BY <2>1, <2>2, <2>5 DEF Serves, Informs, Delivers, Confirms, Publishes, Nexts, Acks
      <4>2. QED BY <4>1 DEF Publishes
    <3>3. Published(pc + 1) = Published(pc)
      BY <1>0, <3>2 DEF Published, Before
    <3>4. QED BY <2>2, <2>3, <3>1, <3>3
  <2>6. Stores(i) => pc # 21
    BY <2>2 DEF Stores, Refuses, Tells, jetstream
  <2>7. QED BY <2>4, <2>5, <2>6
<1>3. QED BY <1>1, <1>2

(* Each resident reads and confirms its messages in turn.                  *)
LEMMA ReadsInTurn ==
  /\ \A n \in 1 .. 38, r \in Resident : Delivered(r, n) \in 0 .. 3 /\ Confirmed(r, n) \in 0 .. 3
  /\ \A n \in (1 .. 37) \ Nexts, r \in Resident : Delivered(r, n + 1) = Delivered(r, n)
  /\ \A n \in (1 .. 37) \ Acks, r \in Resident : Confirmed(r, n + 1) = Confirmed(r, n)
  /\ \A n \in Nexts : /\ Object(n + 1) = Object(n) /\ Object(n) \in Resident
                      /\ \A r \in Resident : Delivered(r, n + 1) =
                           IF r = Object(n) THEN Delivered(r, n) + 1 ELSE Delivered(r, n)
  /\ \A n \in Acks : /\ Object(n) \in Resident
                     /\ Delivered(Object(n), n) = Confirmed(Object(n), n) + 1
                     /\ \A r \in Resident : Confirmed(r, n + 1) =
                          IF r = Object(n) THEN Confirmed(r, n) + 1 ELSE Confirmed(r, n)
<1> USE DEF Delivered, Confirmed, Before, Resident
<1>1. \A n \in 1 .. 38, r \in Resident : Delivered(r, n) \in 0 .. 3 /\ Confirmed(r, n) \in 0 .. 3
  OBVIOUS
<1>2. \A n \in (1 .. 37) \ Nexts, r \in Resident : Delivered(r, n + 1) = Delivered(r, n)
  BY DEF Nexts
<1>3. \A n \in (1 .. 37) \ Acks, r \in Resident : Confirmed(r, n + 1) = Confirmed(r, n)
  BY DEF Acks
<1>4. ASSUME NEW n \in Nexts
      PROVE  /\ Object(n + 1) = Object(n) /\ Object(n) \in Resident
             /\ \A r \in Resident : Delivered(r, n + 1) =
                  IF r = Object(n) THEN Delivered(r, n) + 1 ELSE Delivered(r, n)
  <2>1. CASE n \in {13, 15, 28}
    BY <2>1, ScriptObjects
  <2>2. CASE n \in {17, 19, 24}
    BY <2>2, ScriptObjects
  <2>3. QED BY <2>1, <2>2 DEF Nexts
<1>5. ASSUME NEW n \in Acks
      PROVE  /\ Object(n) \in Resident
             /\ Delivered(Object(n), n) = Confirmed(Object(n), n) + 1
             /\ \A r \in Resident : Confirmed(r, n + 1) =
                  IF r = Object(n) THEN Confirmed(r, n) + 1 ELSE Confirmed(r, n)
  <2>1. CASE n \in {14, 16, 29}
    BY <2>1, ScriptObjects
  <2>2. CASE n \in {18, 20, 25}
    BY <2>2, ScriptObjects
  <2>3. QED BY <2>1, <2>2 DEF Acks
<1>6. QED
  <2> HIDE DEF Delivered, Confirmed
  <2> QED BY <1>1, <1>2, <1>3, <1>4, <1>5

SoundIsKept == server' = "sound" => server = "sound" /\ cursor' = cursor /\ acked' = acked

LEMMA ClientKeepsSound == ASSUME Shape, Step, ~Served PROVE SoundIsKept
<1>0. ServerShape
  BY DEF Shape
<1>1. CASE Loses
  <2>1. PICK links \in SUBSET {l \in Link : link[l] = "open"} : Disconnect(links)
    BY <1>1 DEF Loses
  <2>2. links \in SUBSET Link
    BY <2>1
  <2>3. server' = server
    BY DEF Step, Quits, Connects, Sends, Answers, IsDenied, Closes, Writes, Exit, Kill, Drops, Drop, vars
  <2>4. QED BY <1>0, <2>1, <2>2, <2>3, DisconnectEffect DEF SoundIsKept
<1>2. CASE UNCHANGED <<server, jetstream>>
  BY <1>2 DEF SoundIsKept, jetstream
<1>3. QED
  BY <1>1, <1>2, LossEffect DEF Step, Quits, Connects, Sends, Answers, IsDenied, Writes, Exit, vars

(* What the client has in hand after a step of its own.                    *)
LEMMA ClientHolds ==
  ASSUME Shape, Step, ~Served, ~failed'
  PROVE  /\ reply' # {} => reply' = reply /\ pc' = pc
         /\ pc' \in Nexts \cup Acks => pc' = pc \/ pc \notin Nexts \/ \E r \in reply : got' = r.value
         /\ pc' = pc \/ pc' = pc + 1
         /\ pc' = pc => got' = got
         /\ pc \notin Nexts => got' = got
<1>0. ClientShape /\ WireShape /\ pc \in 1 .. 37
  BY DEF Shape, ClientShape
<1>1. CASE Quits
  BY <1>1 DEF Quits
<1>2. CASE Connects \/ Closes \/ Writes
  <2>1. pc' = pc + 1 /\ reply' = {} /\ UNCHANGED got /\ pc \notin Nexts
    BY <1>0, <1>2 DEF Connects, Closes, Writes, WireShape, client, Nexts
  <2>2. QED BY <1>0, <2>1
<1>3. CASE Sends \/ Exit \/ Kill \/ Drops \/ UNCHANGED vars
  BY <1>3 DEF Sends, Exit, Kill, Drops, Drop, vars, client
<1>4. CASE Answers
  <2>1. PICK r \in reply : got' = IF pc \in Nexts THEN r.value ELSE got
    BY <1>4 DEF Answers
  <2>2. pc' = pc + 1 /\ reply' = {}
    BY <1>4 DEF Answers
  <2>3. QED BY <1>0, <2>1, <2>2
<1>5. CASE IsDenied
  <2>1. pc' = pc + 1 /\ reply' = {} /\ UNCHANGED got /\ pc \notin Nexts
    BY <1>5 DEF IsDenied, Nexts
  <2>2. QED BY <1>0, <2>1
<1>6. QED BY <1>1, <1>2, <1>3, <1>4, <1>5 DEF Step

LEMMA SoundOnTrackStep == ASSUME Shape, SoundOnTrack, Step PROVE SoundOnTrack'
<1> SUFFICES ASSUME OnTrack', server' = "sound"
             PROVE  /\ \A r \in Resident : /\ cursor'[r] = Delivered(r, At)'
                                           /\ acked'[r] = 1 .. Confirmed(r, At)'
                    /\ pc' \in Nexts => \A x \in reply' : x.value = cursor'[Object(pc')]
                    /\ pc' \in Acks => got' = cursor'[Object(pc')]
  BY DEF SoundOnTrack
<1>0. /\ ServerShape /\ WireShape /\ ClientShape /\ pc \in 1 .. 37 /\ ~failed'
      /\ Nexts \subseteq CallSteps /\ Acks \subseteq CallSteps
  BY DEF Shape, ClientShape, OnTrack, Nexts, Acks, CallSteps
<1>1. CASE ~Served
  <2>1. /\ OnTrack /\ server = "sound" /\ cursor' = cursor /\ acked' = acked
        /\ At' = At \/ (At = pc /\ At' = pc + 1 /\ pc \in (1 .. 36) \ CallSteps)
    BY <1>1, ClientOnTrack, ClientKeepsSound DEF SoundIsKept
  <2>2. \A r \in Resident : cursor'[r] = Delivered(r, At') /\ acked'[r] = 1 .. Confirmed(r, At')
    <3>1. \A r \in Resident : cursor'[r] = Delivered(r, At) /\ acked'[r] = 1 .. Confirmed(r, At)
      BY <2>1 DEF SoundOnTrack
    <3>2. CASE At' = At
      BY <3>1, <3>2
    <3>3. CASE At = pc /\ At' = pc + 1 /\ pc \in (1 .. 36) \ CallSteps
      <4>1. pc \in (1 .. 37) \ Nexts /\ pc \in (1 .. 37) \ Acks
        BY <1>0, <3>3
      <4>2. \A r \in Resident : /\ Delivered(r, pc + 1) = Delivered(r, pc)
                               /\ Confirmed(r, pc + 1) = Confirmed(r, pc)
        BY <4>1, ReadsInTurn
      <4>3. QED BY <3>1, <3>3, <4>2
    <3>4. QED BY <2>1, <3>2, <3>3
  <2>3. pc' \in Nexts => \A x \in reply' : x.value = cursor'[Object(pc')]
    BY <1>0, <1>1, <2>1, ClientHolds DEF SoundOnTrack
  <2>4. ASSUME pc' \in Acks PROVE got' = cursor'[Object(pc')]
    <3>1. CASE pc' = pc
      BY <1>0, <1>1, <2>1, <2>4, <3>1, ClientHolds DEF SoundOnTrack
    <3>2. CASE pc' = pc + 1
      <4>1. pc \in Nexts /\ Object(pc') = Object(pc)
        BY <1>0, <2>4, <3>2, ReadsInTurn DEF Nexts, Acks
      <4>2. PICK r \in reply : got' = r.value
        BY <1>0, <1>1, <2>4, <3>2, <4>1, ClientHolds
      <4>3. QED BY <2>1, <4>1, <4>2 DEF SoundOnTrack
    <3>3. QED BY <1>0, <1>1, <3>1, <3>2, ClientHolds
  <2>5. \A r \in Resident : /\ Delivered(r, At)' = Delivered(r, At')
                            /\ Confirmed(r, At)' = Confirmed(r, At')
    BY DEF Delivered, Confirmed, Before
  <2>6. QED BY <2>2, <2>3, <2>4, <2>5
<1>2. CASE Served
  <2>1. PICK i \in wire : Serves(i)
    BY <1>2 DEF Served
  <2>2. /\ OnTrack /\ At = pc /\ At' = pc + 1 /\ i = pc /\ pc \in CallSteps /\ Waits(i)
        /\ server = "sound" /\ UNCHANGED <<pc, got>>
    BY <2>1, ServedOnTrack DEF Serves, client
  <2>3. /\ \A r \in Resident : cursor[r] = Delivered(r, pc) /\ acked[r] = 1 .. Confirmed(r, pc)
        /\ pc \in Acks => got = cursor[Object(pc)]
    BY <2>2 DEF SoundOnTrack
  <2>4. \A r \in Resident : cursor'[r] = Delivered(r, pc + 1)
    <3>1. CASE Delivers(i)
      <4>1. pc \in Nexts /\ Object(pc) \in Resident
        BY <2>2, <3>1, ReadsInTurn DEF Delivers
      <4>2. \A r \in Resident : cursor'[r] = IF r = Object(pc) THEN cursor[r] + 1 ELSE cursor[r]
        BY <1>0, <2>2, <3>1, <4>1 DEF Delivers, ServerShape
      <4>3. \A r \in Resident : Delivered(r, pc + 1) =
                IF r = Object(pc) THEN Delivered(r, pc) + 1 ELSE Delivered(r, pc)
        BY <4>1, ReadsInTurn
      <4>4. QED BY <2>3, <4>2, <4>3
    <3>2. CASE ~Delivers(i)
      <4>1. cursor' = cursor
        BY <2>1, <3>2 DEF Serves, Refuses, Informs, Stores, Confirms, jetstream
      <4>2. pc \notin Nexts
        <5>1. Refuses(i) <=> pc = 21
          BY <2>1, <2>2, ServedOnTrack
        <5>2. Informs(i) \/ Stores(i) \/ Confirms(i) \/ pc = 21
          BY <2>1, <3>2, <5>1 DEF Serves
        <5>3. Nexts \cap (Publishes \cup Acks \cup {21}) = {}
          BY DEF Publishes, Nexts, Acks
        <5>4. QED BY <2>2, <5>2, <5>3 DEF Informs, Stores, Confirms
      <4>3. QED BY <1>0, <2>3, <4>1, <4>2, ReadsInTurn
    <3>3. QED BY <3>1, <3>2
  <2>5. \A r \in Resident : acked'[r] = 1 .. Confirmed(r, pc + 1)
    <3>1. CASE Confirms(i)
      <4>1. pc \in Acks /\ Object(pc) \in Resident
        BY <2>2, <3>1, ReadsInTurn DEF Confirms
      <4>2. \A r \in Resident : acked'[r] = IF r = Object(pc) THEN acked[r] \cup {got} ELSE acked[r]
        BY <1>0, <2>2, <3>1, <4>1 DEF Confirms, ServerShape
      <4>3. got = Confirmed(Object(pc), pc) + 1
        BY <2>3, <4>1, ReadsInTurn
      <4>4. \A k \in Nat : (1 .. k) \cup {k + 1} = 1 .. (k + 1)
        OBVIOUS
      <4>5. \A r \in Resident : Confirmed(r, pc) \in Nat
        BY <1>0, ReadsInTurn
      <4>6. \A r \in Resident : Confirmed(r, pc + 1) =
                IF r = Object(pc) THEN Confirmed(r, pc) + 1 ELSE Confirmed(r, pc)
        BY <4>1, ReadsInTurn
      <4>7. QED BY <2>3, <4>2, <4>3, <4>4, <4>5, <4>6
    <3>2. CASE ~Confirms(i)
      <4>1. acked' = acked
        BY <2>1, <3>2 DEF Serves, Refuses, Informs, Stores, Delivers, jetstream
      <4>2. pc = 21 \/ pc \in Publishes \/ pc \in Nexts \/ pc \notin Acks
        BY <2>1, <2>2, <3>2, ServedOnTrack DEF Serves, Informs, Stores, Delivers
      <4>3. pc \notin Acks
        BY <4>2 DEF Publishes, Nexts, Acks
      <4>4. QED BY <1>0, <2>3, <4>1, <4>3, ReadsInTurn
    <3>3. QED BY <3>1, <3>2
  <2>6. ASSUME pc' \in Nexts PROVE \A x \in reply' : x.value = cursor'[Object(pc')]
    <3>1. Delivers(i)
      BY <2>1, <2>2, <2>6, ServedOnTrack DEF Serves, Informs, Stores, Confirms, Publishes, Nexts, Acks
    <3>2. Object(pc) \in Resident
      BY <2>2, <2>6, ReadsInTurn
    <3>3. reply' = {[error |-> "none", value |-> cursor[Object(pc)] + 1]}
      BY <2>2, <3>1 DEF Delivers, Tells
    <3>4. cursor'[Object(pc)] = cursor[Object(pc)] + 1
      BY <1>0, <2>2, <3>1, <3>2 DEF Delivers, ServerShape
    <3>5. QED BY <2>2, <3>3, <3>4
  <2>7. ASSUME pc' \in Acks PROVE got' = cursor'[Object(pc')]
    <3>1. cursor' = cursor
      BY <2>1, <2>2, <2>7 DEF Serves, Refuses, Informs, Stores, Delivers, Confirms, jetstream, Nexts, Acks
    <3>2. QED BY <2>2, <2>3, <2>7, <3>1
  <2>8. QED BY <2>2, <2>4, <2>5, <2>6, <2>7
<1>3. QED BY <1>1, <1>2

(* What becomes of the server, and of an answer, in a step of the client.  *)
LEMMA ServerStays == Step => server' = server
BY DEF Step, Quits, Connects, Sends, Answers, IsDenied, Closes, Writes, Exit, Kill, Served, Serves,
       Drops, Drop, vars

LEMMA AnswerStays ==
  ASSUME Shape, Step, ~Served
  PROVE  reply' = {} \/ (reply' = reply /\ pc' = pc)
<1>1. reply = {} \/ waiting
  BY DEF Shape, WireShape
<1>2. QED
  BY <1>1 DEF Step, Quits, Connects, Sends, Answers, IsDenied, Closes, Writes, Exit, Kill, Drops, Drop,
              vars, client

(* Losing its first connection costs resident a its place.                 *)
LEMMA PlaceIsLost ==
  ASSUME Shape, Loses, server \in {"forgetful", "ephemeral"}, link'["a"] = "closed",
         link["a"] = "closed" => cursor["a"] = 0
  PROVE  cursor'["a"] = 0
<1>1. PICK links \in SUBSET {l \in Link : link[l] = "open"} : Disconnect(links)
  BY DEF Loses
<1>2. links \in SUBSET Link /\ ServerShape /\ "a" \in Link
  BY <1>1 DEF Shape, Link, Resident
<1>3. "a" \in links \/ link["a"] = "closed"
  BY <1>1, <1>2, DisconnectEffect
<1>4. QED BY <1>1, <1>2, <1>3, DisconnectEffect

LEMMA ForgetfulClientStep ==
  ASSUME Shape, ForgetfulOnTrack, Step, ~Served, OnTrack', server \in {"forgetful", "ephemeral"}
  PROVE  /\ pc' > 22 => link'["a"] = "closed"
         /\ link'["a"] = "closed" /\ At' <= 28 => cursor'["a"] = 0
         /\ pc' = 28 => \A x \in reply' : x.value = 1
         /\ pc' = 29 => got' = 1
         /\ pc' > 29 => results'[29] = 1
<1>0. /\ ClientShape /\ WireShape /\ LinkShape /\ ServerShape /\ InHand
      /\ pc \in 1 .. 37 /\ ~failed' /\ CallSteps \subseteq 2 .. 31 /\ "a" \in Link
  BY CallRange DEF Shape, ClientShape, OnTrack, Link, Resident
<1>1. /\ OnTrack
      /\ At' = At \/ (At = pc /\ At' = pc + 1 /\ pc \in (1 .. 36) \ CallSteps)
  BY ClientOnTrack
<1>2. /\ pc > 22 => link["a"] = "closed"
      /\ link["a"] = "closed" /\ At <= 28 => cursor["a"] = 0
      /\ pc = 28 => \A x \in reply : x.value = 1
      /\ pc = 29 => got = 1
      /\ pc > 29 => results[29] = 1
  BY <1>1 DEF ForgetfulOnTrack
<1>3. At' <= 28 => At <= 28
  BY <1>0, <1>1
<1>4. CASE Quits
  BY <1>0, <1>4 DEF Quits
<1>5. CASE Connects
  <2>1. /\ pc \in {1, 7, 8, 26} /\ pc' = pc + 1 /\ UNCHANGED <<cursor, got, results>>
        /\ link' = [link EXCEPT ![LinkOf(pc)] = "open"]
    BY <1>5 DEF Connects, client, jetstream
  <2>2. LinkOf(26) = "resumed"
    BY DEF LinkOf, Script
  <2>3. link'["a"] = "closed" => link["a"] = "closed"
    BY <1>0, <2>1 DEF LinkShape
  <2>4. pc' > 22 => link'["a"] = link["a"] /\ pc > 22
    BY <1>0, <2>1, <2>2 DEF LinkShape
  <2>5. QED BY <1>2, <1>3, <2>1, <2>3, <2>4
<1>6. CASE Answers
  <2>1. PICK r \in reply : /\ got' = IF pc \in Nexts THEN r.value ELSE got
                           /\ \E v \in {r.value, got, 0} : results' = [results EXCEPT ![pc] = v]
                           /\ pc = 29 => results' = [results EXCEPT ![pc] = got]
    BY <1>6 DEF Answers
  <2>2. /\ pc \in CallSteps /\ pc # 22 /\ pc' = pc + 1 /\ reply' = {} /\ UNCHANGED <<link, cursor>>
        /\ 29 \in Steps /\ pc \in Steps
    BY <1>0, <1>6, CallRange, ScriptVerbs DEF Answers, jetstream
  <2>3. pc' = 29 => got' = 1
    BY <1>0, <1>2, <2>1, <2>2 DEF Nexts
  <2>4. pc' > 29 => results'[29] = 1
    <3>1. CASE pc = 29
      BY <1>0, <1>2, <2>1, <2>2, <3>1 DEF InHand
    <3>2. CASE pc > 29
      BY <1>0, <1>2, <2>1, <2>2, <3>2 DEF InHand
    <3>3. QED BY <1>0, <2>2, <3>1, <3>2
  <2>5. QED BY <1>0, <1>2, <1>3, <2>2, <2>3, <2>4
<1>7. CASE IsDenied
  BY <1>2, <1>3, <1>7 DEF IsDenied, jetstream
<1>8. CASE Closes
  <2>1. /\ pc \in {6, 22} \cup (33 .. 36) /\ pc' = pc + 1 /\ UNCHANGED <<got, results>>
        /\ Disconnect({LinkOf(pc)} \cap {l \in Link : link[l] = "open"})
    BY <1>8 DEF Closes, client
  <2>2. link'["a"] = "closed" /\ At' <= 28 => cursor'["a"] = 0
    BY <1>2, <1>3, <1>8, PlaceIsLost, LossEffect
  <2>3. pc' > 22 => link'["a"] = "closed"
    <3>1. CASE pc = 22
      <4>1. Opens("a") = 7 /\ ~failed
        BY <1>1 DEF Opens, OnTrack
      <4>2. link["a"] \in {"open", "closed"}
        BY <1>0, <3>1, <4>1 DEF LinkShape
      <4>3. LinkOf(pc) = "a"
        BY <3>1, ScriptObjects
      <4>4. link' = [l \in Link |-> IF l \in {"a"} \cap {k \in Link : link[k] = "open"}
                                    THEN "closed" ELSE link[l]]
        BY <2>1, <4>3 DEF Disconnect
      <4>5. QED BY <1>0, <4>2, <4>4
    <3>2. CASE pc # 22
      <4>1. pc' > 22 => pc > 22
        BY <2>1, <3>2
      <4>2. QED BY <1>0, <1>2, <1>8, <4>1, LossEffect, LossOnLinks
    <3>3. QED BY <3>1, <3>2
  <2>4. QED BY <1>2, <2>1, <2>2, <2>3
<1>9. CASE Writes
  BY <1>2, <1>3, <1>9 DEF Writes, jetstream
<1>10. CASE Kill \/ Drops
  <2>1. UNCHANGED <<pc, reply, got, results>>
    BY <1>10 DEF Kill, Drops, Drop, client
  <2>2. link'["a"] = "closed" /\ At' <= 28 => cursor'["a"] = 0
    BY <1>2, <1>3, <1>10, PlaceIsLost, LossEffect
  <2>3. pc' > 22 => link'["a"] = "closed"
    BY <1>0, <1>2, <1>10, <2>1, LossEffect, LossOnLinks
  <2>4. QED BY <1>2, <2>1, <2>2, <2>3
<1>11. CASE Sends \/ Exit \/ UNCHANGED vars
  <2>1. UNCHANGED <<pc, link, cursor, got, results>> /\ (reply' = {} \/ reply' = reply)
    BY <1>11 DEF Sends, Exit, vars, client, jetstream
  <2>2. QED BY <1>2, <1>3, <2>1
<1>12. QED
  BY <1>4, <1>5, <1>6, <1>7, <1>8, <1>9, <1>10, <1>11 DEF Step

LEMMA ForgetfulOnTrackStep == ASSUME Shape, ForgetfulOnTrack, Step PROVE ForgetfulOnTrack'
<1> SUFFICES ASSUME OnTrack', server' \in {"forgetful", "ephemeral"}
             PROVE  /\ pc' > 22 => link'["a"] = "closed"
                    /\ link'["a"] = "closed" /\ At' <= 28 => cursor'["a"] = 0
                    /\ pc' = 28 => \A x \in reply' : x.value = 1
                    /\ pc' = 29 => got' = 1
                    /\ pc' > 29 => results'[29] = 1
  BY DEF ForgetfulOnTrack
<1>1. server \in {"forgetful", "ephemeral"}
  BY ServerStays
<1>2. CASE ~Served
  BY <1>1, <1>2, ForgetfulClientStep
<1>3. CASE Served
  <2>1. PICK i \in wire : Serves(i)
    BY <1>3 DEF Served
  <2>2. /\ OnTrack /\ At = pc /\ At' = pc + 1 /\ i = pc /\ pc \in CallSteps /\ Waits(i)
        /\ UNCHANGED <<pc, link, got, results>> /\ (Refuses(i) <=> pc = 21)
    BY <2>1, ServedOnTrack DEF Serves, client
  <2>3. /\ pc > 22 => link["a"] = "closed"
        /\ link["a"] = "closed" /\ pc <= 28 => cursor["a"] = 0
        /\ pc = 29 => got = 1
        /\ pc > 29 => results[29] = 1
    BY <1>1, <2>2 DEF ForgetfulOnTrack
  <2>4. pc \in 2 .. 31
    BY <2>2, CallRange
  <2>5. ASSUME link["a"] = "closed", pc + 1 <= 28 PROVE cursor'["a"] = 0
    <3>1. cursor["a"] = 0
      BY <2>3, <2>4, <2>5
    <3>2. CASE Delivers(i)
      <4>1. pc \in {13, 15, 17, 19, 24}
        BY <2>2, <2>4, <2>5, <3>2 DEF Delivers, Nexts
      <4>2. LinkOf(13) = "a" /\ LinkOf(15) = "a"
        BY DEF LinkOf, Script
      <4>3. pc \in {17, 19, 24}
        BY <2>2, <2>5, <4>1, <4>2 DEF Waits
      <4>4. Object(pc) = "b"
        BY <4>3, ScriptObjects
      <4>5. QED BY <2>2, <3>1, <3>2, <4>4 DEF Delivers, Shape, ServerShape, Resident
    <3>3. CASE ~Delivers(i)
      BY <2>1, <3>1, <3>3 DEF Serves, Refuses, Informs, Stores, Confirms, jetstream
    <3>4. QED BY <3>2, <3>3
  <2>6. ASSUME pc = 28 PROVE \A x \in reply' : x.value = 1
    <3>1. Delivers(i)
      BY <2>1, <2>2, <2>6 DEF Serves, Informs, Stores, Confirms, Publishes, Nexts, Acks
    <3>2. cursor["a"] = 0 /\ Object(28) = "a"
      BY <2>3, <2>6, ScriptObjects
    <3>3. reply' = {[error |-> "none", value |-> cursor["a"] + 1]}
      BY <2>2, <2>6, <3>1, <3>2 DEF Delivers, Tells
    <3>4. QED BY <3>2, <3>3
  <2>7. QED BY <2>2, <2>3, <2>5, <2>6
<1>4. QED BY <1>2, <1>3

LEMMA OpenDeniesNothingStep == ASSUME Shape, OpenDeniesNothing, Step PROVE OpenDeniesNothing'
<1> SUFFICES ASSUME server' = "open"
             PROVE  ~explicit' /\ (pc' = 21 => \A r \in reply' : r.error # "permission")
  BY DEF OpenDeniesNothing
<1>1. server = "open" /\ ~explicit /\ (pc = 21 => \A r \in reply : r.error # "permission")
  BY ServerStays DEF OpenDeniesNothing
<1>2. ~explicit'
  BY <1>1 DEF Step, Quits, Connects, Sends, Answers, IsDenied, Closes, Writes, Exit, Kill, Served, Serves,
              Drops, Drop, vars, client
<1>3. ASSUME pc' = 21 PROVE \A r \in reply' : r.error # "permission"
  <2>1. CASE ~Served
    BY <1>1, <1>3, <2>1, AnswerStays
  <2>2. CASE Served
    <3>1. PICK i \in wire : Serves(i)
      BY <2>2 DEF Served
    <3>2. pc = 21
      BY <1>3, <3>1 DEF Serves
    <3>3. CASE Waits(i)
      <4>1. i = 21 /\ Permitted(i)
        BY <1>1, <3>2, <3>3, OpenServes21 DEF Waits
      <4>2. \E e \in {"not-found", "none"} : \E v : reply' = {[error |-> e, value |-> v]}
        BY <3>1, <3>3, <4>1 DEF Serves, Refuses, Informs, Stores, Delivers, Confirms, Tells
      <4>3. QED BY <4>2
    <3>4. CASE ~Waits(i)
      <4>1. reply' = reply
        BY <3>1, <3>4 DEF Serves, Refuses, Informs, Stores, Delivers, Confirms, Tells
      <4>2. QED BY <1>1, <3>2, <4>1
    <3>5. QED BY <3>3, <3>4
  <2>3. QED BY <2>1, <2>2
<1>4. QED BY <1>2, <1>3

LEMMA PassedStep == ASSUME Shape, Passed, Step PROVE Passed'
<1>0. /\ ClientShape /\ pc \in 1 .. 37 /\ CallSteps \subseteq 2 .. 31
      /\ ~failed /\ pc > 32 => file = "pass" /\ explicit /\ results[29] = 3
      /\ exit = "0" => ~failed /\ pc = 37
  BY CallRange DEF Shape, ClientShape, Passed
<1>1. CASE Quits
  BY <1>1 DEF Quits, Passed
<1>2. CASE Connects \/ Sends \/ Answers \/ IsDenied
  <2>1. pc' \in 1 .. 32 /\ exit' = "running"
    BY <1>0, <1>2 DEF Connects, Sends, Answers, IsDenied
  <2>2. QED BY <2>1 DEF Passed
<1>3. CASE Closes
  <2>1. /\ pc' > 32 => pc > 32
        /\ exit' = "running" /\ UNCHANGED <<file, explicit, results, failed>>
    BY <1>3 DEF Closes, client
  <2>2. QED BY <1>0, <2>1 DEF Passed
<1>4. CASE Writes
  BY <1>4 DEF Writes, Passed
<1>5. CASE Exit
  BY <1>0, <1>5, ScriptVerbs DEF Exit, Passed, client
<1>6. CASE Kill
  <2>1. pc > 32 => ~(pc \in Steps /\ Verb(pc) = "write")
    BY <1>0, ScriptVerbs
  <2>2. /\ file' \in {file} \cup (IF pc \in Steps /\ Verb(pc) = "write" THEN {"torn"} ELSE {})
        /\ exit' = "killed" /\ UNCHANGED <<pc, explicit, results, failed>>
    BY <1>6 DEF Kill
  <2>3. pc > 32 => file' = file
    BY <2>1, <2>2
  <2>4. QED BY <1>0, <2>2, <2>3 DEF Passed
<1>7. CASE Served \/ Drops \/ UNCHANGED vars
  <2>1. UNCHANGED <<pc, failed, file, explicit, results, exit>>
    BY <1>7 DEF Served, Serves, Drops, Drop, vars, client
  <2>2. QED BY <1>0, <2>1 DEF Passed
<1>8. QED BY <1>1, <1>2, <1>3, <1>4, <1>5, <1>6, <1>7 DEF Step

LEMMA TrackInit == Init => Track
<1> SUFFICES ASSUME Init PROVE Track
  OBVIOUS
<1>1. /\ pc = 1 /\ At = 1 /\ reply = {} /\ ~failed /\ ~explicit /\ exit = "running"
      /\ link["a"] = "none" /\ stream = <<>> /\ Len(stream) = 0
  BY EmptySeq DEF Init, At, Link, Resident
<1>2. /\ Published(1) = 0
      /\ \A r \in Resident : cursor[r] = Delivered(r, 1) /\ acked[r] = 1 .. Confirmed(r, 1)
  BY DEF Init, Published, Delivered, Confirmed, Before
<1>3. StreamOnTrack
  BY <1>1, <1>2 DEF StreamOnTrack
<1>4. SoundOnTrack
  BY <1>1, <1>2 DEF SoundOnTrack, Nexts, Acks
<1>5. ForgetfulOnTrack /\ OpenDeniesNothing /\ Passed
  BY <1>1 DEF ForgetfulOnTrack, OpenDeniesNothing, Passed
<1>6. QED BY <1>3, <1>4, <1>5 DEF Track

LEMMA InvStep == Inv /\ [Next]_vars => Inv'
<1> SUFFICES ASSUME Inv, [Next]_vars PROVE Inv'
  OBVIOUS
<1>1. Shape /\ Track /\ Step /\ Shape'
  BY NextIsStep, ShapeStep DEF Inv
<1>2. Track'
  BY <1>1, StreamOnTrackStep, SoundOnTrackStep, ForgetfulOnTrackStep, OpenDeniesNothingStep, PassedStep
     DEF Track
<1>3. QED BY <1>1, <1>2 DEF Inv

LEMMA Invariance == Spec => []Inv
<1>1. Init => Inv
  BY ShapeInit, TrackInit DEF Inv
<1>2. QED BY <1>1, InvStep, PTL DEF Spec
-----------------------------------------------------------------------------
(* A client that exits with 0 was on track to the end.                     *)
LEMMA PassedOnTrack ==
  ASSUME Inv, exit = "0"
  PROVE  /\ OnTrack /\ At = 37 /\ explicit /\ ~waiting
         /\ pc = 37 /\ file = "pass" /\ results[29] = 3
<1>1. /\ ClientShape /\ WireShape /\ pc = 37 /\ ~failed
      /\ file = "pass" /\ explicit /\ results[29] = 3
  BY DEF Inv, Shape, Track, Passed
<1>2. ~waiting /\ reply = {}
  BY <1>1, CallRange DEF ClientShape, WireShape
<1>3. \A l \in Link : ~(37 <= LastCall(l))
  BY ScriptLinks
<1>4. QED BY <1>1, <1>2, <1>3 DEF OnTrack, At

(* Exit code 0 of wss-client.mjs means what the runner takes it to mean:   *)
(* no server with a defect gets there.  One without permissions never      *)
(* denied the forbidden publish; to one that forgets, the resumed resident *)
(* reads its first message again, which is not the sequence proof.pass     *)
(* demands of it, whenever and however the first connection was lost.      *)
THEOREM DefectsNeverPass == Spec => []DefectNeverPasses
<1>1. Inv => DefectNeverPasses
  <2> SUFFICES ASSUME Inv, exit = "0" PROVE server = "sound"
    BY DEF DefectNeverPasses
  <2>1. OnTrack /\ explicit /\ pc = 37 /\ results[29] = 3
    BY PassedOnTrack
  <2>2. server # "open"
    BY <2>1 DEF Inv, Track, OpenDeniesNothing
  <2>3. server \notin {"forgetful", "ephemeral"}
    BY <2>1 DEF Inv, Track, ForgetfulOnTrack
  <2>4. QED BY <2>2, <2>3 DEF Inv, Shape, ClientShape
<1>2. QED BY <1>1, Invariance, PTL

(* And the commons is what the proof says: every request was served once   *)
(* and none is left on its way, so that nothing can change any more        *)
(* (proof.pass, and main's order of calls, in wss-client.mjs).             *)
THEOREM PassesAreCommons == Spec => []PassIsCommons
<1>1. Inv => PassIsCommons
  <2> SUFFICES ASSUME Inv, exit = "0" PROVE PassIsCommons
    BY DEF PassIsCommons
  <2> DEFINE commons == [s \in 1 .. 3 |-> LET r == IF s = 1 THEN "a" ELSE "b"
                                          IN [subject |-> r, sender |-> r]]
  <2>1. OnTrack /\ At = 37 /\ explicit /\ ~waiting /\ file = "pass"
    BY PassedOnTrack
  <2>2. Shape /\ StreamOnTrack /\ SoundOnTrack /\ server = "sound"
    <3>1. server = "sound"
      BY <2>1, PassedOnTrack DEF Inv, Shape, ClientShape, Track, OpenDeniesNothing, ForgetfulOnTrack
    <3>2. QED BY <3>1 DEF Inv, Track
  <2>3. wire = {}
    <3>1. \A i \in wire : i = 21
      BY <2>1, <2>2 DEF Shape, WireShape, OnTrack
    <3>2. QED BY <2>1, <2>2, <3>1 DEF Shape, ClientShape
  <2>4. stream = commons
    <3>1. Published(37) = 3
      BY DEF Published, Before
    <3>2. Len(stream) = 3 /\ \A s \in 1 .. 3 : stream[s] = Message(s)
      BY <2>1, <2>2, <3>1 DEF StreamOnTrack
    <3>3. stream = [s \in 1 .. 3 |-> stream[s]]
      BY <2>2, <3>2, LenProperties DEF Shape, ServerShape
    <3>4. \A s \in 1 .. 3 : stream[s] = commons[s]
      BY <3>2 DEF Message
    <3>5. commons = [s \in 1 .. 3 |-> commons[s]]
      OBVIOUS
    <3> HIDE DEF commons
    <3>6. QED BY <3>3, <3>4, <3>5
  <2>5. \A r \in Resident : acked[r] = 1 .. 3
    <3>1. \A r \in Resident : Confirmed(r, 37) = 3
      BY DEF Confirmed, Before
    <3>2. QED BY <2>1, <2>2, <3>1 DEF SoundOnTrack
  <2>6. QED BY <2>1, <2>3, <2>4, <2>5 DEF PassIsCommons
<1>2. QED BY <1>1, Invariance, PTL
=============================================================================
