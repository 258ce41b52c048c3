---------------------------- MODULE NetworkCommons ----------------------------
(***************************************************************************)
(* The commons over the network: network-canary/scripts/wss-client.mjs     *)
(* drives a JetStream stream and two durable consumers through four WSS    *)
(* connections, one call after another, and writes what it saw.            *)
(*                                                                         *)
(* A call is a request, which the server serves when it gets to it, and an *)
(* answer or a deadline.  The client gives up a call whose answer is late  *)
(* or lost; the request may be served all the same, then or much later.    *)
(* Connections may break.  A client that misses the confirmation of an     *)
(* acknowledgement ends, so that nothing is ever delivered twice to it.    *)
(*                                                                         *)
(* JetStream is not in the repository: it is modelled by what the client   *)
(* relies on.  Besides a sound server there are those the client is there  *)
(* to find out: one that does not enforce the senders' permissions, and    *)
(* two whose durable consumers are not durable.                            *)
(***************************************************************************)
EXTENDS Naturals, Sequences, FiniteSets

VARIABLES
  server,   \* "sound"; "open": no sender permissions; "forgetful", "ephemeral":
            \* a consumer loses its place, is gone, with its connection.  Fixed
  faults,   \* whether calls may go wrong at all; fixed
  pc,       \* the step of Script under way
  waiting,  \* has its request been sent
  link,     \* [Link -> {"none", "open", "closed"}]
  wire,     \* the steps whose requests the server has not served
  reply,    \* the answer to the request the client waits for
  exists,   \* the stream and the durable consumers that were created
  stream,   \* Seq of [id, subject, sender]
  cursor,   \* [Resident -> Nat]: how far its consumer has delivered
  acked,    \* [Resident -> set of sequences acknowledged]
  got,      \* the sequence of the message the client has in hand
  results,  \* [step -> the sequence it saw; 0 for none]
  explicit, \* senderAclExplicit
  failed,   \* has main thrown
  file,     \* client-result.json: "absent", "torn", "pass", "fail"
  exit      \* the process: "running", "0", "1", "killed"

jetstream == <<exists, stream, cursor, acked>>
client == <<got, results, explicit, failed, file>>
vars == <<server, faults, pc, waiting, link, wire, reply, jetstream, client, exit>>

Resident == {"a", "b"}
Link == Resident \cup {"bootstrap", "resumed"}
KindOf(l) == IF l = "resumed" THEN "a" ELSE l

(* Mutant: a resident may publish on either subject.                       *)
userPermissions_Shared(kind) ==
  CASE kind \in Resident ->
         ({"account-info", "stream-info"} \X {"commons"})
           \cup ({"consumer-info", "next", "ack"} \X {kind}) \cup ({"publish"} \X Resident)
    [] kind = "bootstrap" ->
         ({"account-info", "create", "stream-info"} \X {"commons"})
           \cup ({"create", "consumer-info"} \X Resident)
    [] OTHER -> {}

(* What the credentials of a kind allow, as <<verb, object>>.              *)
userPermissions(kind) ==
  CASE kind \in Resident ->
         ({"account-info", "stream-info"} \X {"commons"})
           \cup ({"publish", "consumer-info", "next", "ack"} \X {kind})
    [] kind = "bootstrap" ->
         ({"account-info", "create", "stream-info"} \X {"commons"})
           \cup ({"create", "consumer-info"} \X Resident)
    [] OTHER -> {}

(* main, call after call: the verb, the connection, the object, and the    *)
(* sequence that proof.pass demands of it (0 for none).                    *)
Script == <<
  <<"connect", "bootstrap", "commons", 0>>, <<"account-info", "bootstrap", "commons", 0>>,
  <<"create", "bootstrap", "commons", 0>>,
  <<"create", "bootstrap", "a", 0>>, <<"create", "bootstrap", "b", 0>>,
  <<"close", "bootstrap", "commons", 0>>,
  <<"connect", "a", "commons", 0>>, <<"connect", "b", "commons", 0>>,
  <<"consumer-info", "a", "a", 0>>, <<"consumer-info", "b", "b", 0>>,
  <<"publish", "a", "a", 1>>, <<"publish", "b", "b", 2>>,
  <<"next", "a", "a", 0>>, <<"ack", "a", "a", 1>>, <<"next", "a", "a", 0>>, <<"ack", "a", "a", 2>>,
  <<"next", "b", "b", 0>>, <<"ack", "b", "b", 1>>, <<"next", "b", "b", 0>>, <<"ack", "b", "b", 2>>,
  <<"publish", "a", "b", 0>>,
  <<"close", "a", "commons", 0>>,
  <<"publish", "b", "b", 3>>, <<"next", "b", "b", 0>>, <<"ack", "b", "b", 3>>,
  <<"connect", "resumed", "commons", 0>>, <<"consumer-info", "resumed", "a", 0>>,
  <<"next", "resumed", "a", 0>>, <<"ack", "resumed", "a", 3>>,
  <<"account-info", "resumed", "commons", 0>>, <<"stream-info", "resumed", "commons", 3>>,
  <<"write", "resumed", "commons", 0>>,
  <<"close", "bootstrap", "finally", 0>>, <<"close", "a", "finally", 0>>,
  <<"close", "b", "finally", 0>>, <<"close", "resumed", "finally", 0>>>>

Steps == DOMAIN Script
Verb(i) == Script[i][1]
LinkOf(i) == Script[i][2]
Object(i) == Script[i][3]
End == Len(Script) + 1
Finally == CHOOSE i \in Steps : Object(i) = "finally" /\ Object(i - 1) # "finally"
Calls == {"account-info", "create", "consumer-info", "publish", "next", "ack", "stream-info"}
Forbidden == CHOOSE i \in Steps : Verb(i) = "publish" /\ Object(i) # LinkOf(i)

Init ==
  /\ server \in {"sound", "open", "forgetful", "ephemeral"} /\ faults \in BOOLEAN
  /\ pc = 1 /\ waiting = FALSE /\ wire = {} /\ reply = {}
  /\ link = [l \in Link |-> "none"]
  /\ exists = {} /\ stream = <<>>
  /\ cursor = [r \in Resident |-> 0]
  /\ acked = [r \in Resident |-> {}]
  /\ got = 0 /\ results = [i \in Steps |-> 0] /\ explicit = FALSE /\ failed = FALSE
  /\ file = "absent" /\ exit = "running"
-----------------------------------------------------------------------------
(* The client.  A step done; a step that throws: main's finally is next,   *)
(* and a close that throws there skips the closes that follow it.          *)
Running == exit = "running" /\ pc \in Steps
Proceed == pc' = pc + 1 /\ UNCHANGED <<explicit, failed>>

(* Mutant: an error is noted, and main goes on.                            *)
Throw_GoesOn == pc' = pc + 1 /\ failed' = TRUE /\ UNCHANGED explicit

Throw == pc' = (IF pc < Finally THEN Finally ELSE End) /\ failed' = TRUE /\ UNCHANGED explicit

(* The links go, and in a server with such a defect their consumers.       *)
Disconnect(links) ==
  LET lost == IF server \in {"forgetful", "ephemeral"} THEN {KindOf(l) : l \in links} ELSE {} IN
  /\ link' = [l \in Link |-> IF l \in links THEN "closed" ELSE link[l]]
  /\ cursor' = [r \in Resident |-> IF r \in lost THEN 0 ELSE cursor[r]]
  /\ acked' = [r \in Resident |-> IF r \in lost THEN {} ELSE acked[r]]
  /\ exists' = IF server = "ephemeral" THEN exists \ lost ELSE exists
  /\ UNCHANGED stream

Connect ==
  /\ Running /\ Verb(pc) = "connect"
  /\ \/ link' = [link EXCEPT ![LinkOf(pc)] = "open"] /\ Proceed
     \/ faults /\ Throw /\ UNCHANGED link
  /\ UNCHANGED <<server, faults, waiting, wire, reply, jetstream, got, results, file, exit>>

Send ==
  /\ Running /\ Verb(pc) \in Calls /\ ~waiting /\ link[LinkOf(pc)] = "open"
  /\ waiting' = TRUE /\ wire' = wire \cup {pc} /\ reply' = {}
  /\ UNCHANGED <<server, faults, pc, link, jetstream, client, exit>>

(* Mutant: the denial need not name the permission.                        *)
Explicit_AnyError(error) == error # "none"

Explicit(error) == error = "permission"

(* The call under way ends in an error, which only the forbidden publish   *)
(* catches.                                                                *)
CallFails(error) ==
  /\ IF pc = Forbidden
     THEN pc' = pc + 1 /\ explicit' = Explicit(error) /\ UNCHANGED failed
     ELSE Throw
  /\ waiting' = FALSE /\ reply' = {}
  /\ UNCHANGED <<server, faults, link, wire, jetstream, got, results, file, exit>>

Answered(value) ==
  /\ got' = IF Verb(pc) = "next" THEN value ELSE got
  /\ results' = [results EXCEPT ![pc] = CASE Verb(pc) \in {"publish", "stream-info"} -> value
                                          [] Verb(pc) = "ack" -> got
                                          [] OTHER -> 0]
  /\ Proceed /\ waiting' = FALSE /\ reply' = {}
  /\ UNCHANGED <<server, faults, link, wire, jetstream, file, exit>>

Return ==
  /\ Running /\ waiting
  /\ \E r \in reply : IF r.error = "none" THEN Answered(r.value) ELSE CallFails(r.error)

(* The deadline of the call, or its connection is gone.                    *)
GiveUp ==
  /\ Running /\ Verb(pc) \in Calls
  /\ \/ faults /\ waiting /\ CallFails("deadline")
     \/ link[LinkOf(pc)] # "open" /\ CallFails("broken")

Close ==
  /\ Running /\ Verb(pc) = "close"
  /\ Disconnect({LinkOf(pc)} \cap {l \in Link : link[l] = "open"})
  /\ Proceed
  /\ UNCHANGED <<server, faults, waiting, wire, reply, got, results, file, exit>>

CloseFails ==
  /\ faults /\ Running /\ Verb(pc) = "close" /\ link[LinkOf(pc)] = "open" /\ Throw
  /\ UNCHANGED <<server, faults, waiting, link, wire, reply, jetstream, got, results, file, exit>>

(* Mutant: the sequence the resumed resident reads is not compared.        *)
Pass_ResumeUnchecked ==
  explicit /\ \A i \in Steps : Script[i][4] > 0 /\ LinkOf(i) # "resumed" => results[i] = Script[i][4]

Pass == explicit /\ \A i \in Steps : Script[i][4] > 0 => results[i] = Script[i][4]

Write ==
  /\ Running /\ Verb(pc) = "write"
  /\ \/ file' = "pass" /\ Pass /\ Proceed
     \/ file' = "fail" /\ ~Pass /\ Throw
     \/ faults /\ file' \in {"absent", "torn"} /\ Throw
  /\ UNCHANGED <<server, faults, waiting, link, wire, reply, jetstream, got, results, exit>>

(* Node exits when no socket is left.                                      *)
Exit ==
  /\ exit = "running" /\ pc = End /\ \A l \in Link : link[l] # "open"
  /\ exit' = IF failed THEN "1" ELSE "0"
  /\ UNCHANGED <<server, faults, pc, waiting, link, wire, reply, jetstream, client>>

(* Mutant: the runner sets the client no timeout.                          *)
Kill_Never == FALSE /\ UNCHANGED vars

(* The runner's timeout of the child; the file may be half written.        *)
Kill ==
  /\ faults /\ exit = "running"
  /\ exit' = "killed" /\ Disconnect({l \in Link : link[l] = "open"})
  /\ file' \in {file} \cup (IF pc \in Steps /\ Verb(pc) = "write" THEN {"torn"} ELSE {})
  /\ UNCHANGED <<server, faults, pc, waiting, wire, reply, got, results, explicit, failed>>
-----------------------------------------------------------------------------
(* The server.  A request is answered as long as its call waits.           *)
Tell(i, error, value) ==
  reply' = IF exit = "running" /\ waiting /\ pc = i /\ link[LinkOf(i)] = "open"
           THEN {[error |-> error, value |-> value]} ELSE reply

Permitted(i) == \/ <<Verb(i), Object(i)>> \in userPermissions(KindOf(LinkOf(i)))
                \/ server = "open" /\ Verb(i) = "publish"

(* What the stream server must have for a request.                         *)
Needed(i) == CASE Verb(i) \in {"consumer-info", "next", "ack"} -> {Object(i)}
               [] <<Verb(i), Object(i)>> \in {"create", "account-info"} \X {"commons"} -> {}
               [] OTHER -> {"commons"}

Refuse(i) ==
  /\ \/ ~Permitted(i) /\ Tell(i, "permission", 0)
     \/ Permitted(i) /\ ~Needed(i) \subseteq exists /\ Tell(i, "not-found", 0)
  /\ UNCHANGED jetstream

Create(i) ==
  /\ Verb(i) = "create"
  /\ exists' = exists \cup {Object(i)} /\ Tell(i, "none", 0)
  /\ UNCHANGED <<stream, cursor, acked>>

Inform(i) ==
  /\ Verb(i) \in {"account-info", "stream-info", "consumer-info"}
  /\ Tell(i, "none", Len(stream)) /\ UNCHANGED jetstream

Publish(i) ==
  /\ Verb(i) = "publish"
  /\ stream' = Append(stream, [subject |-> Object(i), sender |-> KindOf(LinkOf(i))])
  /\ Tell(i, "none", Len(stream'))
  /\ UNCHANGED <<exists, cursor, acked>>

Deliver(i) ==
  LET r == Object(i) IN
  /\ Verb(i) = "next" /\ cursor[r] < Len(stream)
  /\ cursor' = [cursor EXCEPT ![r] = @ + 1]
  /\ Tell(i, "none", cursor'[r])
  /\ UNCHANGED <<exists, stream, acked>>

Acknowledge(i) ==
  LET r == Object(i) IN
  /\ Verb(i) = "ack"
  /\ acked' = [acked EXCEPT ![r] = @ \cup {got}]
  /\ Tell(i, "none", 0)
  /\ UNCHANGED <<exists, stream, cursor>>

Serve(i) ==
  /\ wire' = wire \ {i}
  /\ \/ Refuse(i)
     \/ Permitted(i) /\ Needed(i) \subseteq exists
        /\ (Create(i) \/ Inform(i) \/ Publish(i) \/ Deliver(i) \/ Acknowledge(i))
  /\ UNCHANGED <<server, faults, pc, waiting, link, client, exit>>

Drop(l) ==
  /\ faults /\ exit = "running" /\ link[l] = "open" /\ Disconnect({l})
  /\ UNCHANGED <<server, faults, pc, waiting, wire, reply, client, exit>>

Rest == exit # "running" /\ UNCHANGED vars

Client == Connect \/ Send \/ Return \/ GiveUp \/ Close \/ CloseFails \/ Write \/ Exit
Next == Client \/ Kill \/ (\E i \in wire : Serve(i)) \/ (\E l \in Link : Drop(l)) \/ Rest

(* Node runs what it can, the server serves what reaches it, and the       *)
(* runner's timeout comes: nothing else has to happen.                     *)
Spec == /\ Init /\ [][Next]_vars
        /\ WF_vars(Client) /\ WF_vars(Kill) /\ WF_vars(\E i \in wire : Serve(i))
-----------------------------------------------------------------------------
(* The types; and a client that has failed is past its calls.              *)
TypeOK ==
  /\ pc \in 1 .. End /\ (failed => pc >= Finally) /\ waiting \in BOOLEAN /\ wire \subseteq Steps
  /\ link \in [Link -> {"none", "open", "closed"}] /\ Cardinality(reply) <= 1
  /\ exists \subseteq Resident \cup {"commons"} /\ Len(stream) <= 4
  /\ \A r \in Resident : cursor[r] <= Len(stream) /\ acked[r] \subseteq 1 .. Len(stream)
  /\ got <= 4 /\ explicit \in BOOLEAN /\ failed \in BOOLEAN
  /\ file \in {"absent", "torn", "pass", "fail"} /\ exit \in {"running", "0", "1", "killed"}

(* A client that exits with 0 has written a passing proof, and the commons *)
(* is what the proof says: three messages in order, each by the owner of   *)
(* its subject, and each resident has confirmed reading all of them.  No   *)
(* request of the client is still on its way, but the one it was denied.   *)
PassIsCommons ==
  exit = "0" =>
    /\ file = "pass" /\ wire = {}
    /\ stream = [s \in 1 .. 3 |-> LET r == IF s = 1 THEN "a" ELSE "b"
                                  IN [subject |-> r, sender |-> r]]
    /\ \A r \in Resident : acked[r] = 1 .. 3

(* A server that lets a resident publish on the other's subject, or whose  *)
(* durable consumers are not durable, never passes, whatever is late, lost *)
(* or served after the client gave it up.                                  *)
DefectNeverPasses == server # "sound" => exit # "0"

(* The runner gets its answer: the client ends, whatever goes wrong, also  *)
(* when a close that throws leaves connections open.                       *)
ClientEnds == <>(exit # "running")

(* With a sound server and nothing going wrong the canary passes.          *)
HonestPasses == server = "sound" /\ ~faults ~> exit = "0"
=============================================================================
