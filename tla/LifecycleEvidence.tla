-------------------------- MODULE LifecycleEvidence --------------------------
(***************************************************************************)
(* network-canary/src/lifecycle-evidence.mjs: how the canary judges        *)
(* whether what it saw is a denial by the server of an expired or revoked  *)
(* credential, and not a failure of the transport.                         *)
(*                                                                         *)
(* A text (the code and message of an error, a line of the server log) is  *)
(* the set of the patterns it matches: "auth" (the words of AUTH_PATTERN   *)
(* that name no reason), "expired", "revoked", "transport".  An error that *)
(* is absent is the empty text, as errorText makes it.                     *)
(***************************************************************************)
EXTENDS Naturals, Sequences, FiniteSets

Kinds == {"expiry", "revocation"}
Mark == {"auth", "expired", "revoked", "transport"}

expectedPattern(kind) == IF kind = "expiry" THEN "expired" ELSE "revoked"

ExplicitAuth(text) == text \cap {"auth", "expired", "revoked"} # {}
ExpectedLifecycle(kind, text) == expectedPattern(kind) \in text
Transport(text) == "transport" \in text

StatusType == {"disconnect", "reconnecting", "reconnect", "error", "close"}
Status == [type : StatusType, error : SUBSET Mark]

statusCount(statuses, type) ==
  Cardinality({i \in DOMAIN statuses : statuses[i].type = type})

----------------------------------------------------------------------------
(* The statuses after the last successful reconnection.                    *)
Terminal(statuses) ==
  LET reconnects == {i \in DOMAIN statuses : statuses[i].type = "reconnect"}
      last == IF reconnects = {} THEN 0
              ELSE CHOOSE i \in reconnects : \A j \in reconnects : j <= i
  IN  SubSeq(statuses, last + 1, Len(statuses))

ErrorTexts(statuses) ==
  {statuses[i].error : i \in {j \in DOMAIN statuses : statuses[j].type = "error"}}

(* The first error of the terminal part that names the lifecycle event;    *)
(* the empty text if there is none.                                        *)
LifecycleError(statuses, kind) ==
  LET terminal == Terminal(statuses)
      named == {i \in DOMAIN terminal : terminal[i].type = "error" /\
                                        ExpectedLifecycle(kind, terminal[i].error)}
  IN  IF named = {} THEN {}
      ELSE terminal[CHOOSE i \in named : \A j \in named : i <= j].error

(* Mutant: one error too many is asked for.                                *)
assessReconnectSequence_Strict(statuses, maxAttempts) ==
  LET terminal == Terminal(statuses)
      attempts == statusCount(terminal, "reconnecting")
  IN  /\ statusCount(statuses, "disconnect") >= 1
      /\ \E text \in ErrorTexts(terminal) : ExplicitAuth(text)
      /\ attempts \in 1 .. maxAttempts
      /\ statusCount(terminal, "reconnect") = 0
      /\ statusCount(terminal, "error") > attempts
      /\ statusCount(terminal, "close") = 1

(* assessReconnectSequence: "pass" of its result.                          *)
assessReconnectSequence(statuses, maxAttempts) ==
  LET terminal == Terminal(statuses)
      attempts == statusCount(terminal, "reconnecting")
  IN  /\ statusCount(statuses, "disconnect") >= 1
      /\ \E text \in ErrorTexts(terminal) : ExplicitAuth(text)
      /\ attempts \in 1 .. maxAttempts
      /\ statusCount(terminal, "reconnect") = 0
      /\ statusCount(terminal, "error") >= attempts
      /\ statusCount(terminal, "close") = 1

----------------------------------------------------------------------------
(* What assessLifecycleRejection is given: the fixture's result (pass,     *)
(* outcome, whether it carries the attempt's id and the actor's digest,    *)
(* error) and the excerpt of the server log, a set of lines that each      *)
(* name an actor and have a text.                                          *)
ExpectedOutcome(phase) ==
  IF phase = "active-close" THEN "connected-then-server-closed" ELSE "connect-threw"

ServerText(excerpt) == UNION {line.text : line \in excerpt}

ServerDenies(actor, excerpt) ==
  /\ ExplicitAuth(ServerText(excerpt))
  /\ \E line \in excerpt : line.actor = actor

(* Mutant: an attempt that failed under control is a denial.               *)
assessLifecycleRejection_Controlled(kind, phase, actor, requireServerActor, controlBound, client, excerpt) ==
  /\ client.pass
  /\ client.outcome = ExpectedOutcome(phase)
  /\ client.bound
  /\ ExpectedLifecycle(kind, client.error) \/ controlBound

(* assessLifecycleRejection: "pass" of its result.                         *)
assessLifecycleRejection(kind, phase, actor, requireServerActor, controlBound, client, excerpt) ==
  /\ client.pass
  /\ client.outcome = ExpectedOutcome(phase)
  /\ client.bound
  /\ ExplicitAuth(client.error)
  /\ requireServerActor => ServerDenies(actor, excerpt)
  /\ \/ ExpectedLifecycle(kind, client.error)
     \/ controlBound /\ ServerDenies(actor, excerpt)
  /\ ~Transport(client.error \cup ServerText(excerpt))
=============================================================================
