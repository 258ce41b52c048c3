---------------------------- MODULE LiveRevocation ----------------------------
(***************************************************************************)
(* revokeSyntheticUser (identity.mjs) on the server Provisioning started:  *)
(* the revocation is written into the account JWT in the home of nsc, the  *)
(* JWT is pushed to the running server, and the server's copy on disk is   *)
(* compared with it.                                                       *)
(*                                                                         *)
(* The server takes a pushed JWT when it gets to it, before nsc returns or *)
(* long after it gave up, saves it to the resolver's directory and then    *)
(* applies it; it may die in between.  Commands fail as in Provisioning.   *)
(***************************************************************************)
EXTENDS Provisioning

VARIABLES
  rpc,      \* "add", "check", "push", "await", "compare", "over"
  digested, \* the account JWT as it was when the code last took its digest
  cutoff,   \* the revocation's time in the account JWT; 0 for none
  request,  \* the pushed JWTs the server has not taken
  saved,    \* the revocation's time in the server's copy on disk; 0 for none
  applied,  \* the same of the JWT the server acts on
  alive,    \* is the server alive
  told      \* "none", "bound", "threw": what the caller learns

revVars == <<rpc, digested, cutoff, request, saved, applied, alive, told>>
vars == <<prepVars, revVars>>

(* The contents of the account JWT and of the server's copy.               *)
Claims(artifacts) == {a \in artifacts : a[1] = "account"}
Jwt == [claims |-> Claims(made), cutoff |-> cutoff]
OnDisk == [claims |-> Claims(resolver), cutoff |-> saved]

Init ==
  /\ PrepInit
  /\ rpc = "add" /\ cutoff = 0 /\ digested = Jwt
  /\ request = {} /\ saved = 0 /\ applied = 0 /\ alive = TRUE /\ told = "none"

Revoking(at) == outcome = "serving" /\ rpc = at

(* Mutant: a revocation that throws is tried again from the push.          *)
Settle_Retries(result) ==
  told' = result /\ rpc' = (IF result = "threw" THEN "push" ELSE "over")

Settle(result) == told' = result /\ rpc' = "over"

GoOn(next) == rpc' = next /\ UNCHANGED told

(* nsc revocations add-user: the JWT is written anew, with the time.       *)
AddRevocation ==
  /\ Revoking("add")
  /\ digested' = Jwt
  /\ \E works, ok \in BOOLEAN :
       /\ faults \/ (works /\ ok)
       /\ cutoff' = IF works THEN now ELSE cutoff
       /\ IF ok THEN GoOn("check") ELSE Settle("threw")
  /\ UNCHANGED <<prepVars, request, saved, applied, alive>>

(* Mutant: a credential of the very second of the revocation is not        *)
(* considered revoked.                                                     *)
Covers_Strict(time) == time # 0 /\ time > issuedAt

(* Mutant: any revocation of the credential will do.                       *)
Covers_Any(time) == time # 0

Covers(time) == time # 0 /\ time >= issuedAt

CheckJwt ==
  /\ Revoking("check")
  /\ IF Covers(cutoff) /\ Jwt # digested THEN GoOn("push") ELSE Settle("threw")
  /\ digested' = Jwt
  /\ UNCHANGED <<prepVars, cutoff, request, saved, applied, alive>>

(* nsc push sends the JWT and waits at most four seconds for the server.   *)
Push ==
  /\ Revoking("push")
  /\ \/ request' = request \cup {Jwt} /\ GoOn("await")
     \/ faults /\ UNCHANGED request /\ (GoOn("compare") \/ Settle("threw"))
  /\ UNCHANGED <<prepVars, digested, cutoff, saved, applied, alive>>

PushReturns ==
  /\ Revoking("await")
  /\ \/ Jwt \notin request /\ GoOn("compare")
     \/ faults /\ (GoOn("compare") \/ Settle("threw"))
  /\ UNCHANGED <<prepVars, digested, cutoff, request, saved, applied, alive>>

(* Mutant: the file compared is the one in the home of nsc, not the        *)
(* server's.                                                               *)
Matches_Home == Jwt = digested

Matches == OnDisk = digested

Compare ==
  /\ Revoking("compare")
  /\ IF Matches THEN Settle("bound") ELSE Settle("threw")
  /\ UNCHANGED <<prepVars, digested, cutoff, request, saved, applied, alive>>

Revoke == AddRevocation \/ CheckJwt \/ Push \/ PushReturns \/ Compare
-----------------------------------------------------------------------------
(* Does the server turn the credential away with this revocation.          *)
Denies(time) == time # 0 /\ issuedAt <= time

ServerSaves ==
  /\ outcome = "serving" /\ alive
  /\ \E jwt \in request : /\ request' = request \ {jwt}
                          /\ resolver' = (resolver \ Claims(resolver)) \cup jwt.claims
                          /\ saved' = jwt.cutoff
  /\ UNCHANGED <<faults, step, outcome, made, altered, ran, now, issuedAt,
                 rpc, digested, cutoff, applied, alive, told>>

ServerApplies ==
  /\ outcome = "serving" /\ alive /\ applied # saved /\ applied' = saved
  /\ UNCHANGED <<prepVars, rpc, digested, cutoff, request, saved, alive, told>>

ServerDies ==
  /\ faults /\ outcome = "serving" /\ alive /\ alive' = FALSE
  /\ UNCHANGED <<prepVars, rpc, digested, cutoff, request, saved, applied, told>>

Over == (outcome = "threw" \/ rpc = "over") /\ UNCHANGED vars

Next ==
  \/ (Prepare \/ Clock) /\ UNCHANGED revVars
  \/ Revoke \/ ServerSaves \/ ServerApplies \/ ServerDies
  \/ Over

(* The runner is not starved and each command returns; a living server     *)
(* gets to what it was sent.                                               *)
Spec ==
  /\ Init /\ [][Next]_vars
  /\ WF_vars(Prepare /\ UNCHANGED revVars) /\ WF_vars(Revoke)
  /\ WF_vars(ServerSaves) /\ WF_vars(ServerApplies)
-----------------------------------------------------------------------------
(* The types; and a call that has told its result is over.                 *)
TypeOK ==
  /\ faults \in BOOLEAN /\ step \in 1 .. Len(Prep) + 1
  /\ outcome \in {"running", "threw", "serving"}
  /\ altered \subseteq made /\ resolver \subseteq made
  /\ now \in 1 .. MaxNow /\ issuedAt \in 0 .. MaxNow /\ {cutoff, saved, applied} \subseteq 0 .. MaxNow
  /\ rpc \in {"add", "check", "push", "await", "compare", "over"}
  /\ \A jwt \in request \cup {digested} : jwt.claims \subseteq Claims(made) /\ jwt.cutoff \in 0 .. MaxNow
  /\ alive \in BOOLEAN
  /\ told \in {"none", "bound", "threw"} /\ ((told = "none") = (rpc # "over"))

Contract == INSTANCE RevocationContract WITH known <- Denies(saved)

(* When revokeSyntheticUser returns, the server has on disk a revocation   *)
(* that covers the credential, also if a command reported success and did  *)
(* nothing, the clock was set back, or the push timed out; a push that     *)
(* arrives after the throw makes no difference to what was told.           *)
ImplementsRevocation == Contract!Spec

(* The digest of a file is enough: a server whose copy matched applies it, *)
(* or is gone.                                                             *)
EnforcedInTheEnd == told = "bound" ~> (Denies(applied) \/ ~alive)

(* If nothing goes wrong the server is started and the revocation is       *)
(* bound, also within the second in which the credential was issued.       *)
HonestSetupSucceeds == ~faults ~> told = "bound"
=============================================================================
