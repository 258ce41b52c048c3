------------------------- MODULE LiveRevocationProofs -------------------------
(***************************************************************************)
(* Theorems about Provisioning and LiveRevocation, for a clock with any    *)
(* number of ticks: no downloaded program runs unless its archive is the   *)
(* pinned one, and revokeSyntheticUser implements RevocationContract.      *)
(***************************************************************************)
EXTENDS LiveRevocation, TLAPS

(* The preparation goes on only while nothing is altered, and what a       *)
(* refused download leaves is an archive.                                  *)
Untouched ==
  /\ outcome # "threw" => altered = {}
  /\ \A a \in altered : a[1] = "archive"

LEMMA UntouchedInit == Init => Untouched
BY DEF Init, PrepInit, Untouched

LEMMA UntouchedStep == Untouched /\ [Next]_vars => Untouched'
<1> SUFFICES ASSUME Untouched, [Next]_vars PROVE Untouched'
  OBVIOUS
<1>1. CASE UNCHANGED <<outcome, altered>>
  BY <1>1 DEF Untouched
<1>2. CASE runCommand
  BY <1>2 DEF runCommand, Preparing, Proceed, Throw, Untouched
<1>3. CASE downloadVerified
  <2> DEFINE archive == <<"archive", Product[2]>>
  <2>1. altered = {} /\ outcome = "running"
    BY <1>3 DEF downloadVerified, Preparing, Untouched
  <2>2. CASE Throw /\ UNCHANGED altered
    BY <2>1, <2>2 DEF Throw, Untouched
  <2>3. CASE altered' = altered /\ Proceed
    BY <2>1, <2>3 DEF Proceed, Untouched
  <2>4. CASE altered' = altered \cup {archive} /\ Throw
    BY <2>1, <2>4 DEF Throw, Untouched
  <2>5. QED
    BY <1>3, <2>1, <2>2, <2>3, <2>4 DEF downloadVerified, DigestMatches, Throw
<1>4. CASE selectToolchain \/ CopyFile
  BY <1>4 DEF selectToolchain, CopyFile, Preparing, Proceed, Throw, Untouched
<1>5. CASE StartServer
  BY <1>5 DEF StartServer, Preparing, Untouched
<1>6. QED
  <2>1. CASE Prepare \/ Clock
    BY <2>1, <1>1, <1>2, <1>3, <1>4, <1>5 DEF Prepare, Clock
  <2>2. CASE Revoke
    BY <2>2, <1>1 DEF Revoke, AddRevocation, CheckJwt, Push, PushReturns, Compare, prepVars
  <2>3. CASE ServerSaves \/ ServerApplies \/ ServerDies \/ Over
    BY <2>3, <1>1 DEF ServerSaves, ServerApplies, ServerDies, Over, prepVars, vars
  <2>4. QED BY <2>1, <2>2, <2>3, <1>1 DEF Next, vars, prepVars

(* No downloaded program runs unless its archive has the pinned digest     *)
(* (downloadVerified and installPinnedTools of toolchain.mjs).             *)
THEOREM OnlyPinnedToolsRun == Spec => []NothingUnverifiedRuns
<1>1. Untouched => NothingUnverifiedRuns
  BY DEF Untouched, NothingUnverifiedRuns
<1>2. QED
  BY <1>1, UntouchedInit, UntouchedStep, PTL DEF Spec
-----------------------------------------------------------------------------
(* Where revokeSyntheticUser stands.  From its check on, what it pushes    *)
(* covers the credential; before, the server has no revocation at all.     *)
Standing ==
  /\ now \in Nat \ {0} /\ issuedAt \in Nat /\ cutoff \in Nat
  /\ outcome # "serving" => rpc = "add"
  /\ rpc = "add" => cutoff = 0 /\ saved = 0 /\ request = {}
  /\ rpc = "check" => saved = 0 /\ request = {}
  /\ rpc # "over" => told = "none"
  /\ rpc \in {"push", "await", "compare"} => Denies(cutoff) /\ Denies(digested.cutoff)
  /\ \A jwt \in request : Denies(jwt.cutoff)

LEMMA StandingInit == Init => Standing
BY DEF Init, PrepInit, Standing

LEMMA StandingPrepare ==
  ASSUME Standing, Prepare, UNCHANGED revVars
  PROVE  Standing' /\ UNCHANGED <<Denies(saved), told>>
<1>1. outcome = "running" /\ rpc = "add"
  BY DEF Prepare, runCommand, downloadVerified, CopyFile, selectToolchain, StartServer, Preparing, Standing
<1>2. issuedAt' \in Nat /\ now' = now
  BY DEF Prepare, runCommand, downloadVerified, CopyFile, selectToolchain, StartServer, Standing
<1>3. cutoff' = 0 /\ saved = 0 /\ saved' = 0 /\ request' = {} /\ rpc' = "add" /\ told' = told
  BY <1>1 DEF Standing, revVars
<1>4. told = "none"
  BY <1>1 DEF Standing
<1>5. QED
  BY <1>2, <1>3, <1>4 DEF Standing, Denies

LEMMA StandingClock ==
  ASSUME Standing, Clock, UNCHANGED revVars
  PROVE  Standing' /\ UNCHANGED <<Denies(saved), told>>
<1>1. now' \in Nat \ {0}
  BY MaxNowAssumption DEF Clock, Standing
<1>2. QED
  BY <1>1 DEF Clock, Standing, Denies, revVars

LEMMA StandingRevoke ==
  ASSUME Standing, Revoke
  PROVE  Standing' /\ [Contract!Next]_(Contract!vars)
<1> USE DEF Settle, GoOn, Revoking, prepVars
<1>1. CASE AddRevocation
  BY <1>1 DEF AddRevocation, Standing, Denies, Contract!Next, Contract!vars, Contract!Throw
<1>2. CASE CheckJwt
  BY <1>2 DEF CheckJwt, Jwt, Standing, Denies, Covers, Contract!Next, Contract!vars, Contract!Throw
<1>3. CASE Push
  BY <1>3 DEF Push, Jwt, Standing, Denies, Contract!Next, Contract!vars, Contract!Throw
<1>4. CASE PushReturns
  BY <1>4 DEF PushReturns, Standing, Denies, Contract!Next, Contract!vars, Contract!Throw
<1>5. CASE Compare
  <2>1. Standing'
    BY <1>5 DEF Compare, Standing, Denies
  <2>2. Matches => Denies(saved)
    BY <1>5 DEF Compare, Matches, OnDisk, Standing
  <2>3. QED
    BY <1>5, <2>1, <2>2
    DEF Compare, Standing, Denies, Contract!Next, Contract!vars, Contract!Return, Contract!Throw
<1>6. QED BY <1>1, <1>2, <1>3, <1>4, <1>5 DEF Revoke

LEMMA StandingServer ==
  ASSUME Standing, ServerSaves \/ ServerApplies \/ ServerDies
  PROVE  Standing' /\ [Contract!Next]_(Contract!vars)
<1>1. CASE ServerSaves
  <2>1. Standing'
    BY <1>1 DEF ServerSaves, Standing, Denies
  <2>2. Denies(saved)' /\ told' = told
    BY <1>1 DEF ServerSaves, Standing, Denies
  <2>3. QED
    BY <2>1, <2>2 DEF Contract!Next, Contract!Learn
<1>2. CASE ServerApplies \/ ServerDies
  BY <1>2 DEF ServerApplies, ServerDies, Standing, Denies, prepVars, Contract!vars
<1>3. QED BY <1>1, <1>2

LEMMA StandingStep ==
  Standing /\ [Next]_vars => Standing' /\ [Contract!Next]_(Contract!vars)
<1> SUFFICES ASSUME Standing, [Next]_vars
             PROVE  Standing' /\ [Contract!Next]_(Contract!vars)
  OBVIOUS
<1>1. CASE UNCHANGED vars
  BY <1>1 DEF vars, prepVars, revVars, Standing, Denies, Contract!vars
<1>2. CASE (Prepare \/ Clock) /\ UNCHANGED revVars
  BY <1>2, StandingPrepare, StandingClock DEF Contract!vars
<1>3. CASE Revoke
  BY <1>3, StandingRevoke
<1>4. CASE ServerSaves \/ ServerApplies \/ ServerDies
  BY <1>4, StandingServer
<1>5. QED
  BY <1>1, <1>2, <1>3, <1>4 DEF Next, Over

(* revokeSyntheticUser returns only when the server has on disk a          *)
(* revocation that covers the credential, for good; whatever its commands  *)
(* do, the clock does, and whenever a push arrives.                        *)
THEOREM RevocationIsImplemented == Spec => ImplementsRevocation
<1>1. Init => Contract!Init
  <2>1. Init => saved = 0 /\ told = "none"
    BY DEF Init
  <2>2. saved = 0 => Denies(saved) = FALSE
    BY SMTT(30) DEF Denies
  <2>3. QED BY <2>1, <2>2 DEF Contract!Init
<1>2. QED
  BY <1>1, StandingInit, StandingStep, PTL DEF Spec, ImplementsRevocation, Contract!Spec
-----------------------------------------------------------------------------
(* The preparation, step by step.  The script is 34 steps long; only the   *)
(* last starts the server, only child processes are followed by a look at  *)
(* the files, and the account JWT is copied after its key was looked for.  *)
Signed == Group("account", {"jwt", "signer"})

LEMMA Script ==
  /\ Len(Prep) = 34
  /\ \A k \in 1 .. 34 : Prep[k][1] = "start" <=> k = 34
  /\ \A k \in 1 .. 34 : Prep[k][1] \in {"manifest", "fetch", "copy", "write", "start"} => Prep[k][4] = {}
BY SMTT(30) DEF Prep, ToolSteps, TlsSteps, OperatorSteps, AccountSteps, UserSteps, ResolverSteps, ServerSteps

LEMMA ScriptLooks ==
  /\ Prep[5][4] = Group("tool", {"nats-server", "nsc"})
  /\ Prep[11][4] = Group("tls", {"ca", "csr", "cert"})
  /\ Prep[18][4] = Signed
  /\ \A u \in Users : \E k \in 24 .. 28 : <<"creds", u>> \in Prep[k][4]
BY SMTT(30) DEF Prep, ToolSteps, TlsSteps, OperatorSteps, AccountSteps, UserSteps, ResolverSteps, ServerSteps,
       UserOrder, Users, Signed

LEMMA ScriptCopies ==
  /\ Prep[30][1] = "copy" /\ Prep[30][2] = <<"sys", "jwt">> /\ Prep[30][3] = {<<"sys", "jwt">>}
  /\ Prep[31][1] = "copy" /\ Prep[31][2] = <<"account", "jwt">>
BY SMTT(30) DEF Prep, ToolSteps, TlsSteps, OperatorSteps, AccountSteps, UserSteps, ResolverSteps, ServerSteps

(* What was looked for is there, the resolver has its copies when their    *)
(* steps are done, and whatever is pushed has the key that signed.         *)
Prepared ==
  /\ step \in 1 .. 35
  /\ outcome \in {"running", "threw", "serving"}
  /\ outcome = "running" => step <= 34
  /\ outcome = "serving" => step = 35
  /\ \A k \in 1 .. 34 : k < step => Prep[k][4] \subseteq made
  /\ step > 30 => <<"sys", "jwt">> \in resolver
  /\ step > 31 => Signed \subseteq resolver
  /\ \A jwt \in request : Signed \subseteq jwt.claims

LEMMA PreparedInit == Init => Prepared
BY DEF Init, PrepInit, Prepared

(* A step that proceeds has found what it looked for, and a copy has been  *)
(* made.                                                                   *)
Effect ==
  /\ outcome = "running" /\ made \subseteq made' /\ resolver \subseteq resolver'
  /\ \/ Throw
     \/ /\ step' = step + 1 /\ Looked \subseteq made'
        /\ outcome' = IF Actor = "start" THEN "serving" ELSE outcome
        /\ Actor = "copy" => /\ Inputs \subseteq made
                            /\ resolver' = resolver \cup {a \in made : a[1] = Product[1]}

LEMMA PrepareEffect ==
  ASSUME Prepared, Prepare
  PROVE  Effect
<1>0. /\ outcome = "running" /\ step \in 1 .. 34
      /\ Actor \in {"manifest", "fetch", "copy", "write", "start"} => Looked = {}
  BY Script DEF Prepared, Prepare, selectToolchain, runCommand, downloadVerified, CopyFile,
                StartServer, Preparing, Actor, Looked
<1>1. CASE selectToolchain
  BY <1>0, <1>1 DEF selectToolchain, Preparing, Proceed, Throw, Effect
<1>2. CASE runCommand
  BY <1>0, <1>2 DEF runCommand, Preparing, Proceed, Throw, Effect
<1>3. CASE downloadVerified
  BY <1>0, <1>3 DEF downloadVerified, Preparing, Proceed, Throw, Effect
<1>4. CASE CopyFile
  BY <1>0, <1>4 DEF CopyFile, Preparing, Proceed, Throw, Effect
<1>5. CASE StartServer
  BY <1>0, <1>5 DEF StartServer, Preparing, Effect
<1>6. QED BY <1>1, <1>2, <1>3, <1>4, <1>5 DEF Prepare

LEMMA PreparedPrepare ==
  ASSUME Prepared, Prepare, UNCHANGED revVars
  PROVE  Prepared'
<1>1. Effect /\ step \in 1 .. 34 /\ (Actor = "start" <=> step = 34)
  BY PrepareEffect, Script DEF Prepared, Effect, Actor
<1>2. request' = request
  BY DEF revVars
<1>3. CASE Throw
  BY <1>1, <1>2, <1>3 DEF Throw, Effect, Prepared
<1>4. CASE step' = step + 1 /\ Looked \subseteq made' /\ ~Throw
  <2>1. \A k \in 1 .. 34 : k < step' => Prep[k][4] \subseteq made'
    BY <1>1, <1>4 DEF Effect, Prepared, Looked
  <2>2. step' > 30 => <<"sys", "jwt">> \in resolver'
    BY <1>1, <1>4, ScriptCopies DEF Effect, Prepared, Actor, Inputs, Product
  <2>3. step' > 31 => Signed \subseteq resolver'
    <3>1. CASE step = 31
      <4>1. Signed \subseteq made
        BY <3>1, ScriptLooks DEF Prepared
      <4>2. \A a \in Signed : a[1] = "account"
        BY DEF Signed, Group
      <4>3. QED
        BY <1>1, <1>4, <3>1, <4>1, <4>2, ScriptCopies DEF Effect, Actor, Product
    <3>2. QED BY <1>1, <1>4, <3>1 DEF Effect, Prepared
  <2>4. QED
    BY <1>1, <1>2, <1>4, <2>1, <2>2, <2>3 DEF Effect, Prepared
<1>5. QED BY <1>1, <1>3, <1>4 DEF Effect

LEMMA PreparedStep == Prepared /\ Standing /\ [Next]_vars => Prepared'
<1> SUFFICES ASSUME Prepared, Standing, [Next]_vars PROVE Prepared'
  OBVIOUS
<1>1. CASE UNCHANGED <<outcome, step, made, resolver, request>>
  BY <1>1 DEF Prepared
<1>2. CASE Prepare /\ UNCHANGED revVars
  BY <1>2, PreparedPrepare
<1>3. CASE Push
  <2>1. Signed \subseteq Jwt.claims
    <3>1. Signed \subseteq made
      BY <1>3, ScriptLooks DEF Push, Revoking, Prepared
    <3>2. \A a \in Signed : a[1] = "account"
      BY DEF Signed, Group
    <3>3. QED BY <3>1, <3>2 DEF Jwt, Claims
  <2>2. request' \subseteq request \cup {Jwt}
    BY <1>3 DEF Push
  <2>3. QED BY <1>3, <2>1, <2>2 DEF Push, prepVars, Prepared
<1>4. CASE ServerSaves
  <2>1. PICK jwt \in request : resolver' = (resolver \ Claims(resolver)) \cup jwt.claims
    BY <1>4 DEF ServerSaves
  <2>2. Signed \subseteq resolver'
    BY <2>1 DEF Prepared
  <2>3. <<"sys", "jwt">> \in resolver => <<"sys", "jwt">> \in resolver'
    BY <2>1 DEF Claims
  <2>4. request' \subseteq request
    BY <1>4 DEF ServerSaves
  <2>5. QED BY <1>4, <2>2, <2>3, <2>4 DEF ServerSaves, Prepared
<1>5. QED
  BY <1>1, <1>2, <1>3, <1>4
  DEF Next, Clock, Revoke, AddRevocation, CheckJwt, PushReturns, Compare, ServerApplies, ServerDies,
      Over, vars, prepVars, revVars

(* The server is started only when everything it and its clients need is   *)
(* there, and the resolver's COMMONS account has the key that signed the   *)
(* credentials, whichever command of setupSyntheticTrust, generateLocalTls *)
(* or installPinnedTools failed, did nothing, or did half.                 *)
THEOREM StartIsComplete == Spec => []StartsComplete
<1>1. Prepared => StartsComplete
  <2> SUFFICES ASSUME Prepared, outcome = "serving" PROVE StartsComplete
    BY DEF StartsComplete
  <2>1. step = 35 /\ \A k \in 1 .. 34 : Prep[k][4] \subseteq made
    BY DEF Prepared
  <2>2. Prep[5][4] \cup Prep[11][4] \subseteq made
    BY <2>1
  <2>3. Group("creds", Users) \subseteq made
    BY <2>1, ScriptLooks DEF Group
  <2>4. {<<"sys", "jwt">>} \cup Signed \subseteq resolver
    BY <2>1 DEF Prepared
  <2>5. QED BY <2>2, <2>3, <2>4, ScriptLooks DEF StartsComplete, Signed
<1>2. QED
  BY <1>1, PreparedInit, PreparedStep, StandingInit, StandingStep, PTL DEF Spec
-----------------------------------------------------------------------------
(* What the files and the JWTs are made of.  A JWT, pushed or kept for     *)
(* comparison, has only claims that were made; so has the server's copy.   *)
Contents ==
  /\ altered \subseteq made /\ resolver \subseteq made
  /\ \A jwt \in request \cup {digested} : jwt.claims \subseteq Claims(made) /\ jwt.cutoff \in 0 .. MaxNow

Times ==
  /\ faults \in BOOLEAN /\ alive \in BOOLEAN
  /\ now \in 1 .. MaxNow /\ issuedAt \in 0 .. MaxNow
  /\ {cutoff, saved, applied} \subseteq 0 .. MaxNow
  /\ rpc \in {"add", "check", "push", "await", "compare", "over"}
  /\ told \in {"none", "bound", "threw"} /\ ((told = "none") = (rpc # "over"))

LEMMA TypesInit == Init => Contents /\ Times
BY MaxNowAssumption DEF Init, PrepInit, Contents, Times, Jwt, Claims

LEMMA ContentsPrepare ==
  ASSUME Contents, Prepare, UNCHANGED revVars
  PROVE  Contents'
<1>1. made \subseteq made' /\ altered' \subseteq made' /\ resolver' \subseteq made'
  <2>1. CASE runCommand
    BY <2>1 DEF runCommand, Contents
  <2>2. CASE downloadVerified
    BY <2>2 DEF downloadVerified, Contents
  <2>3. CASE selectToolchain \/ StartServer
    BY <2>3 DEF selectToolchain, StartServer, Contents
  <2>4. CASE CopyFile
    BY <2>4 DEF CopyFile, Contents
  <2>5. QED BY <2>1, <2>2, <2>3, <2>4 DEF Prepare
<1>2. QED
  BY <1>1 DEF Contents, Claims, revVars

LEMMA TypesStep == Contents /\ Times /\ [Next]_vars => Contents' /\ Times'
<1> SUFFICES ASSUME Contents, Times, [Next]_vars PROVE Contents' /\ Times'
  OBVIOUS
<1>1. CASE UNCHANGED vars
  BY <1>1 DEF vars, prepVars, revVars, Contents, Times, Claims
<1>2. CASE Prepare /\ UNCHANGED revVars
  <2>1. issuedAt' \in 0 .. MaxNow /\ UNCHANGED <<faults, now>>
    BY <1>2, MaxNowAssumption
    DEF Prepare, selectToolchain, runCommand, downloadVerified, CopyFile, StartServer, Times
  <2>2. QED BY <1>2, <2>1, ContentsPrepare DEF Times, revVars
<1>3. CASE Clock /\ UNCHANGED revVars
  <2>1. now' \in 1 .. MaxNow
    BY <1>3, MaxNowAssumption DEF Clock, Times
  <2>2. QED BY <1>3, <2>1 DEF Clock, Contents, Times, Claims, revVars
<1>4. CASE Revoke
  <2> USE DEF Revoking, Settle, GoOn, prepVars
  <2>1. Jwt.claims \subseteq Claims(made) /\ Jwt.cutoff \in 0 .. MaxNow
    BY DEF Jwt, Times
  <2>2. CASE AddRevocation
    <3>1. cutoff' \in 0 .. MaxNow
      BY <2>2, MaxNowAssumption DEF AddRevocation, Times
    <3>2. QED BY <2>1, <2>2, <3>1 DEF AddRevocation, Contents, Times, Claims
  <2>3. CASE CheckJwt
    BY <2>1, <2>3 DEF CheckJwt, Contents, Times, Claims
  <2>4. CASE Push
    BY <2>1, <2>4 DEF Push, Contents, Times, Claims
  <2>5. CASE PushReturns \/ Compare
    BY <2>5 DEF PushReturns, Compare, Contents, Times, Claims
  <2>6. QED BY <1>4, <2>2, <2>3, <2>4, <2>5 DEF Revoke
<1>5. CASE ServerSaves
  <2>1. PICK jwt \in request : /\ request' = request \ {jwt}
                             /\ resolver' = (resolver \ Claims(resolver)) \cup jwt.claims
                             /\ saved' = jwt.cutoff
    BY <1>5 DEF ServerSaves
  <2>2. resolver' \subseteq made /\ saved' \in 0 .. MaxNow
    BY <2>1 DEF Contents, Claims
  <2>3. QED BY <1>5, <2>1, <2>2 DEF ServerSaves, Contents, Times, Claims
<1>6. CASE ServerApplies \/ ServerDies
  BY <1>6 DEF ServerApplies, ServerDies, prepVars, Contents, Times, Claims
<1>7. QED
  BY <1>1, <1>2, <1>3, <1>4, <1>5, <1>6 DEF Next, Over

(* Every variable keeps its type; in particular the resolver's directory   *)
(* and every pushed JWT hold nothing that nsc did not make, and the call   *)
(* has told its result exactly when it is over.                            *)
THEOREM RevocationTypeCorrect == Spec => []TypeOK
<1>1. Prepared /\ Contents /\ Times => TypeOK
  BY Script DEF Prepared, Contents, Times, TypeOK
<1>2. QED
  BY <1>1, PreparedInit, PreparedStep, StandingInit, StandingStep, TypesInit, TypesStep, PTL DEF Spec
=============================================================================
