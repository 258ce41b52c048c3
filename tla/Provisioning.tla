----------------------------- MODULE Provisioning -----------------------------
(***************************************************************************)
(* What the canary prepares before its server runs: pinned tools           *)
(* (toolchain.mjs), a local CA and certificate (certificates.mjs), an      *)
(* operator with one account, its signing key, five users and their        *)
(* credentials, and the resolver's copies of the account JWTs              *)
(* (setupSyntheticTrust of identity.mjs).                                  *)
(*                                                                         *)
(* The code is one sequence of commands.  It sees of a command its exit    *)
(* status and, where it looks, the files; a command may do its work and    *)
(* fail, or report success and do nothing.  A file is an artifact, a pair  *)
(* of the group it belongs to and a name; the account JWT is the artifacts *)
(* of the group "account", its claims.                                     *)
(***************************************************************************)
EXTENDS Naturals, Sequences, FiniteSets

CONSTANT MaxNow    \* bound: the clock, in seconds

ASSUME MaxNowAssumption == MaxNow \in Nat \ {0}

VARIABLES
  faults,    \* may anything go wrong at all; fixed
  step,      \* the step of Prep under way
  outcome,   \* "running", "threw", "serving"
  made,      \* the artifacts there are
  altered,   \* those that are not what the manifest pins
  ran,       \* the tools that were started
  resolver,  \* the artifacts copied into the resolver's directory
  now,       \* the clock
  issuedAt   \* iat of the revocable credential; 0 before

prepVars == <<faults, step, outcome, made, altered, ran, resolver, now, issuedAt>>

Users == {"bootstrap", "a", "b", "expiring", "revocable"}
UserOrder == <<"bootstrap", "a", "b", "expiring", "revocable">>
Group(g, names) == {<<g, n>> : n \in names}

(* A step: who acts, what it makes, what it reads, and what the code looks *)
(* for right after it.                                                     *)
ToolSteps == <<
  <<"manifest", <<"manifest", "pinned">>, {}, {}>>,
  <<"fetch", <<"archive", "nats-server">>, {}, {}>>,
  <<"fetch", <<"archive", "nsc">>, {}, {}>>,
  <<"tar", <<"tool", "nats-server">>, {<<"archive", "nats-server">>}, {}>>,
  <<"unzip", <<"tool", "nsc">>, {<<"archive", "nsc">>}, Group("tool", {"nats-server", "nsc"})>>,
  <<"nats-server", <<"version", "nats-server">>, {<<"tool", "nats-server">>}, {}>>,
  <<"nsc", <<"version", "nsc">>, {<<"tool", "nsc">>}, Group("version", {"nats-server", "nsc"})>>>>

TlsSteps == <<
  <<"openssl", <<"tls", "ca">>, {}, {}>>,
  <<"openssl", <<"tls", "csr">>, {}, {}>>,
  <<"openssl", <<"tls", "cert">>, Group("tls", {"ca", "csr"}), {}>>,
  <<"openssl", <<"tls", "verified">>, Group("tls", {"ca", "cert"}), Group("tls", {"ca", "csr", "cert"})>>>>

OperatorSteps == <<
  <<"nsc", <<"sys", "jwt">>, {}, {}>>,
  <<"nsc", <<"sys", "userless">>, {<<"sys", "jwt">>}, {}>>,
  <<"nsc", <<"account", "jwt">>, {<<"sys", "jwt">>}, {}>>>>

AccountSteps == <<
  <<"nsc", <<"account", "signer">>, {<<"account", "jwt">>}, {}>>,
  <<"nsc", <<"account", "js-disabled">>, {<<"account", "jwt">>}, {}>>,
  <<"nsc", <<"account", "js-enabled">>, {<<"account", "jwt">>}, {}>>,
  <<"nsc", <<"account", "limits">>, {<<"account", "jwt">>}, Group("account", {"jwt", "signer"})>>>>

UserSteps ==
  [k \in 1 .. 5 |-> <<"nsc", <<"user", UserOrder[k]>>, Group("account", {"jwt", "signer"}), {}>>]
  \o [k \in 1 .. 5 |-> LET u == UserOrder[k] IN
        <<"nsc", <<"creds", u>>, {<<"user", u>>}, {<<"creds", u>>, <<"user", u>>}>>]

ResolverSteps == <<
  <<"nsc", <<"config", "resolver">>, {<<"sys", "jwt">>}, {}>>,
  <<"copy", <<"sys", "jwt">>, {<<"sys", "jwt">>}, {}>>,
  <<"copy", <<"account", "jwt">>, {<<"account", "jwt">>}, {}>>>>

ServerSteps == <<
  <<"write", <<"config", "server">>, {<<"config", "resolver">>}, {}>>,
  <<"nats-server", <<"config", "tested">>, {<<"config", "server">>} \cup Group("tls", {"csr", "cert"}), {}>>,
  <<"start", <<"process", "nats-server">>, {}, {}>>>>

(* Mutant: the resolver's copies are made as soon as there is an account.  *)
Prep_CopiesEarly == ToolSteps \o TlsSteps \o OperatorSteps \o ResolverSteps
                    \o AccountSteps \o UserSteps \o ServerSteps

Prep == ToolSteps \o TlsSteps \o OperatorSteps \o AccountSteps \o UserSteps
        \o ResolverSteps \o ServerSteps

Actor == Prep[step][1]
Product == Prep[step][2]
Inputs == Prep[step][3]
Looked == Prep[step][4]

PrepInit ==
  /\ faults \in BOOLEAN /\ step = 1 /\ outcome = "running"
  /\ made = {} /\ altered = {} /\ ran = {} /\ resolver = {}
  /\ now = 1 /\ issuedAt = 0

Preparing(actors) == outcome = "running" /\ Actor \in actors
Proceed == step' = step + 1 /\ UNCHANGED outcome
Throw == outcome' = "threw" /\ UNCHANGED step

(* A child process; ok is its exit status, works whether it did the work.  *)
runCommand ==
  /\ Preparing({"tar", "unzip", "nats-server", "nsc", "openssl"})
  /\ \E works, ok \in BOOLEAN :
       /\ works => Inputs \subseteq made
       /\ ok # works => faults
       /\ ~ok => faults \/ ~Inputs \subseteq made
       /\ made' = IF works THEN made \cup {Product} ELSE made
       /\ altered' = IF works /\ Inputs \cap altered # {} THEN altered \cup {Product} ELSE altered
       /\ issuedAt' = IF works /\ Product = <<"user", "revocable">> THEN now ELSE issuedAt
       /\ IF ok /\ Looked \subseteq made' THEN Proceed ELSE Throw
  /\ ran' = ran \cup {Actor}
  /\ UNCHANGED <<faults, resolver, now>>

(* Mutant: the digest of what was downloaded is reported and not compared. *)
DigestMatches_Any(content) == TRUE

DigestMatches(content) == content = "pinned"

(* The archive is written, read back and compared with the manifest.       *)
downloadVerified ==
  LET archive == <<"archive", Product[2]>> IN
  /\ Preparing({"fetch"})
  /\ \/ faults /\ Throw /\ UNCHANGED <<made, altered>>
     \/ \E content \in {"pinned"} \cup (IF faults THEN {"other"} ELSE {}) :
          /\ made' = made \cup {archive}
          /\ altered' = IF content = "other" THEN altered \cup {archive} ELSE altered
          /\ IF DigestMatches(content) THEN Proceed ELSE Throw
  /\ UNCHANGED <<faults, ran, resolver, now, issuedAt>>

(* The manifest is valid and has this platform, or the run ends.           *)
selectToolchain ==
  /\ Preparing({"manifest"})
  /\ Proceed \/ (faults /\ Throw)
  /\ UNCHANGED <<faults, made, altered, ran, resolver, now, issuedAt>>

(* The code's own work on files, which throws without its source: the      *)
(* resolver's copies of an account JWT as it is then, the configuration.   *)
CopyFile ==
  /\ Preparing({"copy", "write"})
  /\ \/ /\ Inputs \subseteq made /\ Proceed
        /\ made' = made \cup {Product}
        /\ resolver' = IF Actor = "copy"
                       THEN resolver \cup {a \in made : a[1] = Product[1]} ELSE resolver
     \/ (faults \/ ~Inputs \subseteq made) /\ Throw /\ UNCHANGED <<made, resolver>>
  /\ UNCHANGED <<faults, altered, ran, now, issuedAt>>

StartServer ==
  /\ Preparing({"start"})
  /\ outcome' = "serving" /\ step' = step + 1 /\ ran' = ran \cup {"nats-server"}
  /\ UNCHANGED <<faults, made, altered, resolver, now, issuedAt>>

Prepare == selectToolchain \/ runCommand \/ downloadVerified \/ CopyFile \/ StartServer

(* The clock goes on, and may be set back.                                 *)
Clock ==
  /\ now' \in (IF now < MaxNow THEN {now + 1} ELSE {}) \cup (IF faults /\ now > 1 THEN {now - 1} ELSE {})
  /\ UNCHANGED <<faults, step, outcome, made, altered, ran, resolver, issuedAt>>
-----------------------------------------------------------------------------
(* The server is started only when everything it and its clients need is   *)
(* there, whichever command failed, did nothing, or did half: both tools,  *)
(* certificate with its key and CA, credentials of all users, and in the   *)
(* resolver both accounts, COMMONS with the key that signed the            *)
(* credentials.                                                            *)
StartsComplete ==
  outcome = "serving" =>
    /\ Group("tool", {"nats-server", "nsc"}) \cup Group("tls", {"ca", "csr", "cert"})
         \cup Group("creds", Users) \subseteq made
    /\ {<<"sys", "jwt">>} \cup Group("account", {"jwt", "signer"}) \subseteq resolver

(* No downloaded program runs unless its archive is what the manifest pins. *)
NothingUnverifiedRuns == \A t \in ran : <<"tool", t>> \notin altered
=============================================================================
