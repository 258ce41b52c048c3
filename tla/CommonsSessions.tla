-------------------------- MODULE CommonsSessions --------------------------
(***************************************************************************)
(* Clients of SyntheticCommons.  A resident is served by any number of     *)
(* sessions that follow the protocol of runSimulation in                   *)
(* src/src/simulation.mjs: connect, read, acknowledge with the cursor they *)
(* believe to be current, read again.  Between two calls of a session any  *)
(* other session, publisher or revocation may come, and a session may be   *)
(* lost with what it has read; the commons itself lives on.                *)
(*                                                                         *)
(* Each call is atomic (the class is synchronous), so what is interleaved  *)
(* is whole calls: the cursor a session learnt may be stale when it is     *)
(* used, and the compare-and-set of acknowledge is what the properties     *)
(* below rest on.                                                          *)
(***************************************************************************)
EXTENDS SyntheticCommons, FiniteSets

CONSTANTS
  Session,
  owner,       \* [Session -> Synthetic]: the resident a session acts for
  MaxCrashes   \* bound: how many times sessions are lost

ASSUME SessionAssumption ==
  /\ owner \in [Session -> Synthetic]
  /\ MaxCrashes \in Nat

VARIABLES
  phase,       \* "offline", "ready" to read, "holding" a batch it has read
  expect,      \* the cursor the session believes to be current
  batch,       \* the sequences it has read and not acknowledged
  delivered,   \* history: per resident, the sequences any session was given
  commits,     \* history: what each acknowledgement settled
  crashes

sessionVars == <<phase, expect, batch>>
allVars == <<vars, sessionVars, delivered, commits, crashes>>

SessionInit ==
  /\ Init
  /\ phase = [s \in Session |-> "offline"]
  /\ expect = [s \in Session |-> 0]
  /\ batch = [s \in Session |-> {}]
  /\ delivered = [l \in Label |-> {}]
  /\ commits = {}
  /\ crashes = 0

(* connect returns the cursor, from which the session starts.              *)
Join(s) ==
  /\ phase[s] = "offline"
  /\ Connect(owner[s])
  /\ phase' = [phase EXCEPT ![s] = "ready"]
  /\ expect' = [expect EXCEPT ![s] = cursors'[owner[s]]]
  /\ UNCHANGED <<batch, delivered, commits, crashes>>

(* read, either after the cursor of the commons (the default) or after the *)
(* one the session remembers.  An empty reply is read again.               *)
Fetch(s) ==
  LET resident == owner[s] IN
  /\ phase[s] = "ready"
  /\ Active(resident)
  /\ \E after \in {cursors[resident], expect[s]} :
       LET given == {m.message.sequence : m \in ReadReply(resident, after)}
       IN  /\ given # {}
           /\ batch' = [batch EXCEPT ![s] = given]
           /\ delivered' = [delivered EXCEPT ![resident] = @ \cup given]
  /\ phase' = [phase EXCEPT ![s] = "holding"]
  /\ UNCHANGED <<vars, expect, commits, crashes>>

(* acknowledge a prefix of what was read; the rest is read again.          *)
Settle(s) ==
  /\ phase[s] = "holding"
  /\ \E through \in batch[s] :
       /\ Acknowledge(owner[s], expect[s], through)
       /\ commits' = commits \cup
            {[resident |-> owner[s], settled |-> {n \in batch[s] : n <= through}]}
       /\ expect' = [expect EXCEPT ![s] = through]
  /\ batch' = [batch EXCEPT ![s] = {}]
  /\ phase' = [phase EXCEPT ![s] = "ready"]
  /\ UNCHANGED <<delivered, crashes>>

(* Mutant: the batch of a lost race is kept.                               *)
Conflict_KeepsBatch(s) ==
  /\ phase[s] = "holding"
  /\ Active(owner[s])
  /\ expect[s] # cursors[owner[s]]
  /\ expect' = [expect EXCEPT ![s] = cursors[owner[s]]]
  /\ phase' = [phase EXCEPT ![s] = "ready"]
  /\ UNCHANGED <<vars, batch, delivered, commits, crashes>>

(* CURSOR_CONFLICT: another session moved the cursor.  The batch is let    *)
(* go, and cursor() tells where to go on.                                  *)
Conflict(s) ==
  /\ phase[s] = "holding"
  /\ Active(owner[s])
  /\ expect[s] # cursors[owner[s]]
  /\ expect' = [expect EXCEPT ![s] = cursors[owner[s]]]
  /\ batch' = [batch EXCEPT ![s] = {}]
  /\ phase' = [phase EXCEPT ![s] = "ready"]
  /\ UNCHANGED <<vars, delivered, commits, crashes>>

Crash(s) ==
  /\ phase[s] # "offline"
  /\ crashes < MaxCrashes
  /\ crashes' = crashes + 1
  /\ phase' = [phase EXCEPT ![s] = "offline"]
  /\ batch' = [batch EXCEPT ![s] = {}]
  /\ UNCHANGED <<vars, expect, delivered, commits>>

(* Whoever publishes and revokes.                                          *)
Others ==
  /\ \E label \in Label :
       \/ Revoke(label)
       \/ \E event \in Event :
            \/ PublishNew(label, canonicalSenderSubject(label), event, event.event_id)
            \/ PublishDuplicate(label, canonicalSenderSubject(label), event, event.event_id)
  /\ UNCHANGED <<sessionVars, delivered, commits, crashes>>

Work(s) == Join(s) \/ Fetch(s) \/ Settle(s) \/ Conflict(s)

SessionNext ==
  \/ \E s \in Session : Work(s) \/ Crash(s)
  \/ Others

SafeSpec == SessionInit /\ [][SessionNext]_allVars

(* A session that can take its next step eventually does: it polls.        *)
SessionSpec == SafeSpec /\ \A s \in Session : WF_allVars(Work(s))

----------------------------------------------------------------------------
SessionTypeOK ==
  /\ phase \in [Session -> {"offline", "ready", "holding"}]
  /\ expect \in [Session -> Nat]
  /\ batch \in [Session -> SUBSET (Nat \ {0})]
  /\ delivered \in [Label -> SUBSET (Nat \ {0})]
  /\ \A s \in Session : phase[s] = "holding" <=> batch[s] # {}

(* No message is passed over: whatever lies at or before the cursor of a   *)
(* resident was given to one of its sessions, although sessions use stale  *)
(* cursors and lose what they have read.                                   *)
NothingSkipped ==
  \A label \in residents : 1 .. cursors[label] \subseteq delivered[label]

(* No message is settled twice: of all the sessions of a resident that     *)
(* read a message, exactly one has its acknowledgement accepted for it     *)
(* (that is what the compare-and-set of acknowledge is for), and up to the *)
(* cursor every message has one.                                           *)
SettledOnce ==
  \A label \in residents :
    LET mine == {c \in commits : c.resident = label}
    IN  /\ \A c, d \in mine : c # d => c.settled \cap d.settled = {}
        /\ UNION {c.settled : c \in mine} = 1 .. cursors[label]

(* Every resident that stays catches up: once the log has n messages, the  *)
(* cursor of a resident with sessions reaches n unless it is revoked.      *)
CatchesUp ==
  \A s \in Session, n \in 1 .. Cardinality(EventId) :
    Len(messages) >= n ~> \/ owner[s] \in revoked
                          \/ owner[s] \in residents /\ cursors[owner[s]] >= n
=============================================================================
