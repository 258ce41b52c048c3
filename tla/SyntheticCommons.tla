-------------------------- MODULE SyntheticCommons --------------------------
(***************************************************************************)
(* The class SyntheticCommons of src/src/synthetic-transport.mjs: an       *)
(* in-memory bus of synthetic residents with one log, a reading cursor per *)
(* resident and a set of revoked residents.                                *)
(*                                                                         *)
(* The class is modelled under an open environment: any caller may call    *)
(* any method with any arguments in any order, which is what a test can    *)
(* only sample.  A method that throws does so before its first assignment, *)
(* so a refused call is a stuttering step; the tests it fails are the      *)
(* conjuncts of the guard.                                                 *)
(*                                                                         *)
(* Abstractions.  A label is a model value, and whether it matches the     *)
(* pattern of synthetic ids is membership in Synthetic.  An event keeps    *)
(* its id, sender, recipients (a sequence: their order enters the digest)  *)
(* and body; sent_at and schema only matter through Malformed, the events  *)
(* whose fields validateEvent refuses.  A digest is the tuple of the       *)
(* fields in canonical order (canonicalJson sorts the keys), SHA-256 being *)
(* taken as injective.                                                     *)
(***************************************************************************)
EXTENDS Integers, Sequences

CONSTANTS
  Label,             \* strings a caller may pass as a resident
  Synthetic,         \* those isSyntheticIdentity accepts
  EventId,
  Body,
  Event,             \* the event objects callers pass
  Malformed,         \* those with a field of a shape validateEvent refuses
  CredentialShaped   \* those containsCredentialShape matches

ASSUME LabelAssumption == Synthetic \subseteq Label

ASSUME EventAssumption ==
  /\ Event \subseteq [event_id : EventId, from : Label, to : Seq(Label),
                      body : Body]
  /\ Malformed \subseteq Event
  /\ CredentialShaped \subseteq Event

VARIABLES
  residents,   \* #residents: every label that ever connected
  revoked,     \* #revoked
  messages,    \* #messages: the log, in order
  messageIds,  \* #messageIds: from a message id to its stored record
  cursors,     \* #cursors: from a resident to the last sequence acknowledged
  receipts,    \* history: the replies of publish, with the event published
  acks         \* history: the replies of acknowledge that moved a cursor

state == <<residents, revoked, messages, messageIds, cursors>>
vars == <<residents, revoked, messages, messageIds, cursors, receipts, acks>>

----------------------------------------------------------------------------
(* Map.set of JavaScript: replaces the value of a key or adds the key.     *)
MapSet(map, key, value) ==
  [k \in DOMAIN map \cup {key} |-> IF k = key THEN value ELSE map[k]]

canonicalSenderSubject(label) == <<"commons", label>>

Subject == {canonicalSenderSubject(l) : l \in Label}

(* Mutant: the digest leaves the body out.                                 *)
digestEvent_NoBody(event) == <<event.event_id, event.from, event.to>>

digestEvent(event) == <<event.body, event.event_id, event.from, event.to>>

(* The recipients are synthetic and none is named twice.                   *)
RecipientsValid(to) ==
  \A i \in DOMAIN to : to[i] \in Synthetic /\ \A j \in DOMAIN to : to[i] = to[j] => i = j

EventValid(event) ==
  /\ event \notin Malformed
  /\ event.from \in Synthetic
  /\ RecipientsValid(event.to)

isAttentionFor(event, resident) ==
  event.to = <<>> \/ \E i \in DOMAIN event.to : event.to[i] = resident

(* Mutant: the check of a method forgets revocation.                       *)
Active_Known(label) == label \in residents

(* #assertActive: known and not revoked.                                   *)
Active(label) == label \in residents /\ label \notin revoked

----------------------------------------------------------------------------
Init ==
  /\ residents = {}
  /\ revoked = {}
  /\ messages = <<>>
  /\ messageIds = [id \in {} |-> 0]
  /\ cursors = [r \in {} |-> 0]
  /\ receipts = {}
  /\ acks = {}

(* Mutant: a reconnection starts again from the beginning of the log.      *)
Connect_Restarts(label) ==
  /\ label \in Synthetic
  /\ label \notin revoked
  /\ residents' = residents \cup {label}
  /\ cursors' = MapSet(cursors, label, 0)
  /\ UNCHANGED <<revoked, messages, messageIds, receipts, acks>>

(* connect: the first one starts the cursor at 0, a later one keeps it.    *)
Connect(label) ==
  /\ label \in Synthetic
  /\ label \notin revoked
  /\ residents' = residents \cup {label}
  /\ cursors' = IF label \in DOMAIN cursors THEN cursors
                ELSE MapSet(cursors, label, 0)
  /\ UNCHANGED <<revoked, messages, messageIds, receipts, acks>>

(* Mutant: revoke accepts a label it has never seen.                       *)
Revoke_Unknown(label) ==
  /\ revoked' = revoked \cup {label}
  /\ UNCHANGED <<residents, messages, messageIds, cursors, receipts, acks>>

(* revoke: a known resident, revoked already or not.                       *)
Revoke(label) ==
  /\ label \in residents
  /\ revoked' = revoked \cup {label}
  /\ UNCHANGED <<residents, messages, messageIds, cursors, receipts, acks>>

(* Mutant: the subject is compared with the actor, the sender is not.      *)
MayPublish_AnySender(actor, subject, event, messageId) ==
  /\ Active(actor)
  /\ EventValid(event)
  /\ subject = canonicalSenderSubject(actor)
  /\ messageId = event.event_id
  /\ event \notin CredentialShaped

(* The checks of publish that come before it looks at the message id.      *)
MayPublish(actor, subject, event, messageId) ==
  /\ Active(actor)
  /\ EventValid(event)
  /\ subject = canonicalSenderSubject(actor)
  /\ event.from = actor
  /\ messageId = event.event_id
  /\ event \notin CredentialShaped

(* publish of an id the commons has not stored: appended to the log.       *)
PublishNew(actor, subject, event, messageId) ==
  LET stored == [sequence |-> Len(messages) + 1, subject |-> subject,
                 event |-> event, digest |-> digestEvent(event)]
  IN  /\ MayPublish(actor, subject, event, messageId)
      /\ messageId \notin DOMAIN messageIds
      /\ messages' = Append(messages, stored)
      /\ messageIds' = MapSet(messageIds, messageId, stored)
      /\ receipts' = receipts \cup {[event |-> event, sequence |-> stored.sequence]}
      /\ UNCHANGED <<residents, revoked, cursors, acks>>

(* publish of a stored id: answered with the sequence of the first one if  *)
(* content and subject are the same, refused otherwise.                    *)
PublishDuplicate(actor, subject, event, messageId) ==
  /\ MayPublish(actor, subject, event, messageId)
  /\ messageId \in DOMAIN messageIds
  /\ LET previous == messageIds[messageId]
     IN  /\ previous.digest = digestEvent(event)
         /\ previous.subject = subject
         /\ receipts' = receipts \cup {[event |-> event, sequence |-> previous.sequence]}
  /\ UNCHANGED <<residents, revoked, messages, messageIds, cursors, acks>>

(* Mutant: the filter is off by one.                                       *)
ReadReply_AfterNext(label, after) ==
  {[message |-> messages[i], attention |-> isAttentionFor(messages[i].event, label)] :
     i \in {j \in DOMAIN messages : messages[j].sequence > after + 1}}

(* read: the messages after a position, with their attention flag.  It     *)
(* changes nothing; CommonsSessions models who is given what.              *)
ReadReply(label, after) ==
  {[message |-> messages[i], attention |-> isAttentionFor(messages[i].event, label)] :
     i \in {j \in DOMAIN messages : messages[j].sequence > after}}

(* Mutants: no compare-and-set; a cursor may go back; the last message     *)
(* cannot be acknowledged.                                                 *)
AckInOrder_NoCompare(label, expect, through) ==
  through >= cursors[label] /\ through <= Len(messages)
AckInOrder_Backwards(label, expect, through) ==
  expect = cursors[label] /\ through \in 0 .. Len(messages)
AckInOrder_NotLast(label, expect, through) ==
  expect = cursors[label] /\ through >= cursors[label] /\ through < Len(messages)

(* The compare-and-set and the range check of acknowledge.                 *)
AckInOrder(label, expect, through) ==
  /\ expect = cursors[label]
  /\ through >= cursors[label]
  /\ through <= Len(messages)

(* acknowledge: a compare-and-set of the cursor, forward and within the    *)
(* log.  The reply names the interval the caller has acknowledged.         *)
Acknowledge(label, expect, through) ==
  /\ Active(label)
  /\ AckInOrder(label, expect, through)
  /\ cursors' = MapSet(cursors, label, through)
  /\ acks' = IF through = cursors[label] THEN acks
             ELSE acks \cup {[resident |-> label, previous |-> cursors[label],
                              cursor |-> through]}
  /\ UNCHANGED <<residents, revoked, messages, messageIds, receipts>>

Next ==
  \E label \in Label :
    \/ Connect(label)
    \/ Revoke(label)
    \/ \E subject \in Subject, event \in Event, messageId \in EventId :
         \/ PublishNew(label, subject, event, messageId)
         \/ PublishDuplicate(label, subject, event, messageId)
    \/ \E expect, through \in -1 .. Len(messages) + 1 :
         Acknowledge(label, expect, through)

Spec == Init /\ [][Next]_vars

----------------------------------------------------------------------------
Stored == [sequence : Nat \ {0}, subject : Subject, event : Event,
           digest : {digestEvent(e) : e \in Event}]

(* Types of the private fields; every resident has a cursor, and only      *)
(* residents are revoked.                                                  *)
TypeOK ==
  /\ residents \subseteq Synthetic
  /\ revoked \subseteq residents
  /\ messages \in Seq(Stored)
  /\ DOMAIN messageIds \subseteq EventId
  /\ messageIds \in [DOMAIN messageIds -> Stored]
  /\ cursors \in [residents -> Nat]
  /\ receipts \subseteq [event : Event, sequence : Nat \ {0}]
  /\ acks \subseteq [resident : Label, previous : Nat, cursor : Nat]

(* The array and the map, written one after the other by publish, say the  *)
(* same thing: the map holds exactly the stored messages, each under its   *)
(* own id, so no id is stored twice.                                       *)
IdsIndexLog ==
  /\ \A id \in DOMAIN messageIds :
       /\ messageIds[id].sequence \in DOMAIN messages
       /\ messages[messageIds[id].sequence] = messageIds[id]
       /\ messageIds[id].event.event_id = id
  /\ \A i \in DOMAIN messages :
       /\ messages[i].sequence = i
       /\ messages[i].event.event_id \in DOMAIN messageIds
       /\ messageIds[messages[i].event.event_id].sequence = i

(* Whatever is in the log was published by the synthetic resident it names *)
(* on the subject of that resident, and no entry has a shape that publish  *)
(* refuses.                                                                *)
LogAdmissible ==
  \A i \in DOMAIN messages :
    LET event == messages[i].event
    IN  /\ messages[i].subject = canonicalSenderSubject(event.from)
        /\ messages[i].digest = digestEvent(event)
        /\ event.from \in residents
        /\ EventValid(event)
        /\ event \notin CredentialShaped

LogIntegrity == IdsIndexLog /\ LogAdmissible

(* Publishing may be retried: every sequence a publisher was ever given    *)
(* still denotes, in the log, the very event it published, so that all the *)
(* receipts of an event agree and receipts of different events never do.   *)
ReceiptsHonoured ==
  \A r \in receipts :
    r.sequence \in DOMAIN messages /\ messages[r.sequence].event = r.event

(* The intervals acknowledged by the callers of a resident, in whichever   *)
(* order and through however many reconnections, are disjoint and cover    *)
(* the log exactly up to the cursor: no message is acknowledged twice or   *)
(* passed over, nor acknowledged before it is there.                       *)
Interval(ack) == ack.previous + 1 .. ack.cursor
AcksOf(label) == {a \in acks : a.resident = label}

PartitionFor(label) ==
  /\ \A a, b \in AcksOf(label) : a # b => Interval(a) \cap Interval(b) = {}
  /\ \A n \in 1 .. cursors[label] : \E a \in AcksOf(label) : n \in Interval(a)
  /\ \A a \in AcksOf(label) : a.cursor <= cursors[label]
  /\ cursors[label] <= Len(messages)

AcksPartition ==
  /\ \A label \in residents : PartitionFor(label)
  /\ \A a \in acks : a.resident \in residents

(* Revocation is final: whatever is called afterwards, the resident stays  *)
(* revoked, none of its events enters the log and its cursor stands still. *)
RevokedFrozen ==
  [][\A label \in revoked :
       /\ label \in revoked'
       /\ cursors'[label] = cursors[label]
       /\ \A i \in DOMAIN messages' \ DOMAIN messages :
            messages'[i].event.from # label]_vars

----------------------------------------------------------------------------
(* The contract the commons implements: its log without the bookkeeping,   *)
(* position 0 for a label that has not connected yet.                      *)
LogView ==
  [i \in DOMAIN messages |->
     [id |-> messages[i].event.event_id, sender |-> messages[i].event.from,
      content |-> messages[i].event]]
PositionView == [l \in Label |-> IF l \in residents THEN cursors[l] ELSE 0]

Contract == INSTANCE CommonsContract WITH
  Member <- Label, Id <- EventId, Content <- Event,
  log <- LogView, position <- PositionView, barred <- revoked

(* SyntheticCommons implements CommonsContract: connections, retries and   *)
(* refused calls are invisible, the log only grows, positions only advance *)
(* within it, barred residents do nothing.                                 *)
ImplementsContract == Contract!Spec
=============================================================================
