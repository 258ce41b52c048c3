----------------------- MODULE SyntheticCommonsProofs -----------------------
(***************************************************************************)
(* What SyntheticCommons guarantees for any number of residents, events    *)
(* and calls.                                                              *)
(***************************************************************************)
EXTENDS SyntheticCommons, TLAPS

(* The fields of an event, as the assumption on Event gives them.          *)
LEMMA EventFields ==
  \A event \in Event :
    /\ event.event_id \in EventId
    /\ event.from \in Label
    /\ event.to \in Seq(Label)
    /\ event.body \in Body
BY EventAssumption

(* The record publish stores is well-typed, and appending it keeps the log *)
(* a log and the map a map.                                                *)
LEMMA PublishNewTypes ==
  ASSUME TypeOK, NEW label \in Label, NEW subject \in Subject,
         NEW event \in Event, NEW messageId \in EventId,
         PublishNew(label, subject, event, messageId)
  PROVE  /\ messages' \in Seq(Stored)
         /\ DOMAIN messageIds' = DOMAIN messageIds \cup {messageId}
         /\ messageIds' \in [DOMAIN messageIds' -> Stored]
         /\ Len(messages') = Len(messages) + 1
         /\ \A i \in 1 .. Len(messages) : messages'[i] = messages[i]
<1> DEFINE stored == [sequence |-> Len(messages) + 1, subject |-> subject,
                      event |-> event, digest |-> digestEvent(event)]
<1>1. messages \in Seq(Stored) /\ Len(messages) \in Nat
  BY DEF TypeOK
<1>2. stored \in Stored
  BY <1>1, EventFields DEF Stored
<1>3. messages' = Append(messages, stored)
  BY DEF PublishNew
<1>4. messageIds' = MapSet(messageIds, messageId, stored)
  BY DEF PublishNew
<1>5. messageIds \in [DOMAIN messageIds -> Stored]
  BY DEF TypeOK
<1> HIDE DEF stored
<1>6. /\ DOMAIN messageIds' = DOMAIN messageIds \cup {messageId}
      /\ messageIds' \in [DOMAIN messageIds' -> Stored]
  BY <1>2, <1>4, <1>5 DEF MapSet
<1>7. QED BY <1>1, <1>2, <1>3, <1>6

LEMMA TypeInit == Init => TypeOK
BY DEF Init, TypeOK

LEMMA TypeStep == TypeOK /\ [Next]_vars => TypeOK'
<1> SUFFICES ASSUME TypeOK, [Next]_vars PROVE TypeOK'
  OBVIOUS
<1>1. CASE UNCHANGED vars
  BY <1>1 DEF TypeOK, vars
<1>2. ASSUME NEW label \in Label, Connect(label) PROVE TypeOK'
  <2>1. cursors' \in [residents' -> Nat]
    BY <1>2 DEF Connect, TypeOK, MapSet
  <2>2. QED BY <1>2, <2>1 DEF Connect, TypeOK
<1>3. ASSUME NEW label \in Label, Revoke(label) PROVE TypeOK'
  BY <1>3 DEF Revoke, TypeOK
<1>4. ASSUME NEW label \in Label, NEW subject \in Subject, NEW event \in Event,
             NEW messageId \in EventId,
             PublishNew(label, subject, event, messageId)
      PROVE  TypeOK'
  <2>1. /\ messages' \in Seq(Stored)
        /\ DOMAIN messageIds' \subseteq EventId
        /\ messageIds' \in [DOMAIN messageIds' -> Stored]
    <3>1. /\ messages' \in Seq(Stored)
          /\ DOMAIN messageIds' = DOMAIN messageIds \cup {messageId}
          /\ messageIds' \in [DOMAIN messageIds' -> Stored]
      BY <1>4, PublishNewTypes
    <3>2. QED BY <3>1 DEF TypeOK
  <2>2. receipts' \subseteq [event : Event, sequence : Nat \ {0}]
    <3>1. Len(messages) + 1 \in Nat \ {0}
      BY DEF TypeOK
    <3>2. receipts' = receipts \cup {[event |-> event, sequence |-> Len(messages) + 1]}
      BY <1>4 DEF PublishNew
    <3>3. QED BY <3>1, <3>2 DEF TypeOK
  <2>3. UNCHANGED <<residents, revoked, cursors, acks>>
    BY <1>4 DEF PublishNew
  <2>4. QED BY <2>1, <2>2, <2>3 DEF TypeOK
<1>5. ASSUME NEW label \in Label, NEW subject \in Subject, NEW event \in Event,
             NEW messageId \in EventId,
             PublishDuplicate(label, subject, event, messageId)
      PROVE  TypeOK'
  <2>1. messageIds[messageId].sequence \in Nat \ {0}
    BY <1>5 DEF PublishDuplicate, TypeOK, Stored
  <2>2. receipts' = receipts \cup
          {[event |-> event, sequence |-> messageIds[messageId].sequence]}
    BY <1>5 DEF PublishDuplicate
  <2>3. UNCHANGED <<residents, revoked, messages, messageIds, cursors, acks>>
    BY <1>5 DEF PublishDuplicate
  <2>4. QED BY <2>1, <2>2, <2>3 DEF TypeOK
<1>6. ASSUME NEW label \in Label, NEW expect \in -1 .. Len(messages) + 1,
             NEW through \in -1 .. Len(messages) + 1,
             Acknowledge(label, expect, through)
      PROVE  TypeOK'
  <2>1. label \in residents /\ cursors[label] \in Nat /\ through \in Nat
    BY <1>6 DEF Acknowledge, AckInOrder, Active, TypeOK
  <2>2. cursors' \in [residents -> Nat]
    BY <1>6, <2>1 DEF Acknowledge, AckInOrder, TypeOK, MapSet
  <2>3. acks' \subseteq [resident : Label, previous : Nat, cursor : Nat]
    BY <1>6, <2>1 DEF Acknowledge, AckInOrder, TypeOK
  <2>4. UNCHANGED <<residents, revoked, messages, messageIds, receipts>>
    BY <1>6 DEF Acknowledge
  <2>5. QED BY <2>2, <2>3, <2>4 DEF TypeOK
<1>7. QED BY <1>1, <1>2, <1>3, <1>4, <1>5, <1>6 DEF Next

(* The private fields keep their types, every resident keeps a cursor, and *)
(* only residents are ever revoked.                                        *)
THEOREM TypeCorrect == Spec => []TypeOK
BY TypeInit, TypeStep, PTL DEF Spec

----------------------------------------------------------------------------
(* Only PublishNew writes the log or its index.                            *)
LEMMA WhoWrites ==
  ASSUME [Next]_vars
  PROVE  \/ UNCHANGED <<messages, messageIds>>
         \/ \E label \in Label, subject \in Subject, event \in Event,
               messageId \in EventId :
              PublishNew(label, subject, event, messageId)
<1>1. CASE UNCHANGED vars
  BY <1>1 DEF vars
<1>2. CASE Next
  BY <1>2 DEF Next, Connect, Revoke, PublishDuplicate, Acknowledge
<1>3. QED BY <1>1, <1>2

LEMMA ResidentsRemain == [Next]_vars => residents \subseteq residents'
BY DEF Next, vars, Connect, Revoke, PublishNew, PublishDuplicate, Acknowledge

LEMMA LogStep == TypeOK /\ LogIntegrity /\ [Next]_vars => LogIntegrity'
<1> SUFFICES ASSUME TypeOK, LogIntegrity, [Next]_vars PROVE LogIntegrity'
  OBVIOUS
<1>1. CASE UNCHANGED <<messages, messageIds>>
  BY <1>1, ResidentsRemain
  DEF LogIntegrity, IdsIndexLog, LogAdmissible, EventValid, RecipientsValid
<1>2. ASSUME NEW label \in Label, NEW subject \in Subject, NEW event \in Event,
             NEW messageId \in EventId,
             PublishNew(label, subject, event, messageId)
      PROVE  LogIntegrity'
  <2> DEFINE n == Len(messages) + 1
             stored == [sequence |-> n, subject |-> subject,
                        event |-> event, digest |-> digestEvent(event)]
  <2>1. /\ messages \in Seq(Stored)
        /\ Len(messages) \in Nat
        /\ n \in Nat
        /\ n \notin DOMAIN messages
    BY DEF TypeOK
  <2>2. /\ messages' = Append(messages, stored)
        /\ messageIds' = MapSet(messageIds, messageId, stored)
        /\ messageId \notin DOMAIN messageIds
        /\ messageId = event.event_id
    BY <1>2 DEF PublishNew, MayPublish
  <2>3. /\ DOMAIN messages' = DOMAIN messages \cup {n}
        /\ messages'[n] = stored
        /\ \A i \in DOMAIN messages : messages'[i] = messages[i]
    BY <2>1, <2>2
  <2>4. /\ DOMAIN messageIds' = DOMAIN messageIds \cup {messageId}
        /\ messageIds'[messageId] = stored
        /\ \A id \in DOMAIN messageIds : messageIds'[id] = messageIds[id]
    BY <2>2 DEF MapSet
  <2>5. /\ stored.sequence = n
        /\ stored.event = event
        /\ stored.subject = subject
        /\ stored.digest = digestEvent(event)
    OBVIOUS
  <2> HIDE DEF n, stored
  <2>6. IdsIndexLog'
    <3>1. ASSUME NEW id \in DOMAIN messageIds'
          PROVE  /\ messageIds'[id].sequence \in DOMAIN messages'
                 /\ messages'[messageIds'[id].sequence] = messageIds'[id]
                 /\ messageIds'[id].event.event_id = id
      BY <2>2, <2>3, <2>4, <2>5 DEF LogIntegrity, IdsIndexLog
    <3>2. ASSUME NEW i \in DOMAIN messages'
          PROVE  /\ messages'[i].sequence = i
                 /\ messages'[i].event.event_id \in DOMAIN messageIds'
                 /\ messageIds'[messages'[i].event.event_id].sequence = i
      BY <2>2, <2>3, <2>4, <2>5 DEF LogIntegrity, IdsIndexLog
    <3>3. QED BY <3>1, <3>2 DEF IdsIndexLog
  <2>7. LogAdmissible'
    <3>1. /\ EventValid(event)
          /\ subject = canonicalSenderSubject(event.from)
          /\ event.from \in residents
          /\ event \notin CredentialShaped
          /\ residents' = residents
      BY <1>2 DEF PublishNew, MayPublish, Active
    <3>2. QED BY <2>3, <2>5, <3>1 DEF LogIntegrity, LogAdmissible
  <2>8. QED BY <2>6, <2>7 DEF LogIntegrity
<1>3. QED BY <1>1, <1>2, WhoWrites

(* The log and its index never disagree, no id is stored twice, and the    *)
(* log holds only what publish admits.                                     *)
THEOREM LogIsSound == Spec => []LogIntegrity
<1>1. Init => LogIntegrity
  BY DEF Init, LogIntegrity, IdsIndexLog, LogAdmissible
<1>2. QED BY <1>1, LogStep, TypeCorrect, PTL DEF Spec

----------------------------------------------------------------------------
LEMMA ReceiptStep ==
  TypeOK /\ LogIntegrity /\ ReceiptsHonoured /\ [Next]_vars => ReceiptsHonoured'
<1> SUFFICES ASSUME TypeOK, LogIntegrity, ReceiptsHonoured, [Next]_vars
             PROVE  ReceiptsHonoured'
  OBVIOUS
<1>1. CASE UNCHANGED <<messages, receipts>>
  BY <1>1 DEF ReceiptsHonoured
<1>2. ASSUME NEW label \in Label, NEW subject \in Subject, NEW event \in Event,
             NEW messageId \in EventId,
             PublishNew(label, subject, event, messageId)
      PROVE  ReceiptsHonoured'
  <2>1. messages \in Seq(Stored) /\ Len(messages) \in Nat
    BY DEF TypeOK
  <2>2. /\ messages' = Append(messages, [sequence |-> Len(messages) + 1,
               subject |-> subject, event |-> event, digest |-> digestEvent(event)])
        /\ receipts' = receipts \cup {[event |-> event, sequence |-> Len(messages) + 1]}
    BY <1>2 DEF PublishNew
  <2>3. /\ DOMAIN messages' = DOMAIN messages \cup {Len(messages) + 1}
        /\ messages'[Len(messages) + 1].event = event
        /\ \A i \in DOMAIN messages : messages'[i] = messages[i]
    BY <2>1, <2>2
  <2>4. QED BY <2>2, <2>3 DEF ReceiptsHonoured
<1>3. ASSUME NEW label \in Label, NEW subject \in Subject, NEW event \in Event,
             NEW messageId \in EventId,
             PublishDuplicate(label, subject, event, messageId)
      PROVE  ReceiptsHonoured'
  <2> DEFINE previous == messageIds[messageId]
  <2>1. /\ messageId \in DOMAIN messageIds
        /\ previous.digest = digestEvent(event)
        /\ receipts' = receipts \cup {[event |-> event, sequence |-> previous.sequence]}
        /\ messages' = messages
    BY <1>3 DEF PublishDuplicate
  <2>2. previous.sequence \in DOMAIN messages /\ messages[previous.sequence] = previous
    BY <2>1 DEF LogIntegrity, IdsIndexLog
  <2>3. /\ previous.event \in Event
        /\ previous.digest = digestEvent(previous.event)
    BY <2>1, <2>2 DEF LogIntegrity, LogAdmissible, TypeOK, Stored
  <2>4. previous.event = event
    <3> DEFINE fields == [event_id : EventId, from : Label, to : Seq(Label), body : Body]
    <3>1. previous.event \in fields /\ event \in fields
      BY <2>3, EventAssumption
    <3>2. /\ previous.event.event_id = event.event_id
          /\ previous.event.from = event.from
          /\ previous.event.to = event.to
          /\ previous.event.body = event.body
      BY <2>1, <2>3 DEF digestEvent
    <3>3. QED BY <3>1, <3>2
  <2>5. QED BY <2>1, <2>2, <2>4 DEF ReceiptsHonoured
<1>4. CASE UNCHANGED vars
  BY <1>4, <1>1 DEF vars
<1>5. QED
  BY <1>1, <1>2, <1>3, <1>4 DEF Next, Connect, Revoke, Acknowledge

(* A sequence handed to a publisher denotes its event for ever.            *)
THEOREM ReceiptsAreHonoured == Spec => []ReceiptsHonoured
<1>1. Init => ReceiptsHonoured
  BY DEF Init, ReceiptsHonoured
<1>2. QED BY <1>1, ReceiptStep, TypeCorrect, LogIsSound, PTL DEF Spec

----------------------------------------------------------------------------
LEMMA AcksStep == TypeOK /\ AcksPartition /\ [Next]_vars => AcksPartition'
<1> SUFFICES ASSUME TypeOK, AcksPartition, [Next]_vars PROVE AcksPartition'
  OBVIOUS
<1> USE DEF AcksPartition
<1>1. ASSUME UNCHANGED <<residents, cursors, acks>>,
             messages' \in Seq(Stored), Len(messages') >= Len(messages)
      PROVE  AcksPartition'
  <2>1. ASSUME NEW r \in residents PROVE PartitionFor(r)'
    <3>1. PartitionFor(r) /\ cursors[r] \in Nat /\ Len(messages) \in Nat /\ Len(messages') \in Nat
      BY <1>1 DEF TypeOK
    <3>2. QED BY <1>1, <3>1 DEF PartitionFor, AcksOf, Interval
  <2>2. QED BY <1>1, <2>1
<1>2. ASSUME NEW label \in Label, Connect(label) PROVE AcksPartition'
  <2>1. /\ residents' = residents \cup {label}
        /\ acks' = acks /\ messages' = messages
        /\ \A r \in residents : cursors'[r] = cursors[r]
        /\ label \notin residents => cursors'[label] = 0
    BY <1>2 DEF Connect, MapSet, TypeOK
  <2>2. ASSUME NEW r \in residents PROVE PartitionFor(r)'
    BY <2>1, <2>2 DEF PartitionFor, AcksOf, Interval
  <2>3. ASSUME label \notin residents PROVE PartitionFor(label)'
    <3>1. AcksOf(label)' = {}
      BY <2>1, <2>3 DEF AcksOf
    <3>2. Len(messages') \in Nat
      BY <2>1 DEF TypeOK
    <3>3. QED BY <2>1, <2>3, <3>1, <3>2 DEF PartitionFor
  <2>4. QED BY <2>1, <2>2, <2>3
<1>3. ASSUME NEW label \in Label, Revoke(label) PROVE AcksPartition'
  BY <1>3, <1>1 DEF Revoke, TypeOK
<1>4. ASSUME NEW label \in Label, NEW subject \in Subject, NEW event \in Event,
             NEW messageId \in EventId,
             PublishNew(label, subject, event, messageId)
      PROVE  AcksPartition'
  <2>1. messages' \in Seq(Stored) /\ Len(messages') = Len(messages) + 1
    BY <1>4, PublishNewTypes
  <2>2. Len(messages') >= Len(messages)
    BY <2>1 DEF TypeOK
  <2>3. QED BY <1>4, <1>1, <2>1, <2>2 DEF PublishNew
<1>5. ASSUME NEW label \in Label, NEW subject \in Subject, NEW event \in Event,
             NEW messageId \in EventId,
             PublishDuplicate(label, subject, event, messageId)
      PROVE  AcksPartition'
  BY <1>5, <1>1 DEF PublishDuplicate, TypeOK
<1>6. ASSUME NEW label \in Label, NEW expect \in -1 .. Len(messages) + 1,
             NEW through \in -1 .. Len(messages) + 1,
             Acknowledge(label, expect, through)
      PROVE  AcksPartition'
  <2> DEFINE new == [resident |-> label, previous |-> cursors[label], cursor |-> through]
  <2>1. /\ label \in residents
        /\ cursors[label] \in Nat /\ through \in Nat /\ Len(messages) \in Nat
        /\ expect = cursors[label]
        /\ cursors[label] <= through /\ through <= Len(messages)
    BY <1>6 DEF Acknowledge, AckInOrder, Active, TypeOK
  <2>2. /\ UNCHANGED <<residents, messages>>
        /\ DOMAIN cursors' = residents
        /\ cursors'[label] = through
        /\ \A r \in residents \ {label} : cursors'[r] = cursors[r]
    BY <1>6, <2>1 DEF Acknowledge, AckInOrder, MapSet, TypeOK
  <2>3. ASSUME NEW r \in residents, r # label PROVE PartitionFor(r)'
    <3>1. AcksOf(r)' = AcksOf(r)
      BY <1>6, <2>3 DEF Acknowledge, AckInOrder, AcksOf
    <3>2. QED BY <2>2, <2>3, <3>1 DEF PartitionFor, Interval
  <2>4. CASE through = expect
    BY <1>6, <2>1, <2>2, <2>3, <2>4 DEF Acknowledge, AckInOrder, PartitionFor, AcksOf, Interval
  <2>5. CASE through # expect
    <3>1. acks' = acks \cup {new}
      BY <1>6, <2>1, <2>5 DEF Acknowledge
    <3>2. AcksOf(label)' = AcksOf(label) \cup {new}
      BY <3>1 DEF AcksOf
    <3>3. Interval(new) = cursors[label] + 1 .. through
      BY DEF Interval
    <3>4. \A a \in AcksOf(label) :
            a.previous \in Nat /\ a.cursor \in Nat /\ a.cursor <= cursors[label]
      BY <2>1 DEF PartitionFor, AcksOf, TypeOK
    <3>5. \A a \in AcksOf(label) : Interval(a) \cap Interval(new) = {}
      BY <2>1, <3>3, <3>4 DEF Interval
    <3>6. \A a, b \in AcksOf(label) : a # b => Interval(a) \cap Interval(b) = {}
      BY <2>1 DEF PartitionFor
    <3>7. \A a, b \in AcksOf(label)' : a # b => Interval(a) \cap Interval(b) = {}
      BY <3>2, <3>5, <3>6
    <3>8. ASSUME NEW n \in 1 .. through PROVE \E a \in AcksOf(label)' : n \in Interval(a)
      <4>1. CASE n <= cursors[label]
        BY <2>1, <3>2, <4>1 DEF PartitionFor
      <4>2. CASE n > cursors[label]
        BY <2>1, <3>2, <3>3, <4>2
      <4>3. QED BY <2>1, <4>1, <4>2
    <3>9. \A a \in AcksOf(label)' : a.cursor <= through
      BY <2>1, <3>2, <3>4
    <3>10. PartitionFor(label)'
      BY <2>1, <2>2, <3>7, <3>8, <3>9 DEF PartitionFor, Interval
    <3>11. QED BY <2>1, <2>2, <2>3, <3>1, <3>10
  <2>6. QED BY <2>4, <2>5
<1>7. CASE UNCHANGED vars
  BY <1>7, <1>1 DEF vars, TypeOK
<1>8. QED BY <1>2, <1>3, <1>4, <1>5, <1>6, <1>7 DEF Next

(* Every message up to a cursor is acknowledged by exactly one call.       *)
THEOREM AcksAlwaysPartition == Spec => []AcksPartition
<1>1. Init => AcksPartition
  BY DEF Init, AcksPartition
<1>2. QED BY <1>1, AcksStep, TypeCorrect, PTL DEF Spec

----------------------------------------------------------------------------
(* The step of RevokedFrozen.                                              *)
LEMMA FrozenStep ==
  ASSUME TypeOK, [Next]_vars, NEW label \in revoked
  PROVE  /\ label \in revoked'
         /\ cursors'[label] = cursors[label]
         /\ \A i \in DOMAIN messages' \ DOMAIN messages :
              messages'[i].event.from # label
<1>1. label \in residents
  BY DEF TypeOK
<1>2. label \in revoked' /\ cursors'[label] = cursors[label]
  BY <1>1 DEF Next, vars, Connect, Revoke, PublishNew, PublishDuplicate,
              Acknowledge, AckInOrder, Active, MapSet, TypeOK
<1>3. ASSUME NEW l \in Label, NEW subject \in Subject, NEW event \in Event,
             NEW messageId \in EventId,
             PublishNew(l, subject, event, messageId),
             NEW i \in DOMAIN messages' \ DOMAIN messages
      PROVE  messages'[i].event.from # label
  <2>1. /\ l # label
        /\ event.from = l
        /\ messages' = Append(messages, [sequence |-> Len(messages) + 1,
               subject |-> subject, event |-> event, digest |-> digestEvent(event)])
    BY <1>3 DEF PublishNew, MayPublish, Active
  <2>2. messages \in Seq(Stored)
    BY DEF TypeOK
  <2>3. messages'[i].event = event
    BY <2>1, <2>2
  <2>4. QED BY <2>1, <2>3
<1>4. QED BY <1>2, <1>3, WhoWrites

(* Nothing that is called after a revocation undoes it.                    *)
THEOREM RevokedStayFrozen == Spec => RevokedFrozen
<1>1. TypeOK /\ [Next]_vars =>
        [\A label \in revoked :
           /\ label \in revoked'
           /\ cursors'[label] = cursors[label]
           /\ \A i \in DOMAIN messages' \ DOMAIN messages :
                messages'[i].event.from # label]_vars
  BY FrozenStep
<1>2. QED BY <1>1, TypeCorrect, PTL DEF Spec, RevokedFrozen

----------------------------------------------------------------------------
(* How the state of the contract follows that of the commons.              *)
LEMMA ViewInit == Init => Contract!Init
BY DEF Init, Contract!Init, LogView, PositionView

LEMMA ViewIsLog ==
  ASSUME TypeOK
  PROVE  /\ DOMAIN LogView = 1 .. Len(messages)
         /\ LogView \in Seq([id : EventId, sender : Label, content : Event])
         /\ Len(LogView) = Len(messages)
<1>1. messages \in Seq(Stored) /\ Len(messages) \in Nat
  BY DEF TypeOK
<1> DEFINE Entry == [id : EventId, sender : Label, content : Event]
           n == Len(messages)
<1>2. DOMAIN messages = 1 .. n
  BY <1>1
<1>3. \A i \in 1 .. n : messages[i].event \in Event
  <2>1. \A i \in 1 .. n : messages[i] \in Stored
    BY <1>1, <1>2
  <2>2. \A s \in Stored : s.event \in Event
    BY DEF Stored
  <2>3. QED BY <2>1, <2>2
<1>4. \A i \in 1 .. n :
        [id |-> messages[i].event.event_id, sender |-> messages[i].event.from,
         content |-> messages[i].event] \in Entry
  BY <1>3, EventFields
<1>5. LogView \in [1 .. n -> Entry]
  BY <1>2, <1>4 DEF LogView
<1> HIDE DEF Entry
<1>6. n \in Nat
  BY <1>1
<1> HIDE DEF n
<1>7. LogView \in Seq(Entry) /\ Len(LogView) = n /\ DOMAIN LogView = 1 .. n
  BY <1>5, <1>6
<1>8. QED BY <1>7 DEF Entry, n

LEMMA ViewUnchanged ==
  ASSUME UNCHANGED <<messages, residents, cursors, revoked>>
  PROVE  UNCHANGED <<LogView, PositionView, revoked>>
BY DEF LogView, PositionView

LEMMA ViewStep ==
  TypeOK /\ LogIntegrity /\ [Next]_vars => [Contract!Next]_Contract!vars
<1> SUFFICES ASSUME TypeOK, LogIntegrity, [Next]_vars
             PROVE  Contract!Next \/ UNCHANGED Contract!vars
  OBVIOUS
<1>1. CASE UNCHANGED <<messages, residents, cursors, revoked>>
  BY <1>1, ViewUnchanged DEF Contract!vars
<1>2. ASSUME NEW label \in Label, Connect(label) PROVE UNCHANGED Contract!vars
  <2>1. PositionView' = PositionView
    BY <1>2 DEF Connect, MapSet, TypeOK, PositionView
  <2>2. UNCHANGED <<LogView, revoked>>
    BY <1>2 DEF Connect, LogView
  <2>3. QED BY <2>1, <2>2 DEF Contract!vars
<1>3. ASSUME NEW label \in Label, Revoke(label) PROVE Contract!Next
  <2>1. Contract!Bar(label)
    BY <1>3 DEF Revoke, Contract!Bar, LogView, PositionView
  <2>2. QED BY <2>1 DEF Contract!Next
<1>4. ASSUME NEW label \in Label, NEW subject \in Subject, NEW event \in Event,
             NEW messageId \in EventId,
             PublishNew(label, subject, event, messageId)
      PROVE  Contract!Next
  <2> DEFINE n == Len(messages) + 1
             stored == [sequence |-> n, subject |-> subject,
                        event |-> event, digest |-> digestEvent(event)]
             entry == [id |-> messageId, sender |-> label, content |-> event]
  <2>1. /\ messages \in Seq(Stored) /\ Len(messages) \in Nat
        /\ messages' = Append(messages, stored)
        /\ label \notin revoked
        /\ event.from = label
        /\ messageId = event.event_id
        /\ messageId \notin DOMAIN messageIds
        /\ UNCHANGED <<residents, revoked, cursors>>
    BY <1>4 DEF PublishNew, MayPublish, Active, TypeOK
  <2>2. /\ DOMAIN LogView = 1 .. Len(messages)
        /\ LogView \in Seq([id : EventId, sender : Label, content : Event])
        /\ Len(LogView) = Len(messages)
    BY ViewIsLog
  <2>3. /\ DOMAIN messages' = 1 .. n
        /\ messages'[n].event = event
        /\ \A i \in 1 .. Len(messages) : messages'[i] = messages[i]
    BY <2>1
  <2>4. LogView' = Append(LogView, entry)
    <3>1. LogView' = [i \in 1 .. n |-> IF i = n THEN entry ELSE LogView[i]]
      BY <2>1, <2>2, <2>3 DEF LogView
    <3>2. Append(LogView, entry) = [i \in 1 .. n |-> IF i = n THEN entry ELSE LogView[i]]
      BY <2>1, <2>2
    <3>3. QED BY <3>1, <3>2
  <2>5. \A i \in DOMAIN LogView : LogView[i].id # messageId
    BY <2>1 DEF LogView, LogIntegrity, IdsIndexLog
  <2>6. PositionView' = PositionView
    BY <2>1 DEF PositionView
  <2>7. Contract!Post(label, messageId, event)
    BY <2>1, <2>4, <2>5, <2>6 DEF Contract!Post
  <2>8. QED BY <2>7 DEF Contract!Next
<1>5. ASSUME NEW label \in Label, NEW expect \in -1 .. Len(messages) + 1,
             NEW through \in -1 .. Len(messages) + 1,
             Acknowledge(label, expect, through)
      PROVE  Contract!Next
  <2>1. /\ label \in residents /\ label \notin revoked
        /\ cursors[label] \in Nat /\ through \in Nat /\ Len(messages) \in Nat
        /\ cursors[label] <= through /\ through <= Len(messages)
        /\ UNCHANGED <<residents, revoked, messages>>
        /\ \A r \in residents : cursors'[r] = IF r = label THEN through ELSE cursors[r]
    BY <1>5 DEF Acknowledge, AckInOrder, Active, MapSet, TypeOK
  <2>2. LogView' = LogView
    BY <2>1 DEF LogView
  <2>3. through \in 0 .. Len(LogView)
    BY <2>1, ViewIsLog
  <2>4. PositionView' = [PositionView EXCEPT ![label] = through]
    BY <2>1 DEF PositionView
  <2>5. Contract!Advance(label, through)
    BY <2>1, <2>2, <2>4 DEF Contract!Advance, PositionView
  <2>6. QED BY <2>3, <2>5 DEF Contract!Next
<1>6. QED
  BY <1>1, <1>2, <1>3, <1>4, <1>5 DEF Next, vars, PublishDuplicate

(* For any residents and events, the commons implements its contract.      *)
THEOREM CommonsImplementsContract == Spec => ImplementsContract
BY ViewInit, ViewStep, TypeCorrect, LogIsSound, PTL
DEF Spec, ImplementsContract, Contract!Spec
=============================================================================
