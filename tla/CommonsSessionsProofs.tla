------------------------ MODULE CommonsSessionsProofs ------------------------
(***************************************************************************)
(* Any number of sessions of any number of residents, however often they   *)
(* race and are lost: no message is skipped and none is settled twice.     *)
(***************************************************************************)
EXTENDS CommonsSessions, SyntheticCommonsProofs

(* What a session believes.  Its expectation is never ahead of the cursor; *)
(* what it holds begins between the two and ends where the log ended when  *)
(* it read, so that if the expectation is still current, the batch begins  *)
(* right after the cursor.                                                 *)
HoldsFrom(s, first, last) ==
  /\ expect[s] <= first /\ first <= cursors[owner[s]]
  /\ batch[s] = first + 1 .. last
  /\ batch[s] \subseteq delivered[owner[s]]

Believes(s) ==
  /\ phase[s] # "offline" => owner[s] \in residents /\ expect[s] <= cursors[owner[s]]
  /\ phase[s] = "holding" => \E first, last \in Nat : HoldsFrom(s, first, last)

Committed ==
  /\ \A c \in commits : c.resident \in residents
  /\ SettledOnce

SessionInv ==
  /\ TypeOK /\ LogIntegrity /\ SessionTypeOK
  /\ \A s \in Session : Believes(s)
  /\ NothingSkipped /\ Committed

(* Every call of a session is a call of the class.                         *)
LEMMA CallsAreCalls ==
  ASSUME TypeOK, SessionTypeOK, [SessionNext]_allVars
  PROVE  [Next]_vars
<1>1. CASE UNCHANGED vars
  BY <1>1
<1>2. CASE \E s \in Session : Join(s)
  BY <1>2, SessionAssumption, LabelAssumption DEF Join, Next
<1>3. CASE \E s \in Session : Settle(s)
  <2>1. PICK s \in Session : Settle(s)
    BY <1>3
  <2>2. PICK through \in batch[s] : Acknowledge(owner[s], expect[s], through)
    BY <2>1 DEF Settle
  <2>3. owner[s] \in Label /\ expect[s] \in Nat /\ through \in Nat
    BY SessionAssumption, LabelAssumption DEF SessionTypeOK
  <2>4. Len(messages) \in Nat /\ expect[s] <= through /\ through <= Len(messages)
    BY <2>2 DEF Acknowledge, AckInOrder, TypeOK
  <2>5. expect[s] \in -1 .. Len(messages) + 1 /\ through \in -1 .. Len(messages) + 1
    BY <2>3, <2>4
  <2>6. QED BY <2>2, <2>3, <2>5 DEF Next
<1>4. CASE Others
  <2>1. PICK label \in Label :
          \/ Revoke(label)
          \/ \E event \in Event :
               \/ PublishNew(label, canonicalSenderSubject(label), event, event.event_id)
               \/ PublishDuplicate(label, canonicalSenderSubject(label), event, event.event_id)
    BY <1>4 DEF Others
  <2>2. canonicalSenderSubject(label) \in Subject
    BY DEF Subject
  <2>3. QED BY <2>1, <2>2, EventFields DEF Next
<1>5. QED
  BY <1>1, <1>2, <1>3, <1>4
  DEF SessionNext, Work, Fetch, Conflict, Crash, allVars

(* A read from a position answers with the rest of the log.                *)
LEMMA ReadGivesRest ==
  ASSUME TypeOK, LogIntegrity, NEW label, NEW after \in Nat
  PROVE  {m.message.sequence : m \in ReadReply(label, after)} = after + 1 .. Len(messages)
<1>1. DOMAIN messages = 1 .. Len(messages) /\ Len(messages) \in Nat
  BY DEF TypeOK
<1>2. \A i \in DOMAIN messages : messages[i].sequence = i
  BY DEF LogIntegrity, IdsIndexLog
<1>3. ASSUME NEW n \in after + 1 .. Len(messages)
      PROVE  n \in {m.message.sequence : m \in ReadReply(label, after)}
  <2>1. n \in DOMAIN messages /\ messages[n].sequence = n /\ n > after
    BY <1>1, <1>2
  <2>2. [message |-> messages[n], attention |-> isAttentionFor(messages[n].event, label)]
          \in ReadReply(label, after)
    BY <2>1 DEF ReadReply
  <2>3. QED BY <2>1, <2>2
<1>4. ASSUME NEW m \in ReadReply(label, after)
      PROVE  m.message.sequence \in after + 1 .. Len(messages)
  <2>1. PICK i \in DOMAIN messages :
          /\ messages[i].sequence > after
          /\ m = [message |-> messages[i], attention |-> isAttentionFor(messages[i].event, label)]
    BY DEF ReadReply
  <2>2. m.message.sequence = i /\ i > after
    BY <1>2, <2>1
  <2>3. QED BY <1>1, <2>2
<1>5. QED BY <1>3, <1>4
-----------------------------------------------------------------------------
LEMMA SessionInvInit == SessionInit => SessionInv
<1> SUFFICES ASSUME SessionInit PROVE SessionInv
  OBVIOUS
<1>1. TypeOK /\ LogIntegrity
  BY TypeInit DEF SessionInit, Init, LogIntegrity, IdsIndexLog, LogAdmissible
<1>2. SessionTypeOK
  BY DEF SessionInit, SessionTypeOK
<1>3. residents = {} /\ commits = {} /\ \A s \in Session : phase[s] = "offline"
  BY DEF SessionInit, Init
<1>4. QED
  BY <1>1, <1>2, <1>3 DEF SessionInv, Believes, NothingSkipped, Committed, SettledOnce

(* Cursors never go back.                                                  *)
LEMMA CursorsForward ==
  ASSUME TypeOK, TypeOK', [Next]_vars
  PROVE  \A l \in residents : /\ l \in residents'
                              /\ cursors[l] \in Nat /\ cursors'[l] \in Nat
                              /\ cursors[l] <= cursors'[l]
<1> SUFFICES ASSUME NEW l \in residents PROVE cursors[l] <= cursors'[l]
  BY ResidentsRemain DEF TypeOK
<1>1. DOMAIN cursors = residents /\ cursors[l] \in Nat
  BY DEF TypeOK
<1>2. CASE cursors' = cursors
  BY <1>1, <1>2
<1>3. ASSUME NEW label \in Label, Connect(label) PROVE cursors[l] <= cursors'[l]
  BY <1>1, <1>3 DEF Connect, MapSet
<1>4. ASSUME NEW label \in Label, NEW expected \in -1 .. Len(messages) + 1,
             NEW through \in -1 .. Len(messages) + 1,
             Acknowledge(label, expected, through)
      PROVE  cursors[l] <= cursors'[l]
  BY <1>1, <1>4 DEF Acknowledge, AckInOrder, MapSet
<1>5. \/ cursors' = cursors
      \/ \E label \in Label : Connect(label)
      \/ \E label \in Label, expected, through \in -1 .. Len(messages) + 1 :
           Acknowledge(label, expected, through)
  <2>1. CASE UNCHANGED vars
    BY <2>1 DEF vars
  <2>2. CASE Next
    BY <2>2 DEF Next, Revoke, PublishNew, PublishDuplicate
  <2>3. QED BY <2>1, <2>2
<1>6. QED
  BY <1>2, <1>3, <1>4, <1>5

(* A session that does not act goes on believing what it did.              *)
LEMMA BeliefsStay ==
  ASSUME SessionTypeOK, NEW s \in Session, Believes(s),
         \A l \in residents : /\ l \in residents'
                              /\ cursors[l] \in Nat /\ cursors'[l] \in Nat
                              /\ cursors[l] <= cursors'[l],
         phase'[s] = phase[s], expect'[s] = expect[s], batch'[s] = batch[s],
         delivered[owner[s]] \subseteq delivered'[owner[s]]
  PROVE  Believes(s)'
<1>1. expect[s] \in Nat
  BY DEF SessionTypeOK
<1>2. phase'[s] # "offline" => owner[s] \in residents' /\ expect'[s] <= cursors'[owner[s]]
  BY <1>1 DEF Believes
<1>3. ASSUME phase'[s] = "holding"
      PROVE  \E first, last \in Nat : HoldsFrom(s, first, last)'
  <2>1. PICK first, last \in Nat : HoldsFrom(s, first, last)
    BY <1>3 DEF Believes
  <2>2. owner[s] \in residents
    BY <1>3 DEF Believes
  <2>3. HoldsFrom(s, first, last)'
    BY <1>1, <2>1, <2>2 DEF HoldsFrom
  <2>4. QED BY <2>3
<1>4. QED BY <1>2, <1>3 DEF Believes

(* A call that leaves cursors and history alone.                           *)
LEMMA HistoryStays ==
  ASSUME NothingSkipped, Committed,
         UNCHANGED <<residents, cursors, commits>>,
         \A l \in residents : delivered[l] \subseteq delivered'[l]
  PROVE  NothingSkipped' /\ Committed'
BY DEF NothingSkipped, Committed, SettledOnce

(* The first connection of a resident starts at 0, with nothing settled.   *)
LEMMA JoinHistory ==
  ASSUME TypeOK, NothingSkipped, Committed, NEW s \in Session, Join(s)
  PROVE  NothingSkipped' /\ Committed'
<1>1. /\ DOMAIN cursors = residents
      /\ residents' = residents \cup {owner[s]}
      /\ UNCHANGED <<delivered, commits>>
  BY DEF Join, Connect, TypeOK
<1>2. \A l \in residents : cursors'[l] = cursors[l]
  BY <1>1 DEF Join, Connect, MapSet
<1>3. CASE owner[s] \in residents
  BY <1>1, <1>2, <1>3 DEF NothingSkipped, Committed, SettledOnce
<1>4. CASE owner[s] \notin residents
  <2>1. cursors'[owner[s]] = 0
    BY <1>1, <1>4 DEF Join, Connect, MapSet
  <2>2. 1 .. cursors'[owner[s]] = {}
    BY <2>1
  <2>3. {c \in commits' : c.resident = owner[s]} = {}
    BY <1>1, <1>4 DEF Committed
  <2>4. NothingSkipped'
    BY <1>1, <1>2, <2>2 DEF NothingSkipped
  <2>5. \A c \in commits' : c.resident \in residents'
    BY <1>1 DEF Committed
  <2>6. SettledOnce'
    <3> SUFFICES ASSUME NEW label \in residents'
                 PROVE  LET mine == {c \in commits' : c.resident = label}
                        IN  /\ \A c, d \in mine : c # d => c.settled \cap d.settled = {}
                            /\ UNION {c.settled : c \in mine} = 1 .. cursors'[label]
      BY DEF SettledOnce
    <3>1. CASE label = owner[s]
      BY <2>2, <2>3, <3>1
    <3>2. CASE label \in residents
      BY <1>1, <1>2, <3>2 DEF Committed, SettledOnce
    <3>3. QED BY <1>1, <3>1, <3>2
  <2>7. QED BY <2>4, <2>5, <2>6 DEF Committed
<1>5. QED BY <1>3, <1>4

LEMMA SettledUnion ==
  ASSUME NEW S, NEW x
  PROVE  UNION {c.settled : c \in S \cup {x}} = (UNION {c.settled : c \in S}) \cup x.settled
<1>1. \A T, n : n \in UNION {c.settled : c \in T} <=> \E c \in T : n \in c.settled
  BY Zenon
<1>2. \A n : (\E c \in S \cup {x} : n \in c.settled)
               <=> (\E c \in S : n \in c.settled) \/ n \in x.settled
  OBVIOUS
<1>3. \A n : n \in UNION {c.settled : c \in S \cup {x}}
               <=> n \in (UNION {c.settled : c \in S}) \cup x.settled
  BY <1>1, <1>2, Zenon
<1>4. QED BY <1>3, Zenon

(* An acknowledgement the commons accepts settles what lies between the    *)
(* cursor and its new position: the expectation it was accepted with was   *)
(* current, so the batch of the session begins right after the cursor.     *)
LEMMA SettleHistory ==
  ASSUME TypeOK, SessionTypeOK, NEW s \in Session, Believes(s),
         NothingSkipped, Committed, Settle(s)
  PROVE  NothingSkipped' /\ Committed'
<1> DEFINE me == owner[s]
           old == cursors[me]
           mine == {c \in commits : c.resident = me}
<1>1. PICK through \in batch[s] :
        /\ Acknowledge(me, expect[s], through)
        /\ commits' = commits \cup
             {[resident |-> me, settled |-> {n \in batch[s] : n <= through}]}
  BY DEF Settle
<1> DEFINE new == [resident |-> me, settled |-> {n \in batch[s] : n <= through}]
<1>2. /\ me \in residents /\ DOMAIN cursors = residents /\ old \in Nat
      /\ expect[s] = old /\ through >= old
      /\ cursors' = MapSet(cursors, me, through)
      /\ UNCHANGED <<residents, delivered>>
  BY <1>1 DEF Settle, Acknowledge, AckInOrder, Active, TypeOK
<1>3. PICK first, last \in Nat : HoldsFrom(s, first, last)
  BY DEF Settle, Believes
<1>4. first = old /\ batch[s] = old + 1 .. last /\ batch[s] \subseteq delivered[me]
  BY <1>2, <1>3 DEF HoldsFrom
<1>5. through \in Nat /\ old < through /\ through <= last
  BY <1>1, <1>2, <1>3, <1>4
<1>6. new.settled = old + 1 .. through /\ new.settled \subseteq delivered[me]
  BY <1>2, <1>3, <1>4, <1>5
<1>7. cursors'[me] = through /\ \A l \in residents \ {me} : cursors'[l] = cursors[l]
  BY <1>2 DEF MapSet
<1>8. 1 .. through = (1 .. old) \cup new.settled
  BY <1>2, <1>5, <1>6
<1>9. commits' = commits \cup {new} /\ new.resident = me
  BY <1>1
<1> HIDE DEF new
<1>10. NothingSkipped'
  BY <1>2, <1>6, <1>7, <1>8 DEF NothingSkipped
<1>11. \A c \in mine : c.settled \subseteq 1 .. old
  BY <1>2 DEF Committed, SettledOnce
<1>12. UNION {c.settled : c \in mine} = 1 .. old
  BY <1>2 DEF Committed, SettledOnce
<1>13. (1 .. old) \cap new.settled = {}
  BY <1>2, <1>6
<1>14. {c \in commits' : c.resident = me} = mine \cup {new}
  BY <1>9
<1>15. SettledOnce'
  <2> SUFFICES ASSUME NEW label \in residents
               PROVE  LET his == {c \in commits' : c.resident = label}
                      IN  /\ \A c, d \in his : c # d => c.settled \cap d.settled = {}
                          /\ UNION {c.settled : c \in his} = 1 .. cursors'[label]
    BY <1>2 DEF SettledOnce
  <2>1. CASE label = me
    <3>1. \A c, d \in mine : c # d => c.settled \cap d.settled = {}
      BY <1>2 DEF Committed, SettledOnce
    <3>2. \A c, d \in mine \cup {new} : c # d => c.settled \cap d.settled = {}
      BY <1>11, <1>13, <3>1
    <3>3. UNION {c.settled : c \in mine \cup {new}}
            = (UNION {c.settled : c \in mine}) \cup new.settled
      BY SettledUnion
    <3>4. UNION {c.settled : c \in mine \cup {new}} = 1 .. cursors'[me]
      BY <1>7, <1>8, <1>12, <3>3
    <3>5. QED BY <1>14, <2>1, <3>2, <3>4
  <2>2. CASE label # me
    <3>1. {c \in commits' : c.resident = label} = {c \in commits : c.resident = label}
      BY <1>9, <2>2
    <3>2. cursors'[label] = cursors[label]
      BY <1>7, <2>2
    <3>3. QED BY <3>1, <3>2 DEF Committed, SettledOnce
  <2>3. QED BY <2>1, <2>2
<1>16. \A c \in commits' : c.resident \in residents'
  BY <1>2, <1>9 DEF Committed
<1>17. QED BY <1>10, <1>15, <1>16 DEF Committed
-----------------------------------------------------------------------------
(* What the session that acts believes afterwards, and the types.          *)
LEMMA JoinStep ==
  ASSUME TypeOK, TypeOK', SessionTypeOK, NEW s \in Session, Join(s)
  PROVE  SessionTypeOK' /\ Believes(s)'
<1>1. owner[s] \in residents' /\ cursors'[owner[s]] \in Nat
  BY DEF Join, Connect, TypeOK
<1>2. phase'[s] = "ready" /\ expect'[s] = cursors'[owner[s]]
  BY DEF Join, SessionTypeOK
<1>3. SessionTypeOK'
  BY <1>1 DEF Join, SessionTypeOK
<1>4. QED BY <1>1, <1>2, <1>3 DEF Believes

LEMMA FetchStep ==
  ASSUME TypeOK, LogIntegrity, SessionTypeOK, NEW s \in Session, Believes(s), Fetch(s)
  PROVE  /\ SessionTypeOK' /\ Believes(s)'
         /\ \A l \in Label : delivered[l] \subseteq delivered'[l]
<1> DEFINE me == owner[s]
<1>1. /\ me \in residents /\ me \in Label /\ cursors[me] \in Nat /\ expect[s] \in Nat
      /\ expect[s] <= cursors[me] /\ Len(messages) \in Nat
  BY SessionAssumption, LabelAssumption
  DEF Fetch, Active, TypeOK, SessionTypeOK, Believes
<1>2. PICK after \in {cursors[me], expect[s]} :
        LET given == {m.message.sequence : m \in ReadReply(me, after)}
        IN  /\ given # {}
            /\ batch' = [batch EXCEPT ![s] = given]
            /\ delivered' = [delivered EXCEPT ![me] = @ \cup given]
  BY DEF Fetch
<1> DEFINE given == {m.message.sequence : m \in ReadReply(me, after)}
<1>3. given = after + 1 .. Len(messages)
  BY <1>1, <1>2, ReadGivesRest
<1>4. given # {} /\ batch' = [batch EXCEPT ![s] = given]
                 /\ delivered' = [delivered EXCEPT ![me] = @ \cup given]
  BY <1>2
<1>5. after \in Nat /\ expect[s] <= after /\ after <= cursors[me]
  BY <1>1, <1>2
<1> HIDE DEF given
<1>6. given \subseteq Nat \ {0}
  BY <1>3, <1>5, <1>1
<1>7. /\ phase' = [phase EXCEPT ![s] = "holding"]
      /\ UNCHANGED <<residents, cursors, expect>>
  BY DEF Fetch, vars
<1>8. \A l \in Label : delivered[l] \subseteq delivered'[l]
  BY <1>4 DEF SessionTypeOK
<1>9. SessionTypeOK'
  BY <1>4, <1>6, <1>7, <1>1 DEF SessionTypeOK
<1>10. batch'[s] = given /\ given \subseteq delivered'[me]
  BY <1>1, <1>4 DEF SessionTypeOK
<1>11. \E first, last \in Nat : HoldsFrom(s, first, last)'
  <2>1. PICK last \in Nat : last = Len(messages)
    BY <1>1
  <2>2. HoldsFrom(s, after, last)'
    BY <1>3, <1>5, <1>7, <1>10, <2>1 DEF HoldsFrom
  <2>3. QED BY <1>5, <2>2
<1>12. me \in residents' /\ expect'[s] <= cursors'[me]
  BY <1>1, <1>7
<1>13. QED BY <1>8, <1>9, <1>11, <1>12 DEF Believes

LEMMA SettleStep ==
  ASSUME TypeOK, SessionTypeOK, NEW s \in Session, Settle(s)
  PROVE  SessionTypeOK' /\ Believes(s)'
<1>1. PICK through \in batch[s] :
        /\ Acknowledge(owner[s], expect[s], through)
        /\ expect' = [expect EXCEPT ![s] = through]
  BY DEF Settle
<1>2. through \in Nat
  BY DEF SessionTypeOK
<1>3. /\ batch' = [batch EXCEPT ![s] = {}]
      /\ phase' = [phase EXCEPT ![s] = "ready"]
      /\ delivered' = delivered
  BY DEF Settle
<1>4. SessionTypeOK'
  BY <1>1, <1>2, <1>3 DEF SessionTypeOK
<1>5. owner[s] \in residents' /\ cursors'[owner[s]] = through
  BY <1>1 DEF Acknowledge, Active, MapSet
<1>6. phase'[s] = "ready" /\ expect'[s] = through
  BY <1>1, <1>3 DEF SessionTypeOK
<1>7. QED BY <1>2, <1>4, <1>5, <1>6 DEF Believes

LEMMA ConflictStep ==
  ASSUME TypeOK, SessionTypeOK, NEW s \in Session, Conflict(s)
  PROVE  SessionTypeOK' /\ Believes(s)'
<1>1. owner[s] \in residents /\ cursors[owner[s]] \in Nat
  BY DEF Conflict, Active, TypeOK
<1>2. SessionTypeOK'
  BY <1>1 DEF Conflict, SessionTypeOK
<1>3. /\ phase'[s] = "ready" /\ expect'[s] = cursors[owner[s]]
      /\ residents' = residents /\ cursors' = cursors
  BY DEF Conflict, SessionTypeOK, vars
<1>4. QED BY <1>1, <1>2, <1>3 DEF Believes

LEMMA CrashStep ==
  ASSUME SessionTypeOK, NEW s \in Session, Crash(s)
  PROVE  SessionTypeOK' /\ Believes(s)'
BY DEF Crash, SessionTypeOK, Believes

LEMMA SessionInvStep == SessionInv /\ [SessionNext]_allVars => SessionInv'
<1> SUFFICES ASSUME SessionInv, [SessionNext]_allVars PROVE SessionInv'
  OBVIOUS
<1>1. /\ TypeOK /\ LogIntegrity /\ SessionTypeOK /\ NothingSkipped /\ Committed
      /\ \A s \in Session : Believes(s)
  BY DEF SessionInv
<1>2. [Next]_vars
  BY <1>1, CallsAreCalls
<1>3. TypeOK' /\ LogIntegrity'
  BY <1>1, <1>2, TypeStep, LogStep
<1>4. \A l \in residents : /\ l \in residents'
                           /\ cursors[l] \in Nat /\ cursors'[l] \in Nat
                           /\ cursors[l] <= cursors'[l]
  BY <1>1, <1>2, <1>3, CursorsForward
<1>5. \A s \in Session : owner[s] \in Label
  BY SessionAssumption, LabelAssumption
<1>6. ASSUME NEW s \in Session, Believes(s)', SessionTypeOK', NothingSkipped', Committed',
             \A r \in Session \ {s} :
               /\ phase'[r] = phase[r] /\ expect'[r] = expect[r] /\ batch'[r] = batch[r],
             \A l \in Label : delivered[l] \subseteq delivered'[l]
      PROVE  SessionInv'
  <2>1. \A r \in Session \ {s} : Believes(r)'
    BY <1>1, <1>4, <1>5, <1>6, BeliefsStay
  <2>2. \A r \in Session : Believes(r)'
    BY <1>6, <2>1
  <2>3. QED BY <1>3, <1>6, <2>2 DEF SessionInv
<1>7. ASSUME UNCHANGED <<sessionVars, delivered, commits, residents, cursors>>
      PROVE  SessionInv'
  <2>1. \A s \in Session : Believes(s)'
    BY <1>1, <1>7 DEF Believes, HoldsFrom, sessionVars
  <2>2. SessionTypeOK'
    BY <1>1, <1>7 DEF SessionTypeOK, sessionVars
  <2>3. NothingSkipped' /\ Committed'
    BY <1>1, <1>7, HistoryStays
  <2>4. QED BY <1>3, <2>1, <2>2, <2>3 DEF SessionInv
<1>8. ASSUME NEW s \in Session, Join(s) PROVE SessionInv'
  <2>1. SessionTypeOK' /\ Believes(s)'
    BY <1>1, <1>3, <1>8, JoinStep
  <2>2. NothingSkipped' /\ Committed'
    BY <1>1, <1>8, JoinHistory
  <2>3. /\ \A r \in Session \ {s} :
             phase'[r] = phase[r] /\ expect'[r] = expect[r] /\ batch'[r] = batch[r]
        /\ delivered' = delivered
    BY <1>1, <1>8 DEF Join, SessionTypeOK
  <2>4. QED BY <1>6, <2>1, <2>2, <2>3
<1>9. ASSUME NEW s \in Session, Fetch(s) PROVE SessionInv'
  <2>1. /\ SessionTypeOK' /\ Believes(s)'
        /\ \A l \in Label : delivered[l] \subseteq delivered'[l]
    BY <1>1, <1>9, FetchStep
  <2>2. NothingSkipped' /\ Committed'
    <3>1. residents \subseteq Label
      BY <1>1, LabelAssumption DEF TypeOK
    <3>2. UNCHANGED <<residents, cursors, commits>>
      BY <1>9 DEF Fetch, vars
    <3>3. QED BY <1>1, <2>1, <3>1, <3>2, HistoryStays
  <2>3. \A r \in Session \ {s} :
          phase'[r] = phase[r] /\ expect'[r] = expect[r] /\ batch'[r] = batch[r]
    BY <1>1, <1>9 DEF Fetch, SessionTypeOK
  <2>4. QED BY <1>6, <2>1, <2>2, <2>3
<1>10. ASSUME NEW s \in Session, Settle(s) PROVE SessionInv'
  <2>1. SessionTypeOK' /\ Believes(s)'
    BY <1>1, <1>10, SettleStep
  <2>2. NothingSkipped' /\ Committed'
    BY <1>1, <1>10, SettleHistory
  <2>3. /\ \A r \in Session \ {s} :
             phase'[r] = phase[r] /\ expect'[r] = expect[r] /\ batch'[r] = batch[r]
        /\ delivered' = delivered
    BY <1>1, <1>10 DEF Settle, SessionTypeOK
  <2>4. QED BY <1>6, <2>1, <2>2, <2>3
<1>11. ASSUME NEW s \in Session, Conflict(s) PROVE SessionInv'
  <2>1. SessionTypeOK' /\ Believes(s)'
    BY <1>1, <1>11, ConflictStep
  <2>2. UNCHANGED <<residents, cursors, commits, delivered>>
    BY <1>11 DEF Conflict, vars
  <2>3. NothingSkipped' /\ Committed'
    BY <1>1, <2>2, HistoryStays
  <2>4. \A r \in Session \ {s} :
          phase'[r] = phase[r] /\ expect'[r] = expect[r] /\ batch'[r] = batch[r]
    BY <1>1, <1>11 DEF Conflict, SessionTypeOK
  <2>5. QED BY <1>6, <2>1, <2>2, <2>3, <2>4
<1>12. ASSUME NEW s \in Session, Crash(s) PROVE SessionInv'
  <2>1. SessionTypeOK' /\ Believes(s)'
    BY <1>1, <1>12, CrashStep
  <2>2. UNCHANGED <<residents, cursors, commits, delivered>>
    BY <1>12 DEF Crash, vars
  <2>3. NothingSkipped' /\ Committed'
    BY <1>1, <2>2, HistoryStays
  <2>4. \A r \in Session \ {s} :
          phase'[r] = phase[r] /\ expect'[r] = expect[r] /\ batch'[r] = batch[r]
    BY <1>1, <1>12 DEF Crash, SessionTypeOK
  <2>5. QED BY <1>6, <2>1, <2>2, <2>3, <2>4
<1>13. CASE Others
  <2>1. UNCHANGED <<sessionVars, delivered, commits, residents, cursors>>
    BY <1>13 DEF Others, Revoke, PublishNew, PublishDuplicate
  <2>2. QED BY <1>7, <2>1
<1>14. CASE UNCHANGED allVars
  <2>1. UNCHANGED <<sessionVars, delivered, commits, residents, cursors>>
    BY <1>14 DEF allVars, vars
  <2>2. QED BY <1>7, <2>1
<1>15. QED
  BY <1>8, <1>9, <1>10, <1>11, <1>12, <1>13, <1>14 DEF SessionNext, Work

LEMMA SessionsSound == SafeSpec => []SessionInv
BY SessionInvInit, SessionInvStep, PTL DEF SafeSpec

-----------------------------------------------------------------------------
(* A session holds a batch exactly when it says so, and it holds and is    *)
(* given only sequences of the log: the loop of runSimulation, connect,    *)
(* read, acknowledge, read again.                                          *)
THEOREM SessionsTypeCorrect == SafeSpec => []SessionTypeOK
BY SessionsSound, PTL DEF SessionInv

(* No message is skipped: however many sessions a resident has, however    *)
(* they race in acknowledge and whichever are lost with what they read,    *)
(* every message up to its cursor was given to one of them by read.        *)
THEOREM NothingIsSkipped == SafeSpec => []NothingSkipped
BY SessionsSound, PTL DEF SessionInv

(* Every message up to a cursor was settled by exactly one accepted        *)
(* acknowledgement, which is what its compare-and-set is for.              *)
THEOREM EverySettledOnce == SafeSpec => []SettledOnce
BY SessionsSound, PTL DEF SessionInv, Committed
=============================================================================
