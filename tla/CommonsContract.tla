-------------------------- MODULE CommonsContract --------------------------
(***************************************************************************)
(* What a commons promises to those who talk through it, whoever carries   *)
(* the messages: one totally ordered log in which an id appears at most    *)
(* once and an entry is never changed, a reading position per member that  *)
(* only moves forward and never beyond the log, and members that, once     *)
(* barred, neither speak nor move again.                                   *)
(*                                                                         *)
(* Nothing is said about connections, duplicate submissions, digests or    *)
(* refused calls: those belong to the implementations, which map onto this *)
(* module (SyntheticCommons does).                                         *)
(***************************************************************************)
EXTENDS Naturals, Sequences

CONSTANTS
  Member,    \* those who may ever speak or read
  Id,        \* message ids
  Content    \* what a message says

VARIABLES
  log,       \* Seq([id : Id, sender : Member, content : Content])
  position,  \* [Member -> Nat]: how far each member has acknowledged the log
  barred     \* the members that were expelled

vars == <<log, position, barred>>

Init ==
  /\ log = <<>>
  /\ position = [m \in Member |-> 0]
  /\ barred = {}

(* m adds an entry under an id the log does not hold.                      *)
Post(m, id, content) ==
  /\ m \notin barred
  /\ \A i \in DOMAIN log : log[i].id # id
  /\ log' = Append(log, [id |-> id, sender |-> m, content |-> content])
  /\ UNCHANGED <<position, barred>>

(* m acknowledges the log up to p.                                         *)
Advance(m, p) ==
  /\ m \notin barred
  /\ position[m] <= p
  /\ position' = [position EXCEPT ![m] = p]
  /\ UNCHANGED <<log, barred>>

Bar(m) ==
  /\ barred' = barred \cup {m}
  /\ UNCHANGED <<log, position>>

Next ==
  \E m \in Member :
    \/ \E id \in Id, content \in Content : Post(m, id, content)
    \/ \E p \in 0 .. Len(log) : Advance(m, p)
    \/ Bar(m)

Spec == Init /\ [][Next]_vars
=============================================================================
