------------------------- MODULE MCCommonsSessions -------------------------
(***************************************************************************)
(* Two sessions of one resident and one of another, over a log of up to    *)
(* two messages.                                                           *)
(***************************************************************************)
EXTENDS CommonsSessions, TLC

CONSTANTS a, b, s1, s2, s3, m1, m2, hi

MCLabel == {a, b}
MCOwner == s1 :> a @@ s2 :> a @@ s3 :> b
MCEventId == {m1, m2}
MCEvent == [event_id : EventId, from : {b}, to : {<<>>}, body : {hi}]
=============================================================================
