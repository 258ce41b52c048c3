------------------------------ MODULE MCCommons ------------------------------
(***************************************************************************)
(* SyntheticCommons with two residents, a log of up to three messages and  *)
(* every kind of event: retries, conflicts (another body, another order of *)
(* recipients, another sender), malformed, credential-shaped and           *)
(* misaddressed events.                                                    *)
(***************************************************************************)
EXTENDS SyntheticCommons, TLC

CONSTANTS a, b, live,    \* two synthetic residents and a label that is not
          m1, m2, m3,    \* message ids
          hi, yo, secret, oversized

MCLabel == {a, b, live}
MCSynthetic == {a, b}
MCEventId == {m1, m2, m3}
MCBody == {hi, yo, secret, oversized}

Ev(id, from, to, body) == [event_id |-> id, from |-> from, to |-> to, body |-> body]

MCEvent ==
  {Ev(id, from, <<>>, hi) : id \in MCEventId, from \in {a, b}} \cup
  {Ev(m1, a, <<>>, yo), Ev(m2, a, <<b>>, yo),
   Ev(m2, b, <<a, b>>, hi), Ev(m2, b, <<b, a>>, hi), Ev(m2, b, <<a, a>>, hi),
   Ev(m2, b, <<live>>, hi), Ev(m2, live, <<>>, hi),
   Ev(m2, a, <<>>, secret), Ev(m1, b, <<>>, oversized)}
MCMalformed == {e \in MCEvent : e.body = oversized}
MCCredentialShaped == {e \in MCEvent : e.body = secret}
=============================================================================
