-------------------------- MODULE RevocationContract --------------------------
(***************************************************************************)
(* What revoking a credential on a live server promises its caller, who    *)
(* judges by it whether a denial seen afterwards is due to the revocation: *)
(* if the call returns, the server holds a revocation that covers the      *)
(* credential, for good.  If it throws, nothing is promised: the server    *)
(* may hold it then or come to hold it later.                              *)
(***************************************************************************)
VARIABLES
  known,   \* does the server hold a revocation that covers the credential
  told     \* "none", "bound" (returned), "threw"

vars == <<known, told>>

Init == known = FALSE /\ told = "none"

Learn == known' = TRUE /\ UNCHANGED told

Return == told = "none" /\ known /\ told' = "bound" /\ UNCHANGED known

Throw == told = "none" /\ told' = "threw" /\ UNCHANGED known

Next == Learn \/ Return \/ Throw

Spec == Init /\ [][Next]_vars
=============================================================================
