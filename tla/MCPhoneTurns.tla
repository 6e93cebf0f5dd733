----------------------------- MODULE MCPhoneTurns -----------------------------
(***************************************************************************)
(* One session with a destructive permission and another permission or a   *)
(* plan, one relay; a text or a tap-back of the user at any moment.        *)
(***************************************************************************)
EXTENDS PhoneTurns
CONSTANTS bash, edit, note, s1
MCSessionOf == [x \in Requests \cup Relays |-> s1]
MCKinds == (bash :> {"destructive"}) @@ (edit :> {"edit", "plan"})
=============================================================================
