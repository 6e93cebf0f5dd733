---------------------------- MODULE MCDeliveryWatch ----------------------------
(***************************************************************************)
(* One machine with one session, and a row in its inbox.                   *)
(***************************************************************************)
EXTENDS DeliveryWatch
CONSTANTS s1
=============================================================================
