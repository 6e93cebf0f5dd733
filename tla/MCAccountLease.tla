--------------------------- MODULE MCAccountLease ---------------------------
(***************************************************************************)
(* Two machines.  A lease of two ticks and a wait of three keep the code's *)
(* order ACQUIRE_TIMEOUT > TTL; a job may outlast the lease by a tick.     *)
(* The third job of a machine is for one that chains while the first is    *)
(* collected and the second runs, and for one that takes the lease while   *)
(* the other machine holds it and a late job gives it up.                  *)
(***************************************************************************)
EXTENDS AccountLease, TLC

CONSTANTS m1, m2, a1, a2, a3, b1

ThreeAndOne == a1 :> m1 @@ a2 :> m1 @@ a3 :> m1 @@ b1 :> m2
=============================================================================
